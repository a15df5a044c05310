SPECIFICATION FairSpec
CONSTANTS
  Caller = {c1}
  ThisPR = ThisPR
  MaxPolls = 2
  Verdict = {"BLOCKED"}
  GivesUp = FALSE
  MaxTriggers = 2
  MaxAsks = 0
  MaxTicks = 2
  MaxFaults = 1
INVARIANTS
  PendingIsLatest
PROPERTIES
  RequestIsSettled
  CallsReturn
