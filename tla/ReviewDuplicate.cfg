SPECIFICATION Spec
CONSTANTS
  Caller = {c1, c2}
  ThisPR = ThisPR
  MaxPolls = 1
  Verdict = {"COMPLETED"}
  GivesUp = FALSE
  MaxTriggers = 2
  MaxAsks = 0
  MaxTicks = 0
  MaxFaults = 0
SYMMETRY Symmetry
INVARIANTS
  OnePending
