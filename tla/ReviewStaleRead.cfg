SPECIFICATION Spec
CONSTANTS
  Caller = {c1, c2}
  ThisPR = ThisPR
  MaxPolls = 1
  Verdict = {"COMPLETED"}
  GivesUp = FALSE
  MaxTriggers = 1
  MaxAsks = 2
  MaxTicks = 1
  MaxFaults = 0
SYMMETRY Symmetry
INVARIANTS
  CompletedIsAnswered
