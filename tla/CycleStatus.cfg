SPECIFICATION CycleSpec
CONSTANTS
  Caller = {c1}
  ThisPR = ThisPR
  MaxPolls = 1
  Verdict = {"COMPLETED"}
  GivesUp = FALSE
  MaxTriggers = 1
  MaxAsks = 1
  MaxTicks = 0
  MaxFaults = 0
  Check = {n1}
  FixType = {"logic", "trivial"}
  MaxCycles = 1
  MaxHeads = 2
  MaxRuns = 2
  MaxThreads = 1
PROPERTIES
  ReadyWasEarned
  EarnedIsReady
