SPECIFICATION Spec
CONSTANTS
  Caller = {c1}
  ThisPR = ThisPR
  MaxPolls = 2
  Verdict = {"COMPLETED"}
  GivesUp = TRUE
  MaxTriggers = 2
  MaxAsks = 1
  MaxTicks = 1
  MaxFaults = 1
INVARIANTS
  TypeOK
  OnePending
  CompletedIsAnswered
  AnswerIsSettled
