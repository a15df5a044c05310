SPECIFICATION Spec
CONSTANTS
  Caller = {a, b}
  Others = Others
  Tip = {h1, h2}
  Source = {s1}
  Text = {t1, t2}
  Number = 2
  MaxChanges = 2
  MaxFaults = 2
SYMMETRY Symmetry
INVARIANTS
  TypeOK
  
  SilentErrorWroteNothing
  SuccessIsWritten
  OverwriteNeedsRace
  ResolvedWasAnswered
CHECK_DEADLOCK FALSE
