SPECIFICATION Spec
CONSTANTS
  Caller = {a, b}
  Nobody = Nobody
  Token = {t1, t2, t3}
  NoToken = NoToken
  Margin = 1
  Delta = 1
  Life = 3
  MaxTime = 5
SYMMETRY Symmetry
INVARIANTS
  GoodTokenIsKept
PROPERTIES
  RejectedIsNotReturned
  ExpiredIsNotReturned
CHECK_DEADLOCK FALSE
