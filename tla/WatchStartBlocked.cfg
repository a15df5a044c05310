SPECIFICATION Spec
CONSTANTS
  Login = {alice}
  PR = {pr1}
  Token = {tokA}
  NoToken = NoToken
  OpenReview = {"PENDING"}
  NoReview = NoReview
  Notifies = FALSE
  Caller = {c1}
  Threshold = 2
  RequestTime = {1}
  MaxWatches = 2
  MaxTriggers = 0
  MaxFaults = 1
  MaxRestarts = 0
INVARIANTS
  StartIsPossible
CHECK_DEADLOCK FALSE
