SPECIFICATION Spec
CONSTANTS
  Login = {alice}
  PR = {pr1}
  Token = {tokA}
  NoToken = NoToken
  OpenReview = {"PENDING"}
  NoReview = NoReview
  Notifies = FALSE
  Caller = {c1, c2}
  Threshold = 2
  RequestTime = {1}
  MaxWatches = 2
  MaxTriggers = 1
  MaxFaults = 0
  MaxRestarts = 1
SYMMETRY Symmetry
INVARIANTS
  ActiveIsLive
  RowsMirrorMemory
  CancelSettlesTrigger
  AnswerIsSettled
PROPERTIES
  LifecycleSpec
CHECK_DEADLOCK FALSE
