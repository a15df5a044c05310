SPECIFICATION FairSpec
CONSTANTS
  Login = {alice}
  PR = {pr1}
  Token = {tokA, tokB}
  NoToken = NoToken
  OpenReview = {"PENDING","IN_PROGRESS"}
  NoReview = NoReview
  Notifies = TRUE
  Caller = {c1}
  Threshold = 2
  RequestTime = {1}
  MaxWatches = 1
  MaxTriggers = 1
  MaxFaults = 1
  MaxRestarts = 1
INVARIANTS
  EndIsConsistent
  NoMissedUpdate
PROPERTIES
  EndIsAnnounced
  EveryWatchEnds
  WorkersReturn
CHECK_DEADLOCK FALSE
