SPECIFICATION QuerySpec
CONSTANTS
  Login = {alice}
  PR = {pr1, pr2}
  Token = {tokA, tokB}
  NoToken = NoToken
  OpenReview = {}
  NoReview = NoReview
  Notifies = FALSE
  Caller = {c1}
  Threshold = 1
  RequestTime = {1}
  MaxWatches = 2
  MaxTriggers = 0
  MaxFaults = 1
  MaxRestarts = 1
  Limit = 1
SYMMETRY Symmetry
INVARIANTS
  RowFollowsWatch
  UnwrittenEndIsFailure
PROPERTIES
  EndIsForever
  RowEndIsForever
  ListedWasTrue
  UnderWayIsListed
  FoundIsNewest
CHECK_DEADLOCK FALSE
