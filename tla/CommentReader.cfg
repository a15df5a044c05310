SPECIFICATION FairSpec
CONSTANTS
  Login = {alice, mallory}
  NoLogin = NoLogin
  ServerLogins = {alice}
  Commit = {c1, c2}
  First = c1
  NoCommit = NoCommit
  Invalid = Invalid
  Pages = 3
  Continuation = {2}
  PerPage = 1
  MaxAttempts = 2
  MaxChanges = 2
  MaxTicks = 1
INVARIANTS
  ReturnedIsTrusted
  TextAfterCheck
  ReturnedTogether
  NothingIsMissing

  
CHECK_DEADLOCK FALSE
