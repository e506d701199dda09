SPECIFICATION Spec
CONSTANTS
  Instances = {a, b}
  States <- TwoStates
  LockPeriod = 1
  MaxLocks = 3
  MaxRestarts = 1
  MaxWrites = 3
  Errors = TRUE
  Nobody = nobody
INVARIANTS
  PostsUnderOwnValue
