SPECIFICATION FairSpec
CONSTANTS
  Instances = {a, b}
  States <- TwoStates
  LockPeriod = 1
  MaxLocks = 2
  MaxRestarts = 0
  MaxWrites = 3
  Errors = FALSE
  Nobody = nobody
PROPERTIES
  RemoteIsCopied
