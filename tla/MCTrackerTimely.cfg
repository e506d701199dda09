SPECIFICATION TimelySpec
CONSTANTS
  Instances = {a, b}
  States <- TwoStates
  LockPeriod = 2
  MaxLocks = 2
  MaxRestarts = 1
  MaxWrites = 4
  Errors = FALSE
  Nobody = nobody
PROPERTIES
  RemoteIsCopied
  LockIsHeld
