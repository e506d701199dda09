SPECIFICATION Spec
CONSTANTS
  b1 = b1
  b2 = b2
  Requests = {r1}
  Backends = {b1, b2}
  Target <- TwoTargets
  MaxRetries = 1
  MaxConcurrent = 1
  Nowhere = nowhere
INVARIANTS
  ReceiptsWrapped
CHECK_DEADLOCK FALSE
