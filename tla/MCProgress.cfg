SPECIFICATION ProgressSpec
CONSTANTS
  b1 = b1
  b2 = b2
  r1 = r1
  r2 = r2
  Requests = {r1, r2}
  Backends = {b1, b2}
  Target <- OneUnsupported
  MaxRetries = 1
  MaxConcurrent = 1
  Nowhere = nowhere
  Targets = {m1, m2, m3}
  WsBackends <- TwoBackends
  MaxClientMsgs = 2
  MaxBackendMsgs = 1
  Members = {"m1", "m2"}
  PeerIDs = {"i1", "i2", "i3"}
  NoOutbound = {"m1"}
  NoInbound = {}
  Expiration = 1
  MaxPmFaults = 2
  Providers = {"p1", "p2"}
  ReadOnly = {}
  CoolDown = 2
  RetryTimeout = 1
  ReceiptTimeout = 1
  MaxTxs = 2
  MaxUfErrors = 1
INVARIANTS
  WrappedNamesTarget
  FailureOnlyIfAllFailed
  MessagesInOrder
  NamesFollowIds
PROPERTIES
  ForwardAnswered
  MulticallEnds
  PumpsEndTogether
  MutuallyConnected
  PoolDrains
CHECK_DEADLOCK FALSE
