SPECIFICATION PartsSpec
CONSTANTS
  GroupBackends = {p1, p2}
  TagSet <- ServingTags
  BlockTags = {"latest", "safe", "finalized", "number", "blockNumber"}
  Numbers = {2}
  NoBackend = none
  Handlers = {"h1", "h2"}
  Bodies <- TwoBodies
  MaxBatchSize = 3
  MaxUpstreamBatchSize = 2
  LimitOf <- TwoLimits
  OverrideIsGlobal = FALSE
  Adders = {a1, a2}
  BucketSize = 1
  WindowLength = 2
  Latency = 2
  MaxLatency = 2
  MinRequests = 2
  RateNum = 1
  RateDen = 2
  WindowTime = 3
  WindowLag = 1
  MaxAdds = 3
  Takers = {t1, t2}
  LimitKeys = {k1}
  LimitMax = 1
  LimitDur = 3
  Second = 2
  LimiterTime = 4
  LimiterLag = 1
  MaxTakes = 3
  Word = 16
  Contexts <- Heads
  Lists <- AllLists
  Configs <- SomeConfigs
  MonNodes = {"n1", "n2"}
  RaftServers = {"n1", "n2", "x"}
  MonExpiration = 0
  MaxMonEvents = 3
  CondRequests = {c1, c2, c3, c4}
  CondTxs <- SomeTxs
  CondEnabled = TRUE
  CondRate = 1
  CondMaxCost = 3
  CondTime = 1
  SignRequests = {q1}
  Auth <- SomeAuth
  Keys = {"k1", "k2"}
  Args <- SomeArgs
  OpsSeqs <- OpsPair
  VotingIds = {"s1"}
  MaxOpsFaults = 1
  MaxOpsEvents = 1
  MaxOpsRuns = 2
  Pipelines = {1, 2, 3}
  Jobs = {"j1", "j2"}
  MaxWorkers = 2
  MaxConns = 2
  MaxRuns = 2
  MaxCsErrors = 1
  Wallets = {"w1", "w2"}
  Funds <- NatFunds
  MinBalance = 4
  TransferAmount = 3
  MaxPolls = 2
  NatChecks = 2
  NatSlots = 1
  NatWord = 16
  MaxHead <- NatHeads
  MaxNatErrors = 1
VIEW PartView
INVARIANTS
  TargetHasBlock
  ResponsesAligned
  CacheSound
  WindowBounded
  UnhealthyNeedsErrors
  MemoryWithinLimit
  RedisWithinTwice
  TagsResolved
  RangeBounded
  SplicedInPlace
  ServedAsConfigured
  LeadersShown
  CostWithinRate
  SignedAsAsked
  StartsAlone
  MembershipMatches
  ResultsOnce
  BeginFindsConnection
  ReportIsTrue
CHECK_DEADLOCK FALSE
