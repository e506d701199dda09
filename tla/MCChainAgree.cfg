SPECIFICATION ChainSpec
CONSTANTS
  Primaries = {p1, p2}
  Fallbacks = {}
  Forced = {}
  SkipPeerCount = {}
  Reports <- ChainReports
  Hashes = {0, 1, 2}
  Genesis = 0
  NoHash <- NoHashValue
  OtherNumbers = {}
  MinPeerCount = 1
  BanPeriod = 1
  MaxUpdateThreshold = 1
  MaxBlockLag = 0
  Flaky = {}
  UintMod = 16
  MinHead = 1
  MaxHead = 2
  MaxChanges = 1
  Faulty = {}
  Faults = FALSE
INVARIANTS
  GroupAgrees
