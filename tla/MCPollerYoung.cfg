SPECIFICATION Spec
CONSTANTS
  Primaries = {p1, p2, p3}
  Fallbacks = {}
  Forced = {p3}
  SkipPeerCount = {}
  Reports <- YoungReports
  Hashes = {"h1"}
  Genesis = "g"
  NoHash = ""
  OtherNumbers = {}
  MinPeerCount = 1
  BanPeriod = 1
  MaxUpdateThreshold = 0
  MaxBlockLag = 2
  Flaky = {}
  UintMod = 16
INVARIANT LowestSafePublished
