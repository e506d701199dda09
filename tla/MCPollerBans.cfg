SPECIFICATION Spec
CONSTANTS
  Primaries = {p1}
  Fallbacks = {f1}
  Forced = {}
  SkipPeerCount = {f1}
  Reports <- FilterReports
  Hashes = {"h1"}
  Genesis = "g"
  NoHash = ""
  OtherNumbers = {}
  MinPeerCount = 2
  BanPeriod = 2
  MaxUpdateThreshold = 0
  MaxBlockLag = 1
  Flaky = {p1}
  UintMod = 16
INVARIANTS
  BannedPublishedAtMostOnce
