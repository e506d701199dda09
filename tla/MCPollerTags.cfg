SPECIFICATION Spec
CONSTANTS
  Primaries = {p1, p2}
  Fallbacks = {}
  Forced = {}
  SkipPeerCount = {}
  Reports <- TagReports
  Hashes = {"h1", "h2"}
  Genesis = "g"
  NoHash = ""
  OtherNumbers = {0}
  MinPeerCount = 1
  BanPeriod = 1
  MaxUpdateThreshold = 0
  MaxBlockLag = 1
  Flaky = {}
  UintMod = 16
SYMMETRY PrimarySymmetry
INVARIANTS
  PublishedTagsLowest
  WalkBackNeverWraps
  RegressionIsSignalled
  InvertedTagsAwaitBan
PROPERTIES
  TagsRegressOnlyIntoBan
  ImplementsView
