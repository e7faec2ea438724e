SPECIFICATION MainSpec
CONSTANTS
  MaxHiccups = 1
  Pid = {1, 2}
  SelfPid = 1
  StaticPids = {}
  NamedPids = {2}
  Rss = {1, 3, 6, 9}
  WordSize = 16
  WindowSize = 2
  AbsWarn = 6
  AbsCrit = 9
  GrowthWarnPct = 50
  GrowthCritPct = 200
  RateWarn = 1
  RateCrit = 2
  AlertCooldown = 3
  MaxKills = 1
  ProcPid = {2, 3}
  Image <- MCImage
  NoExe = NoExe
  NoImage = NoImage
  SuspiciousExes = {"drop", "tool"}
  WhitelistExes = {"tool"}
  WhitelistComms = {}
  PrefixedComms = {}
  AlertOnExit = TRUE
  MaxBirths = 2
  MaxMisses = 1
  Remote <- MCRemote
  Loopback = {"lo"}
  Private = {}
  HighPorts = {8443}
  VeryHighPorts = {}
  Absent = Absent
  Unreadable = Unreadable
  OtherVersion = OtherVersion
  CacheTTL = 1
  DedupTTL = 1
  MaxDedup = 2
  RateWindow = 1
  BurstThreshold = 1
  MaxLives = 2
  SavedBaselines <- MCFiles

INVARIANTS TrainingSurvives
CHECK_DEADLOCK FALSE
