CONSTANTS
  Clients = {c1, c2}
  FaderNumbers = {0, 1}
  MainFader = 0
  MinVolume = 2
  MuteVolume = 3
  Unity = 5
  MaxVolume = 7
  Requests = {0, 9}
  Limits = {6, 7}
  RampTimes = {2}
  Kinds = {"peak", "rms"}
  HistoryLength = 2
  LevelValues = {1, 2}
  Widths = {1, 2}
  FirstWidth = 2
  MaxRecords = 3
  BinCounts = {1, 3}
  DefaultBins = 3
  MaxFrames = 2
  Keys = {k1, k2}
  Parts = {p1, p2, bad}
  k1 = k1
  k2 = k2
  p1 = p1
  p2 = p2
  bad = bad
  BadPart = bad
  NoConfig = NoConfig
  Files = {f1, f2}
  FirstFile = f1
  f1 = f1
  f2 = f2
  FirstConfig <- MCConfig
  QueueCapacity = 1
  Changes <- MCChanges
  AdjustLimits <- MCAdjustLimits
  MaxCommands = 3
SPECIFICATION Spec
INVARIANTS
  SettingsInRange
CHECK_DEADLOCK FALSE
