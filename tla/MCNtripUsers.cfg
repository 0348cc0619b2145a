SPECIFICATION UserSpec
CONSTANTS
  Enabled = TRUE
  InitialDelay = 1
  MaxDelay = 2
  Multiplier = 250
  ResetAfterSuccess = TRUE
  MaxAttempts = 2
  Unlimited = Unlimited
  Never = Never
  EndOfTime = 9
  Horizon = 2
  caster = caster
  nowhere = nowhere
  live = live
  retired = retired
  old = old
  NoPublisher = NoPublisher
  Sources <- MCBothSources
  Incomplete <- MCNowhere
  FirstTimeout = 2
  FrameTimeout = 1
  Threshold = 2
  GgaEnabled = TRUE
  GgaInterval = 2
  MaxFailures = 3
  Publishers <- MCPublishers
  Legacy <- MCLegacy
  Retired <- MCRetired
  Settings <- MCSettings
  StaleAfter = 2
  MaxReads = 1
  MaxUpdates = 2
  Clients = {one, two}
  SourceIds = {"receiver"}
  Incarnations = {0, 1, 2}
  FrameTypes = {"1005", "other"}
  BufferBytes = 4
  MaxPublished = 2
  MaxPeriods = 3
  NoSource = NoSource
INVARIANTS ConnectionsApart LossesAreRetried ServedWhole
PROPERTIES GgaFromFreshPosition
CHECK_DEADLOCK FALSE
