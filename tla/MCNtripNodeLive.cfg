SPECIFICATION FairNodeSpec
CONSTANTS
  Enabled = TRUE
  InitialDelay = 1
  MaxDelay = 2
  Multiplier = 200
  ResetAfterSuccess = TRUE
  MaxAttempts = Unlimited
  Unlimited = Unlimited
  Never = Never
  EndOfTime = 9
  Horizon = 4
  caster = caster
  live = live
  retired = retired
  old = old
  NoPublisher = NoPublisher
  Sources <- MCSources
  Incomplete <- MCIncomplete
  FirstTimeout = 2
  FrameTimeout = 1
  Threshold = 2
  GgaEnabled = FALSE
  GgaInterval = 2
  MaxFailures = 9
  Publishers = {}
  Legacy = {}
  Retired = {}
  Settings <- MCNoSettings
  StaleAfter = 2
  MaxReads = 1
  MaxUpdates = 0
PROPERTIES RetriesHappen SilentStreamEnds
CHECK_DEADLOCK FALSE
