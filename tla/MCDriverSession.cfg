SPECIFICATION DriverSpec
CONSTANTS
  MaxFrame = 12
  MaxLine = 8
  Kinds = {"auto", "ublox", "unicore", "nmea"}
  AllowNmea = TRUE
  MaxPending = 8
  Wires <- MCWires
  NoTime = NoTime
  Unseen = Unseen
  NoValue = NoValue
  NoEpoch = NoEpoch
  Garbled = Garbled
  MaxSatellites = 2
  MaxBlocks = 2
  MaxBestSat = 2
  MaxSatsInfo = 2
  RuntimeKinds = {"ublox", "nmea", "unicore"}
  Talkers = {"GP"}
  NmeaUpdates = TRUE
  NativeWindow = 1
  MixedWindow = 2
  MaxMessages = 3
  MaxPerMessage = 2
  Day = 8
  Week = 8
  Sentences <- MCSentences
  UbxFrames <- MCUbxFrames
  UnicoreLines <- MCUnicoreLines
  UnicoreFrames <- MCUnicoreFrames
  Lateness <- MCLateness
  EndOfTime = 3
  MaxRecords = 3
  near = near
  far = far
  None = None
  Frames <- MCFrames
  Stamps = {TRUE}
  Retention = 2
  Window = 2
  StaleAfter = 1
  Grace = 2
  MaxFrames = 3
  MaxSessions = 2
  EndOfStream = 3
INVARIANTS RoutedOnce AsIfReadAtOnce NoFixNoPosition FreshnessDescribesObservations CycleCountsOnce OneStation AvailableIsTrue RatesExact
PROPERTIES NewestWins PositionNotFrozen
CHECK_DEADLOCK FALSE
