SPECIFICATION RuntimeSpec
CONSTANTS
  NoTime = NoTime
  Unseen = Unseen
  NoValue = NoValue
  NoEpoch = NoEpoch
  Garbled = Garbled
  MaxSatellites = 2
  MaxBlocks = 2
  MaxBestSat = 2
  MaxSatsInfo = 2
  RuntimeKinds = {"ublox", "nmea", "unicore"}
  Talkers = {"GP"}
  NmeaUpdates = TRUE
  NativeWindow = 1
  MixedWindow = 2
  MaxMessages = 3
  MaxPerMessage = 2
  Day = 8
  Week = 8
  Sentences <- MCSentences
  UbxFrames <- MCUbxFrames
  UnicoreLines <- MCUnicoreLines
  UnicoreFrames <- MCUnicoreFrames
  Lateness <- MCLateness
  EndOfTime = 3
  MaxRecords = 3
PROPERTY NativePositionKept
CHECK_DEADLOCK FALSE
