SPECIFICATION SessionSpec
CONSTANTS
  MaxFrame = 12
  MaxLine = 8
  Kinds = {"auto", "ublox", "unicore", "nmea"}
  AllowNmea = TRUE
  MaxPending = 8
  Wires <- MCWires
INVARIANT UbloxRecordedOnce
CHECK_DEADLOCK FALSE
