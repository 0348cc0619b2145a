SPECIFICATION ApplySpec
CONSTANTS
  b115200 = b115200
  b460800 = b460800
  b921600 = b921600
  FactoryBaud = b115200
  NoBaud = NoBaud
  factoryGroups = factoryGroups
  roverGroups = roverGroups
  FactoryGroups = factoryGroups
  NoGroups = NoGroups
  ProbeAttempts = 3
  Bauds <- MCBauds
  Groups <- MCGroups
  Commands <- MCCommands
  Attempts <- MCAttempts
INVARIANTS ReportIsTrue EveryCommandOnce
PROPERTIES WritesInPlace EveryWorkflowEnds
CHECK_DEADLOCK FALSE
