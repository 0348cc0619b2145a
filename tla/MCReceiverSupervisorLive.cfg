SPECIFICATION FairSpec
CONSTANTS
  Capacity = 1
  FrameBytes = 1
  MaxLinks = 2
  MaxFrames = 1
  MaxPositions = 1
  MaxRuns = 1
INVARIANTS GgaOncePerObservation
PROPERTIES StopTerminates DeadLinkRetired
