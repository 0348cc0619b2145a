SPECIFICATION Spec
CONSTANTS
  Capacity = 2
  FrameBytes = 2
  MaxLinks = 2
  MaxFrames = 2
  MaxPositions = 0
  MaxRuns = 2
INVARIANTS FramesKept StateOfThisIncarnation StoppedMeansQuiet
PROPERTIES BytesOnlyToLiveSession
