SPECIFICATION Spec
CONSTANTS
  Capacity = 1
  FrameBytes = 1
  MaxLinks = 2
  MaxFrames = 1
  MaxPositions = 0
  MaxRuns = 1
INVARIANTS ForwardingOfThisIncarnation
