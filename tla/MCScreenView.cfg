SPECIFICATION FairSpec
CONSTANTS
  Cap = 3
  Batch = 2
  MaxFrames = 5
INVARIANTS
  EndStreamMeansClean
  FaultShutsGate
PROPERTIES
  StopEndsDispatch
  CaptureReleased
  ImplementsFeed
