SPECIFICATION CapFairSpec
CONSTANTS
  NumCameras = 1
  FrameKinds = {"complete"}
  MaxFrames = 1
  Consumers = {c1}
  MaxSessions = 1
  AsyncStop = FALSE
PROPERTIES
  StopReturns
