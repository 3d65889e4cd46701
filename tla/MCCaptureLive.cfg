SPECIFICATION CapFairSpec
CONSTANTS
  NumCameras = 1
  FrameKinds = {"complete", "no_color"}
  MaxFrames = 3
  Consumers = {c1}
  MaxSessions = 2
  AsyncStop = FALSE
PROPERTIES
  GetReturns
  StopReturnsOrWakeupLost
  SubmittedIsProcessed
  StopCameraReturns
