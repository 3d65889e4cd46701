SPECIFICATION CapSpec
CONSTANTS
  NumCameras = 1
  FrameKinds = {"complete"}
  MaxFrames = 2
  Consumers = {c1, c2}
  MaxSessions = 2
  AsyncStop = TRUE
INVARIANTS
  FreshCloudIsComplete
  CloudsAreOwnedOnce
  AtMostOneCloudLostPerRestart
  FinishedCloudIsNotReplaced
  GetFindsItsCloud
PROPERTIES
  CapturerKeepsCameraProtocol
