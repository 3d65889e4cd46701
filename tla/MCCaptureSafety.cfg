SPECIFICATION CapSpec
CONSTANTS
  NumCameras = 2
  FrameKinds = {"complete", "no_color"}
  MaxFrames = 3
  Consumers = {c1}
  MaxSessions = 2
  AsyncStop = FALSE
INVARIANTS
  CapTypeOK
  FreshCloudIsComplete
  CloudsAreOwnedOnce
PROPERTIES
  CapturerKeepsCameraProtocol
  IsPointCloudSource
