SPECIFICATION CapSpec
CONSTANTS
  NumCameras = 1
  FrameKinds = {"complete"}
  MaxFrames = 2
  Consumers = {c1}
  MaxSessions = 2
  AsyncStop = FALSE
INVARIANTS
  NoCloudIsLost
