SPECIFICATION CamSpec
CONSTANTS
  NumCameras = 2
  FrameKinds = {"complete", "no_color"}
  MaxFrames = 2
INVARIANTS
  CamTypeOK
  CamInv
  NoFrameDropped
  DoneMeansSubmittedFrame
  StopNeverWaitsForTimeout
  PipelineUpWhileStreaming
PROPERTIES
  BorrowedCloudStable
