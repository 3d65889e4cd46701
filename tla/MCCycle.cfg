SPECIFICATION CycleSpec
CONSTANTS
  NumCameras = 2
  MaxTime = 3
  FrameImages <- MCFrameImages
INVARIANTS
  CycleTypeOK
  FramesAreAligned
  MetadataMatchesPoints
  Map2d3dFitsHeldCloud
