SPECIFICATION LifeSpec
CONSTANTS
  Serials = {"A", "B"}
  None = ""
  Directories = {"X", "Y"}
  Documents <- MCDocuments
  DebugLog = TRUE
INVARIANTS
  LifeTypeOK
  NothingRunsWhenStopped
  AllCamerasStream
  EveryEntryHasItsCamera
  ConfigurationRoundTrip
  RecordingCanBePlayed
PROPERTIES
  ConfigurationStaysUnderCameras
  MasterStartsLast
