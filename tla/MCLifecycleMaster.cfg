SPECIFICATION LifeSpec
CONSTANTS
  Serials = {"A", "B"}
  None = ""
  Directories = {"X", "Y"}
  Documents <- MCDocuments
  DebugLog = TRUE
INVARIANTS
  NamedDeviceIsSyncMaster
