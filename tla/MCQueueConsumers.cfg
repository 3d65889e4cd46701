SPECIFICATION QueueSpec
CONSTANTS
  QueueSize = 1
  MaxFrames = 1
INVARIANTS
  DequeueSucceeds
