SPECIFICATION QueueSpec
CONSTANTS
  QueueSize = 1
  MaxFrames = 3
INVARIANTS
  QueueTypeOK
  SemaphoreCountsElements
PROPERTIES
  IsBoundedFIFO
  EnqueuedIsDequeued
  StopJoinsProcessingThread
