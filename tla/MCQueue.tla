------------------------------ MODULE MCQueue ------------------------------
(* Model checking the queue with its semaphore.                            *)
EXTENDS ProcessingFrameQueue

=============================================================================
