---------------------------- MODULE BoundedFIFO ----------------------------
(***************************************************************************)
(* What the camera expects of processing_frame_queue: a first-in first-out *)
(* queue of a bounded number of framesets, each of which is dequeued once. *)
(* Once the queue is closed nothing is said of it any more: framesets that *)
(* are still there are discarded.                                          *)
(***************************************************************************)
EXTENDS Naturals, Sequences

CONSTANTS Elements, Capacity

VARIABLES
  queue,      \* what is in the queue
  dequeued,   \* what came out of it, in order
  closed

fifo == << queue, dequeued, closed >>

Init == queue = << >> /\ dequeued = << >> /\ closed = FALSE

Enqueue(e) ==
  /\ ~closed /\ Len(queue) < Capacity
  /\ queue' = Append(queue, e)
  /\ UNCHANGED << dequeued, closed >>

Dequeue ==
  /\ ~closed /\ queue # << >>
  /\ queue' = Tail(queue) /\ dequeued' = Append(dequeued, Head(queue))
  /\ UNCHANGED closed

Close == closed' = TRUE

Next == (\E e \in Elements : Enqueue(e)) \/ Dequeue \/ Close

Spec == Init /\ [][Next]_fifo
=============================================================================
