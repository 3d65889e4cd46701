------------------------ MODULE ProcessingFrameQueue ------------------------
(***************************************************************************)
(* processing_frame_queue of OrbbecBaseCamera.hpp in the steps of          *)
(* readerwriterqueue.h and the semaphore of atomicops.h.                   *)
(*                                                                         *)
(* The three threads that use it are                                       *)
(*   - "control": the capturer's control thread, which enqueues framesets; *)
(*   - "proc": the processing thread, which dequeues them with a timeout;  *)
(*   - "stop": the thread in stop_camera(), which, once the control thread *)
(*     is joined, drains the queue and enqueues nullptr.                   *)
(* So the queue has one producer at a time, but two consumers.             *)
(*                                                                         *)
(* The queue is constructed with a small size, and only try_enqueue() adds *)
(* to it: there is one block, which is front and tail block and its own    *)
(* successor, and the code for further blocks is not used.                 *)
(* Each access of a variable that another thread writes is a step.  Memory *)
(* is sequentially consistent here; fences are left out.  What C++ leaves  *)
(* undefined when two consumers move from one slot, or from one in which   *)
(* nothing was constructed yet, is in DequeueTake.                         *)
(***************************************************************************)
EXTENDS Integers, Sequences

CONSTANTS
  QueueSize,   \* argument of the constructor
  MaxFrames    \* bound: number of framesets the control thread enqueues

ASSUME QueueAssumption == QueueSize \in Nat \ {0} /\ MaxFrames \in Nat

(* Powers of two are natural numbers, and each is above its exponent.  This *)
(* is so of any exponent, but what the provers know of arithmetic stops     *)
(* short of it.                                                             *)
ASSUME PowersOfTwo == \A k \in 0 .. QueueSize + 1 : 2 ^ k \in Nat /\ k < 2 ^ k

Null == 0
Raw == MaxFrames + 1   \* memory in which no element was constructed
Framesets == 1 .. MaxFrames
Threads == {"control", "proc", "stop"}

(* ceilToPow2(size + 1): one slot always stays free.                       *)
largestBlockSize ==
  LET powers == {2 ^ k : k \in 0 .. QueueSize + 1}
  IN CHOOSE n \in powers : /\ n >= QueueSize + 1
                           /\ \A m \in powers : m >= QueueSize + 1 => n <= m
Slots == 0 .. largestBlockSize - 1
NextSlot(i) == (i + 1) % largestBlockSize

VARIABLES
  front, tail,             \* of the block
  localFront, localTail,   \* the producer's and the consumer's copy of them
  data,                    \* contents of the slots
  m_count, m_sema,         \* of the LightweightSemaphore, and its Semaphore
  camera_stopped,
  pc,                      \* where each thread is
  slot,                    \* its blockFront
  known,                   \* its blockTail
  element,                 \* the frameset it enqueues or has dequeued
  submitted,               \* framesets the control thread tried to enqueue
  given                    \* framesets the processing thread got

block == << front, tail, localFront, localTail, data >>
sema  == << m_count, m_sema >>
vars  == << block, sema, camera_stopped, pc, slot, known, element, submitted, given >>

QueueInit ==
  /\ front = 0 /\ tail = 0 /\ localFront = 0 /\ localTail = 0
  /\ data = [i \in Slots |-> Raw]
  /\ m_count = 0 /\ m_sema = 0
  /\ camera_stopped = FALSE
  /\ pc = [t \in Threads |-> IF t = "proc" THEN "loop" ELSE "idle"]
  /\ slot = [t \in Threads |-> 0] /\ known = [t \in Threads |-> 0]
  /\ element = [t \in Threads |-> Null]
  /\ submitted = 0 /\ given = << >>

step(t, from, to) == pc[t] = from /\ pc' = [pc EXCEPT ![t] = to]
local == << slot, known, element >>
ghost == << submitted, given >>

-----------------------------------------------------------------------------
(* inner_enqueue(): is there room, judging by the consumer's last known    *)
(* position, or else by its actual one?                                    *)
EnqueueRoom(t) ==
  /\ step(t, "room", IF NextSlot(tail) # localFront THEN "write" ELSE "reload")
  /\ UNCHANGED << block, sema, camera_stopped, local, ghost >>

(* Where a thread goes on after try_enqueue().                             *)
AfterEnqueue(t) == IF t = "control" THEN "idle" ELSE "join"

(* Mutant: a block is filled up to its last slot.                          *)
EnqueueReload_NoSpareSlot(t) ==
  /\ step(t, "reload", "write")
  /\ localFront' = front
  /\ UNCHANGED << front, tail, localTail, data, sema, camera_stopped, local, ghost >>

EnqueueReload(t) ==
  /\ step(t, "reload", IF NextSlot(tail) # front THEN "write" ELSE AfterEnqueue(t))
  /\ localFront' = front
  /\ UNCHANGED << front, tail, localTail, data, sema, camera_stopped, local, ghost >>

EnqueueWrite(t) ==
  /\ step(t, "write", "publish")
  /\ data' = [data EXCEPT ![tail] = element[t]]
  /\ UNCHANGED << front, tail, localFront, localTail, sema, camera_stopped, local, ghost >>

EnqueuePublish(t) ==
  /\ step(t, "publish", "signal")
  /\ tail' = NextSlot(tail)
  /\ UNCHANGED << front, localFront, localTail, data, sema, camera_stopped, local, ghost >>

(* Mutant: a waiter that gave up a moment ago is not told.                 *)
Signal_Unposted(t) ==
  /\ step(t, "signal", AfterEnqueue(t))
  /\ m_count' = m_count + 1
  /\ UNCHANGED << block, m_sema, camera_stopped, local, ghost >>

(* signal(): a negative count says that somebody sleeps.                   *)
Signal(t) ==
  /\ step(t, "signal", IF m_count < 0 THEN "post" ELSE AfterEnqueue(t))
  /\ m_count' = m_count + 1
  /\ UNCHANGED << block, m_sema, camera_stopped, local, ghost >>

SignalPost(t) ==
  /\ step(t, "post", AfterEnqueue(t))
  /\ m_sema' = m_sema + 1
  /\ UNCHANGED << block, m_count, camera_stopped, local, ghost >>

EnqueueNext(t) ==
  \/ EnqueueRoom(t) \/ EnqueueReload(t) \/ EnqueueWrite(t) \/ EnqueuePublish(t)
  \/ Signal(t) \/ SignalPost(t)

-----------------------------------------------------------------------------
(* Mutant: nothing is enqueued to wake the processing thread.              *)
TryWait_NoPush(t) ==
  /\ step(t, "wait", IF m_count > 0 THEN "decrement"
                     ELSE IF t = "proc" THEN "commit" ELSE "join")
  /\ element' = [element EXCEPT ![t] = Null]
  /\ UNCHANGED << block, sema, camera_stopped, slot, known, ghost >>

(* tryWait(), and the spinning of wait(): the count is read, and only then *)
(* decremented.  The processing thread spins some time, then decrements it *)
(* in any case; stop_camera() is done with draining.                       *)
TryWait(t) ==
  /\ step(t, "wait", IF m_count > 0 THEN "decrement"
                     ELSE IF t = "proc" THEN "commit" ELSE "room")
  /\ element' = [element EXCEPT ![t] = Null]
  /\ UNCHANGED << block, sema, camera_stopped, slot, known, ghost >>

TryWaitDecrement(t) ==
  /\ step(t, "decrement", "localTail")
  /\ m_count' = m_count - 1
  /\ UNCHANGED << block, m_sema, camera_stopped, local, ghost >>

WaitCommit ==
  /\ step("proc", "commit", IF m_count > 0 THEN "localTail" ELSE "sleep")
  /\ m_count' = m_count - 1
  /\ UNCHANGED << block, m_sema, camera_stopped, local, ghost >>

WaitWoken ==
  /\ step("proc", "sleep", "localTail")
  /\ m_sema > 0 /\ m_sema' = m_sema - 1
  /\ UNCHANGED << block, m_count, camera_stopped, local, ghost >>

(* Mutant: after a timeout the semaphore is not asked again.               *)
WaitTimeout_Forgets ==
  /\ step("proc", "sleep", "loop")
  /\ m_count' = m_count + 1
  /\ UNCHANGED << block, m_sema, camera_stopped, local, ghost >>

WaitTimeout ==
  /\ step("proc", "sleep", "restore")
  /\ UNCHANGED << block, sema, camera_stopped, local, ghost >>

(* The count goes back to where it was, unless a signal was on its way.    *)
WaitRestore ==
  /\ step("proc", "restore", IF m_count < 0 THEN "loop" ELSE "again")
  /\ m_count' = m_count + 1
  /\ UNCHANGED << block, m_sema, camera_stopped, local, ghost >>

WaitAgain ==
  /\ step("proc", "again", IF m_count > 0 THEN "trySema" ELSE "restore")
  /\ m_count' = m_count - 1
  /\ UNCHANGED << block, m_sema, camera_stopped, local, ghost >>

WaitTrySema ==
  /\ step("proc", "trySema", IF m_sema > 0 THEN "localTail" ELSE "restore")
  /\ m_sema' = IF m_sema > 0 THEN m_sema - 1 ELSE m_sema
  /\ UNCHANGED << block, m_count, camera_stopped, local, ghost >>

-----------------------------------------------------------------------------
(* inner.try_dequeue(): is there an element, judging by the producer's     *)
(* last known position, or else by its actual one?  The other consumer may *)
(* dequeue between the two reads.                                          *)
DequeueLocalTail(t) ==
  /\ step(t, "localTail", "front")
  /\ known' = [known EXCEPT ![t] = localTail]
  /\ UNCHANGED << block, sema, camera_stopped, slot, element, ghost >>

DequeueFront(t) ==
  /\ step(t, "front", IF front # known[t] THEN "take" ELSE "retry")
  /\ slot' = [slot EXCEPT ![t] = front]
  /\ UNCHANGED << block, sema, camera_stopped, known, element, ghost >>

(* Only consumers read localTail, and while there are two of them the tail *)
(* is still: reading the one and writing the other is one step.            *)
DequeueRetry(t) ==
  /\ step(t, "retry", IF slot[t] # tail THEN "take" ELSE "empty")
  /\ localTail' = tail
  /\ UNCHANGED << front, tail, localFront, data, sema, camera_stopped, local, ghost >>

(* The element is moved: the pointer is read, and only then cleared, which *)
(* leaves its destructor nothing to do.                                    *)
DequeueTake(t) ==
  /\ step(t, "take", "clear")
  /\ element' = [element EXCEPT ![t] = IF data[slot[t]] = Raw THEN Null ELSE data[slot[t]]]
  /\ UNCHANGED << block, sema, camera_stopped, slot, known, ghost >>

DequeueClear(t) ==
  /\ step(t, "clear", "advance")
  /\ data' = [data EXCEPT ![slot[t]] = Null]
  /\ UNCHANGED << front, tail, localFront, localTail, sema, camera_stopped, local, ghost >>

(* Undefined: memory in which nothing was constructed may be zero and read *)
(* as nullptr, and a pointer that the other consumer has read, too, may be *)
(* good for some time (DequeueTake).  But the program may end there.       *)
TakeIsUndefined(t) ==
  \/ data[slot[t]] = Raw
  \/ data[slot[t]] # Null /\ \E u \in Threads \ {t} : pc[u] = "clear" /\ slot[u] = slot[t]

DequeueCrash(t) ==
  /\ step(t, "take", "crash")
  /\ TakeIsUndefined(t)
  /\ UNCHANGED << block, sema, camera_stopped, local, ghost >>

(* Where a consumer goes on: the processing thread with the frameset or,   *)
(* if that is nullptr, out of its loop; stop_camera() with the next one.   *)
AfterDequeue(t) ==
  IF t = "stop" THEN "wait" ELSE IF element[t] = Null THEN "exit" ELSE "loop"

DequeueAdvance(t) ==
  /\ step(t, "advance", AfterDequeue(t))
  /\ front' = NextSlot(slot[t])
  /\ given' = IF t = "proc" /\ element[t] # Null THEN Append(given, element[t]) ELSE given
  /\ UNCHANGED << tail, localFront, localTail, data, sema, camera_stopped, local, submitted >>

(* try_dequeue() returned false.  With NDEBUG, assert(success) is not      *)
(* there, and the caller goes on with the empty frameset it passed.        *)
DequeueEmpty(t) ==
  /\ step(t, "empty", AfterDequeue(t))
  /\ UNCHANGED << block, sema, camera_stopped, local, ghost >>

DequeueNext(t) ==
  \/ TryWait(t) \/ TryWaitDecrement(t)
  \/ DequeueLocalTail(t) \/ DequeueFront(t) \/ DequeueRetry(t)
  \/ DequeueTake(t) \/ DequeueCrash(t) \/ DequeueClear(t)
  \/ DequeueAdvance(t) \/ DequeueEmpty(t)

-----------------------------------------------------------------------------
(* The control thread: process_pointcloud_from_frameset(), at any moment.  *)
Submit ==
  /\ step("control", "idle", "room")
  /\ submitted < MaxFrames
  /\ submitted' = submitted + 1
  /\ element' = [element EXCEPT !["control"] = submitted + 1]
  /\ UNCHANGED << block, sema, camera_stopped, slot, known, given >>

(* The processing thread: while (!camera_stopped).                         *)
ProcLoop ==
  /\ step("proc", "loop", IF camera_stopped THEN "exit" ELSE "wait")
  /\ UNCHANGED << block, sema, camera_stopped, local, ghost >>

ProcNext ==
  \/ ProcLoop \/ DequeueNext("proc") \/ WaitCommit \/ WaitWoken
  \/ WaitRestore \/ WaitAgain \/ WaitTrySema

(* stop_camera(), which nobody calls before the control thread is joined.  *)
StopFlag ==
  /\ pc["control"] = "idle"
  /\ pc["stop"] = "idle"
  /\ camera_stopped' = TRUE
  /\ pc' = [pc EXCEPT !["control"] = "joined", !["stop"] = "wait"]
  /\ UNCHANGED << block, sema, local, ghost >>

StopJoin ==
  /\ step("stop", "join", "done")
  /\ pc["proc"] = "exit"
  /\ UNCHANGED << block, sema, camera_stopped, local, ghost >>

StopNext == DequeueNext("stop") \/ EnqueueNext("stop") \/ StopJoin

crashed == \E t \in Threads : pc[t] = "crash"

Done == (pc["stop"] = "done" \/ crashed) /\ UNCHANGED vars

QueueNext ==
  \/ Submit \/ EnqueueNext("control")
  \/ ProcNext \/ WaitTimeout
  \/ StopFlag \/ StopNext \/ Done

(* Every thread that can go on does.  Nothing makes anybody submit or stop,*)
(* nor a wait time out.                                                    *)
QueueSpec ==
  /\ QueueInit /\ [][QueueNext]_vars
  /\ WF_vars(EnqueueNext("control"))
  /\ WF_vars(ProcNext)
  /\ WF_vars(StopNext)

-----------------------------------------------------------------------------
Capacity == largestBlockSize - 1

(* What is in a slot, until the front moves on: the processing thread may  *)
(* have moved it out already.                                              *)
content(s) ==
  IF pc["proc"] = "advance" /\ s = slot["proc"] THEN element["proc"] ELSE data[s]

ElementsInBlock ==
  [i \in 1 .. (tail - front) % largestBlockSize |-> content((front + i - 1) % largestBlockSize)]

(* The types.  Two consumers can leave a second post in the semaphore; the *)
(* count is never below -1, as signal() asserts: one thread sleeps at most.*)
QueueTypeOK ==
  /\ {front, tail, localFront, localTail} \subseteq Slots
  /\ data \in [Slots -> Framesets \cup {Null, Raw}]
  /\ m_count \in -1 .. Capacity /\ m_sema \in 0 .. 2
  /\ camera_stopped \in BOOLEAN
  /\ pc \in [Threads ->
       {"idle", "room", "reload", "write", "publish", "signal", "post", "joined", "loop",
        "wait", "decrement", "commit", "sleep", "restore", "again", "trySema", "localTail",
        "front", "retry", "take", "clear", "advance", "empty", "crash", "exit", "join", "done"}]
  /\ {slot, known} \subseteq [Threads -> Slots]
  /\ element \in [Threads -> Framesets \cup {Null}]
  /\ submitted \in 0 .. MaxFrames
  /\ given \in Seq(Framesets)

one(b) == IF b THEN 1 ELSE 0

(* Until stop_camera() begins, every element in the block is announced by  *)
(* exactly one unit: in the count, with the consumer that has taken it, or *)
(* with the producer that is about to signal it; a unit that the sleeper   *)
(* has borrowed counts for it.  And a sleeper that was signalled has, or   *)
(* is about to get, exactly one post, also when it gave up meanwhile.      *)
SemaphoreCountsElements ==
  ~camera_stopped =>
    LET at(t, S) == one(pc[t] \in S)
        waiting == pc["proc"] \in {"sleep", "restore", "trySema"}
    IN /\ Len(ElementsInBlock) =
            m_count + one(waiting) + at("proc", {"localTail", "front", "retry", "take", "clear", "advance"})
            + at("control", {"signal"})
       /\ m_sema + at("control", {"post"}) =
            one((waiting /\ m_count >= 0) \/ pc["proc"] = "again")

(* As long as the processing thread is the only consumer, the block, its   *)
(* indices and the semaphore are the bounded queue of BoundedFIFO.tla:     *)
(* nothing is lost, doubled or out of order.                               *)
FIFO == INSTANCE BoundedFIFO WITH
  Elements <- Framesets, queue <- ElementsInBlock, dequeued <- given, closed <- camera_stopped

IsBoundedFIFO == FIFO!Spec

(* A frameset in the queue reaches the processing thread, without the help *)
(* of its timeout: the wakeup is not lost between the count and the sleep. *)
EnqueuedIsDequeued ==
  \A f \in Framesets :
    (~camera_stopped /\ \E i \in DOMAIN ElementsInBlock : ElementsInBlock[i] = f)
      ~> (camera_stopped \/ \E i \in DOMAIN given : given[i] = f)

(* stop_camera() joins the processing thread, wherever that was, although  *)
(* both dequeue at the same time (without assertions), unless one of them  *)
(* took what it may not touch and that ended the program.                  *)
StopJoinsProcessingThread == pc["stop"] = "wait" ~> (pc["stop"] = "done" \/ crashed)

(* "assert(success);" after inner.try_dequeue() in readerwriterqueue.h: a  *)
(* consumer that got a unit from the semaphore finds an element.           *)
DequeueSucceeds == \A t \in Threads : pc[t] # "empty"
=============================================================================
