--------------------- MODULE ProcessingFrameQueueProofs ---------------------
(***************************************************************************)
(* Proofs about ProcessingFrameQueue.tla, for any size of the queue and    *)
(* any number of framesets.                                                *)
(*                                                                         *)
(* Until stop_camera() begins the processing thread is the only consumer:  *)
(* OneConsumer relates the indices, their stale copies, the slots and the  *)
(* semaphore then.  Afterwards it shares the queue with stop_camera():     *)
(* TwoConsumers says how far their accesses can go wrong, namely that the  *)
(* count stays within its bounds.                                          *)
(***************************************************************************)
EXTENDS ProcessingFrameQueue, SequenceTheorems, WellFoundedInduction, TLAPS

N == largestBlockSize

(* How many slots it is from one index to another, going up.               *)
dist(a, b) == (b - a) % N

Waiting == pc["proc"] \in {"sleep", "restore", "trySema"}
Holds(t) == pc[t] \in {"localTail", "front", "retry", "take", "clear", "advance"}
Taking(t) == pc[t] \in {"retry", "take", "clear", "advance"}

EnqueuePlaces == {"room", "reload", "write", "publish", "signal", "post"}
DequeuePlaces ==
  {"wait", "decrement", "localTail", "front", "retry", "take", "clear", "advance", "empty",
   "crash"}
ProcPlaces ==
  DequeuePlaces \cup {"loop", "commit", "sleep", "restore", "again", "trySema", "exit"}
StopPlaces == EnqueuePlaces \cup DequeuePlaces \cup {"join", "done"}

(* Types, without the bounds of the semaphore.                             *)
FieldTypes ==
  /\ front \in Slots /\ tail \in Slots /\ localFront \in Slots /\ localTail \in Slots
  /\ data \in [Slots -> Framesets \cup {Null, Raw}]
  /\ m_count \in Int /\ m_sema \in Nat
  /\ camera_stopped \in BOOLEAN
  /\ pc \in [Threads -> StopPlaces \cup ProcPlaces \cup {"idle", "joined"}]
  /\ slot \in [Threads -> Slots] /\ known \in [Threads -> Slots]
  /\ element \in [Threads -> Framesets \cup {Null}]
  /\ submitted \in 0 .. MaxFrames
  /\ given \in Seq(Framesets)

(* Where the threads are before and after stop_camera() begins.            *)
Places ==
  IF camera_stopped
  THEN pc["control"] = "joined" /\ pc["stop"] \in StopPlaces /\ pc["proc"] \in ProcPlaces
  ELSE /\ pc["control"] \in EnqueuePlaces \cup {"idle"} /\ pc["stop"] = "idle"
       /\ pc["proc"] \in ProcPlaces \ {"empty", "crash", "exit"}

(* The indices: a stale copy makes the queue look fuller to the producer   *)
(* and emptier to the consumer, never the other way round.                 *)
IndexInv ==
  /\ dist(localTail, tail) <= dist(front, tail)
  /\ dist(front, tail) <= dist(localFront, tail)
  /\ pc["control"] \in {"write", "publish"} => NextSlot(tail) # localFront
  /\ pc["proc"] = "front" => known["proc"] = localTail
  /\ Taking("proc") => slot["proc"] = front
  /\ pc["proc"] \in {"take", "clear", "advance"} => localTail # front

(* The slots: the block holds framesets, and those that were enqueued, also *)
(* while the first one is on its way to the consumer.                      *)
SlotInv ==
  /\ \A s \in Slots : dist(s, tail) \in 1 .. dist(front, tail) => content(s) \in Framesets
  /\ pc["control"] \in {"room", "reload", "write", "publish"} =>
       element["control"] \in Framesets
  /\ pc["control"] = "publish" => data[tail] = element["control"]
  /\ pc["proc"] = "clear" => element["proc"] = data[front]

(* The semaphore: a unit for every element, and a post for the sleeper     *)
(* that was signalled.                                                     *)
CountInv ==
  /\ dist(front, tail) =
       m_count + one(Waiting) + one(Holds("proc")) + one(pc["control"] = "signal")
  /\ m_sema + one(pc["control"] = "post") =
       one((Waiting /\ m_count >= 0) \/ pc["proc"] = "again")
  /\ m_count + one(Waiting) >= 0
  /\ pc["proc"] \in {"decrement", "again"} => m_count >= 1

OneConsumer == ~camera_stopped => IndexInv /\ SlotInv /\ CountInv

(* Two consumers may take the same unit, so the count can be one too low.  *)
(* The processing thread does so once: it does not wait again.             *)
LowerBound ==
  m_count >= one(pc["stop"] = "decrement")
               - one(\/ Waiting \/ Holds("proc")
                     \/ pc["proc"] \in {"empty", "crash", "loop", "exit"})

(* Units, free or held, are not more than elements, also when a consumer   *)
(* that took a slot some time ago moves the index back to it, or forward   *)
(* beyond the tail, after which all slots seem full.                       *)
Units == m_count + one(Waiting) + one(Holds("proc")) + one(Holds("stop"))

Published == pc["stop"] \in {"signal", "post", "join", "done"}
UpperBound ==
  LET signal == one(pc["stop"] = "signal")
  IN /\ Units + signal <= dist(front, tail)
     /\ (Taking("proc") /\ (~Published \/ slot["proc"] # tail)) =>
          Units - 1 + signal < dist(slot["proc"], tail)
     /\ Taking("stop") => Units - 1 < dist(slot["stop"], tail)

(* Until it is published, there is room for what stop_camera() enqueues, or *)
(* the index has moved beyond the tail: then one unit was taken twice.     *)
RoomInv ==
  (~Published /\ Units >= 0) =>
    /\ pc["stop"] \notin {"reload", "write", "publish"} =>
         /\ dist(front, tail) <= dist(localFront, tail)
         /\ \A t \in {"proc", "stop"} :
              Taking(t) => dist(slot[t], tail) <= dist(localFront, tail)
    /\ pc["stop"] \in {"write", "publish"} => NextSlot(tail) # front

PostInv == m_sema <= 1 + one(pc["stop"] \in {"join", "done"})

TwoConsumers == camera_stopped => LowerBound /\ UpperBound /\ RoomInv /\ PostInv

QueueInv == FieldTypes /\ Places /\ OneConsumer /\ TwoConsumers

-----------------------------------------------------------------------------
(* The size of the block and the indices in it.                            *)

LEMMA BlockSize == N \in Nat /\ N >= 2
<1> DEFINE powers == {2 ^ k : k \in 0 .. QueueSize + 1}
           large == {m \in powers : m >= QueueSize + 1}
<1>1. large \subseteq Nat
  BY PowersOfTwo
<1>2. 2 ^ (QueueSize + 1) \in large
  <2>1. QueueSize + 1 \in 0 .. QueueSize + 1 /\ QueueSize \in Nat
    BY QueueAssumption
  <2>2. 2 ^ (QueueSize + 1) \in Nat /\ QueueSize + 1 < 2 ^ (QueueSize + 1)
    BY <2>1, PowersOfTwo
  <2> QED BY <2>1, <2>2
<1>3. PICK n \in large : \A m \in large : ~(<< m, n >> \in OpToRel(<, Nat))
  <2>1. large # {}
    BY <1>2
  <2> HIDE DEF large
  <2> QED BY <1>1, <2>1, NatLessThanWellFounded, WFMin
<1>4. \A m \in large : n <= m
  <2>1. ASSUME NEW m \in large, ~(n <= m)
        PROVE  FALSE
    <3>1. m \in Nat /\ n \in Nat /\ m < n
      BY <1>1, <2>1
    <3>2. << m, n >> \in OpToRel(<, Nat)
      BY <3>1 DEF OpToRel
    <3> QED BY <1>3, <2>1, <3>2
  <2> QED BY <2>1
<1>5. \E p \in powers : p >= QueueSize + 1 /\ \A m \in powers : m >= QueueSize + 1 => p <= m
  BY <1>4
<1>6. N \in powers /\ N >= QueueSize + 1
  BY <1>5 DEF N, largestBlockSize
<1> QED BY <1>1, <1>6, QueueAssumption

LEMMA SlotNumbers ==
  /\ Slots = 0 .. N - 1
  /\ \A i \in Slots : i \in Nat /\ i < N
  BY BlockSize DEF Slots, N

LEMMA NextCases ==
  ASSUME NEW a \in Slots
  PROVE  NextSlot(a) \in Slots /\ NextSlot(a) = IF a + 1 = N THEN 0 ELSE a + 1
  BY BlockSize DEF Slots, NextSlot, N

LEMMA DistCases ==
  ASSUME NEW a \in Slots, NEW b \in Slots
  PROVE  dist(a, b) = IF a <= b THEN b - a ELSE b - a + N
<1>1. a \in 0 .. N - 1 /\ b \in 0 .. N - 1 /\ N \in Nat /\ N >= 2
  BY BlockSize, SlotNumbers
<1> QED BY <1>1 DEF dist

(* The distance when an index moves.                                       *)
LEMMA DistFacts ==
  ASSUME NEW a \in Slots, NEW b \in Slots
  PROVE  /\ dist(a, b) \in 0 .. N - 1
         /\ dist(a, b) = 0 <=> a = b
         /\ NextSlot(b) # a => dist(a, NextSlot(b)) = dist(a, b) + 1
         /\ NextSlot(b) = a <=> dist(a, b) = N - 1
         /\ a # b => dist(NextSlot(a), b) = dist(a, b) - 1
         /\ a = b => dist(NextSlot(a), b) = N - 1
<1>1. a \in 0 .. N - 1 /\ b \in 0 .. N - 1 /\ N \in Nat /\ N >= 2
  BY BlockSize, SlotNumbers
<1>2. /\ NextSlot(a) \in Slots /\ NextSlot(a) = IF a + 1 = N THEN 0 ELSE a + 1
      /\ NextSlot(b) \in Slots /\ NextSlot(b) = IF b + 1 = N THEN 0 ELSE b + 1
  BY NextCases
<1>3. /\ dist(a, b) = IF a <= b THEN b - a ELSE b - a + N
      /\ dist(a, NextSlot(b)) =
           IF a <= NextSlot(b) THEN NextSlot(b) - a ELSE NextSlot(b) - a + N
      /\ dist(NextSlot(a), b) =
           IF NextSlot(a) <= b THEN b - NextSlot(a) ELSE b - NextSlot(a) + N
  BY <1>2, DistCases
<1> QED BY <1>1, <1>2, <1>3

LEMMA DistOfTwo ==
  ASSUME NEW a \in Slots, NEW b \in Slots, NEW c \in Slots, dist(a, c) = dist(b, c)
  PROVE  a = b
<1>1. a \in 0 .. N - 1 /\ b \in 0 .. N - 1 /\ c \in 0 .. N - 1 /\ N \in Nat
  BY BlockSize, SlotNumbers
<1> QED BY <1>1, DistCases

-----------------------------------------------------------------------------
(* Types.                                                                  *)
Places0 == StopPlaces \cup ProcPlaces \cup {"idle", "joined"}

LEMMA EnqueueTypes ==
  ASSUME FieldTypes, NEW t \in {"control", "stop"}, EnqueueNext(t)
  PROVE  FieldTypes'
<1> USE DEF FieldTypes, local, ghost, block, sema
<1>1. pc' \in [Threads -> Places0]
  BY DEF EnqueueNext, EnqueueRoom, EnqueueReload, EnqueueWrite, EnqueuePublish, Signal,
         SignalPost, step, Threads, Places0, AfterEnqueue, StopPlaces, EnqueuePlaces
<1>2. t \in Threads /\ NextSlot(tail) \in Slots
  BY NextCases DEF Threads
<1>3. CASE EnqueueRoom(t)
  BY <1>1, <1>3 DEF EnqueueRoom, Places0
<1>4. CASE EnqueueReload(t)
  BY <1>1, <1>4 DEF EnqueueReload, Places0
<1>5. CASE EnqueueWrite(t)
  BY <1>1, <1>2, <1>5 DEF EnqueueWrite, Places0
<1>6. CASE EnqueuePublish(t)
  BY <1>1, <1>2, <1>6 DEF EnqueuePublish, Places0
<1>7. CASE Signal(t)
  BY <1>1, <1>7 DEF Signal, Places0
<1>8. CASE SignalPost(t)
  BY <1>1, <1>8 DEF SignalPost, Places0
<1> QED BY <1>3, <1>4, <1>5, <1>6, <1>7, <1>8 DEF EnqueueNext

LEMMA DequeueTypes ==
  ASSUME FieldTypes, NEW t \in {"proc", "stop"}, DequeueNext(t)
  PROVE  FieldTypes'
<1> USE DEF FieldTypes, local, ghost, block, sema
<1>1. pc' \in [Threads -> Places0]
  BY DEF DequeueNext, TryWait, TryWaitDecrement, DequeueLocalTail, DequeueFront,
         DequeueRetry, DequeueTake, DequeueCrash, DequeueClear,
         DequeueAdvance, DequeueEmpty, AfterDequeue, step, Threads, Places0, StopPlaces,
         ProcPlaces, EnqueuePlaces, DequeuePlaces
<1>2. t \in Threads
  BY DEF Threads
<1>3. NextSlot(slot[t]) \in Slots
  BY <1>2, NextCases
<1>4. CASE TryWait(t)
  BY <1>1, <1>2, <1>4 DEF TryWait, Places0
<1>5. CASE TryWaitDecrement(t)
  BY <1>1, <1>5 DEF TryWaitDecrement, Places0
<1>6. CASE DequeueFront(t)
  BY <1>1, <1>2, <1>6 DEF DequeueFront, Places0
<1>7. CASE DequeueLocalTail(t) \/ DequeueRetry(t) \/ DequeueCrash(t) \/ DequeueClear(t)
  BY <1>1, <1>2, <1>7
  DEF DequeueLocalTail, DequeueRetry, DequeueCrash, DequeueClear, Places0
<1>8. CASE DequeueTake(t)
  <2>1. data[slot[t]] # Raw => data[slot[t]] \in Framesets \cup {Null}
    BY <1>2
  <2> QED BY <1>1, <1>2, <1>8, <2>1 DEF DequeueTake, Places0
<1>9. CASE DequeueAdvance(t)
  <2>1. given' \in Seq(Framesets)
    <3>1. CASE t = "proc" /\ element[t] # Null
      <4>1. element[t] \in Framesets
        BY <1>2, <3>1
      <4> QED BY <1>9, <3>1, <4>1, AppendProperties DEF DequeueAdvance
    <3>2. CASE ~(t = "proc" /\ element[t] # Null)
      BY <1>9, <3>2 DEF DequeueAdvance
    <3> QED BY <3>1, <3>2
  <2> QED BY <1>1, <1>3, <1>9, <2>1 DEF DequeueAdvance, Places0
<1>10. CASE DequeueEmpty(t)
  BY <1>1, <1>10 DEF DequeueEmpty, Places0
<1> QED BY <1>4, <1>5, <1>6, <1>7, <1>8, <1>9, <1>10 DEF DequeueNext

(* The steps of the processing thread's wait() beyond tryWait().           *)
WaitNext ==
  WaitCommit \/ WaitWoken \/ WaitTimeout \/ WaitRestore \/ WaitAgain \/ WaitTrySema

LEMMA OtherTypes ==
  ASSUME FieldTypes,
         WaitNext \/ Submit \/ ProcLoop \/ StopFlag \/ StopJoin \/ UNCHANGED vars
  PROVE  FieldTypes'
<1> USE DEF FieldTypes, local, ghost, block, sema
<1>1. pc' \in [Threads -> Places0]
  BY DEF WaitNext, WaitCommit, WaitWoken, WaitTimeout, WaitRestore, WaitAgain, WaitTrySema,
         Submit, ProcLoop, StopFlag, StopJoin, vars, step, Threads, Places0, StopPlaces,
         ProcPlaces, EnqueuePlaces, DequeuePlaces
<1>2. CASE WaitNext
  BY <1>1, <1>2 DEF WaitNext, WaitCommit, WaitWoken, WaitTimeout, WaitRestore, WaitAgain,
                    WaitTrySema, Places0
<1>3. CASE Submit
  <2>1. submitted + 1 \in Framesets /\ submitted' \in 0 .. MaxFrames
    BY <1>3, QueueAssumption DEF Submit, Framesets
  <2> QED BY <1>1, <1>3, <2>1 DEF Submit, Places0, Threads
<1>4. CASE ProcLoop \/ StopFlag \/ StopJoin
  BY <1>1, <1>4 DEF ProcLoop, StopFlag, StopJoin, Places0
<1>5. CASE UNCHANGED vars
  BY <1>5 DEF vars
<1> QED BY <1>2, <1>3, <1>4, <1>5

(* The steps, by the kind of thread that takes them.                       *)
LEMMA StepCases ==
  ASSUME [QueueNext]_vars
  PROVE  \/ EnqueueNext("control") \/ EnqueueNext("stop")
         \/ DequeueNext("proc") \/ DequeueNext("stop")
         \/ WaitNext \/ Submit \/ ProcLoop \/ StopFlag \/ StopJoin
         \/ UNCHANGED vars
  BY DEF QueueNext, ProcNext, StopNext, Done, WaitNext

LEMMA FieldTypesStep == FieldTypes /\ [QueueNext]_vars => FieldTypes'
  BY StepCases, EnqueueTypes, DequeueTypes, OtherTypes

-----------------------------------------------------------------------------
(* Before stop_camera() begins.                                            *)
Before ==
  FieldTypes /\ Places /\ ~camera_stopped /\ IndexInv /\ SlotInv /\ CountInv

StillBefore == ~camera_stopped' /\ Places' /\ IndexInv' /\ SlotInv' /\ CountInv'

LEMMA IndexRange ==
  ASSUME FieldTypes
  PROVE  /\ \A a \in {front, tail, localFront, localTail} : dist(a, tail) \in 0 .. N - 1
         /\ \A t \in Threads : dist(slot[t], tail) \in 0 .. N - 1
         /\ N \in Nat /\ N >= 2
  BY DistFacts, BlockSize DEF FieldTypes

(* The control thread's step from one place to another.                    *)
LEMMA ControlPlaces ==
  ASSUME Before, NEW from, NEW to \in EnqueuePlaces \cup {"idle"},
         step("control", from, to), camera_stopped' = camera_stopped
  PROVE  /\ pc["control"] = from /\ pc'["control"] = to
         /\ pc'["proc"] = pc["proc"] /\ pc'["stop"] = pc["stop"]
         /\ Places'
         /\ from \in EnqueuePlaces \cup {"idle"}
  BY DEF Before, FieldTypes, Places, step, Threads

LEMMA RoomBefore ==
  ASSUME Before, EnqueueRoom("control") \/ EnqueueReload("control")
  PROVE  StillBefore
<1>1. /\ UNCHANGED << front, tail, localTail, data, sema, local, camera_stopped >>
      /\ localFront' \in {localFront, front}
      /\ pc["control"] \in {"room", "reload"}
      /\ pc'["control"] \in {"write", "reload", "idle"}
      /\ pc'["control"] = "write" => NextSlot(tail) # localFront'
      /\ pc'["proc"] = pc["proc"] /\ Places'
  BY ControlPlaces DEF EnqueueRoom, EnqueueReload, block, EnqueuePlaces, AfterEnqueue
<1>2. IndexInv'
  BY <1>1, IndexRange DEF Before, IndexInv, Taking, dist, N, local
<1>3. SlotInv'
  BY <1>1 DEF Before, SlotInv, content, dist, N, local
<1>4. CountInv'
  BY <1>1 DEF Before, CountInv, dist, N, sema, Waiting, Holds, one
<1> QED BY <1>1, <1>2, <1>3, <1>4 DEF Before, StillBefore

LEMMA WriteBefore ==
  ASSUME Before, EnqueueWrite("control")
  PROVE  StillBefore
<1>1. /\ UNCHANGED << front, tail, localFront, localTail, sema, local, camera_stopped >>
      /\ data' = [data EXCEPT ![tail] = element["control"]]
      /\ pc["control"] = "write" /\ pc'["control"] = "publish"
      /\ pc'["proc"] = pc["proc"] /\ Places'
  BY ControlPlaces DEF EnqueueWrite, EnqueuePlaces
<1>2. IndexInv'
  BY <1>1 DEF Before, IndexInv, Taking, dist, N, local
<1>3. CountInv'
  BY <1>1 DEF Before, CountInv, dist, N, sema, Waiting, Holds, one
<1>4. tail \in Slots /\ front \in Slots /\ element["control"] \in Framesets
      /\ data'[tail] = element["control"]
      /\ \A s \in Slots : s # tail => data'[s] = data[s]
  BY <1>1 DEF Before, SlotInv, FieldTypes
<1>5. ASSUME NEW s \in Slots, dist(s, tail) \in 1 .. dist(front, tail)
      PROVE  content(s)' \in Framesets
  <2>1. s # tail
    BY <1>4, <1>5, DistFacts
  <2>2. content(s)' = content(s)
    BY <1>1, <1>4, <2>1 DEF content, local
  <2> QED BY <1>5, <2>2 DEF Before, SlotInv
<1>6. pc["proc"] = "clear" => front # tail
  <2>1. pc["proc"] = "clear" => dist(front, tail) # 0
    BY DEF Before, CountInv, FieldTypes, Waiting, Holds, one
  <2> QED BY <1>4, <2>1, DistFacts
<1>7. SlotInv'
  BY <1>1, <1>4, <1>5, <1>6 DEF Before, SlotInv, dist, N, local
<1> QED BY <1>1, <1>2, <1>3, <1>7 DEF Before, StillBefore

LEMMA PublishBefore ==
  ASSUME Before, EnqueuePublish("control")
  PROVE  StillBefore
<1>1. /\ UNCHANGED << front, localFront, localTail, data, sema, local, camera_stopped >>
      /\ tail' = NextSlot(tail)
      /\ pc["control"] = "publish" /\ pc'["control"] = "signal"
      /\ pc'["proc"] = pc["proc"] /\ Places'
  BY ControlPlaces DEF EnqueuePublish, EnqueuePlaces
<1>2. /\ front \in Slots /\ tail \in Slots /\ localFront \in Slots /\ localTail \in Slots
      /\ slot["proc"] \in Slots
  BY DEF Before, FieldTypes, Threads
<1>3. /\ dist(front, tail) \in Nat /\ dist(localFront, tail) \in Nat
      /\ dist(localTail, tail) \in Nat
      /\ dist(localFront, tail) < N - 1
      /\ N \in Nat
  BY <1>1, <1>2, DistFacts, BlockSize DEF Before, IndexInv
<1>4. /\ dist(front, tail') = dist(front, tail) + 1
      /\ dist(localFront, tail') = dist(localFront, tail) + 1
      /\ dist(localTail, tail') = dist(localTail, tail) + 1
  <2>1. ASSUME NEW a \in Slots, dist(a, tail) <= dist(localFront, tail)
        PROVE  dist(a, tail') = dist(a, tail) + 1
    <3>1. dist(a, tail) \in Nat /\ dist(a, tail) # N - 1
      BY <1>2, <1>3, <2>1, DistFacts
    <3> QED BY <1>1, <1>2, <3>1, DistFacts
  <2> QED BY <1>2, <1>3, <2>1 DEF Before, IndexInv
<1>5. IndexInv'
  BY <1>1, <1>3, <1>4 DEF Before, IndexInv, Taking, dist, N, local
<1>6. ASSUME NEW s \in Slots, dist(s, tail') \in 1 .. dist(front, tail')
      PROVE  content(s) \in Framesets
  <2>1. CASE s = tail
    <3>1. pc["proc"] = "advance" => slot["proc"] = front /\ front # tail
      <4>1. pc["proc"] = "advance" => slot["proc"] = front /\ dist(front, tail) # 0
        BY DEF Before, IndexInv, Taking, CountInv, FieldTypes, Waiting, Holds, one
      <4> QED BY <1>2, <4>1, DistFacts
    <3>2. content(tail) = data[tail]
      BY <3>1 DEF content
    <3> QED BY <1>1, <2>1, <3>2 DEF Before, SlotInv
  <2>2. CASE s # tail
    <3>1. s # tail'
      BY <1>1, <1>2, <1>6, NextCases, DistFacts
    <3>2. dist(s, tail') = dist(s, tail) + 1 /\ dist(s, tail) \in Nat /\ dist(s, tail) # 0
      BY <1>1, <1>2, <2>2, <3>1, DistFacts
    <3>3. dist(s, tail) \in 1 .. dist(front, tail)
      BY <1>3, <1>4, <1>6, <3>2
    <3> QED BY <3>3 DEF Before, SlotInv
  <2> QED BY <2>1, <2>2
<1>7. SlotInv'
  BY <1>1, <1>6 DEF Before, SlotInv, content, dist, N, local
<1>8. CountInv'
  BY <1>1, <1>4 DEF Before, FieldTypes, CountInv, dist, N, sema, Waiting, Holds, one
<1> QED BY <1>1, <1>5, <1>7, <1>8 DEF Before, StillBefore

LEMMA SignalBefore ==
  ASSUME Before, Signal("control") \/ SignalPost("control")
  PROVE  StillBefore
<1>1. /\ UNCHANGED << block, local, camera_stopped >>
      /\ pc["control"] \in {"signal", "post"} /\ pc'["control"] \in {"post", "idle"}
      /\ pc'["proc"] = pc["proc"] /\ Places'
  BY ControlPlaces DEF Signal, SignalPost, EnqueuePlaces, AfterEnqueue
<1>2. \/ /\ pc["control"] = "signal" /\ m_count' = m_count + 1 /\ m_sema' = m_sema
         /\ pc'["control"] = IF m_count < 0 THEN "post" ELSE "idle"
      \/ /\ pc["control"] = "post" /\ m_sema' = m_sema + 1 /\ m_count' = m_count
         /\ pc'["control"] = "idle"
  BY ControlPlaces DEF Signal, SignalPost, EnqueuePlaces, AfterEnqueue
<1>3. IndexInv'
  BY <1>1 DEF Before, IndexInv, Taking, dist, N, local, block
<1>4. SlotInv'
  BY <1>1 DEF Before, SlotInv, content, dist, N, local, block
<1>5. m_count \in Int /\ m_sema \in Nat /\ dist(front, tail)' = dist(front, tail)
      /\ dist(front, tail) \in Nat
  BY <1>1, IndexRange DEF Before, FieldTypes, dist, N, block
<1>6. CountInv'
  BY <1>1, <1>2, <1>5 DEF Before, CountInv, Waiting, Holds, one
<1> QED BY <1>1, <1>3, <1>4, <1>6 DEF Before, StillBefore

LEMMA SubmitBefore ==
  ASSUME Before, Submit
  PROVE  StillBefore
<1>1. /\ UNCHANGED << block, sema, slot, known, camera_stopped >>
      /\ pc["control"] = "idle" /\ pc'["control"] = "room"
      /\ pc'["proc"] = pc["proc"] /\ Places'
  BY ControlPlaces DEF Submit, EnqueuePlaces
<1>2. element'["control"] \in Framesets /\ element'["proc"] = element["proc"]
  BY QueueAssumption DEF Before, FieldTypes, Submit, Framesets, Threads
<1>3. IndexInv'
  BY <1>1 DEF Before, IndexInv, Taking, dist, N, block
<1>4. SlotInv'
  BY <1>1, <1>2 DEF Before, SlotInv, content, dist, N, block
<1>5. CountInv'
  BY <1>1 DEF Before, CountInv, dist, N, sema, block, Waiting, Holds, one
<1> QED BY <1>1, <1>3, <1>4, <1>5 DEF Before, StillBefore

(* The processing thread's.                                                *)
LEMMA ProcPlacesBefore ==
  ASSUME Before, NEW from, NEW to \in ProcPlaces \ {"empty", "crash", "exit"},
         step("proc", from, to), camera_stopped' = camera_stopped
  PROVE  /\ pc["proc"] = from /\ pc'["proc"] = to
         /\ pc'["control"] = pc["control"]
         /\ Places'
  BY DEF Before, FieldTypes, Places, step, Threads

(* Of the wait: nothing but the semaphore changes.                         *)
LEMMA BlockKeptBefore ==
  ASSUME Before, UNCHANGED << block, slot, camera_stopped >>,
         ~Taking("proc"), ~Taking("proc")', pc'["proc"] # "front",
         pc'["control"] = pc["control"], element'["control"] = element["control"]
  PROVE  IndexInv' /\ SlotInv' /\ dist(front, tail)' = dist(front, tail)
<1>1. IndexInv'
  BY DEF Before, IndexInv, Taking, dist, N, block
<1>2. SlotInv'
  BY DEF Before, SlotInv, content, Taking, dist, N, block
<1>3. dist(front, tail)' = dist(front, tail)
  BY DEF dist, N, block
<1> QED BY <1>1, <1>2, <1>3

LEMMA TryWaitBefore ==
  ASSUME Before, TryWait("proc") \/ TryWaitDecrement("proc") \/ ProcLoop
  PROVE  StillBefore
<1>1. /\ UNCHANGED << block, m_sema, slot, camera_stopped >>
      /\ pc'["control"] = pc["control"] /\ Places'
      /\ element'["control"] = element["control"]
      /\ \/ /\ pc["proc"] = "wait" /\ m_count' = m_count
            /\ pc'["proc"] = IF m_count > 0 THEN "decrement" ELSE "commit"
         \/ pc["proc"] = "decrement" /\ m_count' = m_count - 1 /\ pc'["proc"] = "localTail"
         \/ pc["proc"] = "loop" /\ m_count' = m_count /\ pc'["proc"] = "wait"
  <2>1. CASE TryWait("proc")
    <3>1. element'["control"] = element["control"]
      BY <2>1 DEF TryWait, Before, FieldTypes, Threads
    <3> QED BY <2>1, <3>1, ProcPlacesBefore DEF TryWait, sema, ProcPlaces, DequeuePlaces
  <2>2. CASE TryWaitDecrement("proc")
    BY <2>2, ProcPlacesBefore DEF TryWaitDecrement, local, ProcPlaces, DequeuePlaces
  <2>3. CASE ProcLoop
    BY <2>3, ProcPlacesBefore DEF ProcLoop, local, sema, Before, ProcPlaces, DequeuePlaces
  <2> QED BY <2>1, <2>2, <2>3
<1>2. IndexInv' /\ SlotInv' /\ dist(front, tail)' = dist(front, tail)
  <2>1. ~Taking("proc") /\ ~Taking("proc")' /\ pc'["proc"] # "front"
    BY <1>1 DEF Taking
  <2> QED BY <1>1, <2>1, BlockKeptBefore
<1>3. m_count \in Int /\ m_sema \in Nat /\ dist(front, tail) \in Nat
  BY IndexRange DEF Before, FieldTypes
<1>4. CountInv'
  BY <1>1, <1>2, <1>3 DEF Before, CountInv, Waiting, Holds, one
<1> QED BY <1>1, <1>2, <1>4 DEF Before, StillBefore

LEMMA WaitBefore ==
  ASSUME Before, WaitNext
  PROVE  StillBefore
<1>1. /\ UNCHANGED << block, local, camera_stopped >>
      /\ pc'["control"] = pc["control"] /\ Places'
      /\ \/ /\ pc["proc"] = "commit" /\ m_count' = m_count - 1 /\ m_sema' = m_sema
            /\ pc'["proc"] = IF m_count > 0 THEN "localTail" ELSE "sleep"
         \/ /\ pc["proc"] = "sleep" /\ m_count' = m_count
            /\ m_sema > 0 /\ m_sema' = m_sema - 1 /\ pc'["proc"] = "localTail"
         \/ /\ pc["proc"] = "sleep" /\ m_count' = m_count /\ m_sema' = m_sema
            /\ pc'["proc"] = "restore"
         \/ /\ pc["proc"] = "restore" /\ m_count' = m_count + 1 /\ m_sema' = m_sema
            /\ pc'["proc"] = IF m_count < 0 THEN "loop" ELSE "again"
         \/ /\ pc["proc"] = "again" /\ m_count' = m_count - 1 /\ m_sema' = m_sema
            /\ pc'["proc"] = IF m_count > 0 THEN "trySema" ELSE "restore"
         \/ /\ pc["proc"] = "trySema" /\ m_count' = m_count
            /\ m_sema' = IF m_sema > 0 THEN m_sema - 1 ELSE m_sema
            /\ pc'["proc"] = IF m_sema > 0 THEN "localTail" ELSE "restore"
  <2> USE ProcPlacesBefore DEF sema, ProcPlaces, DequeuePlaces
  <2>1. CASE WaitCommit
    BY <2>1 DEF WaitCommit
  <2>2. CASE WaitWoken
    BY <2>2 DEF WaitWoken
  <2>3. CASE WaitTimeout
    BY <2>3 DEF WaitTimeout
  <2>4. CASE WaitRestore
    BY <2>4 DEF WaitRestore
  <2>5. CASE WaitAgain
    BY <2>5 DEF WaitAgain
  <2>6. CASE WaitTrySema
    BY <2>6 DEF WaitTrySema
  <2> QED BY <2>1, <2>2, <2>3, <2>4, <2>5, <2>6 DEF WaitNext
<1>2. IndexInv' /\ SlotInv' /\ dist(front, tail)' = dist(front, tail)
  <2>1. ~Taking("proc") /\ ~Taking("proc")' /\ pc'["proc"] # "front"
    BY <1>1 DEF Taking
  <2> QED BY <1>1, <2>1, BlockKeptBefore DEF local
<1>3. m_count \in Int /\ m_sema \in Nat /\ dist(front, tail) \in Nat
  BY IndexRange DEF Before, FieldTypes
<1>4. CountInv'
  BY <1>1, <1>2, <1>3 DEF Before, CountInv, Waiting, Holds, one
<1> QED BY <1>1, <1>2, <1>4 DEF Before, StillBefore

(* The consumer that was given a unit finds an element.                    *)
LEMMA HeldElement ==
  ASSUME Before, Holds("proc")
  PROVE  front # tail
<1>1. dist(front, tail) # 0
  BY DEF Before, CountInv, FieldTypes, Waiting, Holds, one
<1> QED BY <1>1, DistFacts DEF Before, FieldTypes

LEMMA FrontElement ==
  ASSUME Before, Holds("proc")
  PROVE  /\ front \in Slots /\ tail \in Slots /\ localTail \in Slots /\ localFront \in Slots
         /\ front # tail
         /\ dist(front, tail) \in Nat /\ dist(localTail, tail) \in Nat
         /\ content(front) \in Framesets
<1>1. /\ front \in Slots /\ tail \in Slots /\ localTail \in Slots /\ localFront \in Slots
      /\ front # tail
  BY HeldElement DEF Before, FieldTypes
<1>2. /\ dist(front, tail) \in Nat /\ dist(localTail, tail) \in Nat
      /\ dist(front, tail) # 0
  BY <1>1, DistFacts, BlockSize
<1>3. dist(front, tail) \in 1 .. dist(front, tail)
  BY <1>2
<1> QED BY <1>1, <1>2, <1>3 DEF Before, SlotInv

LEMMA ReadBefore ==
  ASSUME Before, DequeueLocalTail("proc") \/ DequeueFront("proc") \/ DequeueRetry("proc")
  PROVE  StillBefore
<1>1. /\ front \in Slots /\ tail \in Slots /\ localTail \in Slots /\ localFront \in Slots
      /\ front # tail
      /\ dist(front, tail) \in Nat /\ dist(localTail, tail) \in Nat
  <2>1. Holds("proc")
    BY DEF DequeueLocalTail, DequeueFront, DequeueRetry, step, Holds
  <2> QED BY <2>1, FrontElement
<1>2. /\ UNCHANGED << front, tail, localFront, data, sema, element, camera_stopped >>
      /\ pc'["control"] = pc["control"] /\ Places'
      /\ \/ /\ pc["proc"] = "localTail" /\ slot' = slot /\ localTail' = localTail
            /\ known'["proc"] = localTail /\ pc'["proc"] = "front"
         \/ /\ pc["proc"] = "front" /\ slot'["proc"] = front /\ localTail' = localTail
            /\ pc'["proc"] = IF front # localTail THEN "take" ELSE "retry"
         \/ /\ pc["proc"] = "retry" /\ slot' = slot /\ localTail' = tail
            /\ pc'["proc"] = "take"
  <2> USE ProcPlacesBefore DEF ProcPlaces, DequeuePlaces
  <2>1. CASE DequeueLocalTail("proc")
    <3>1. known'["proc"] = localTail
      BY <2>1 DEF DequeueLocalTail, Before, FieldTypes, Threads
    <3> QED BY <2>1, <3>1 DEF DequeueLocalTail, block
  <2>2. CASE DequeueFront("proc")
    <3>1. slot'["proc"] = front
      BY <2>2 DEF DequeueFront, Before, FieldTypes, Threads
    <3>2. pc["proc"] = "front" /\ known["proc"] = localTail
      BY <2>2 DEF DequeueFront, step, Before, IndexInv
    <3> QED BY <2>2, <3>1, <3>2 DEF DequeueFront, block
  <2>3. CASE DequeueRetry("proc")
    <3>1. pc["proc"] = "retry"
      BY <2>3 DEF DequeueRetry, step
    <3>2. slot["proc"] # tail
      BY <1>1, <3>1 DEF Before, IndexInv, Taking
    <3> QED BY <2>3, <3>2 DEF DequeueRetry, local
  <2> QED BY <2>1, <2>2, <2>3
<1>3. dist(tail, tail) = 0 /\ dist(front, tail)' = dist(front, tail)
  BY <1>1, <1>2, DistFacts DEF dist, N
<1>4. IndexInv'
  BY <1>1, <1>2, <1>3 DEF Before, IndexInv, Taking, dist, N
<1>5. SlotInv'
  BY <1>2 DEF Before, SlotInv, content, dist, N
<1>6. CountInv'
  BY <1>2, <1>3 DEF Before, CountInv, sema, Waiting, Holds, one
<1> QED BY <1>2, <1>4, <1>5, <1>6 DEF Before, StillBefore

(* Moving the element out does not change what the block holds until the   *)
(* index follows.                                                          *)
LEMMA MoveBefore ==
  ASSUME Before, DequeueTake("proc") \/ DequeueClear("proc")
  PROVE  StillBefore /\ \A s \in Slots : content(s)' = content(s)
<1>1. /\ front \in Slots /\ tail \in Slots /\ front # tail
      /\ slot["proc"] = front
      /\ pc["proc"] \in {"take", "clear"}
      /\ data[front] \in Framesets
  <2>1. pc["proc"] \in {"take", "clear"} /\ Holds("proc") /\ Taking("proc")
    BY DEF DequeueTake, DequeueClear, step, Holds, Taking
  <2> QED BY <2>1, FrontElement DEF Before, IndexInv, content
<1>2. /\ UNCHANGED << front, tail, localFront, localTail, sema, slot, known, camera_stopped >>
      /\ pc'["control"] = pc["control"] /\ Places'
      /\ element'["control"] = element["control"]
      /\ \/ /\ pc["proc"] = "take" /\ pc'["proc"] = "clear" /\ data' = data
            /\ element'["proc"] = data[front]
         \/ /\ pc["proc"] = "clear" /\ pc'["proc"] = "advance" /\ element' = element
            /\ data' = [data EXCEPT ![front] = Null]
  <2> USE ProcPlacesBefore DEF ProcPlaces, DequeuePlaces
  <2>1. CASE DequeueTake("proc")
    <3>1. data[front] # Raw
      BY <1>1, QueueAssumption DEF Framesets, Raw
    <3>2. element'["control"] = element["control"] /\ element'["proc"] = data[front]
      BY <1>1, <2>1, <3>1 DEF DequeueTake, Before, FieldTypes, Threads
    <3> QED BY <2>1, <3>2 DEF DequeueTake, block
  <2>2. CASE DequeueClear("proc")
    BY <1>1, <2>2 DEF DequeueClear, local
  <2> QED BY <2>1, <2>2
<1>3. \A s \in Slots : content(s)' = content(s)
  BY <1>1, <1>2 DEF content, Before, SlotInv, FieldTypes
<1>4. dist(front, tail)' = dist(front, tail)
  BY <1>2 DEF dist, N
<1>5. IndexInv'
  BY <1>1, <1>2 DEF Before, IndexInv, Taking, dist, N
<1>6. SlotInv'
  <2>1. data'[tail] = data[tail]
    BY <1>1, <1>2 DEF Before, FieldTypes
  <2> QED BY <1>2, <1>3, <2>1 DEF Before, SlotInv, dist, N
<1>7. CountInv'
  BY <1>2, <1>4 DEF Before, CountInv, sema, Waiting, Holds, one
<1> QED BY <1>2, <1>3, <1>5, <1>6, <1>7 DEF Before, StillBefore

(* Nothing undefined happens.                                              *)
LEMMA NoCrashBefore ==
  ASSUME Before
  PROVE  ~DequeueCrash("proc")
<1>1. SUFFICES ASSUME DequeueCrash("proc")
               PROVE  FALSE
  OBVIOUS
<1>2. pc["proc"] = "take" /\ Holds("proc") /\ Taking("proc") /\ slot["proc"] = front
  BY <1>1 DEF DequeueCrash, step, Holds, Taking, Before, IndexInv
<1>3. data[front] \in Framesets
  BY <1>2, FrontElement DEF content
<1>4. \A u \in Threads \ {"proc"} : pc[u] # "clear"
  BY DEF Before, Places, EnqueuePlaces, Threads
<1> QED BY <1>1, <1>2, <1>3, <1>4, QueueAssumption
        DEF DequeueCrash, TakeIsUndefined, Framesets, Raw

LEMMA AdvanceBefore ==
  ASSUME Before, DequeueAdvance("proc")
  PROVE  StillBefore /\ element["proc"] = content(front) /\ content(front) \in Framesets
<1>1. /\ pc["proc"] = "advance" /\ slot["proc"] = front /\ element["proc"] = content(front)
      /\ Holds("proc")
  BY DEF DequeueAdvance, step, Before, IndexInv, Taking, content, Holds
<1>2. /\ front \in Slots /\ tail \in Slots /\ localTail \in Slots /\ localFront \in Slots
      /\ front # tail /\ localTail # front
      /\ m_count \in Int /\ m_sema \in Nat /\ N \in Nat
      /\ content(front) \in Framesets
  BY <1>1, FrontElement, BlockSize DEF Before, FieldTypes, IndexInv
<1>3. element["proc"] # Null
  BY <1>1, <1>2 DEF Framesets, Null
<1>4. /\ UNCHANGED << tail, localFront, localTail, data, sema, local, camera_stopped >>
      /\ front' = NextSlot(front)
      /\ pc'["proc"] = "loop" /\ pc'["control"] = pc["control"] /\ Places'
  BY <1>1, <1>3, ProcPlacesBefore DEF DequeueAdvance, AfterDequeue, ProcPlaces, local
<1>5. /\ dist(front, tail)' = dist(front, tail) - 1
      /\ dist(front, tail) \in 1 .. N - 1
      /\ dist(localTail, tail) \in Nat /\ dist(localFront, tail) \in Nat
      /\ dist(localTail, tail) # dist(front, tail)
  <2>1. dist(NextSlot(front), tail) = dist(front, tail) - 1
    BY <1>2, DistFacts
  <2> QED BY <1>2, <1>4, <2>1, DistFacts, DistOfTwo DEF dist, N
<1>6. IndexInv'
  BY <1>4, <1>5 DEF Before, IndexInv, Taking, dist, N
<1>7. SlotInv'
  <2>1. ASSUME NEW s \in Slots, dist(s, tail) \in 1 .. dist(front, tail)'
        PROVE  content(s)' \in Framesets
    <3>1. dist(s, tail) \in 1 .. dist(front, tail) /\ s # front
      BY <1>5, <2>1
    <3>2. content(s)' = content(s)
      BY <1>1, <1>4, <3>1 DEF content
    <3> QED BY <3>1, <3>2 DEF Before, SlotInv
  <2> QED BY <1>4, <2>1 DEF Before, SlotInv, dist, N, local
<1>8. CountInv'
  BY <1>1, <1>2, <1>4, <1>5 DEF Before, CountInv, sema, Waiting, Holds, one
<1> QED BY <1>1, <1>2, <1>4, <1>6, <1>7, <1>8 DEF Before, StillBefore

(* Every step until stop_camera() begins.                                  *)
LEMMA BeforeStep ==
  ASSUME Before, [QueueNext]_vars, ~camera_stopped'
  PROVE  StillBefore
<1>1. /\ pc["stop"] = "idle" /\ pc["proc"] \notin {"empty", "crash", "exit"}
      /\ camera_stopped = FALSE
  BY DEF Before, Places, FieldTypes
<1>2. CASE EnqueueNext("control")
  BY <1>2, RoomBefore, WriteBefore, PublishBefore, SignalBefore DEF EnqueueNext
<1>3. CASE EnqueueNext("stop")
  BY <1>1, <1>3 DEF EnqueueNext, EnqueueRoom, EnqueueReload, EnqueueWrite, EnqueuePublish,
                    Signal, SignalPost, step
<1>4. CASE DequeueNext("proc")
  <2>1. ~DequeueEmpty("proc")
    BY <1>1 DEF DequeueEmpty, step
  <2> QED BY <1>4, <2>1, TryWaitBefore, ReadBefore, MoveBefore, NoCrashBefore, AdvanceBefore
          DEF DequeueNext
<1>5. CASE DequeueNext("stop")
  BY <1>1, <1>5 DEF DequeueNext, TryWait, TryWaitDecrement, DequeueLocalTail, DequeueFront,
                    DequeueRetry, DequeueTake, DequeueCrash, DequeueClear,
                    DequeueAdvance, DequeueEmpty, step
<1>6. CASE WaitNext \/ Submit \/ ProcLoop
  BY <1>6, WaitBefore, SubmitBefore, TryWaitBefore
<1>7. CASE StopFlag \/ StopJoin
  BY <1>1, <1>7 DEF StopFlag, StopJoin, step
<1>8. CASE UNCHANGED vars
  <2> USE <1>8 DEF Before, vars, block, sema, dist, N
  <2>1. Places'
    BY DEF Places
  <2>2. IndexInv'
    BY DEF IndexInv, Taking
  <2>3. SlotInv'
    BY DEF SlotInv, content
  <2>4. CountInv'
    BY DEF CountInv, Waiting, Holds
  <2> QED BY <2>1, <2>2, <2>3, <2>4 DEF StillBefore
<1> QED BY <1>2, <1>3, <1>4, <1>5, <1>6, <1>7, <1>8, StepCases

-----------------------------------------------------------------------------
(* From then on.                                                           *)
After ==
  FieldTypes /\ Places /\ camera_stopped /\ LowerBound /\ UpperBound /\ RoomInv /\ PostInv

Consumers == {"proc", "stop"}

LEMMA FlagStep ==
  ASSUME Before, StopFlag
  PROVE  Places' /\ LowerBound' /\ UpperBound' /\ RoomInv' /\ PostInv'
<1>1. /\ UNCHANGED << block, sema, local >> /\ camera_stopped' = TRUE
      /\ pc["control"] = "idle" /\ pc'["control"] = "joined"
      /\ pc'["stop"] = "wait" /\ pc'["proc"] = pc["proc"]
      /\ pc["proc"] \in ProcPlaces
  BY DEF StopFlag, Before, FieldTypes, Places, Threads
<1>2. dist(front, tail) \in Nat /\ m_count \in Int /\ m_sema \in Nat
  BY IndexRange DEF Before, FieldTypes
<1>3. Places'
  BY <1>1 DEF Places, StopPlaces, DequeuePlaces
<1>4. LowerBound'
  BY <1>1, <1>2 DEF Before, CountInv, LowerBound, Waiting, Holds, one, sema
<1>5. UpperBound'
  BY <1>1, <1>2 DEF Before, CountInv, IndexInv, UpperBound, Units, Waiting, Holds, Taking,
                    Published, one, sema, block, local, dist, N
<1>6. RoomInv'
  <2>1. /\ dist(front, tail)' = dist(front, tail)
        /\ dist(localFront, tail)' = dist(localFront, tail)
        /\ dist(slot["proc"], tail)' = dist(slot["proc"], tail)
    BY <1>1 DEF block, local, dist, N
  <2> QED BY <1>1, <1>2, <2>1 DEF Before, IndexInv, RoomInv, Published, Taking
<1>7. PostInv'
  BY <1>1, <1>2 DEF Before, CountInv, PostInv, Waiting, one, sema
<1> QED BY <1>3, <1>4, <1>5, <1>6, <1>7

LEMMA PlacesAfter ==
  ASSUME After, NEW t \in Consumers, NEW from, NEW to,
         to \in (IF t = "proc" THEN ProcPlaces ELSE StopPlaces),
         step(t, from, to), camera_stopped' = camera_stopped
  PROVE  /\ pc[t] = from /\ pc'[t] = to
         /\ \A u \in Consumers : u # t => pc'[u] = pc[u]
         /\ Places'
  BY DEF After, FieldTypes, Places, step, Threads, Consumers

LEMMA DistancesKept ==
  ASSUME UNCHANGED << front, tail, localFront, slot >>
  PROVE  /\ dist(front, tail)' = dist(front, tail)
         /\ dist(localFront, tail)' = dist(localFront, tail)
         /\ dist(slot["proc"], tail)' = dist(slot["proc"], tail)
         /\ dist(slot["stop"], tail)' = dist(slot["stop"], tail)
         /\ slot["proc"]' = slot["proc"] /\ slot["stop"]' = slot["stop"]
         /\ tail' = tail /\ front' = front
         /\ NextSlot(tail)' = NextSlot(tail)
  BY DEF dist, N, NextSlot

LEMMA NumbersAfter ==
  ASSUME After
  PROVE  /\ m_count \in Int /\ m_sema \in Nat
         /\ dist(front, tail) \in Nat /\ dist(localFront, tail) \in Nat
         /\ dist(slot["proc"], tail) \in Nat /\ dist(slot["stop"], tail) \in Nat
         /\ front \in Slots /\ tail \in Slots /\ localFront \in Slots
         /\ slot["proc"] \in Slots /\ slot["stop"] \in Slots
         /\ N \in Nat /\ N >= 2
  BY IndexRange DEF After, FieldTypes, Threads

(* The steps that leave the indices and the slots alone, and do not add to *)
(* the units, borrowed ones included.                                      *)
Borrowed(t) == one(t = "proc" /\ Waiting)

LEMMA UnitsAfter ==
  ASSUME After, UNCHANGED << front, tail, localFront, slot, camera_stopped >>,
         m_count' \in Int,
         NEW t \in Consumers, \A u \in Consumers : u # t => pc'[u] = pc[u],
         Taking(t)' => Taking(t), pc[t] \notin EnqueuePlaces \cup {"join", "done"},
         pc'[t] \notin (EnqueuePlaces \ {"room"}) \cup {"join", "done"},
         Taking(t)' => Holds(t)',
         m_count' + Borrowed(t)' + one(Holds(t))' <= m_count + Borrowed(t) + one(Holds(t)),
         m_count' + Borrowed(t)' <= m_count + Borrowed(t)
  PROVE  UpperBound' /\ RoomInv'
<1>1. /\ dist(front, tail)' = dist(front, tail)
      /\ dist(localFront, tail)' = dist(localFront, tail)
      /\ dist(slot["proc"], tail)' = dist(slot["proc"], tail)
      /\ dist(slot["stop"], tail)' = dist(slot["stop"], tail)
      /\ slot["proc"]' = slot["proc"] /\ slot["stop"]' = slot["stop"]
      /\ tail' = tail /\ front' = front
      /\ NextSlot(tail)' = NextSlot(tail)
  BY DistancesKept
<1>2. Units' <= Units /\ Units \in Int /\ Units' \in Int
  <2>1. CASE t = "proc"
    BY <2>1, NumbersAfter DEF Units, Consumers, Borrowed, Waiting, Holds, one
  <2>2. CASE t = "stop"
    BY <2>2, NumbersAfter DEF Units, Consumers, Borrowed, Waiting, Holds, one
  <2> QED BY <2>1, <2>2 DEF Consumers
<1>3. UpperBound'
  <2>1. CASE t = "proc"
    BY <1>1, <1>2, <2>1, NumbersAfter DEF After, UpperBound, Consumers, Taking, Published, one
  <2>2. CASE t = "stop"
    BY <1>1, <1>2, <2>2, NumbersAfter
    DEF After, UpperBound, Consumers, Taking, Published, one, EnqueuePlaces
  <2> QED BY <2>1, <2>2 DEF Consumers
<1>4. RoomInv'
  <2>1. CASE t = "proc"
    BY <1>1, <1>2, <2>1, NumbersAfter DEF After, RoomInv, Consumers, Taking, Published
  <2>2. CASE t = "stop"
    BY <1>1, <1>2, <2>2, NumbersAfter
    DEF After, RoomInv, Consumers, Taking, Published, EnqueuePlaces
  <2> QED BY <2>1, <2>2 DEF Consumers
<1> QED BY <1>3, <1>4

StillAfter == Places' /\ LowerBound' /\ UpperBound' /\ RoomInv' /\ PostInv'

LEMMA TryWaitAfter ==
  ASSUME After, NEW t \in Consumers, TryWait(t) \/ TryWaitDecrement(t)
  PROVE  StillAfter
<1>1. /\ UNCHANGED << block, m_sema, slot, camera_stopped >>
      /\ \A u \in Consumers : u # t => pc'[u] = pc[u]
      /\ Places'
      /\ \/ /\ pc[t] = "wait" /\ m_count' = m_count
            /\ pc'[t] = IF m_count > 0 THEN "decrement"
                        ELSE IF t = "proc" THEN "commit" ELSE "room"
         \/ pc[t] = "decrement" /\ m_count' = m_count - 1 /\ pc'[t] = "localTail"
  <2> USE PlacesAfter DEF ProcPlaces, StopPlaces, DequeuePlaces, EnqueuePlaces
  <2>1. CASE TryWait(t)
    BY <2>1 DEF TryWait, sema
  <2>2. CASE TryWaitDecrement(t)
    BY <2>2 DEF TryWaitDecrement, local
  <2> QED BY <2>1, <2>2
<1>2. m_count \in Int /\ m_sema \in Nat
  BY NumbersAfter
<1>3. LowerBound'
  BY <1>1, <1>2 DEF After, LowerBound, Consumers, Waiting, Holds, one
<1>4. PostInv'
  BY <1>1, <1>2 DEF After, PostInv, Consumers, one
<1>5. /\ m_count' + Borrowed(t)' + one(Holds(t))' <= m_count + Borrowed(t) + one(Holds(t))
      /\ m_count' + Borrowed(t)' <= m_count + Borrowed(t)
  BY <1>1, <1>2 DEF Consumers, Borrowed, Waiting, Holds, one
<1>6. UpperBound' /\ RoomInv'
  <2>1. /\ m_count' \in Int /\ ~Taking(t) /\ ~Taking(t)'
        /\ pc[t] \notin EnqueuePlaces \cup {"join", "done"}
        /\ pc'[t] \notin (EnqueuePlaces \ {"room"}) \cup {"join", "done"}
    BY <1>1, <1>2 DEF Taking, EnqueuePlaces
  <2> QED BY <1>1, <1>5, <2>1, UnitsAfter DEF block
<1> QED BY <1>1, <1>3, <1>4, <1>6 DEF StillAfter

LEMMA WaitAfter ==
  ASSUME After, WaitNext \/ ProcLoop
  PROVE  StillAfter
<1>1. /\ UNCHANGED << block, local, camera_stopped >>
      /\ \A u \in Consumers : u # "proc" => pc'[u] = pc[u]
      /\ Places'
      /\ \/ /\ pc["proc"] = "commit" /\ m_count' = m_count - 1 /\ m_sema' = m_sema
            /\ pc'["proc"] = IF m_count > 0 THEN "localTail" ELSE "sleep"
         \/ /\ pc["proc"] = "sleep" /\ m_count' = m_count
            /\ m_sema > 0 /\ m_sema' = m_sema - 1 /\ pc'["proc"] = "localTail"
         \/ /\ pc["proc"] = "sleep" /\ m_count' = m_count /\ m_sema' = m_sema
            /\ pc'["proc"] = "restore"
         \/ /\ pc["proc"] = "restore" /\ m_count' = m_count + 1 /\ m_sema' = m_sema
            /\ pc'["proc"] = IF m_count < 0 THEN "loop" ELSE "again"
         \/ /\ pc["proc"] = "again" /\ m_count' = m_count - 1 /\ m_sema' = m_sema
            /\ pc'["proc"] = IF m_count > 0 THEN "trySema" ELSE "restore"
         \/ /\ pc["proc"] = "trySema" /\ m_count' = m_count
            /\ m_sema' = IF m_sema > 0 THEN m_sema - 1 ELSE m_sema
            /\ pc'["proc"] = IF m_sema > 0 THEN "localTail" ELSE "restore"
         \/ /\ pc["proc"] = "loop" /\ m_count' = m_count /\ m_sema' = m_sema
            /\ pc'["proc"] = "exit"
  <2> USE PlacesAfter DEF sema, ProcPlaces, DequeuePlaces, Consumers
  <2>1. CASE WaitCommit
    BY <2>1 DEF WaitCommit
  <2>2. CASE WaitWoken
    BY <2>2 DEF WaitWoken
  <2>3. CASE WaitTimeout
    BY <2>3 DEF WaitTimeout
  <2>4. CASE WaitRestore
    BY <2>4 DEF WaitRestore
  <2>5. CASE WaitAgain
    BY <2>5 DEF WaitAgain
  <2>6. CASE WaitTrySema
    BY <2>6 DEF WaitTrySema
  <2>7. CASE ProcLoop
    BY <2>7 DEF ProcLoop, After
  <2> QED BY <2>1, <2>2, <2>3, <2>4, <2>5, <2>6, <2>7 DEF WaitNext
<1>2. m_count \in Int /\ m_sema \in Nat /\ pc'["stop"] = pc["stop"]
  BY <1>1, NumbersAfter DEF Consumers
<1>3. LowerBound'
  BY <1>1, <1>2 DEF After, LowerBound, Waiting, Holds, one
<1>4. PostInv'
  BY <1>1, <1>2 DEF After, PostInv, one
<1>5. UpperBound' /\ RoomInv'
  <2>1. /\ m_count' \in Int /\ ~Taking("proc") /\ ~Taking("proc")'
        /\ pc["proc"] \notin EnqueuePlaces \cup {"join", "done"}
        /\ pc'["proc"] \notin (EnqueuePlaces \ {"room"}) \cup {"join", "done"}
        /\ "proc" \in Consumers
    BY <1>1, <1>2 DEF Taking, EnqueuePlaces, Consumers
  <2>2. /\ m_count' + Borrowed("proc")' + one(Holds("proc"))' <=
             m_count + Borrowed("proc") + one(Holds("proc"))
        /\ m_count' + Borrowed("proc")' <= m_count + Borrowed("proc")
    BY <1>1, <1>2 DEF Borrowed, Waiting, Holds, one
  <2> QED BY <1>1, <2>1, <2>2, UnitsAfter DEF local, block
<1> QED BY <1>1, <1>3, <1>4, <1>5 DEF StillAfter

(* A consumer reads the index of its slot: there are as many elements      *)
(* behind it as units are left.                                            *)
LEMMA FrontAfter ==
  ASSUME After, NEW t \in Consumers, DequeueFront(t)
  PROVE  StillAfter
<1>1. /\ UNCHANGED << front, tail, localFront, sema, camera_stopped >>
      /\ pc[t] = "front" /\ pc'[t] \in {"take", "retry"} /\ slot'[t] = front
      /\ \A u \in Consumers : u # t => pc'[u] = pc[u] /\ slot'[u] = slot[u]
      /\ Places'
  <2>1. /\ slot'[t] = front
        /\ \A u \in Consumers : u # t => slot'[u] = slot[u]
    BY DEF DequeueFront, After, FieldTypes, Threads, Consumers
  <2> QED BY <2>1, PlacesAfter DEF DequeueFront, block, ProcPlaces, StopPlaces, DequeuePlaces
<1>2. /\ dist(front, tail)' = dist(front, tail)
      /\ dist(localFront, tail)' = dist(localFront, tail)
      /\ dist(slot[t], tail)' = dist(front, tail)
      /\ \A u \in Consumers : u # t => dist(slot[u], tail)' = dist(slot[u], tail)
      /\ NextSlot(tail)' = NextSlot(tail)
  BY <1>1 DEF dist, N, NextSlot
<1>3. Units' = Units /\ Units \in Int
  BY <1>1, NumbersAfter DEF Units, Consumers, Waiting, Holds, one, sema
<1>4. LowerBound'
  BY <1>1, NumbersAfter DEF After, LowerBound, Consumers, Waiting, Holds, one, sema
<1>5. PostInv'
  BY <1>1, NumbersAfter DEF After, PostInv, Consumers, one, sema
<1>6. UpperBound'
  <2>1. CASE t = "proc"
    BY <1>1, <1>2, <1>3, <2>1, NumbersAfter
    DEF After, UpperBound, Consumers, Taking, Published, one
  <2>2. CASE t = "stop"
    BY <1>1, <1>2, <1>3, <2>2, NumbersAfter
    DEF After, UpperBound, Consumers, Taking, Published, one
  <2> QED BY <2>1, <2>2 DEF Consumers
<1>7. RoomInv'
  <2>1. CASE t = "proc"
    BY <1>1, <1>2, <1>3, <2>1, NumbersAfter DEF After, RoomInv, Consumers, Taking, Published
  <2>2. CASE t = "stop"
    BY <1>1, <1>2, <1>3, <2>2, NumbersAfter DEF After, RoomInv, Consumers, Taking, Published
  <2> QED BY <2>1, <2>2 DEF Consumers
<1> QED BY <1>1, <1>4, <1>5, <1>6, <1>7 DEF StillAfter

(* The steps of a consumer that leave the indices and the count alone.     *)
LEMMA TakeAfter ==
  ASSUME After, NEW t \in Consumers,
         \/ DequeueLocalTail(t) \/ DequeueRetry(t) \/ DequeueTake(t) \/ DequeueCrash(t)
         \/ DequeueClear(t) \/ DequeueEmpty(t)
  PROVE  StillAfter
<1>1. /\ UNCHANGED << front, tail, localFront, sema, slot, camera_stopped >>
      /\ \A u \in Consumers : u # t => pc'[u] = pc[u]
      /\ Places'
      /\ \/ pc[t] = "localTail" /\ pc'[t] = "front"
         \/ pc[t] = "retry" /\ pc'[t] \in {"take", "empty"}
         \/ pc[t] = "take" /\ pc'[t] \in {"clear", "crash"}
         \/ pc[t] = "clear" /\ pc'[t] = "advance"
         \/ pc[t] = "empty" /\ pc'[t] \in (IF t = "proc" THEN {"loop", "exit"} ELSE {"wait"})
  <2> USE PlacesAfter DEF ProcPlaces, StopPlaces, DequeuePlaces, block, local
  <2>1. CASE DequeueLocalTail(t)
    BY <2>1 DEF DequeueLocalTail
  <2>2. CASE DequeueRetry(t)
    BY <2>2 DEF DequeueRetry
  <2>3. CASE DequeueTake(t) \/ DequeueCrash(t)
    BY <2>3 DEF DequeueTake, DequeueCrash
  <2>4. CASE DequeueClear(t)
    BY <2>4 DEF DequeueClear
  <2>5. CASE DequeueEmpty(t)
    <3>1. /\ AfterDequeue(t) \in IF t = "proc" THEN {"loop", "exit"} ELSE {"wait"}
          /\ AfterDequeue(t) \in IF t = "proc" THEN ProcPlaces ELSE StopPlaces
      BY DEF AfterDequeue, Consumers
    <3>2. step(t, "empty", AfterDequeue(t)) /\ camera_stopped' = camera_stopped
      BY <2>5 DEF DequeueEmpty
    <3> HIDE DEF ProcPlaces, StopPlaces, DequeuePlaces
    <3> QED BY <2>5, <3>1, <3>2 DEF DequeueEmpty
  <2> QED BY <2>1, <2>2, <2>3, <2>4, <2>5
<1>2. m_count \in Int /\ m_sema \in Nat /\ UNCHANGED << m_count, m_sema >>
  BY <1>1, NumbersAfter DEF sema
<1>3. LowerBound'
  BY <1>1, <1>2 DEF After, LowerBound, Consumers, Waiting, Holds, one
<1>4. PostInv'
  BY <1>1, <1>2 DEF After, PostInv, Consumers, one
<1>5. UpperBound' /\ RoomInv'
  <2>1. /\ Taking(t)' => Taking(t) /\ Holds(t)'
        /\ pc[t] \notin EnqueuePlaces \cup {"join", "done"}
        /\ pc'[t] \notin (EnqueuePlaces \ {"room"}) \cup {"join", "done"}
    BY <1>1 DEF Taking, Holds, EnqueuePlaces
  <2>2. /\ m_count' + Borrowed(t)' + one(Holds(t))' <= m_count + Borrowed(t) + one(Holds(t))
        /\ m_count' + Borrowed(t)' <= m_count + Borrowed(t)
    BY <1>1, <1>2 DEF Consumers, Borrowed, Waiting, Holds, one
  <2> QED BY <1>1, <1>2, <2>1, <2>2, UnitsAfter
<1> QED BY <1>1, <1>3, <1>4, <1>5 DEF StillAfter

(* It moves the index, perhaps back, or beyond the tail.                   *)
LEMMA AdvanceAfter ==
  ASSUME After, NEW t \in Consumers, DequeueAdvance(t)
  PROVE  StillAfter
<1>1. /\ UNCHANGED << tail, localFront, sema, slot, camera_stopped >>
      /\ front' = NextSlot(slot[t])
      /\ pc[t] = "advance"
      /\ \A u \in Consumers : u # t => pc'[u] = pc[u]
      /\ Places'
      /\ pc'[t] \in IF t = "proc" THEN {"loop", "exit"} ELSE {"wait"}
  <2>1. /\ AfterDequeue(t) \in IF t = "proc" THEN {"loop", "exit"} ELSE {"wait"}
        /\ AfterDequeue(t) \in IF t = "proc" THEN ProcPlaces ELSE StopPlaces
    BY DEF AfterDequeue, ProcPlaces, StopPlaces, DequeuePlaces, Consumers
  <2>2. step(t, "advance", AfterDequeue(t)) /\ camera_stopped' = camera_stopped
    BY DEF DequeueAdvance
  <2> QED BY <2>1, <2>2, PlacesAfter DEF DequeueAdvance, local
<1>2. /\ dist(localFront, tail)' = dist(localFront, tail)
      /\ dist(slot["proc"], tail)' = dist(slot["proc"], tail)
      /\ dist(slot["stop"], tail)' = dist(slot["stop"], tail)
      /\ NextSlot(tail)' = NextSlot(tail)
  BY <1>1 DEF dist, N, NextSlot
<1>3. /\ slot[t] \in Slots /\ front' \in Slots
      /\ dist(front, tail)' = IF slot[t] = tail THEN N - 1 ELSE dist(slot[t], tail) - 1
      /\ slot[t] = tail <=> dist(slot[t], tail) = 0
      /\ dist(slot[t], tail) \in 0 .. N - 1
      /\ dist(front, tail) \in 0 .. N - 1
  <2>1. dist(front, tail)' = dist(NextSlot(slot[t]), tail)
    BY <1>1 DEF dist, N
  <2> QED BY <1>1, <2>1, NumbersAfter, DistFacts, NextCases DEF Consumers
<1>4. NextSlot(tail) = front' <=> dist(front, tail)' = N - 1
  <2>1. dist(front, tail)' = dist(front', tail)
    BY <1>1 DEF dist, N
  <2> QED BY <1>3, <2>1, NumbersAfter, DistFacts
<1>5. Units' = Units - 1 /\ Units \in Int
  BY <1>1, NumbersAfter DEF Units, Consumers, Waiting, Holds, one, sema
<1>6. slot[t] = tail /\ ~Published => Units' < 0
  BY <1>1, <1>3, <1>5, NumbersAfter DEF After, UpperBound, Consumers, Taking, Published, one
<1>7. LowerBound'
  BY <1>1, NumbersAfter DEF After, LowerBound, Consumers, Waiting, Holds, one, sema
<1>8. PostInv'
  BY <1>1, NumbersAfter DEF After, PostInv, Consumers, one, sema
<1>9. UpperBound'
  <2>1. CASE t = "proc"
    BY <1>1, <1>2, <1>3, <1>5, <2>1, NumbersAfter
    DEF After, UpperBound, Consumers, Taking, Published, one
  <2>2. CASE t = "stop"
    BY <1>1, <1>2, <1>3, <1>5, <2>2, NumbersAfter
    DEF After, UpperBound, Consumers, Taking, Published, one
  <2> QED BY <2>1, <2>2 DEF Consumers
<1>10. RoomInv'
  <2>1. CASE t = "proc"
    BY <1>1, <1>2, <1>3, <1>4, <1>5, <1>6, <2>1, NumbersAfter
    DEF After, RoomInv, Consumers, Taking, Published
  <2>2. CASE t = "stop"
    BY <1>1, <1>2, <1>3, <1>5, <1>6, <2>2, NumbersAfter
    DEF After, RoomInv, Consumers, Taking, Published
  <2> QED BY <2>1, <2>2 DEF Consumers
<1> QED BY <1>1, <1>7, <1>8, <1>9, <1>10 DEF StillAfter

(* stop_camera() enqueues the null pointer.                                *)
LEMMA PublishAfter ==
  ASSUME After, EnqueuePublish("stop")
  PROVE  StillAfter
<1>1. /\ UNCHANGED << front, localFront, sema, slot, camera_stopped >>
      /\ tail' = NextSlot(tail)
      /\ pc["stop"] = "publish" /\ pc'["stop"] = "signal" /\ pc'["proc"] = pc["proc"]
      /\ Places'
  BY PlacesAfter DEF EnqueuePublish, local, StopPlaces, EnqueuePlaces, Consumers
<1>2. \/ dist(front, tail)' = dist(front, tail) + 1
      \/ Units < 0 /\ dist(front, tail)' = 0
  <2>1. CASE NextSlot(tail) # front
    BY <1>1, <2>1, NumbersAfter, DistFacts DEF dist, N
  <2>2. CASE NextSlot(tail) = front
    <3>1. dist(front, tail)' = 0
      BY <1>1, <2>2, NumbersAfter, DistFacts DEF dist, N
    <3>2. Units < 0
      BY <1>1, <2>2, NumbersAfter DEF After, RoomInv, Published, Units, one
    <3> QED BY <3>1, <3>2
  <2> QED BY <2>1, <2>2
<1>3. slot["proc"] # tail' => dist(slot["proc"], tail)' = dist(slot["proc"], tail) + 1
  BY <1>1, NumbersAfter, DistFacts DEF dist, N
<1>4. LowerBound'
  BY <1>1, NumbersAfter DEF After, LowerBound, Waiting, Holds, one, sema
<1>5. PostInv'
  BY <1>1, NumbersAfter DEF After, PostInv, one, sema
<1>6. UpperBound'
  <2>1. Units' = Units /\ Units \in Int
    BY <1>1, NumbersAfter DEF Units, Waiting, Holds, one, sema
  <2> QED BY <1>1, <1>2, <1>3, <2>1, NumbersAfter
          DEF After, UpperBound, Taking, Published, one
<1>7. RoomInv'
  BY <1>1 DEF RoomInv, Published
<1> QED BY <1>1, <1>4, <1>5, <1>6, <1>7 DEF StillAfter

LEMMA EnqueueAfter ==
  ASSUME After, \/ EnqueueRoom("stop") \/ EnqueueReload("stop") \/ EnqueueWrite("stop")
                \/ Signal("stop") \/ SignalPost("stop") \/ StopJoin
  PROVE  StillAfter
<1>1. /\ UNCHANGED << front, tail, slot, camera_stopped >>
      /\ pc'["proc"] = pc["proc"] /\ Places'
      /\ \/ /\ pc["stop"] = "room" /\ UNCHANGED << m_count, m_sema, localFront >>
            /\ pc'["stop"] = IF NextSlot(tail) # localFront THEN "write" ELSE "reload"
         \/ /\ pc["stop"] = "reload" /\ UNCHANGED << m_count, m_sema >>
            /\ pc'["stop"] = IF NextSlot(tail) # front THEN "write" ELSE "join"
         \/ /\ pc["stop"] = "write" /\ UNCHANGED << m_count, m_sema, localFront >>
            /\ pc'["stop"] = "publish"
         \/ /\ pc["stop"] = "signal" /\ m_count' = m_count + 1
            /\ UNCHANGED << m_sema, localFront >> /\ pc'["stop"] \in {"post", "join"}
         \/ /\ pc["stop"] = "post" /\ m_sema' = m_sema + 1
            /\ UNCHANGED << m_count, localFront >> /\ pc'["stop"] = "join"
         \/ /\ pc["stop"] = "join" /\ UNCHANGED << m_count, m_sema, localFront >>
            /\ pc'["stop"] = "done"
  <2> USE PlacesAfter DEF StopPlaces, EnqueuePlaces, Consumers, AfterEnqueue, block, sema, local
  <2>1. CASE EnqueueRoom("stop")
    BY <2>1 DEF EnqueueRoom
  <2>2. CASE EnqueueReload("stop")
    BY <2>2 DEF EnqueueReload
  <2>3. CASE EnqueueWrite("stop")
    BY <2>3 DEF EnqueueWrite
  <2>4. CASE Signal("stop")
    BY <2>4 DEF Signal
  <2>5. CASE SignalPost("stop")
    BY <2>5 DEF SignalPost
  <2>6. CASE StopJoin
    BY <2>6 DEF StopJoin
  <2> QED BY <2>1, <2>2, <2>3, <2>4, <2>5, <2>6
<1>2. /\ dist(front, tail)' = dist(front, tail)
      /\ dist(slot["proc"], tail)' = dist(slot["proc"], tail)
      /\ dist(slot["stop"], tail)' = dist(slot["stop"], tail)
      /\ NextSlot(tail)' = NextSlot(tail)
  BY <1>1 DEF dist, N, NextSlot
<1>3. LowerBound'
  BY <1>1, NumbersAfter DEF After, LowerBound, Waiting, Holds, one
<1>4. PostInv'
  BY <1>1, NumbersAfter DEF After, PostInv, one
<1>5. UpperBound'
  BY <1>1, <1>2, NumbersAfter
  DEF After, UpperBound, Units, Waiting, Holds, Taking, Published, one
<1>6. RoomInv'
  <2>1. Units' = Units \/ pc["stop"] = "signal"
    BY <1>1 DEF Units, Waiting, Holds
  <2>2. (Units >= 0 /\ NextSlot(tail) # localFront /\ pc["stop"] = "room") =>
          NextSlot(tail) # front
    <3>1. Units >= 0 /\ pc["stop"] = "room" => dist(front, tail) <= dist(localFront, tail)
      BY DEF After, RoomInv, Published
    <3>2. dist(front, tail) \in 0 .. N - 1 /\ dist(localFront, tail) \in 0 .. N - 1
      BY NumbersAfter, DistFacts
    <3>3. /\ NextSlot(tail) = front => dist(front, tail) = N - 1
          /\ dist(localFront, tail) = N - 1 => NextSlot(tail) = localFront
      BY NumbersAfter, DistFacts
    <3> QED BY <3>1, <3>2, <3>3, NumbersAfter
  <2> QED BY <1>1, <1>2, <2>1, <2>2, NumbersAfter DEF After, RoomInv, Taking, Published
<1> QED BY <1>1, <1>3, <1>4, <1>5, <1>6 DEF StillAfter

(* Every step once stop_camera() has begun.                                *)
LEMMA AfterStep ==
  ASSUME After, [QueueNext]_vars
  PROVE  StillAfter /\ camera_stopped'
<1>1. pc["control"] = "joined" /\ camera_stopped = TRUE
  BY DEF After, Places, FieldTypes
<1>2. camera_stopped'
  BY <1>1
  DEF QueueNext, Submit, EnqueueNext, EnqueueRoom, EnqueueReload, EnqueueWrite,
      EnqueuePublish, Signal, SignalPost, ProcNext, ProcLoop, DequeueNext, TryWait,
      TryWaitDecrement, DequeueLocalTail, DequeueFront, DequeueRetry, DequeueTake,
      DequeueCrash, DequeueClear, DequeueAdvance, DequeueEmpty, WaitCommit, WaitWoken, WaitRestore, WaitAgain, WaitTrySema,
      WaitTimeout, StopFlag, StopNext, StopJoin, Done, vars
<1>3. CASE EnqueueNext("control") \/ Submit \/ StopFlag
  BY <1>1, <1>3 DEF EnqueueNext, EnqueueRoom, EnqueueReload, EnqueueWrite, EnqueuePublish,
                    Signal, SignalPost, Submit, StopFlag, step
<1>4. CASE EnqueueNext("stop") \/ StopJoin
  BY <1>2, <1>4, EnqueueAfter, PublishAfter DEF EnqueueNext
<1>5. ASSUME NEW t \in Consumers, DequeueNext(t)
      PROVE  StillAfter
  BY <1>5, TryWaitAfter, FrontAfter, TakeAfter, AdvanceAfter DEF DequeueNext
<1>6. CASE WaitNext \/ ProcLoop
  BY <1>2, <1>6, WaitAfter
<1>7. CASE UNCHANGED vars
  <2> USE <1>7 DEF After, vars, block, sema
  <2>1. Places'
    BY DEF Places
  <2>2. LowerBound' /\ PostInv'
    BY DEF LowerBound, PostInv, Waiting, Holds
  <2>3. UpperBound'
    BY DistancesKept DEF UpperBound, Units, Waiting, Holds, Taking, Published
  <2>4. RoomInv'
    BY DistancesKept DEF RoomInv, Units, Waiting, Holds, Taking, Published
  <2> QED BY <1>2, <2>1, <2>2, <2>3, <2>4 DEF StillAfter
<1>8. "proc" \in Consumers /\ "stop" \in Consumers
  BY DEF Consumers
<1> QED BY <1>2, <1>3, <1>4, <1>5, <1>6, <1>7, <1>8, StepCases

-----------------------------------------------------------------------------
(* The invariant.                                                          *)

LEMMA QueueInvInit == QueueInit => QueueInv
<1> SUFFICES ASSUME QueueInit
             PROVE  QueueInv
  OBVIOUS
<1>1. 0 \in Slots /\ tail \in Slots /\ dist(0, 0) = 0
  BY SlotNumbers, BlockSize, DistFacts DEF QueueInit
<1>2. FieldTypes
  BY <1>1, QueueAssumption, EmptySeq
  DEF QueueInit, FieldTypes, Threads, ProcPlaces, Framesets
<1>3. Places /\ ~camera_stopped
  BY DEF QueueInit, Places, ProcPlaces, DequeuePlaces, Threads
<1>4. IndexInv /\ CountInv
  BY <1>1 DEF QueueInit, IndexInv, CountInv, Waiting, Holds, one, Threads
<1>5. SlotInv
  BY <1>1 DEF QueueInit, SlotInv, Threads
<1> QED BY <1>2, <1>3, <1>4, <1>5 DEF QueueInv, OneConsumer, TwoConsumers

LEMMA QueueInvStep == QueueInv /\ [QueueNext]_vars => QueueInv'
<1> SUFFICES ASSUME QueueInv, [QueueNext]_vars
             PROVE  QueueInv'
  OBVIOUS
<1>1. FieldTypes'
  BY FieldTypesStep DEF QueueInv
<1>2. CASE camera_stopped
  <2>1. StillAfter /\ camera_stopped'
    BY <1>2, AfterStep DEF QueueInv, TwoConsumers, After
  <2> QED BY <1>1, <2>1 DEF StillAfter, QueueInv, OneConsumer, TwoConsumers
<1>3. CASE ~camera_stopped
  <2>1. Before
    BY <1>3 DEF QueueInv, OneConsumer, Before
  <2>2. CASE StopFlag
    BY <1>1, <2>1, <2>2, FlagStep DEF StopFlag, QueueInv, OneConsumer, TwoConsumers
  <2>3. CASE ~StopFlag
    <3>1. ~camera_stopped'
      BY <1>3, <2>3
      DEF QueueNext, Submit, EnqueueNext, EnqueueRoom, EnqueueReload, EnqueueWrite,
          EnqueuePublish, Signal, SignalPost, ProcNext, ProcLoop, DequeueNext, TryWait,
          TryWaitDecrement, DequeueLocalTail, DequeueFront, DequeueRetry, DequeueTake,
          DequeueCrash, DequeueClear, DequeueAdvance, DequeueEmpty, WaitCommit, WaitWoken, WaitRestore, WaitAgain, WaitTrySema,
          WaitTimeout, StopNext, StopJoin, Done, vars
    <3> QED BY <1>1, <2>1, <3>1, BeforeStep DEF StillBefore, QueueInv, OneConsumer, TwoConsumers
  <2> QED BY <2>2, <2>3
<1> QED BY <1>2, <1>3

(* QueueInv is an invariant: the indices, their copies, the slots and the  *)
(* semaphore agree in every interleaving of the three threads.             *)
THEOREM QueueInvariant == QueueSpec => []QueueInv
  BY QueueInvInit, QueueInvStep, PTL DEF QueueSpec

(* Two consumers cannot bring the count below -1, nor leave more than a    *)
(* second post, nor an index outside the block.                            *)
THEOREM QueueTypeCorrect == QueueSpec => []QueueTypeOK
<1>1. QueueInv => QueueTypeOK
  <2> SUFFICES ASSUME QueueInv
               PROVE  QueueTypeOK
    OBVIOUS
  <2>1. FieldTypes
    BY DEF QueueInv
  <2>2. dist(front, tail) \in 0 .. N - 1 /\ N \in Nat /\ Capacity = N - 1
    BY <2>1, IndexRange DEF Capacity, N
  <2>3. m_count \in -1 .. Capacity /\ m_sema \in 0 .. 2
    <3>1. m_count \in Int /\ m_sema \in Nat
      BY <2>1 DEF FieldTypes
    <3>2. CASE camera_stopped
      BY <2>2, <3>1, <3>2
      DEF QueueInv, TwoConsumers, LowerBound, UpperBound, Units, PostInv, one
    <3>3. CASE ~camera_stopped
      BY <2>2, <3>1, <3>3 DEF QueueInv, OneConsumer, CountInv, one
    <3> QED BY <3>2, <3>3
  <2>4. pc \in [Threads ->
          {"idle", "room", "reload", "write", "publish", "signal", "post", "joined", "loop",
           "wait", "decrement", "commit", "sleep", "restore", "again", "trySema", "localTail",
           "front", "retry", "take", "clear", "advance", "empty", "crash", "exit", "join",
           "done"}]
    <3>1. StopPlaces \cup ProcPlaces \cup {"idle", "joined"} \subseteq
            {"idle", "room", "reload", "write", "publish", "signal", "post", "joined", "loop",
             "wait", "decrement", "commit", "sleep", "restore", "again", "trySema", "localTail",
             "front", "retry", "take", "clear", "advance", "empty", "crash", "exit", "join",
             "done"}
      BY DEF StopPlaces, ProcPlaces, EnqueuePlaces, DequeuePlaces
    <3> HIDE DEF StopPlaces, ProcPlaces
    <3> QED BY <2>1, <3>1 DEF FieldTypes
  <2> QED BY <2>1, <2>3, <2>4 DEF FieldTypes, QueueTypeOK
<1> QED BY <1>1, QueueInvariant, PTL

-----------------------------------------------------------------------------
(* The elements, as a sequence.                                            *)
Position(f, i) == (f + i - 1) % N
Elements(f, t, d) == [i \in 1 .. dist(f, t) |-> d[Position(f, i)]]
contents == [s \in Slots |-> content(s)]

LEMMA PositionFacts ==
  ASSUME NEW f \in Slots, NEW t \in Slots
  PROVE  /\ \A i \in 1 .. dist(f, t) :
              /\ Position(f, i) \in Slots
              /\ dist(Position(f, i), t) = dist(f, t) - i + 1
              /\ Position(f, i) # t
         /\ Position(f, dist(f, t) + 1) = t
         /\ Position(f, 1) = f
         /\ \A i \in 1 .. dist(f, t) - 1 : Position(NextSlot(f), i) = Position(f, i + 1)
<1>1. f \in 0 .. N - 1 /\ t \in 0 .. N - 1 /\ N \in Nat /\ N >= 2
  BY BlockSize, SlotNumbers
<1>2. dist(f, t) \in 0 .. N - 1 /\ dist(f, t) = IF f <= t THEN t - f ELSE t - f + N
  BY DistFacts, DistCases
<1>3. ASSUME NEW g \in 0 .. N - 1, NEW i \in 1 .. N
      PROVE  Position(g, i) = IF g + i - 1 < N THEN g + i - 1 ELSE g + i - 1 - N
  <2>1. g + i - 1 \in 0 .. 2 * N - 1
    BY <1>1
  <2>2. CASE g + i - 1 < N
    BY <1>1, <2>1, <2>2 DEF Position
  <2>3. CASE g + i - 1 >= N
    BY <1>1, <2>1, <2>3 DEF Position
  <2> QED BY <1>1, <2>2, <2>3
<1>4. ASSUME NEW i \in 1 .. dist(f, t)
      PROVE  /\ Position(f, i) \in Slots
             /\ dist(Position(f, i), t) = dist(f, t) - i + 1
             /\ Position(f, i) # t
  <2>1. Position(f, i) \in 0 .. N - 1
    BY <1>1, <1>2, <1>3
  <2>2. dist(Position(f, i), t) =
          IF Position(f, i) <= t THEN t - Position(f, i) ELSE t - Position(f, i) + N
    BY <2>1, SlotNumbers, DistCases
  <2>3. Position(f, i) = IF f + i - 1 < N THEN f + i - 1 ELSE f + i - 1 - N
    BY <1>1, <1>2, <1>3
  <2>4. dist(Position(f, i), t) = dist(f, t) - i + 1
    BY <1>1, <1>2, <2>1, <2>2, <2>3
  <2>5. Position(f, i) # t
    BY <1>1, <1>2, <2>1, <2>2, <2>4
  <2> QED BY <2>1, <2>4, <2>5, SlotNumbers
<1>5. Position(f, dist(f, t) + 1) = t
  BY <1>1, <1>2, <1>3
<1>6. Position(f, 1) = f
  BY <1>1, <1>3
<1>7. ASSUME NEW i \in 1 .. dist(f, t) - 1
      PROVE  Position(NextSlot(f), i) = Position(f, i + 1)
  <2>1. NextSlot(f) \in 0 .. N - 1 /\ NextSlot(f) = IF f + 1 = N THEN 0 ELSE f + 1
    BY NextCases, SlotNumbers
  <2>2. i \in 1 .. N /\ i + 1 \in 1 .. N
    BY <1>1, <1>2
  <2> QED BY <1>1, <1>3, <2>1, <2>2
<1> QED BY <1>4, <1>5, <1>6, <1>7

LEMMA ElementsInBlockAre ==
  ASSUME front \in Slots, tail \in Slots
  PROVE  ElementsInBlock = Elements(front, tail, contents)
<1>1. ElementsInBlock = [i \in 1 .. dist(front, tail) |-> content(Position(front, i))]
  BY DEF ElementsInBlock, Position, dist, N
<1>2. \A i \in 1 .. dist(front, tail) : contents[Position(front, i)] = content(Position(front, i))
  BY PositionFacts DEF contents
<1> QED BY <1>1, <1>2 DEF Elements

(* The slots from f up to t hold framesets.                                *)
Filled(f, t, d) == \A s \in Slots : dist(s, t) \in 1 .. dist(f, t) => d[s] \in Framesets

LEMMA ElementsFacts ==
  ASSUME NEW f \in Slots, NEW t \in Slots, NEW d, Filled(f, t, d)
  PROVE  /\ Elements(f, t, d) \in Seq(Framesets)
         /\ Len(Elements(f, t, d)) = dist(f, t)
         /\ \A i \in 1 .. dist(f, t) : Elements(f, t, d)[i] = d[Position(f, i)]
<1>1. dist(f, t) \in Nat
  BY DistFacts, BlockSize
<1>2. ASSUME NEW i \in 1 .. dist(f, t)
      PROVE  d[Position(f, i)] \in Framesets
  <2>1. /\ Position(f, i) \in Slots
        /\ dist(Position(f, i), t) = dist(f, t) - i + 1
    BY PositionFacts
  <2>2. dist(f, t) - i + 1 \in 1 .. dist(f, t)
    BY <1>1
  <2> QED BY <2>1, <2>2 DEF Filled
<1> QED BY <1>1, <1>2 DEF Elements

LEMMA AppendedElement ==
  ASSUME NEW f \in Slots, NEW t \in Slots, NEW d, NextSlot(t) # f,
         Filled(f, t, d), Filled(f, NextSlot(t), d), d[t] \in Framesets
  PROVE  Elements(f, NextSlot(t), d) = Append(Elements(f, t, d), d[t])
<1> DEFINE old == Elements(f, t, d)
           new == Elements(f, NextSlot(t), d)
<1>1. dist(f, t) \in Nat /\ dist(f, NextSlot(t)) = dist(f, t) + 1 /\ NextSlot(t) \in Slots
  BY DistFacts, BlockSize, NextCases
<1>2. /\ old \in Seq(Framesets) /\ Len(old) = dist(f, t)
      /\ \A i \in 1 .. dist(f, t) : old[i] = d[Position(f, i)]
  BY ElementsFacts
<1>3. /\ new \in Seq(Framesets) /\ Len(new) = dist(f, NextSlot(t))
      /\ \A i \in 1 .. dist(f, NextSlot(t)) : new[i] = d[Position(f, i)]
  BY <1>1, ElementsFacts
<1>4. Position(f, dist(f, t) + 1) = t
  BY PositionFacts
<1> HIDE DEF old, new
<1>5. /\ Append(old, d[t]) \in Seq(Framesets)
      /\ Len(Append(old, d[t])) = Len(old) + 1
      /\ \A i \in 1 .. Len(old) : Append(old, d[t])[i] = old[i]
      /\ Append(old, d[t])[Len(old) + 1] = d[t]
  BY <1>2, AppendProperties
<1>6. ASSUME NEW i \in 1 .. Len(new)
      PROVE  new[i] = Append(old, d[t])[i]
  <2>1. i \in 1 .. dist(f, t) \/ i = dist(f, t) + 1
    BY <1>1, <1>3
  <2> QED BY <1>1, <1>2, <1>3, <1>4, <1>5, <2>1
<1>7. new = Append(old, d[t])
  BY <1>1, <1>2, <1>3, <1>5, <1>6, SeqEqual
<1> QED BY <1>7 DEF old, new

LEMMA RemovedElement ==
  ASSUME NEW f \in Slots, NEW t \in Slots, NEW d, f # t,
         Filled(f, t, d), Filled(NextSlot(f), t, d)
  PROVE  /\ Elements(f, t, d) # << >>
         /\ Head(Elements(f, t, d)) = d[f]
         /\ Elements(NextSlot(f), t, d) = Tail(Elements(f, t, d))
<1> DEFINE old == Elements(f, t, d)
           new == Elements(NextSlot(f), t, d)
<1>1. /\ dist(f, t) \in Nat /\ dist(f, t) # 0
      /\ dist(NextSlot(f), t) = dist(f, t) - 1 /\ NextSlot(f) \in Slots
  BY DistFacts, BlockSize, NextCases
<1>2. /\ old \in Seq(Framesets) /\ Len(old) = dist(f, t)
      /\ \A i \in 1 .. dist(f, t) : old[i] = d[Position(f, i)]
  BY ElementsFacts
<1>3. /\ new \in Seq(Framesets) /\ Len(new) = dist(f, t) - 1
      /\ \A i \in 1 .. dist(f, t) - 1 : new[i] = d[Position(NextSlot(f), i)]
  BY <1>1, ElementsFacts
<1>4. /\ Position(f, 1) = f
      /\ \A i \in 1 .. dist(f, t) - 1 : Position(NextSlot(f), i) = Position(f, i + 1)
  BY PositionFacts
<1> HIDE DEF old, new
<1>5. old # << >> /\ Head(old) = d[f]
  <2>1. old # << >> /\ 1 \in 1 .. dist(f, t)
    BY <1>1, <1>2, EmptySeq
  <2>2. Head(old) = old[1]
    BY <1>2, <2>1
  <2> QED BY <1>2, <1>4, <2>1, <2>2
<1>6. /\ Tail(old) \in Seq(Framesets) /\ Len(Tail(old)) = Len(old) - 1
      /\ \A i \in 1 .. Len(Tail(old)) : Tail(old)[i] = old[i + 1]
  BY <1>2, <1>5, HeadTailProperties
<1>7. ASSUME NEW i \in 1 .. Len(new)
      PROVE  new[i] = Tail(old)[i]
  <2>1. i \in 1 .. dist(f, t) - 1 /\ i + 1 \in 1 .. dist(f, t)
    BY <1>1, <1>3
  <2> QED BY <1>2, <1>3, <1>4, <1>6, <2>1
<1>8. new = Tail(old)
  BY <1>2, <1>3, <1>6, <1>7, SeqEqual
<1> QED BY <1>5, <1>8 DEF old, new

(* What is outside the block does not matter.                              *)
LEMMA SameElements ==
  ASSUME NEW f \in Slots, NEW t \in Slots, NEW d, NEW e,
         \A s \in Slots : s # t => e[s] = d[s]
  PROVE  Elements(f, t, e) = Elements(f, t, d)
<1>1. \A i \in 1 .. dist(f, t) : e[Position(f, i)] = d[Position(f, i)]
  BY PositionFacts
<1> QED BY <1>1 DEF Elements

(* Until stop_camera() begins, every element has its unit and every        *)
(* sleeper that was signalled its post.                                    *)
THEOREM ElementsAreCounted == QueueSpec => []SemaphoreCountsElements
<1>1. QueueInv => SemaphoreCountsElements
  <2> SUFFICES ASSUME QueueInv, ~camera_stopped
               PROVE  SemaphoreCountsElements
    BY DEF SemaphoreCountsElements
  <2>1. Len(ElementsInBlock) = dist(front, tail)
    <3>1. front \in Slots /\ tail \in Slots /\ Filled(front, tail, contents)
      BY DEF QueueInv, OneConsumer, SlotInv, FieldTypes, Filled, contents
    <3> QED BY <3>1, ElementsInBlockAre, ElementsFacts
  <2>2. CountInv
    BY DEF QueueInv, OneConsumer
  <2>3. /\ one(pc["proc"] \in {"localTail", "front", "retry", "take", "clear", "advance"}) =
             one(Holds("proc"))
        /\ one(pc["control"] \in {"signal"}) = one(pc["control"] = "signal")
        /\ one(pc["control"] \in {"post"}) = one(pc["control"] = "post")
    BY DEF Holds, one
  <2> QED BY <2>1, <2>2, <2>3 DEF CountInv, SemaphoreCountsElements, Waiting
<1> QED BY <1>1, QueueInvariant, PTL

-----------------------------------------------------------------------------
(* Refinement of the bounded queue.                                        *)

LEMMA FIFOInit == QueueInit => FIFO!Init
<1> SUFFICES ASSUME QueueInit
             PROVE  FIFO!Init
  OBVIOUS
<1>1. QueueInv
  BY QueueInvInit
<1>2. /\ ElementsInBlock = Elements(front, tail, contents)
      /\ Filled(front, tail, contents) /\ front \in Slots /\ tail \in Slots
  <2>1. front \in Slots /\ tail \in Slots /\ Filled(front, tail, contents)
    BY <1>1 DEF QueueInit, QueueInv, OneConsumer, SlotInv, FieldTypes, Filled, contents
  <2> QED BY <2>1, ElementsInBlockAre
<1>3. dist(front, tail) = 0
  BY <1>2, DistFacts DEF QueueInit
<1>4. ElementsInBlock = << >>
  <2>1. ElementsInBlock \in Seq(Framesets) /\ Len(ElementsInBlock) = 0
    BY <1>2, <1>3, ElementsFacts
  <2> QED BY <2>1, EmptySeq
<1> QED BY <1>4 DEF QueueInit, FIFO!Init

(* The indices are in the block and it is filled between them.             *)
LEMMA FilledBefore ==
  ASSUME Before
  PROVE  /\ front \in Slots /\ tail \in Slots
         /\ Filled(front, tail, contents)
         /\ ElementsInBlock = Elements(front, tail, contents)
<1>1. front \in Slots /\ tail \in Slots
  BY DEF Before, FieldTypes
<1>2. Filled(front, tail, contents)
  BY DEF Before, SlotInv, Filled, contents
<1> QED BY <1>1, <1>2, ElementsInBlockAre

LEMMA FilledAfterwards ==
  ASSUME StillBefore, FieldTypes'
  PROVE  /\ front' \in Slots /\ tail' \in Slots
         /\ Filled(front', tail', contents')
         /\ ElementsInBlock' = Elements(front', tail', contents')
<1>1. front' \in Slots /\ tail' \in Slots
  BY DEF FieldTypes
<1>2. Filled(front', tail', contents')
  BY DEF StillBefore, SlotInv, Filled, contents, dist, N
<1> DEFINE held(s) == IF pc'["proc"] = "advance" /\ s = slot'["proc"]
                      THEN element'["proc"] ELSE data'[s]
<1>3. ElementsInBlock' = [i \in 1 .. dist(front', tail') |-> held(Position(front', i))]
  BY DEF ElementsInBlock, Position, dist, N, content
<1>4. contents' = [s \in Slots |-> held(s)]
  BY DEF contents, content, Slots
<1>5. ElementsInBlock' = Elements(front', tail', contents')
  <2>1. \A i \in 1 .. dist(front', tail') : Position(front', i) \in Slots
    BY <1>1, PositionFacts
  <2> HIDE DEF held
  <2>2. \A i \in 1 .. dist(front', tail') :
          contents'[Position(front', i)] = held(Position(front', i))
    BY <1>4, <2>1
  <2> QED BY <1>3, <2>2 DEF Elements
<1> QED BY <1>1, <1>2, <1>5

(* The steps that change the sequence, or what came out of it.             *)
LEMMA PublishEnqueues ==
  ASSUME Before, StillBefore, FieldTypes', EnqueuePublish("control")
  PROVE  \E e \in Framesets : FIFO!Enqueue(e)
<1>1. /\ front' = front /\ tail' = NextSlot(tail) /\ data' = data
      /\ given' = given /\ camera_stopped' = camera_stopped
      /\ slot' = slot /\ element' = element
      /\ pc["control"] = "publish" /\ pc'["proc"] = pc["proc"]
  BY DEF EnqueuePublish, step, ghost, local, Before, FieldTypes, Threads
<1>2. front \in Slots /\ tail \in Slots /\ data[tail] \in Framesets
  BY <1>1 DEF Before, FieldTypes, SlotInv
<1>3. contents' = contents
  BY <1>1 DEF contents, content
<1>4. contents[tail] = data[tail]
  <2>1. pc["proc"] = "advance" => slot["proc"] = front /\ front # tail
    BY HeldElement DEF Holds, Taking, Before, IndexInv
  <2> QED BY <1>2, <2>1 DEF contents, content
<1>5. dist(front, tail) < Capacity /\ NextSlot(tail) # front
  <2>1. dist(front, tail) <= dist(localFront, tail) /\ NextSlot(tail) # localFront
    BY <1>1 DEF Before, IndexInv
  <2>2. /\ dist(front, tail) \in 0 .. N - 1 /\ dist(localFront, tail) \in 0 .. N - 1
        /\ dist(localFront, tail) # N - 1 /\ N \in Nat
        /\ NextSlot(tail) = front => dist(front, tail) = N - 1
    BY <2>1, DistFacts, BlockSize DEF Before, FieldTypes
  <2>3. Capacity = N - 1
    BY DEF Capacity, N
  <2> QED BY <2>1, <2>2, <2>3
<1>6. ElementsInBlock' = Append(ElementsInBlock, data[tail])
  BY <1>1, <1>2, <1>3, <1>4, <1>5, FilledBefore, FilledAfterwards, AppendedElement
<1>7. Len(ElementsInBlock) = dist(front, tail)
  BY FilledBefore, ElementsFacts
<1> QED BY <1>1, <1>2, <1>5, <1>6, <1>7 DEF FIFO!Enqueue, Before

LEMMA AdvanceDequeues ==
  ASSUME Before, StillBefore, FieldTypes', DequeueAdvance("proc")
  PROVE  FIFO!Dequeue
<1>1. /\ pc["proc"] = "advance" /\ slot["proc"] = front
      /\ element["proc"] = content(front) /\ content(front) \in Framesets
  BY AdvanceBefore DEF DequeueAdvance, step, Before, IndexInv, Taking
<1>2. /\ front' = NextSlot(front) /\ tail' = tail /\ data' = data
      /\ slot' = slot /\ element' = element
      /\ given' = Append(given, content(front)) /\ camera_stopped' = camera_stopped
  <2>1. element["proc"] # Null
    BY <1>1 DEF Framesets, Null
  <2> QED BY <1>1, <2>1 DEF DequeueAdvance, local
<1>3. front \in Slots /\ tail \in Slots /\ front # tail
  BY <1>1, HeldElement DEF Before, FieldTypes, Holds
<1>4. \A s \in Slots : s # front => contents'[s] = contents[s]
  BY <1>1, <1>2 DEF contents, content
<1>5. Filled(NextSlot(front), tail, contents)
  <2>1. ASSUME NEW s \in Slots, dist(s, tail) \in 1 .. dist(NextSlot(front), tail)
        PROVE  contents[s] \in Framesets
    <3>1. s # front
      BY <1>3, <2>1, DistFacts, BlockSize, NextCases
    <3> QED BY <1>2, <1>4, <2>1, <3>1, FilledAfterwards DEF Filled
  <2> QED BY <2>1 DEF Filled
<1>6. ElementsInBlock' = Elements(NextSlot(front), tail, contents)
  <2>1. \A i \in 1 .. dist(NextSlot(front), tail) : Position(NextSlot(front), i) # front
    <3>1. ASSUME NEW i \in 1 .. dist(NextSlot(front), tail)
          PROVE  Position(NextSlot(front), i) # front
      <4>1. dist(Position(NextSlot(front), i), tail) = dist(NextSlot(front), tail) - i + 1
        BY <1>3, NextCases, PositionFacts
      <4>2. /\ dist(NextSlot(front), tail) = dist(front, tail) - 1
            /\ dist(front, tail) \in Nat
        BY <1>3, DistFacts, BlockSize
      <4> QED BY <4>1, <4>2
    <3> QED BY <3>1
  <2>2. \A i \in 1 .. dist(NextSlot(front), tail) :
          contents'[Position(NextSlot(front), i)] = contents[Position(NextSlot(front), i)]
    BY <1>3, <1>4, <2>1, NextCases, PositionFacts
  <2>3. ElementsInBlock' = Elements(NextSlot(front), tail, contents')
    BY <1>2, FilledAfterwards
  <2> QED BY <2>2, <2>3 DEF Elements
<1>7. contents[front] = content(front)
  BY <1>3 DEF contents
<1>8. /\ ElementsInBlock # << >> /\ Head(ElementsInBlock) = content(front)
      /\ ElementsInBlock' = Tail(ElementsInBlock)
  BY <1>3, <1>5, <1>6, <1>7, FilledBefore, RemovedElement
<1> QED BY <1>2, <1>8 DEF FIFO!Dequeue, Before

(* The others.                                                             *)
LEMMA SameSequence ==
  ASSUME UNCHANGED << front, tail, data >>, ~Taking("proc"), pc'["proc"] # "advance"
  PROVE  ElementsInBlock' = ElementsInBlock
  BY DEF ElementsInBlock, content, Taking

LEMMA SameSequenceElsewhere ==
  ASSUME UNCHANGED << front, tail, data, slot >>, element'["proc"] = element["proc"],
         pc'["proc"] = pc["proc"]
  PROVE  ElementsInBlock' = ElementsInBlock
  BY DEF ElementsInBlock, content

LEMMA WriteKeepsSequence ==
  ASSUME Before, StillBefore, FieldTypes', EnqueueWrite("control")
  PROVE  UNCHANGED << ElementsInBlock, given, camera_stopped >>
<1>1. /\ front' = front /\ tail' = tail /\ given' = given /\ camera_stopped' = camera_stopped
      /\ \A s \in Slots : s # tail => contents'[s] = contents[s]
  BY DEF EnqueueWrite, step, Before, FieldTypes, ghost, local, contents, content, Threads
<1> QED BY <1>1, SameElements, FilledBefore, FilledAfterwards

LEMMA MoveKeepsSequence ==
  ASSUME Before, StillBefore, FieldTypes', DequeueTake("proc") \/ DequeueClear("proc")
  PROVE  UNCHANGED << ElementsInBlock, given, camera_stopped >>
<1>1. front' = front /\ tail' = tail /\ given' = given /\ camera_stopped' = camera_stopped
  BY DEF DequeueTake, DequeueClear, block, ghost
<1>2. \A s \in Slots : contents'[s] = contents[s]
  BY MoveBefore DEF contents
<1> QED BY <1>1, <1>2, SameElements, FilledBefore, FilledAfterwards

LEMMA FIFOStep ==
  ASSUME QueueInv, QueueInv', [QueueNext]_vars
  PROVE  [FIFO!Next]_<< ElementsInBlock, given, camera_stopped >>
<1>1. CASE camera_stopped'
  <2>1. camera_stopped' = TRUE
    BY <1>1 DEF QueueInv, FieldTypes
  <2> QED BY <2>1 DEF FIFO!Next, FIFO!Close
<1>2. CASE ~camera_stopped'
  <2>1. Before
    <3>1. ~camera_stopped
      BY <1>2, AfterStep DEF QueueInv, TwoConsumers, After
    <3> QED BY <3>1 DEF QueueInv, OneConsumer, Before
  <2>2. StillBefore /\ FieldTypes'
    BY <1>2, <2>1, BeforeStep DEF QueueInv
  <2>3. CASE EnqueueNext("control")
    <3>1. CASE EnqueuePublish("control")
      BY <2>1, <2>2, <3>1, PublishEnqueues DEF FIFO!Next
    <3>2. CASE EnqueueWrite("control")
      BY <2>1, <2>2, <3>2, WriteKeepsSequence
    <3>3. CASE \/ EnqueueRoom("control") \/ EnqueueReload("control")
               \/ Signal("control") \/ SignalPost("control")
      BY <2>1, <3>3, SameSequenceElsewhere
      DEF EnqueueRoom, EnqueueReload, Signal, SignalPost, step, Before, FieldTypes, Threads,
          block, local, ghost
    <3> QED BY <2>3, <3>1, <3>2, <3>3 DEF EnqueueNext
  <2>4. CASE DequeueNext("proc")
    <3>1. CASE DequeueAdvance("proc")
      BY <2>1, <2>2, <3>1, AdvanceDequeues DEF FIFO!Next
    <3>2. CASE DequeueTake("proc") \/ DequeueClear("proc")
      BY <2>1, <2>2, <3>2, MoveKeepsSequence
    <3>3. CASE \/ TryWait("proc") \/ TryWaitDecrement("proc") \/ DequeueLocalTail("proc")
               \/ DequeueFront("proc") \/ DequeueEmpty("proc")
      <4>1. ~Taking("proc") /\ pc'["proc"] # "advance"
        BY <2>1, <3>3
        DEF TryWait, TryWaitDecrement, DequeueLocalTail, DequeueFront, DequeueEmpty,
            AfterDequeue, step, Taking, Before, FieldTypes, Threads
      <4> QED BY <3>3, <4>1, SameSequence
              DEF TryWait, TryWaitDecrement, DequeueLocalTail, DequeueFront, DequeueEmpty,
                  block, ghost
    <3>4. CASE DequeueRetry("proc")
      <4>1. /\ pc["proc"] # "advance" /\ pc'["proc"] # "advance"
            /\ UNCHANGED << front, tail, data, given, camera_stopped >>
        BY <2>1, <3>4 DEF DequeueRetry, step, Before, FieldTypes, Threads, ghost
      <4> QED BY <4>1 DEF ElementsInBlock, content
    <3> QED BY <2>1, <2>4, <3>1, <3>2, <3>3, <3>4, NoCrashBefore DEF DequeueNext
  <2>5. CASE EnqueueNext("stop") \/ DequeueNext("stop") \/ StopJoin
    <3>1. pc["stop"] = "idle"
      BY <2>1 DEF Before, Places, FieldTypes
    <3> QED BY <2>5, <3>1
            DEF EnqueueNext, EnqueueRoom, EnqueueReload, EnqueueWrite, EnqueuePublish,
                Signal, SignalPost, DequeueNext, TryWait, TryWaitDecrement,
                DequeueLocalTail, DequeueFront, DequeueRetry, DequeueTake, DequeueCrash,
                DequeueClear, DequeueAdvance, DequeueEmpty, StopJoin, step
  <2>6. CASE WaitNext \/ ProcLoop
    <3>1. ~Taking("proc") /\ pc'["proc"] # "advance"
      BY <2>1, <2>6
      DEF WaitNext, WaitCommit, WaitWoken, WaitTimeout, WaitRestore, WaitAgain, WaitTrySema,
          ProcLoop, step, Taking, Before, FieldTypes, Threads
    <3> QED BY <2>6, <3>1, SameSequence
            DEF WaitNext, WaitCommit, WaitWoken, WaitTimeout, WaitRestore, WaitAgain,
                WaitTrySema, ProcLoop, block, ghost
  <2>7. CASE Submit
    BY <2>1, <2>7, SameSequenceElsewhere
    DEF Submit, step, Before, FieldTypes, Threads, block
  <2>8. CASE StopFlag
    BY <1>2, <2>8 DEF StopFlag
  <2>9. CASE UNCHANGED vars
    BY <2>9, SameSequenceElsewhere DEF vars, block
  <2> QED BY <2>3, <2>4, <2>5, <2>6, <2>7, <2>8, <2>9, StepCases
<1> QED BY <1>1, <1>2

(* As long as one thread enqueues and one dequeues, nothing is lost,       *)
(* doubled or out of order, although both judge by stale copies of the     *)
(* other's index, and although the waiter may give up at any moment.       *)
THEOREM QueueIsBoundedFIFO == QueueSpec => IsBoundedFIFO
  BY FIFOInit, FIFOStep, QueueInvariant, PTL DEF QueueSpec, IsBoundedFIFO, FIFO!Spec, FIFO!fifo

(* As long as there is one consumer, and however its waits time out, the   *)
(* assertion after inner.try_dequeue() holds, and what the consumer moves  *)
(* from is an element that nobody else moves from.                         *)
THEOREM DequeueSucceedsUntilStop ==
  QueueSpec => [](~camera_stopped => DequeueSucceeds /\ ~crashed)
<1>1. QueueInv => (~camera_stopped => DequeueSucceeds /\ ~crashed)
  BY DEF QueueInv, Places, EnqueuePlaces, Threads, DequeueSucceeds, crashed
<1> QED BY <1>1, QueueInvariant, PTL
=============================================================================
