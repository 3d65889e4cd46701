-------------------------- MODULE OrbbecBaseCamera --------------------------
(***************************************************************************)
(* The streaming half of src/OrbbecBaseCamera.hpp: every camera owns a     *)
(* one-element queue of framesets, a processing thread that turns a        *)
(* frameset into a point cloud, and the flag/condition variable by which   *)
(* the capturer learns that the point cloud is ready.                      *)
(*                                                                         *)
(* Three threads touch a camera object:                                    *)
(*   - the capturer's control thread, which captures a frameset, submits   *)
(*     it to the queue and waits for the result (WaitForCapturedFrameset,  *)
(*     ProcessPointcloudFromFrameset, WaitForPointcloudProcessed);         *)
(*   - the camera's own processing thread (the Proc... actions);           *)
(*   - the application thread that runs stop_camera() (the Stop... ones).  *)
(*                                                                         *)
(* The specification CamSpec leaves the first and the third free to call   *)
(* at any moment the capturer's protocol allows: never two submissions     *)
(* without a wait between them, and nothing after stop_camera() began.     *)
(* OrbbecBaseCapture.tla shows that the capturer keeps to that protocol.   *)
(*                                                                         *)
(* processing_frame_queue is an atomic bounded queue here; what lies behind*)
(* it is in ProcessingFrameQueue.tla.                                      *)
(***************************************************************************)
EXTENDS Naturals, Sequences

CONSTANTS
  NumCameras,   \* size of the cameras vector
  FrameKinds,   \* what framesets the SDK delivers
  MaxFrames     \* bound: number of framesets a recording holds

ASSUME CameraAssumption ==
  /\ NumCameras \in Nat \ {0}
  /\ FrameKinds \subseteq {"complete", "no_color", "no_depth"}
  /\ MaxFrames \in Nat

Cameras == 1 .. NumCameras

(***************************************************************************)
(* A frameset is known by the capture cycle it belongs to and by the       *)
(* images it carries.  NoFrame is the null shared_ptr.                     *)
(***************************************************************************)
Frames  == [seq : 1 .. MaxFrames, kind : FrameKinds]
NoFrame == [seq |-> 0, kind |-> "none"]

VARIABLES
  stopPC,            \* progress of stop_camera(): "up" while the camera streams
  pipeline_running,  \* camera_started and camera_pipeline non-null
  processing_frame_queue,
  current_captured_frameset,
  current_processed_frameset,
  current_pcl_pointcloud,  \* the frameset the current cloud was made from
  processing_done,
  procPC,            \* the processing thread's position
  procFrame,         \* its local variable processing_frameset
  owed,              \* history: submitted, and the result not yet awaited
  submitted          \* history: the frameset submitted last

camVars == << stopPC, pipeline_running, processing_frame_queue,
              current_captured_frameset, current_processed_frameset,
              current_pcl_pointcloud, processing_done, procPC, procFrame,
              owed, submitted >>

(* camera_stopped is set by the first statement of stop_camera() and       *)
(* cleared by start_camera_streaming().                                    *)
camera_stopped(c) == stopPC[c] # "up"

(* processing_mutex is held across steps only by the processing thread.    *)
processing_mutex_free(c) == procPC[c] # "process"

(* try_enqueue() on a queue constructed with capacity 1.                   *)
TryEnqueue(q, f) == IF q = << >> THEN << f >> ELSE q

CamInit ==
  /\ stopPC = [c \in Cameras |-> "down"]
  /\ pipeline_running = [c \in Cameras |-> FALSE]
  /\ processing_frame_queue = [c \in Cameras |-> << >>]
  /\ current_captured_frameset = [c \in Cameras |-> NoFrame]
  /\ current_processed_frameset = [c \in Cameras |-> NoFrame]
  /\ current_pcl_pointcloud = [c \in Cameras |-> NoFrame]
  /\ processing_done = [c \in Cameras |-> FALSE]
  /\ procPC = [c \in Cameras |-> "none"]
  /\ procFrame = [c \in Cameras |-> NoFrame]
  /\ owed = [c \in Cameras |-> FALSE]
  /\ submitted = [c \in Cameras |-> NoFrame]

-----------------------------------------------------------------------------
(* start() creates new camera objects, starts every pipeline and then      *)
(* every processing thread.                                                *)
StartAllCameras ==
  /\ \A c \in Cameras : stopPC[c] = "down"
  /\ stopPC' = [c \in Cameras |-> "up"]
  /\ pipeline_running' = [c \in Cameras |-> TRUE]
  /\ processing_frame_queue' = [c \in Cameras |-> << >>]
  /\ current_captured_frameset' = [c \in Cameras |-> NoFrame]
  /\ current_processed_frameset' = [c \in Cameras |-> NoFrame]
  /\ current_pcl_pointcloud' = [c \in Cameras |-> NoFrame]
  /\ processing_done' = [c \in Cameras |-> FALSE]
  /\ procPC' = [c \in Cameras |-> "loop"]
  /\ procFrame' = [c \in Cameras |-> NoFrame]
  /\ owed' = [c \in Cameras |-> FALSE]
  /\ submitted' = [c \in Cameras |-> NoFrame]

-----------------------------------------------------------------------------
(* The control thread.                                                     *)

(* waitForFrameset() returned f, or nothing within its timeout (NoFrame,   *)
(* the return value 0).                                                    *)
WaitForCapturedFrameset(c, f) ==
  /\ IF camera_stopped(c) \/ ~pipeline_running[c]
     THEN f = NoFrame /\ UNCHANGED current_captured_frameset
     ELSE current_captured_frameset' = [current_captured_frameset EXCEPT ![c] = f]
  /\ UNCHANGED << stopPC, pipeline_running, processing_frame_queue,
                  current_processed_frameset, current_pcl_pointcloud,
                  processing_done, procPC, procFrame, owed, submitted >>

(* Hand the captured frameset to the processing thread.  A full queue      *)
(* drops it.  The code asserts that there is a frameset.                   *)
ProcessPointcloudFromFrameset(c) ==
  LET f == current_captured_frameset[c] IN
  /\ f # NoFrame
  /\ processing_frame_queue' =
       [processing_frame_queue EXCEPT ![c] = TryEnqueue(@, f)]
  /\ current_captured_frameset' =
       [current_captured_frameset EXCEPT ![c] = NoFrame]
  /\ owed' = [owed EXCEPT ![c] = TRUE]
  /\ submitted' = [submitted EXCEPT ![c] = f]
  /\ UNCHANGED << stopPC, pipeline_running, current_processed_frameset,
                  current_pcl_pointcloud, processing_done, procPC, procFrame >>

(* Mutants: processing_done is not reset; the wait gives up.               *)
WaitForPointcloudProcessed_NoReset(c) ==
  /\ processing_mutex_free(c)
  /\ processing_done[c]
  /\ owed' = [owed EXCEPT ![c] = FALSE]
  /\ UNCHANGED << stopPC, pipeline_running, processing_frame_queue,
                  current_captured_frameset, current_processed_frameset,
                  current_pcl_pointcloud, processing_done, procPC, procFrame, submitted >>

WaitForPointcloudProcessed_Timed(c) ==
  /\ processing_mutex_free(c)
  /\ processing_done' = [processing_done EXCEPT ![c] = FALSE]
  /\ owed' = [owed EXCEPT ![c] = FALSE]
  /\ UNCHANGED << stopPC, pipeline_running, processing_frame_queue,
                  current_captured_frameset, current_processed_frameset,
                  current_pcl_pointcloud, procPC, procFrame, submitted >>

(* Every write of processing_done that can meet this wait is made with     *)
(* processing_mutex held, so waiting on the condition variable is waiting  *)
(* for its predicate.                                                      *)
WaitForPointcloudProcessed(c) ==
  /\ processing_mutex_free(c)
  /\ processing_done[c]
  /\ processing_done' = [processing_done EXCEPT ![c] = FALSE]
  /\ owed' = [owed EXCEPT ![c] = FALSE]
  /\ UNCHANGED << stopPC, pipeline_running, processing_frame_queue,
                  current_captured_frameset, current_processed_frameset,
                  current_pcl_pointcloud, procPC, procFrame, submitted >>

-----------------------------------------------------------------------------
(* The processing thread, _processing_thread_main().                       *)

procUnchanged == UNCHANGED << stopPC, current_captured_frameset, owed, submitted >>

(* while (!camera_stopped)                                                 *)
ProcTest(c) ==
  /\ procPC[c] = "loop"
  /\ procPC' = [procPC EXCEPT ![c] = IF camera_stopped(c) THEN "exit" ELSE "dequeue"]
  /\ UNCHANGED << pipeline_running, processing_frame_queue, procFrame,
                  current_processed_frameset, current_pcl_pointcloud, processing_done >>
  /\ procUnchanged

(* Mutant: the frameset is announced as done when it is dequeued.          *)
ProcDequeue_AnnouncesEarly(c) ==
  /\ procPC[c] = "dequeue"
  /\ processing_frame_queue[c] # << >>
  /\ procFrame' = [procFrame EXCEPT ![c] = Head(processing_frame_queue[c])]
  /\ processing_frame_queue' = [processing_frame_queue EXCEPT ![c] = Tail(@)]
  /\ procPC' = [procPC EXCEPT ![c] = "got"]
  /\ processing_done' = [processing_done EXCEPT ![c] = TRUE]
  /\ UNCHANGED << pipeline_running, current_processed_frameset, current_pcl_pointcloud >>
  /\ procUnchanged

(* wait_dequeue_timed() returned an element.                               *)
ProcDequeue(c) ==
  /\ procPC[c] = "dequeue"
  /\ processing_frame_queue[c] # << >>
  /\ procFrame' = [procFrame EXCEPT ![c] = Head(processing_frame_queue[c])]
  /\ processing_frame_queue' = [processing_frame_queue EXCEPT ![c] = Tail(@)]
  /\ procPC' = [procPC EXCEPT ![c] = "got"]
  /\ UNCHANGED << pipeline_running, current_processed_frameset,
                  current_pcl_pointcloud, processing_done >>
  /\ procUnchanged

(* Mutant: a timeout ends the loop.                                        *)
ProcDequeueTimeout_Ends(c) ==
  /\ procPC[c] = "dequeue"
  /\ processing_frame_queue[c] = << >>
  /\ procPC' = [procPC EXCEPT ![c] = "exit"]
  /\ UNCHANGED << pipeline_running, processing_frame_queue, procFrame,
                  current_processed_frameset, current_pcl_pointcloud, processing_done >>
  /\ procUnchanged

(* wait_dequeue_timed() gave up after its ten seconds.                     *)
ProcDequeueTimeout(c) ==
  /\ procPC[c] = "dequeue"
  /\ processing_frame_queue[c] = << >>
  /\ procPC' = [procPC EXCEPT ![c] = "loop"]
  /\ UNCHANGED << pipeline_running, processing_frame_queue, procFrame,
                  current_processed_frameset, current_pcl_pointcloud, processing_done >>
  /\ procUnchanged

(* A null frameset ends the loop, any other is processed under the lock.   *)
ProcLock(c) ==
  /\ procPC[c] = "got"
  /\ procPC' = [procPC EXCEPT ![c] = IF procFrame[c] = NoFrame THEN "exit" ELSE "process"]
  /\ UNCHANGED << pipeline_running, processing_frame_queue, procFrame,
                  current_processed_frameset, current_pcl_pointcloud, processing_done >>
  /\ procUnchanged

(* Mutant: the early continues do not set processing_done.                 *)
ProcFinish_SilentWhenIncomplete(c) ==
  /\ procPC[c] = "process"
  /\ current_pcl_pointcloud' = [current_pcl_pointcloud EXCEPT ![c] = procFrame[c]]
  /\ current_processed_frameset' =
       [current_processed_frameset EXCEPT
          ![c] = IF procFrame[c].kind = "complete" THEN procFrame[c] ELSE @]
  /\ processing_done' = [processing_done EXCEPT ![c] = @ \/ procFrame[c].kind = "complete"]
  /\ procFrame' = [procFrame EXCEPT ![c] = NoFrame]
  /\ procPC' = [procPC EXCEPT ![c] = "loop"]
  /\ UNCHANGED << pipeline_running, processing_frame_queue >>
  /\ procUnchanged

(* The body under processing_mutex.  A frameset without its depth or color *)
(* image yields an empty cloud and does not become the processed frameset. *)
ProcFinish(c) ==
  /\ procPC[c] = "process"
  /\ current_pcl_pointcloud' = [current_pcl_pointcloud EXCEPT ![c] = procFrame[c]]
  /\ current_processed_frameset' =
       [current_processed_frameset EXCEPT
          ![c] = IF procFrame[c].kind = "complete" THEN procFrame[c] ELSE @]
  /\ processing_done' = [processing_done EXCEPT ![c] = TRUE]
  /\ procFrame' = [procFrame EXCEPT ![c] = NoFrame]
  /\ procPC' = [procPC EXCEPT ![c] = "loop"]
  /\ UNCHANGED << pipeline_running, processing_frame_queue >>
  /\ procUnchanged

(* Behind the loop: the thread stops the pipeline on its way out.          *)
ProcExit(c) ==
  /\ procPC[c] = "exit"
  /\ pipeline_running' = [pipeline_running EXCEPT ![c] = FALSE]
  /\ procPC' = [procPC EXCEPT ![c] = "exited"]
  /\ UNCHANGED << processing_frame_queue, procFrame, current_processed_frameset,
                  current_pcl_pointcloud, processing_done >>
  /\ procUnchanged

ProcNext(c) ==
  \/ ProcTest(c) \/ ProcDequeue(c) \/ ProcDequeueTimeout(c)
  \/ ProcLock(c) \/ ProcFinish(c) \/ ProcExit(c)

-----------------------------------------------------------------------------
(* stop_camera().                                                          *)

stopUnchanged == UNCHANGED << current_captured_frameset, current_processed_frameset,
                              current_pcl_pointcloud, procFrame, owed, submitted >>

(* camera_stopped = true                                                   *)
StopCameraFlag(c) ==
  /\ stopPC[c] = "up"
  /\ stopPC' = [stopPC EXCEPT ![c] = "drain"]
  /\ UNCHANGED << pipeline_running, processing_frame_queue, processing_done, procPC >>
  /\ stopUnchanged

(* Mutant: the queue is drained after nullptr was pushed.                  *)
StopCameraDrain_AfterPush(c) ==
  /\ stopPC[c] \in {"drain", "join"}
  /\ processing_frame_queue[c] # << >>
  /\ processing_frame_queue' = [processing_frame_queue EXCEPT ![c] = Tail(@)]
  /\ UNCHANGED << stopPC, pipeline_running, processing_done, procPC >>
  /\ stopUnchanged

(* One round of the draining loop that found an element.                   *)
StopCameraDrain(c) ==
  /\ stopPC[c] = "drain"
  /\ processing_frame_queue[c] # << >>
  /\ processing_frame_queue' = [processing_frame_queue EXCEPT ![c] = Tail(@)]
  /\ UNCHANGED << stopPC, pipeline_running, processing_done, procPC >>
  /\ stopUnchanged

(* Mutants: enqueue() without the draining loop; no nullptr at all.        *)
StopCameraPush_Unbounded(c) ==
  /\ stopPC[c] = "drain"
  /\ processing_frame_queue' = [processing_frame_queue EXCEPT ![c] = Append(@, NoFrame)]
  /\ stopPC' = [stopPC EXCEPT ![c] = "join"]
  /\ UNCHANGED << pipeline_running, processing_done, procPC >>
  /\ stopUnchanged

StopCameraPush_Omitted(c) ==
  /\ stopPC[c] = "drain"
  /\ processing_frame_queue[c] = << >>
  /\ stopPC' = [stopPC EXCEPT ![c] = "join"]
  /\ UNCHANGED << pipeline_running, processing_frame_queue, processing_done, procPC >>
  /\ stopUnchanged

(* The draining loop found the queue empty; try_enqueue(nullptr).          *)
StopCameraPush(c) ==
  /\ stopPC[c] = "drain"
  /\ processing_frame_queue[c] = << >>
  /\ processing_frame_queue' =
       [processing_frame_queue EXCEPT ![c] = TryEnqueue(@, NoFrame)]
  /\ stopPC' = [stopPC EXCEPT ![c] = "join"]
  /\ UNCHANGED << pipeline_running, processing_done, procPC >>
  /\ stopUnchanged

(* The join of the processing thread and what follows it.                  *)
StopCameraJoin(c) ==
  /\ stopPC[c] = "join"
  /\ procPC[c] = "exited"
  /\ procPC' = [procPC EXCEPT ![c] = "none"]
  /\ pipeline_running' = [pipeline_running EXCEPT ![c] = FALSE]
  /\ processing_done' = [processing_done EXCEPT ![c] = TRUE]
  /\ stopPC' = [stopPC EXCEPT ![c] = "down"]
  /\ UNCHANGED processing_frame_queue
  /\ stopUnchanged

StopCameraNext(c) ==
  StopCameraDrain(c) \/ StopCameraPush(c) \/ StopCameraJoin(c)

-----------------------------------------------------------------------------
(* The protocol of the control thread: a cycle captures, submits once and  *)
(* waits once; framesets arrive in order.                                  *)
MayCapture(c) == ~camera_stopped(c) /\ ~owed[c]

ControlNext(c) ==
  \/ /\ MayCapture(c)
     /\ \E f \in Frames \cup {NoFrame} :
          /\ f # NoFrame => f.seq > submitted[c].seq
          /\ WaitForCapturedFrameset(c, f)
  \/ /\ MayCapture(c)
     /\ ProcessPointcloudFromFrameset(c)
  \/ /\ ~camera_stopped(c) /\ owed[c]
     /\ WaitForPointcloudProcessed(c)

CamNext ==
  \/ StartAllCameras
  \/ \E c \in Cameras : \/ ControlNext(c)
                        \/ ProcNext(c)
                        \/ StopCameraFlag(c)
                        \/ StopCameraNext(c)

CamSpec == CamInit /\ [][CamNext]_camVars

-----------------------------------------------------------------------------
(* What a queue of capacity 1 may hold.                                    *)
QueuesOfOne == {<< >>} \cup {<< f >> : f \in Frames \cup {NoFrame}}

(* The types of the camera's fields and of the two threads' positions.     *)
CamTypeOK ==
  /\ stopPC \in [Cameras -> {"up", "drain", "join", "down"}]
  /\ pipeline_running \in [Cameras -> BOOLEAN]
  /\ processing_frame_queue \in [Cameras -> QueuesOfOne]
  /\ current_captured_frameset \in [Cameras -> Frames \cup {NoFrame}]
  /\ current_processed_frameset \in [Cameras -> Frames \cup {NoFrame}]
  /\ current_pcl_pointcloud \in [Cameras -> Frames \cup {NoFrame}]
  /\ processing_done \in [Cameras -> BOOLEAN]
  /\ procPC \in [Cameras -> {"none", "loop", "dequeue", "got", "process", "exit", "exited"}]
  /\ procFrame \in [Cameras -> Frames \cup {NoFrame}]
  /\ owed \in [Cameras -> BOOLEAN]
  /\ submitted \in [Cameras -> Frames \cup {NoFrame}]

(* The branch "processing_frame_queue full, dropping frame" is never       *)
(* taken: when the capturer may submit, the one-element queue is empty and *)
(* the processing thread holds no frameset.  A dropped frameset would      *)
(* leave wait_for_pointcloud_processed() waiting for ever, with the        *)
(* capturer's mutex held.                                                  *)
NoFrameDropped ==
  \A c \in Cameras :
    (stopPC[c] = "up" /\ ~owed[c]) =>
      /\ processing_frame_queue[c] = << >>
      /\ procFrame[c] = NoFrame
      /\ procPC[c] \in {"loop", "dequeue"}

(* processing_done announces the cloud of the frameset submitted last,     *)
(* never that of an earlier cycle.                                         *)
DoneMeansSubmittedFrame ==
  \A c \in Cameras :
    (stopPC[c] = "up" /\ processing_done[c]) =>
      owed[c] /\ current_pcl_pointcloud[c] = submitted[c]

(* Once stop_camera() waits for the processing thread, that thread never   *)
(* sleeps on an empty queue: draining and then pushing nullptr always      *)
(* leaves it something to wake up for, however the two interleave.         *)
StopNeverWaitsForTimeout ==
  \A c \in Cameras :
    (stopPC[c] = "join" /\ procPC[c] = "dequeue") =>
      processing_frame_queue[c] # << >>

(* The pipeline runs as long as the capturer may wait for a frameset: the  *)
(* processing thread never stops it under the control thread's feet.       *)
PipelineUpWhileStreaming ==
  \A c \in Cameras : stopPC[c] = "up" => pipeline_running[c]

(* Between two submissions the point cloud does not change: the capturer   *)
(* reads it through access_current_pcl_pointcloud() without the lock.      *)
BorrowedCloudStable ==
  [][\A c \in Cameras :
       (stopPC[c] = "up" /\ ~owed[c]) =>
         current_pcl_pointcloud'[c] = current_pcl_pointcloud[c]]_camVars

(* Where the frameset of the current cycle is while the camera streams:    *)
(* nowhere, in the queue, with the processing thread, or turned into the   *)
(* current point cloud.                                                    *)
ProcWaits(c) == procPC[c] \in {"loop", "dequeue"} /\ procFrame[c] = NoFrame

Idle(c) ==
  processing_frame_queue[c] = << >> /\ ProcWaits(c) /\ ~processing_done[c]
Queued(c) ==
  processing_frame_queue[c] = << submitted[c] >> /\ ProcWaits(c) /\ ~processing_done[c]
InProcess(c) ==
  /\ processing_frame_queue[c] = << >> /\ ~processing_done[c]
  /\ procPC[c] \in {"got", "process"} /\ procFrame[c] = submitted[c]
Processed(c) ==
  /\ processing_frame_queue[c] = << >> /\ ProcWaits(c) /\ processing_done[c]
  /\ current_pcl_pointcloud[c] = submitted[c]

Handshake(c) ==
  stopPC[c] = "up" =>
    /\ pipeline_running[c]
    /\ IF owed[c]
       THEN submitted[c] # NoFrame /\ (Queued(c) \/ InProcess(c) \/ Processed(c))
       ELSE Idle(c)

StopWakesProc(c) ==
  (stopPC[c] = "join" /\ procPC[c] = "dequeue") => processing_frame_queue[c] # << >>

(* The inductive invariant of the camera: what its processing thread and   *)
(* its control thread have agreed on is always in exactly one place, and a *)
(* thread that is being joined has something to wake up for.               *)
CamInv == CamTypeOK /\ \A c \in Cameras : Handshake(c) /\ StopWakesProc(c)

(* A submitted frameset is eventually processed, unless the camera is      *)
(* being stopped: also one that lacks its depth or color image, for which  *)
(* the loop takes a branch of its own.                                     *)
SubmittedIsProcessed ==
  \A c \in Cameras :
    (stopPC[c] = "up" /\ owed[c]) ~> (processing_done[c] \/ stopPC[c] # "up")

(* stop_camera() returns, whatever the processing thread was doing, and    *)
(* without the help of the ten second timeout.                             *)
StopCameraReturns ==
  \A c \in Cameras : (stopPC[c] = "drain") ~> (stopPC[c] = "down")
=============================================================================
