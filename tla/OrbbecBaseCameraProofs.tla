----------------------- MODULE OrbbecBaseCameraProofs -----------------------
(***************************************************************************)
(* Proofs about OrbbecBaseCamera.tla, for any number of cameras, any kinds *)
(* of framesets and any length of recording.  CamInv is inductive; the     *)
(* type invariant and the safety properties follow from it.                *)
(*                                                                         *)
(* The cameras do not share state, so each lemma below takes one action of *)
(* one camera c and one camera d whose part of the invariant is to hold    *)
(* afterwards.                                                             *)
(***************************************************************************)
EXTENDS OrbbecBaseCamera, TLAPS

(* The null frameset is not one the SDK delivers.                          *)
LEMMA NoFrameIsNoFrameset == NoFrame \notin Frames
  BY DEF NoFrame, Frames

(* try_enqueue() keeps the queue within its capacity.                      *)
LEMMA TryEnqueueBounded ==
  ASSUME NEW q \in QueuesOfOne, NEW f \in Frames \cup {NoFrame}
  PROVE  TryEnqueue(q, f) \in QueuesOfOne
  BY DEF TryEnqueue, QueuesOfOne

(* What is left of a non-empty queue of capacity 1 is the empty queue.     *)
LEMMA DequeueFromOne ==
  ASSUME NEW q \in QueuesOfOne, q # << >>
  PROVE  /\ Head(q) \in Frames \cup {NoFrame}
         /\ q = << Head(q) >>
         /\ Tail(q) = << >>
         /\ << >> \in QueuesOfOne
<1>1. PICK f \in Frames \cup {NoFrame} : q = << f >>
  BY DEF QueuesOfOne
<1>2. /\ Head(<< f >>) = f
      /\ Tail(<< f >>) = << >>
  OBVIOUS
<1>3. << >> \in QueuesOfOne
  BY DEF QueuesOfOne
<1> QED BY <1>1, <1>2, <1>3

-----------------------------------------------------------------------------
(* Type correctness.                                                       *)

LEMMA InitType == CamInit => CamTypeOK
  BY DEF CamInit, CamTypeOK, QueuesOfOne

LEMMA StartType == CamTypeOK /\ StartAllCameras => CamTypeOK'
  BY DEF CamTypeOK, StartAllCameras, QueuesOfOne

LEMMA ControlType ==
  ASSUME CamTypeOK, NEW c \in Cameras, ControlNext(c)
  PROVE  CamTypeOK'
<1>1. ASSUME NEW f \in Frames \cup {NoFrame}, WaitForCapturedFrameset(c, f)
      PROVE  CamTypeOK'
  BY <1>1 DEF CamTypeOK, WaitForCapturedFrameset
<1>2. ASSUME ProcessPointcloudFromFrameset(c)
      PROVE  CamTypeOK'
  <2>1. TryEnqueue(processing_frame_queue[c], current_captured_frameset[c]) \in QueuesOfOne
    BY TryEnqueueBounded DEF CamTypeOK
  <2> QED BY <1>2, <2>1 DEF CamTypeOK, ProcessPointcloudFromFrameset
<1>3. ASSUME WaitForPointcloudProcessed(c)
      PROVE  CamTypeOK'
  BY <1>3 DEF CamTypeOK, WaitForPointcloudProcessed
<1> QED BY <1>1, <1>2, <1>3 DEF ControlNext

LEMMA ProcType ==
  ASSUME CamTypeOK, NEW c \in Cameras, ProcNext(c)
  PROVE  CamTypeOK'
<1>1. CASE ProcTest(c)
  BY <1>1 DEF CamTypeOK, ProcTest, procUnchanged
<1>2. CASE ProcDequeue(c)
  <2>1. /\ Head(processing_frame_queue[c]) \in Frames \cup {NoFrame}
        /\ Tail(processing_frame_queue[c]) \in QueuesOfOne
    BY <1>2, DequeueFromOne DEF CamTypeOK, ProcDequeue
  <2> QED BY <1>2, <2>1 DEF CamTypeOK, ProcDequeue, procUnchanged
<1>3. CASE ProcDequeueTimeout(c)
  BY <1>3 DEF CamTypeOK, ProcDequeueTimeout, procUnchanged
<1>4. CASE ProcLock(c)
  BY <1>4 DEF CamTypeOK, ProcLock, procUnchanged
<1>5. CASE ProcFinish(c)
  BY <1>5 DEF CamTypeOK, ProcFinish, procUnchanged
<1>6. CASE ProcExit(c)
  BY <1>6 DEF CamTypeOK, ProcExit, procUnchanged
<1> QED BY <1>1, <1>2, <1>3, <1>4, <1>5, <1>6 DEF ProcNext

LEMMA StopType ==
  ASSUME CamTypeOK, NEW c \in Cameras, StopCameraFlag(c) \/ StopCameraNext(c)
  PROVE  CamTypeOK'
<1>1. CASE StopCameraFlag(c)
  BY <1>1 DEF CamTypeOK, StopCameraFlag, stopUnchanged
<1>2. CASE StopCameraDrain(c)
  <2>1. Tail(processing_frame_queue[c]) \in QueuesOfOne
    BY <1>2, DequeueFromOne DEF CamTypeOK, StopCameraDrain
  <2> QED BY <1>2, <2>1 DEF CamTypeOK, StopCameraDrain, stopUnchanged
<1>3. CASE StopCameraPush(c)
  <2>1. TryEnqueue(processing_frame_queue[c], NoFrame) \in QueuesOfOne
    BY TryEnqueueBounded DEF CamTypeOK
  <2> QED BY <1>3, <2>1 DEF CamTypeOK, StopCameraPush, stopUnchanged
<1>4. CASE StopCameraJoin(c)
  BY <1>4 DEF CamTypeOK, StopCameraJoin, stopUnchanged
<1> QED BY <1>1, <1>2, <1>3, <1>4 DEF StopCameraNext

LEMMA StepType == CamTypeOK /\ [CamNext]_camVars => CamTypeOK'
<1> SUFFICES ASSUME CamTypeOK, [CamNext]_camVars
             PROVE  CamTypeOK'
  OBVIOUS
<1>1. CASE UNCHANGED camVars
  BY <1>1 DEF CamTypeOK, camVars
<1>2. CASE CamNext
  BY <1>2, StartType, ControlType, ProcType, StopType DEF CamNext
<1> QED BY <1>1, <1>2

(* The fields and the threads keep their types.                            *)
THEOREM CamTypeCorrect == CamSpec => []CamTypeOK
  BY InitType, StepType, PTL DEF CamSpec

-----------------------------------------------------------------------------
(* The handshake.                                                          *)

LEMMA InitHandshake ==
  ASSUME CamInit, NEW d \in Cameras
  PROVE  Handshake(d) /\ StopWakesProc(d)
  BY DEF CamInit, Handshake, StopWakesProc

LEMMA StartHandshake ==
  ASSUME StartAllCameras, NEW d \in Cameras
  PROVE  Handshake(d)' /\ StopWakesProc(d)'
  BY DEF StartAllCameras, Handshake, StopWakesProc, Idle, ProcWaits

(* What a step of one camera leaves alone cannot break another camera's    *)
(* handshake.                                                              *)
CameraUnchanged(d) ==
  UNCHANGED << stopPC[d], pipeline_running[d], processing_frame_queue[d],
               current_pcl_pointcloud[d], processing_done[d], procPC[d],
               procFrame[d], owed[d], submitted[d] >>

LEMMA UnchangedHandshake ==
  ASSUME NEW d \in Cameras, Handshake(d), StopWakesProc(d), CameraUnchanged(d)
  PROVE  Handshake(d)' /\ StopWakesProc(d)'
  BY DEF CameraUnchanged, Handshake, StopWakesProc, Idle, Queued, InProcess,
         Processed, ProcWaits

LEMMA OtherCameraUnchanged ==
  ASSUME CamTypeOK, NEW c \in Cameras, NEW d \in Cameras, c # d,
         ControlNext(c) \/ ProcNext(c) \/ StopCameraFlag(c) \/ StopCameraNext(c)
  PROVE  CameraUnchanged(d)
<1> USE DEF CamTypeOK, CameraUnchanged
<1>1. CASE ControlNext(c)
  BY <1>1 DEF ControlNext, WaitForCapturedFrameset, ProcessPointcloudFromFrameset,
              WaitForPointcloudProcessed
<1>2. CASE ProcNext(c)
  BY <1>2 DEF ProcNext, ProcTest, ProcDequeue, ProcDequeueTimeout, ProcLock,
              ProcFinish, ProcExit, procUnchanged
<1>3. CASE StopCameraFlag(c)
  BY <1>3 DEF StopCameraFlag, stopUnchanged
<1>4. CASE StopCameraNext(c)
  BY <1>4 DEF StopCameraNext, StopCameraDrain, StopCameraPush, StopCameraJoin, stopUnchanged
<1> QED BY <1>1, <1>2, <1>3, <1>4

LEMMA ControlHandshake ==
  ASSUME CamInv, NEW c \in Cameras, ControlNext(c)
  PROVE  Handshake(c)' /\ StopWakesProc(c)'
<1> USE DEF CamInv, CamTypeOK
<1>1. ASSUME NEW f \in Frames \cup {NoFrame}, WaitForCapturedFrameset(c, f)
      PROVE  Handshake(c)' /\ StopWakesProc(c)'
  <2>1. CameraUnchanged(c)
    BY <1>1 DEF WaitForCapturedFrameset, CameraUnchanged
  <2> QED BY <2>1, UnchangedHandshake
<1>2. ASSUME MayCapture(c), ProcessPointcloudFromFrameset(c)
      PROVE  Handshake(c)' /\ StopWakesProc(c)'
  \* The queue was empty: TryEnqueue accepts the frameset.
  <2>1. stopPC[c] = "up" /\ pipeline_running[c] /\ Idle(c)
    BY <1>2 DEF MayCapture, camera_stopped, Handshake
  <2>2. submitted'[c] # NoFrame /\ Queued(c)'
    BY <1>2, <2>1 DEF ProcessPointcloudFromFrameset, TryEnqueue, Idle, Queued, ProcWaits
  <2> QED
    BY <1>2, <2>1, <2>2 DEF ProcessPointcloudFromFrameset, Handshake, StopWakesProc
<1>3. ASSUME ~camera_stopped(c), owed[c], WaitForPointcloudProcessed(c)
      PROVE  Handshake(c)' /\ StopWakesProc(c)'
  <2>1. stopPC[c] = "up" /\ pipeline_running[c] /\ Processed(c)
    BY <1>3 DEF camera_stopped, WaitForPointcloudProcessed, Handshake, Queued, InProcess
  <2>2. Idle(c)'
    BY <1>3, <2>1 DEF WaitForPointcloudProcessed, Processed, Idle, ProcWaits
  <2> QED
    BY <1>3, <2>1, <2>2 DEF WaitForPointcloudProcessed, Handshake, StopWakesProc
<1> QED BY <1>1, <1>2, <1>3 DEF ControlNext

LEMMA ProcHandshake ==
  ASSUME CamInv, NEW c \in Cameras, ProcNext(c)
  PROVE  Handshake(c)' /\ StopWakesProc(c)'
<1> USE DEF CamInv, CamTypeOK, procUnchanged
<1>1. CASE ProcTest(c)
  BY <1>1 DEF ProcTest, camera_stopped, Handshake, StopWakesProc, Idle, Queued,
              InProcess, Processed, ProcWaits
<1>2. CASE ProcDequeue(c)
  <2>1. StopWakesProc(c)'
    BY <1>2 DEF ProcDequeue, StopWakesProc
  <2>2. ASSUME stopPC[c] = "up"
        PROVE  pipeline_running'[c] /\ owed'[c] /\ submitted'[c] # NoFrame /\ InProcess(c)'
    <3>1. pipeline_running[c] /\ owed[c] /\ submitted[c] # NoFrame /\ Queued(c)
      BY <1>2, <2>2 DEF ProcDequeue, Handshake, Idle, InProcess, Processed
    <3>2. /\ Head(processing_frame_queue[c]) = submitted[c]
          /\ Tail(processing_frame_queue[c]) = << >>
      BY <3>1 DEF Queued
    <3> QED BY <1>2, <3>1, <3>2 DEF ProcDequeue, Queued, InProcess
  <2> QED BY <1>2, <2>1, <2>2 DEF ProcDequeue, Handshake
<1>3. CASE ProcDequeueTimeout(c)
  BY <1>3 DEF ProcDequeueTimeout, Handshake, StopWakesProc, Idle, Queued,
              InProcess, Processed, ProcWaits
<1>4. CASE ProcLock(c)
  BY <1>4 DEF ProcLock, Handshake, StopWakesProc, Idle, Queued,
              InProcess, Processed, ProcWaits
<1>5. CASE ProcFinish(c)
  BY <1>5 DEF ProcFinish, Handshake, StopWakesProc, Idle, Queued,
              InProcess, Processed, ProcWaits
<1>6. CASE ProcExit(c)
  BY <1>6 DEF ProcExit, Handshake, StopWakesProc, Idle, Queued,
              InProcess, Processed, ProcWaits
<1> QED BY <1>1, <1>2, <1>3, <1>4, <1>5, <1>6 DEF ProcNext

LEMMA StopHandshake ==
  ASSUME CamInv, NEW c \in Cameras, StopCameraFlag(c) \/ StopCameraNext(c)
  PROVE  Handshake(c)' /\ StopWakesProc(c)'
<1> USE DEF CamInv, CamTypeOK, stopUnchanged
<1>1. CASE StopCameraFlag(c)
  BY <1>1 DEF StopCameraFlag, Handshake, StopWakesProc
<1>2. CASE StopCameraDrain(c)
  BY <1>2 DEF StopCameraDrain, Handshake, StopWakesProc
<1>3. CASE StopCameraPush(c)
  \* The queue is empty now: TryEnqueue accepts the null frameset.
  <2>1. processing_frame_queue'[c] = << NoFrame >>
    BY <1>3 DEF StopCameraPush, TryEnqueue
  <2>2. << NoFrame >> # << >>
    OBVIOUS
  <2> QED BY <1>3, <2>1, <2>2 DEF StopCameraPush, Handshake, StopWakesProc
<1>4. CASE StopCameraJoin(c)
  BY <1>4 DEF StopCameraJoin, Handshake, StopWakesProc
<1> QED BY <1>1, <1>2, <1>3, <1>4 DEF StopCameraNext

LEMMA CamInvInit == CamInit => CamInv
  BY InitType, InitHandshake DEF CamInv

LEMMA CamInvStep == CamInv /\ [CamNext]_camVars => CamInv'
<1> SUFFICES ASSUME CamInv, [CamNext]_camVars,
                    NEW d \in Cameras
             PROVE  Handshake(d)' /\ StopWakesProc(d)'
  BY StepType DEF CamInv
<1>1. CASE UNCHANGED camVars
  BY <1>1, UnchangedHandshake DEF CamInv, camVars, CameraUnchanged
<1>2. CASE StartAllCameras
  BY <1>2, StartHandshake
<1>3. ASSUME NEW c \in Cameras,
             ControlNext(c) \/ ProcNext(c) \/ StopCameraFlag(c) \/ StopCameraNext(c)
      PROVE  Handshake(d)' /\ StopWakesProc(d)'
  <2>1. CASE c = d
    BY <1>3, <2>1, ControlHandshake, ProcHandshake, StopHandshake
  <2>2. CASE c # d
    BY <1>3, <2>2, OtherCameraUnchanged, UnchangedHandshake DEF CamInv
  <2> QED BY <2>1, <2>2
<1> QED BY <1>1, <1>2, <1>3 DEF CamNext

(* The inductive invariant holds: between the control thread, the queue    *)
(* and the processing thread a frameset is never lost nor seen twice.      *)
THEOREM CamInvariant == CamSpec => []CamInv
  BY CamInvInit, CamInvStep, PTL DEF CamSpec

-----------------------------------------------------------------------------
(* What follows from it.                                                   *)

(* The queue is never full when the capturer submits a frameset.           *)
THEOREM FramesAreNotDropped == CamSpec => []NoFrameDropped
<1>1. CamInv => NoFrameDropped
  BY DEF CamInv, NoFrameDropped, Handshake, Idle, ProcWaits
<1> QED BY <1>1, CamInvariant, PTL

(* The flag announces the submitted frameset's cloud and no other.         *)
THEOREM DoneIsOfSubmittedFrame == CamSpec => []DoneMeansSubmittedFrame
<1>1. CamInv => DoneMeansSubmittedFrame
  BY DEF CamInv, DoneMeansSubmittedFrame, Handshake, Idle, Queued, InProcess, Processed
<1> QED BY <1>1, CamInvariant, PTL

(* A joined processing thread is not left asleep.                          *)
THEOREM StopWakesProcessingThread == CamSpec => []StopNeverWaitsForTimeout
<1>1. CamInv => StopNeverWaitsForTimeout
  BY DEF CamInv, StopNeverWaitsForTimeout, StopWakesProc
<1> QED BY <1>1, CamInvariant, PTL

(* The pipeline is there for as long as the control thread may use it.     *)
THEOREM PipelineStaysUp == CamSpec => []PipelineUpWhileStreaming
<1>1. CamInv => PipelineUpWhileStreaming
  BY DEF CamInv, PipelineUpWhileStreaming, Handshake
<1> QED BY <1>1, CamInvariant, PTL

(* Nobody writes the point cloud that the capturer reads without a lock.   *)
LEMMA BorrowedCloudStep ==
  ASSUME CamInv, CamNext, NEW d \in Cameras, stopPC[d] = "up", ~owed[d]
  PROVE  current_pcl_pointcloud'[d] = current_pcl_pointcloud[d]
<1> USE DEF CamInv, CamTypeOK
<1>1. procPC[d] # "process"
  BY DEF Handshake, Idle, ProcWaits
<1>2. CASE StartAllCameras
  BY <1>2 DEF StartAllCameras
<1>3. ASSUME NEW c \in Cameras,
             ControlNext(c) \/ ProcNext(c) \/ StopCameraFlag(c) \/ StopCameraNext(c)
      PROVE  current_pcl_pointcloud'[d] = current_pcl_pointcloud[d]
  <2>1. CASE ControlNext(c)
    BY <2>1 DEF ControlNext, WaitForCapturedFrameset, ProcessPointcloudFromFrameset,
                WaitForPointcloudProcessed
  <2>2. CASE ProcNext(c)
    BY <2>2, <1>1 DEF ProcNext, ProcTest, ProcDequeue, ProcDequeueTimeout, ProcLock,
                      ProcFinish, ProcExit
  <2>3. CASE StopCameraFlag(c)
    BY <2>3 DEF StopCameraFlag, stopUnchanged
  <2>4. CASE StopCameraNext(c)
    BY <2>4 DEF StopCameraNext, StopCameraDrain, StopCameraPush, StopCameraJoin, stopUnchanged
  <2> QED BY <1>3, <2>1, <2>2, <2>3, <2>4
<1> QED BY <1>2, <1>3 DEF CamNext

(* From one state to the next, and from start() to stop(), such a cloud    *)
(* stays as it is.                                                         *)
THEOREM BorrowedCloudIsStable == CamSpec => BorrowedCloudStable
<1> DEFINE Stable ==
      \A c \in Cameras : (stopPC[c] = "up" /\ ~owed[c]) =>
        current_pcl_pointcloud'[c] = current_pcl_pointcloud[c]
<1>1. CamInv /\ [CamNext]_camVars => [Stable]_camVars
  BY BorrowedCloudStep DEF camVars
<1> QED BY <1>1, CamInvariant, PTL DEF CamSpec, BorrowedCloudStable
=============================================================================
