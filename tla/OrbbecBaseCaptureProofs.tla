----------------------- MODULE OrbbecBaseCaptureProofs -----------------------
(***************************************************************************)
(* Theorems about OrbbecBaseCapture.tla, for any number of cameras and of  *)
(* consumers, any kinds of framesets, any bound on cycles and sessions,    *)
(* and, unless a theorem says otherwise, also if the application calls     *)
(* stop() and start() while its other threads call get_pointcloud().       *)
(*                                                                         *)
(* ProtocolInv is inductive.  It gives that the capturer uses its cameras  *)
(* as OrbbecBaseCamera.tla assumes, so the theorems about that module hold *)
(* here, too.                                                              *)
(***************************************************************************)
EXTENDS OrbbecBaseCapture, OrbbecBaseCameraProofs

-----------------------------------------------------------------------------
(* Where the owner is tells whether there is a control thread, and that    *)
(* whether the cameras stream.                                             *)
Stopping == {"setFresh", "clearWant", "notifyFresh", "setWant", "notifyWant", "join"}
Joined == {"cameras", "clearFresh", "finish"}

ThreadInv ==
  /\ control_thread <=> ctlPC # "none"
  /\ control_thread => \A c \in Cameras : stopPC[c] = "up"
  /\ ownPC \in Stopping => control_thread /\ stopped
  /\ ownPC \in Joined => ~control_thread /\ stopped
  /\ ownPC = "gone" => ~control_thread
  /\ (ownPC = "idle" /\ control_thread) => ~stopped

(* Which cameras hold a frameset of this cycle that is not submitted yet,  *)
(* and which have been given one that is not waited for yet.               *)
Captured(c) ==
  \/ ctlPC \in {"captured", "created"}
  \/ ctlPC = "dispatch" /\ c >= ctlCam

Awaited(c) ==
  \/ ctlPC = "dispatch" /\ c < ctlCam
  \/ ctlPC \in {"dispatched", "lock", "locked"}
  \/ ctlPC = "await" /\ c >= ctlCam

OwedInv ==
  /\ ctlPC \notin {"none", "exit"} => \A c \in Cameras : owed[c] <=> Awaited(c)
  /\ \A c \in Cameras : submitted[c].seq <= cycle
  /\ \A c \in Cameras :
       /\ ctlPC = "capture" /\ c < ctlCam => current_captured_frameset[c].seq = cycle + 1
       /\ Captured(c) => current_captured_frameset[c].seq = cycle

(* After the first cycle captured a frameset from every camera, that is.   *)
CycleInv == ctlPC \in {"captured", "created"} => cycle # 0

-----------------------------------------------------------------------------
(* The control thread's steps, but for those that use a camera.            *)
CtlFlow ==
  \/ CtlTop \/ CtlWant \/ CtlPark \/ CtlSpuriousWakeup \/ CtlCheck \/ CtlCreate
  \/ CtlCreated \/ CtlDispatched \/ CtlLock \/ CtlLocked \/ CtlAwaited
  \/ CtlMerge \/ CtlMerged
CtlCamera ==
  \/ \E f \in CapturedFramesets \cup {NoFrame} : CtlCapture(f)
  \/ CtlDispatch \/ CtlAwait

LEMMA CtlSteps == CtlNext => CtlFlow \/ CtlCamera
  BY DEF CtlNext, CtlLocal, CtlFlow, CtlCamera, CtlCaptureFails, CtlCaptureSucceeds

(* The owner's steps, but for those that use a camera.                     *)
OwnFlow ==
  \/ Stop \/ StopSetFresh \/ StopClearWant \/ StopNotifyFresh \/ StopSetWant
  \/ StopNotifyWant \/ StopJoin \/ StopClearFresh \/ StopFinish \/ Destroy

LEMMA OwnSteps == OwnNext => Start \/ OwnFlow \/ StopOneCamera \/ UNCHANGED vars
  BY DEF OwnNext, StopNext, OwnFlow, Gone

(* What each thread's steps leave alone.                                   *)
LEMMA CtlFlowFrame ==
  ASSUME CtlFlow
  PROVE  /\ UNCHANGED << camVars, stopped, conRV, delivered, ownVars, cycle >>
         /\ ctlPC # "none" /\ ctlPC' # "none"
  BY DEF CtlFlow, CtlTop, CtlWant, CtlPark, CtlSpuriousWakeup, CtlCheck, CtlCreate,
         CtlCreated, CtlDispatched, CtlLock, CtlLocked, CtlAwaited, CtlMerge, CtlMerged,
         CtlStopOrGoOn, ctlStep, ctlOnly, flagVars, conVars

LEMMA CtlCameraFrame ==
  ASSUME CtlCamera
  PROVE  /\ UNCHANGED << newPC, flagVars, heapVars, conVars, ownVars, stopPC >>
         /\ ctlPC # "none" /\ ctlPC' # "none"
  BY DEF CtlCamera, CtlCapture, CtlDispatch, CtlAwait, ctlStep,
         WaitForCapturedFrameset, ProcessPointcloudFromFrameset, WaitForPointcloudProcessed

LEMMA ConFrame ==
  ASSUME NEW k \in Consumers, ConNext(k)
  PROVE  /\ UNCHANGED << camVars, stopped, ctlCam, newPC, cycle, points, ownVars >>
         /\ ctlPC' = ctlPC \/ (ctlPC = "parked" /\ ctlPC' = "want")
  BY DEF ConNext, Get, Available, ConLocal, ConLocking, GetSpuriousWakeup, GetPark,
         GetTake, GetReturn, GetRequest, GetTest, GetAgain, AvailableRequest,
         AvailableReturn, request_new_pointcloud, mergedPC_want_new_notified,
         conLocal, conOnly, flagVars, heapVars, ctlVars

LEMMA OwnFlowFrame ==
  ASSUME OwnFlow
  PROVE  /\ UNCHANGED << camVars, ctlCam, newPC, cycle, points, conRV, delivered, sessions >>
         /\ \/ ctlPC' = ctlPC \/ ctlPC' = "none"
            \/ ctlPC = "parked" /\ ctlPC' = "want"
  BY DEF OwnFlow, Stop, StopSetFresh, StopClearWant, StopNotifyFresh, StopSetWant,
         StopNotifyWant, StopJoin, StopClearFresh, StopFinish, Destroy,
         mergedPC_want_new_notified, ownOnly, heapVars, ctlVars, conVars

LEMMA StopOneCameraFrame ==
  ASSUME StopOneCamera
  PROVE  UNCHANGED << flagVars, heapVars, ctlVars, conVars, control_thread, sessions,
                      owed, submitted, current_captured_frameset, current_pcl_pointcloud >>
  BY DEF StopOneCamera, StopCameraFlag, StopCameraNext, StopCameraDrain, StopCameraPush,
         StopCameraJoin, stopUnchanged

LEMMA ProcThreadFrame ==
  ASSUME NEW c \in Cameras, ProcThread(c)
  PROVE  UNCHANGED << capVars, stopPC, current_captured_frameset, owed, submitted >>
  BY DEF ProcThread, ProcNext, ProcTest, ProcDequeue, ProcDequeueTimeout, ProcLock,
         ProcFinish, ProcExit, procUnchanged

LEMMA StepCases ==
  ASSUME [CapNext]_vars
  PROVE  \/ CtlFlow \/ CtlCamera \/ Start \/ OwnFlow \/ StopOneCamera
         \/ \E k \in Consumers : ConNext(k)
         \/ \E c \in Cameras : ProcThread(c)
         \/ UNCHANGED vars
  BY CtlSteps, OwnSteps DEF CapNext

-----------------------------------------------------------------------------
(* The threads.                                                            *)
LEMMA ThreadStep ==
  ASSUME CapTypeOK, ThreadInv, [CapNext]_vars
  PROVE  ThreadInv'
<1>1. CASE CtlFlow
  BY <1>1, CtlFlowFrame DEF ThreadInv, camVars, ownVars
<1>2. CASE CtlCamera
  BY <1>2, CtlCameraFrame DEF ThreadInv, flagVars, ownVars
<1>3. CASE Start
  BY <1>3 DEF Start, ThreadInv, StartAllCameras, ownVars, Stopping, Joined
<1>4. CASE OwnFlow
  BY <1>4, OwnFlowFrame
  DEF OwnFlow, Stop, StopSetFresh, StopClearWant, StopNotifyFresh, StopSetWant,
      StopNotifyWant, StopJoin, StopClearFresh, StopFinish, Destroy, ownStep, ownOnly,
      mergedPC_want_new_notified, ThreadInv, camVars, flagVars, ctlVars, Stopping, Joined
<1>5. CASE StopOneCamera
  BY <1>5, StopOneCameraFrame
  DEF StopOneCamera, ownStep, ThreadInv, flagVars, ctlVars, Stopping, Joined
<1>6. CASE \E k \in Consumers : ConNext(k)
  BY <1>6, ConFrame DEF ThreadInv, camVars, ownVars
<1>7. CASE \E c \in Cameras : ProcThread(c)
  BY <1>7, ProcThreadFrame DEF ThreadInv, capVars, flagVars, ctlVars, ownVars
<1>8. CASE UNCHANGED vars
  BY <1>8 DEF ThreadInv, vars, camVars, capVars, flagVars, ctlVars, ownVars
<1> QED BY <1>1, <1>2, <1>3, <1>4, <1>5, <1>6, <1>7, <1>8, StepCases

-----------------------------------------------------------------------------
(* Type correctness.                                                       *)
LEMMA CameraNumbers ==
  /\ 1 \in Cameras
  /\ \A c \in Cameras : c < NumCameras => c + 1 \in Cameras
  /\ MaxFrames \in Nat /\ MaxSessions \in Nat
  BY CameraAssumption, CaptureAssumption DEF Cameras

LEMMA CapInitType == CapInit => CapTypeOK
<1> SUFFICES ASSUME CapInit PROVE CapTypeOK
  OBVIOUS
<1>1. points \in [Clouds -> [Cameras -> 0 .. MaxFrames]]
  BY CameraNumbers DEF CapInit, NoPoints
<1>2. delivered \in Seq([Cameras -> 0 .. MaxFrames])
  BY DEF CapInit
<1>3. conPC \in [Consumers -> {"idle", "request", "wait", "park", "parked", "take", "again",
                              "return", "ask", "answer"}]
  BY DEF CapInit
<1>4. conRV \in [Consumers -> Clouds \cup {NoPC}]
  BY DEF CapInit
<1>5. /\ ctlCam \in Cameras /\ ownCam \in Cameras
      /\ cycle \in 0 .. MaxFrames /\ sessions \in 0 .. MaxSessions
  BY CameraNumbers DEF CapInit
<1> QED BY <1>1, <1>2, <1>3, <1>4, <1>5 DEF CapInit, CapTypeOK

LEMMA CtlFlowType ==
  ASSUME CapTypeOK, CamTypeOK, CycleInv, CtlFlow
  PROVE  CapTypeOK'
<1> USE CameraNumbers DEF CapTypeOK, ctlStep, ctlOnly, flagVars, heapVars, conVars, ownVars
<1>1. CASE CtlTop \/ CtlWant \/ CtlPark \/ CtlSpuriousWakeup \/ CtlCheck
  BY <1>1 DEF CtlTop, CtlWant, CtlPark, CtlSpuriousWakeup, CtlCheck
<1>2. CASE CtlCreate
  <2>1. cycle # 0 => cycle \in Clouds
    BY DEF Clouds
  <2>2. newPC' \in Clouds \cup {NoPC} /\ live' \subseteq Clouds
    BY <1>2, <2>1 DEF CtlCreate, CycleInv
  <2> QED BY <1>2, <2>2 DEF CtlCreate
<1>3. CASE CtlCreated \/ CtlDispatched
  BY <1>3 DEF CtlCreated, CtlDispatched, CtlStopOrGoOn
<1>4. CASE CtlLock
  BY <1>4 DEF CtlLock
<1>5. CASE CtlLocked \/ CtlAwaited
  BY <1>5 DEF CtlLocked, CtlAwaited
<1>6. CASE CtlMerge
  <2>1. \A c \in Cameras : current_pcl_pointcloud[c].seq \in 0 .. MaxFrames
    BY DEF CamTypeOK, Frames, NoFrame
  <2>2. points' \in [Clouds -> [Cameras -> 0 .. MaxFrames]]
    BY <1>6, <2>1 DEF CtlMerge, merge_camera_pointclouds
  <2> QED BY <1>6, <2>2 DEF CtlMerge
<1>7. CASE CtlMerged
  BY <1>7 DEF CtlMerged, mergedPC_is_fresh_notified
<1> QED BY <1>1, <1>2, <1>3, <1>4, <1>5, <1>6, <1>7 DEF CtlFlow

LEMMA CtlCameraType ==
  ASSUME CapTypeOK, CtlCamera
  PROVE  CapTypeOK'
<1> USE CameraNumbers DEF CapTypeOK, ctlStep, flagVars, heapVars, conVars, ownVars
<1>1. ASSUME NEW f \in CapturedFramesets \cup {NoFrame}, CtlCapture(f)
      PROVE  CapTypeOK'
  <2>1. f # NoFrame => cycle < MaxFrames
    BY DEF CapturedFramesets
  <2> QED BY <1>1, <2>1 DEF CtlCapture
<1>2. CASE CtlDispatch
  BY <1>2 DEF CtlDispatch
<1>3. CASE CtlAwait
  BY <1>3 DEF CtlAwait
<1> QED BY <1>1, <1>2, <1>3 DEF CtlCamera

LEMMA ConType ==
  ASSUME CapTypeOK, NEW k \in Consumers, ConNext(k)
  PROVE  CapTypeOK'
<1>0. conPC' \in [Consumers -> {"idle", "request", "wait", "park", "parked", "take", "again",
                               "return", "ask", "answer"}]
  BY DEF ConNext, Get, Available, ConLocal, ConLocking, GetSpuriousWakeup, GetPark,
         GetTake, GetReturn, GetRequest, GetTest, GetAgain, AvailableRequest,
         AvailableReturn, conStep, CapTypeOK
<1> USE <1>0 DEF CapTypeOK, conStep, conOnly, conLocal, flagVars, heapVars, ownVars
<1>1. CASE Get(k) \/ Available(k) \/ GetPark(k) \/ GetSpuriousWakeup(k) \/ GetTest(k)
           \/ AvailableReturn(k)
  BY <1>1 DEF Get, Available, GetPark, GetSpuriousWakeup, GetTest, AvailableReturn
<1>2. CASE GetRequest(k) \/ GetAgain(k) \/ AvailableRequest(k)
  <2>1. mergedPC_want_new' \in BOOLEAN
    BY <1>2 DEF GetRequest, GetAgain, AvailableRequest, request_new_pointcloud
  <2> QED BY <1>2, <2>1, ConFrame
      DEF GetRequest, GetAgain, AvailableRequest, request_new_pointcloud
<1>3. CASE GetTake(k)
  <2>1. mergedPC # NoPC => points[mergedPC] \in [Cameras -> 0 .. MaxFrames]
    BY DEF NoPC
  <2>2. delivered' \in Seq([Cameras -> 0 .. MaxFrames])
    BY <1>3, <2>1 DEF GetTake
  <2> QED BY <1>3, <2>2 DEF GetTake, ctlVars
<1>4. CASE GetReturn(k)
  BY <1>4 DEF GetReturn
<1> QED BY <1>1, <1>2, <1>3, <1>4 DEF ConNext, ConLocal, ConLocking

LEMMA OwnType ==
  ASSUME CapTypeOK, Start \/ OwnFlow \/ StopOneCamera
  PROVE  CapTypeOK'
<1> USE CameraNumbers
    DEF CapTypeOK, ownStep, ownOnly, flagVars, heapVars, ctlVars, conVars
<1>1. CASE Start
  <2>1. sessions' \in 0 .. MaxSessions
    BY <1>1 DEF Start
  <2> QED BY <1>1, <2>1 DEF Start
<1>2. CASE Stop \/ StopSetFresh \/ StopClearWant \/ StopSetWant \/ StopClearFresh \/ StopFinish
  BY <1>2 DEF Stop, StopSetFresh, StopClearWant, StopSetWant, StopClearFresh, StopFinish
<1>3. CASE StopNotifyFresh \/ StopNotifyWant
  BY <1>3 DEF StopNotifyFresh, StopNotifyWant, mergedPC_is_fresh_notified,
              mergedPC_want_new_notified
<1>4. CASE StopJoin \/ Destroy
  BY <1>4 DEF StopJoin, Destroy
<1>5. CASE StopOneCamera
  BY <1>5 DEF StopOneCamera
<1> QED BY <1>1, <1>2, <1>3, <1>4, <1>5 DEF OwnFlow

LEMMA CapTypeStep ==
  ASSUME CapTypeOK, CamTypeOK, CycleInv, [CapNext]_vars
  PROVE  CapTypeOK' /\ CycleInv'
<1>1. CapTypeOK'
  <2>1. CASE \E c \in Cameras : ProcThread(c)
    BY <2>1, ProcThreadFrame
    DEF CapTypeOK, capVars, flagVars, heapVars, ctlVars, conVars, ownVars
  <2>2. CASE UNCHANGED vars
    BY <2>2 DEF CapTypeOK, vars, capVars, flagVars, heapVars, ctlVars, conVars, ownVars
  <2> QED BY <2>1, <2>2, StepCases, CtlFlowType, CtlCameraType, ConType, OwnType
<1>2. CycleInv'
  <2>1. CASE CtlFlow
    BY <2>1, CtlFlowFrame
    DEF CycleInv, CtlFlow, CtlTop, CtlWant, CtlPark, CtlSpuriousWakeup, CtlCheck, CtlCreate,
        CtlCreated, CtlDispatched, CtlLock, CtlLocked, CtlAwaited, CtlMerge, CtlMerged,
        CtlStopOrGoOn, ctlStep
  <2>2. CASE CtlCamera
    BY <2>2 DEF CtlCamera, CtlCapture, CtlDispatch, CtlAwait, ctlStep, CycleInv, CapTypeOK
  <2>3. CASE Start \/ OwnFlow
    BY <2>3, OwnFlowFrame DEF Start, CycleInv
  <2>4. CASE StopOneCamera
    BY <2>4, StopOneCameraFrame DEF CycleInv, ctlVars
  <2>5. CASE \E k \in Consumers : ConNext(k)
    BY <2>5, ConFrame DEF CycleInv
  <2>6. CASE \E c \in Cameras : ProcThread(c)
    BY <2>6, ProcThreadFrame DEF CycleInv, capVars, ctlVars
  <2>7. CASE UNCHANGED vars
    BY <2>7 DEF CycleInv, vars, capVars, ctlVars
  <2> QED BY <2>1, <2>2, <2>3, <2>4, <2>5, <2>6, <2>7, StepCases
<1> QED BY <1>1, <1>2

-----------------------------------------------------------------------------
(* The protocol.                                                           *)

(* A frameset that the devices deliver is later than the last one          *)
(* submitted.                                                              *)
LEMMA CapturedIsLater ==
  ASSUME CapTypeOK, NEW f \in CapturedFramesets
  PROVE  f \in Frames /\ f # NoFrame /\ f.seq = cycle + 1
  BY CameraAssumption DEF CapTypeOK, CapturedFramesets, Frames, NoFrame

(* The control thread's use of a camera is what ControlNext allows.        *)
LEMMA CtlCameraStep ==
  ASSUME CapTypeOK, CamTypeOK, ThreadInv, OwedInv, CtlCamera
  PROVE  ControlNext(ctlCam)
<1>1. ctlCam \in Cameras /\ ctlPC \in {"capture", "dispatch", "await"}
  BY DEF CapTypeOK, CtlCamera, CtlCapture, CtlDispatch, CtlAwait, ctlStep
<1>2. ~camera_stopped(ctlCam)
  BY <1>1 DEF ThreadInv, camera_stopped
<1>3. owed[ctlCam] <=> ctlPC = "await"
  BY <1>1 DEF OwedInv, Awaited, Cameras, CamTypeOK
<1>4. ASSUME NEW f \in CapturedFramesets \cup {NoFrame}, CtlCapture(f)
      PROVE  ControlNext(ctlCam)
  <2>1. f \in Frames \cup {NoFrame} /\ (f # NoFrame => f.seq = cycle + 1)
    BY CapturedIsLater
  <2>2. submitted[ctlCam].seq \in Nat /\ cycle \in Nat /\ submitted[ctlCam].seq <= cycle
    BY <1>1 DEF OwedInv, CapTypeOK, CamTypeOK, Frames, NoFrame
  <2>3. f # NoFrame => f.seq > submitted[ctlCam].seq
    BY <2>1, <2>2
  <2>4. ctlPC = "capture" /\ WaitForCapturedFrameset(ctlCam, f)
    BY <1>4 DEF CtlCapture, ctlStep
  <2> QED BY <1>2, <1>3, <2>1, <2>3, <2>4 DEF ControlNext, MayCapture
<1>5. CASE CtlDispatch
  BY <1>2, <1>3, <1>5 DEF CtlDispatch, ctlStep, ControlNext, MayCapture
<1>6. CASE CtlAwait
  BY <1>2, <1>3, <1>6 DEF CtlAwait, ctlStep, ControlNext
<1> QED BY <1>4, <1>5, <1>6 DEF CtlCamera

LEMMA CapStepIsCamStep ==
  ASSUME CapTypeOK, CamTypeOK, ThreadInv, OwedInv, [CapNext]_vars
  PROVE  [CamNext]_camVars
<1>1. CASE CtlFlow
  BY <1>1, CtlFlowFrame
<1>2. CASE CtlCamera
  BY <1>2, CtlCameraStep DEF CamNext, CapTypeOK
<1>3. CASE Start
  BY <1>3 DEF Start, CamNext
<1>4. CASE OwnFlow
  BY <1>4, OwnFlowFrame
<1>5. CASE StopOneCamera
  BY <1>5 DEF StopOneCamera, CamNext, CapTypeOK
<1>6. CASE \E k \in Consumers : ConNext(k)
  BY <1>6, ConFrame
<1>7. CASE \E c \in Cameras : ProcThread(c)
  BY <1>7 DEF ProcThread, CamNext
<1>8. CASE UNCHANGED vars
  BY <1>8 DEF vars
<1> QED BY <1>1, <1>2, <1>3, <1>4, <1>5, <1>6, <1>7, <1>8, StepCases

LEMMA OwedStep ==
  ASSUME CapTypeOK, CamTypeOK, ThreadInv, OwedInv, [CapNext]_vars
  PROVE  OwedInv'
<1>1. CASE CtlFlow
  <2> USE CameraAssumption
      DEF CtlFlow, CtlTop, CtlWant, CtlPark, CtlSpuriousWakeup, CtlCheck, CtlCreate,
          CtlCreated, CtlDispatched, CtlLock, CtlLocked, CtlAwaited, CtlMerge, CtlMerged,
          CtlStopOrGoOn, ctlStep, Cameras
  <2>1. ASSUME NEW c \in Cameras, ctlPC' \notin {"none", "exit"}
        PROVE  Awaited(c)' <=> Awaited(c)
    BY <1>1, <2>1 DEF Awaited
  <2>2. ctlPC # "exit"
    BY <1>1
  <2>3. ASSUME NEW c \in Cameras
        PROVE  /\ Captured(c)' => Captured(c)
               /\ (ctlPC' = "capture" /\ c < ctlCam') => FALSE
    BY <1>1 DEF Captured, CapTypeOK
  <2> QED BY <1>1, <2>1, <2>2, <2>3, CtlFlowFrame DEF OwedInv, camVars
<1>2. CASE CtlCamera
  <2>1. ctlCam \in Nat /\ NumCameras \in Nat /\ cycle \in Nat
    BY CameraAssumption DEF CapTypeOK, Cameras
  <2> SUFFICES ASSUME NEW c \in Cameras
               PROVE  /\ ctlPC' \notin {"none", "exit"} => (owed'[c] <=> Awaited(c)')
                      /\ submitted'[c].seq <= cycle'
                      /\ ctlPC' = "capture" /\ c < ctlCam' =>
                           current_captured_frameset'[c].seq = cycle' + 1
                      /\ Captured(c)' => current_captured_frameset'[c].seq = cycle'
    BY DEF OwedInv
  <2>2. /\ c \in Nat /\ c <= NumCameras
        /\ submitted[c].seq \in Nat /\ submitted[c].seq <= cycle
        /\ ctlPC \notin {"none", "exit"} => (owed[c] <=> Awaited(c))
        /\ ctlPC = "capture" /\ c < ctlCam => current_captured_frameset[c].seq = cycle + 1
        /\ Captured(c) => current_captured_frameset[c].seq = cycle
    BY CameraAssumption DEF OwedInv, CamTypeOK, Frames, NoFrame, Cameras
  <2>3. ASSUME NEW f \in CapturedFramesets \cup {NoFrame}, CtlCapture(f), f = NoFrame
        PROVE  /\ ctlPC = "capture" /\ ctlPC' = "top"
               /\ UNCHANGED << ctlCam, cycle, owed, submitted >>
    BY <2>3 DEF CtlCapture, WaitForCapturedFrameset, ctlStep
  <2>4. ASSUME NEW f \in CapturedFramesets \cup {NoFrame}, CtlCapture(f), f # NoFrame
        PROVE  /\ ctlPC = "capture" /\ UNCHANGED << owed, submitted >>
               /\ current_captured_frameset' = [current_captured_frameset EXCEPT ![ctlCam] = f]
               /\ f.seq = cycle + 1
               /\ \/ ctlPC' = "capture" /\ ctlCam' = ctlCam + 1 /\ cycle' = cycle
                  \/ ctlPC' = "captured" /\ ctlCam = NumCameras /\ cycle' = cycle + 1
    BY <2>1, <2>4, CapturedIsLater DEF CtlCapture, WaitForCapturedFrameset, ctlStep, CapTypeOK, Cameras
  <2>5. ASSUME CtlDispatch
        PROVE  /\ ctlPC = "dispatch" /\ UNCHANGED cycle
               /\ owed' = [owed EXCEPT ![ctlCam] = TRUE]
               /\ submitted' = [submitted EXCEPT ![ctlCam] = current_captured_frameset[ctlCam]]
               /\ c # ctlCam =>
                    current_captured_frameset'[c] = current_captured_frameset[c]
               /\ \/ ctlPC' = "dispatch" /\ ctlCam' = ctlCam + 1
                  \/ ctlPC' = "dispatched" /\ ctlCam = NumCameras
    BY <2>1, <2>5 DEF CtlDispatch, ProcessPointcloudFromFrameset, ctlStep, CapTypeOK,
                      CamTypeOK, Cameras
  <2>6. ASSUME CtlAwait
        PROVE  /\ ctlPC = "await" /\ UNCHANGED << cycle, submitted >>
               /\ owed' = [owed EXCEPT ![ctlCam] = FALSE]
               /\ \/ ctlPC' = "await" /\ ctlCam' = ctlCam + 1
                  \/ ctlPC' = "awaited" /\ ctlCam = NumCameras
    BY <2>1, <2>6 DEF CtlAwait, WaitForPointcloudProcessed, ctlStep, CapTypeOK, Cameras
  <2> USE <2>1, <2>2 DEF Awaited, Captured
  <2>7. ASSUME NEW f \in CapturedFramesets \cup {NoFrame}, CtlCapture(f)
        PROVE  /\ ctlPC' \notin {"none", "exit"} => (owed'[c] <=> Awaited(c)')
               /\ submitted'[c].seq <= cycle'
               /\ ctlPC' = "capture" /\ c < ctlCam' =>
                    current_captured_frameset'[c].seq = cycle' + 1
               /\ Captured(c)' => current_captured_frameset'[c].seq = cycle'
    <3>1. c \in DOMAIN current_captured_frameset
      BY DEF CamTypeOK
    <3> QED BY <2>3, <2>4, <2>7, <3>1
  <2>8. CASE CtlDispatch
    <3>1. c \in DOMAIN submitted /\ c \in DOMAIN owed
      BY DEF CamTypeOK
    <3> QED BY <2>5, <2>8, <3>1
  <2>9. CASE CtlAwait
    <3>1. c \in DOMAIN owed
      BY DEF CamTypeOK
    <3> QED BY <2>6, <2>9, <3>1
  <2> QED BY <1>2, <2>7, <2>8, <2>9 DEF CtlCamera
<1>3. CASE Start
  BY <1>3 DEF Start, StartAllCameras, OwedInv, Awaited, Captured, CapTypeOK, NoFrame, ctlVars
<1>4. CASE OwnFlow
  BY <1>4, OwnFlowFrame DEF OwedInv, Awaited, Captured, camVars
<1>5. CASE StopOneCamera
  BY <1>5, StopOneCameraFrame DEF OwedInv, Awaited, Captured, ctlVars
<1>6. CASE \E k \in Consumers : ConNext(k)
  BY <1>6, ConFrame DEF OwedInv, Awaited, Captured, camVars
<1>7. CASE \E c \in Cameras : ProcThread(c)
  BY <1>7, ProcThreadFrame DEF OwedInv, Awaited, Captured, capVars, ctlVars
<1>8. CASE UNCHANGED vars
  BY <1>8 DEF OwedInv, Awaited, Captured, vars, camVars, capVars, ctlVars
<1> QED BY <1>1, <1>2, <1>3, <1>4, <1>5, <1>6, <1>7, <1>8, StepCases

(* All of it together is inductive.                                        *)
ProtocolInv == CapTypeOK /\ CycleInv /\ ThreadInv /\ OwedInv /\ CamInv

LEMMA ProtocolInvInit == CapInit => ProtocolInv
<1> SUFFICES ASSUME CapInit PROVE ProtocolInv
  OBVIOUS
<1>1. CycleInv /\ ThreadInv /\ OwedInv
  BY CameraNumbers, CapInitType
  DEF CapInit, CamInit, CycleInv, ThreadInv, OwedInv, Awaited, Captured, NoFrame,
      Stopping, Joined, CapTypeOK
<1> QED BY <1>1, CapInitType, CamInvInit DEF ProtocolInv, CapInit

LEMMA ProtocolInvStep == ProtocolInv /\ [CapNext]_vars => ProtocolInv'
<1> SUFFICES ASSUME ProtocolInv, [CapNext]_vars PROVE ProtocolInv'
  OBVIOUS
<1>1. CapTypeOK /\ CycleInv /\ ThreadInv /\ OwedInv /\ CamInv /\ CamTypeOK
  BY DEF ProtocolInv, CamInv
<1>2. CapTypeOK' /\ CycleInv' /\ ThreadInv' /\ OwedInv'
  BY <1>1, CapTypeStep, ThreadStep, OwedStep
<1>3. CamInv'
  BY <1>1, CapStepIsCamStep, CamInvStep
<1> QED BY <1>2, <1>3 DEF ProtocolInv

(* ProtocolInv is an invariant: the flags, the places of the threads and   *)
(* every camera agree, with the cameras' own inductive invariant.          *)
THEOREM ProtocolInvariant == CapSpec => []ProtocolInv
  BY ProtocolInvInit, ProtocolInvStep, PTL DEF CapSpec

(* The capturer's fields and its threads' positions keep their types.      *)
THEOREM CapTypeCorrect == CapSpec => []CapTypeOK
<1>1. ProtocolInv => CapTypeOK
  BY DEF ProtocolInv
<1> QED BY <1>1, ProtocolInvariant, PTL

(* Every thread of the capturer, stop() and its early exits included, uses *)
(* the cameras as their specification assumes.                             *)
THEOREM ProtocolIsKept == CapSpec => CapturerKeepsCameraProtocol
<1>1. CapInit => CamInit
  BY DEF CapInit
<1>2. ProtocolInv /\ [CapNext]_vars => [CamNext]_camVars
  BY CapStepIsCamStep DEF ProtocolInv, CamInv
<1> QED BY <1>1, <1>2, ProtocolInvariant, PTL DEF CapSpec, CapturerKeepsCameraProtocol, CamSpec

(* What OrbbecBaseCameraProofs.tla shows of the cameras holds inside the   *)
(* capturer: no frameset is dropped, processing_done is never an earlier   *)
(* cycle's, stop() never waits for a processing thread that sleeps, the    *)
(* pipeline stays up, and the clouds are not written while they are merged.*)
THEOREM CamerasInsideCapturer ==
  CapSpec => /\ []NoFrameDropped
             /\ []DoneMeansSubmittedFrame
             /\ []StopNeverWaitsForTimeout
             /\ []PipelineUpWhileStreaming
             /\ BorrowedCloudStable
  BY ProtocolIsKept, FramesAreNotDropped, DoneIsOfSubmittedFrame, StopWakesProcessingThread,
     PipelineStaysUp, BorrowedCloudIsStable DEF CapturerKeepsCameraProtocol
=============================================================================
