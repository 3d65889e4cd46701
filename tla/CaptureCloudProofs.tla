------------------------- MODULE CaptureCloudProofs -------------------------
(***************************************************************************)
(* Theorems about the clouds of OrbbecBaseCapture.tla: what a fresh cloud  *)
(* holds, who owns a cloud, which are lost and which are handed out.       *)
(*                                                                         *)
(* CloudInv is inductive given ProtocolInv, LostInv given both, and, for   *)
(* an application that does not overlap its calls with stop() and start(), *)
(* SyncInv and DeliveredInv as well.                                       *)
(***************************************************************************)
EXTENDS OrbbecBaseCaptureProofs

-----------------------------------------------------------------------------
(* The clouds.  Between the creation of a cloud and its installation it is *)
(* in newPC, then, as long as nobody takes it, in mergedPC; a cloud's name *)
(* is the number of its cycle.                                             *)
HasNew == {"created", "dispatch", "dispatched", "lock"}
HasMerged == {"locked", "await", "awaited", "merge", "merged"}

MutexInv ==
  /\ ctlHoldsMutex => \A k \in Consumers : ~conHoldsMutex(k)
  /\ \A j, k \in Consumers : conHoldsMutex(j) /\ conHoldsMutex(k) => j = k

HeapInv ==
  /\ ctlPC \in {"captured"} \cup HasNew \cup HasMerged => cycle # 0
  /\ newPC = IF ctlPC \in HasNew THEN cycle ELSE NoPC
  /\ mergedPC <= cycle
  /\ ctlPC \in {"captured"} \cup HasNew => mergedPC < cycle
  /\ ctlPC \in HasMerged => mergedPC = cycle
  /\ mergedPC # NoPC => mergedPC \in live
  /\ newPC # NoPC => newPC \in live

(* Which cameras were given a frameset of this cycle, and which have       *)
(* finished its cloud.                                                     *)
Given(c) ==
  \/ ctlPC = "dispatch" /\ c < ctlCam
  \/ ctlPC \in {"dispatched", "lock", "locked", "await"}
Finished(c) ==
  \/ ctlPC = "await" /\ c < ctlCam
  \/ ctlPC \in {"awaited", "merge"}

PointsInv ==
  \A c \in Cameras :
    /\ Given(c) => submitted[c].seq = cycle
    /\ Finished(c) => current_pcl_pointcloud[c].seq = cycle

(* A cloud that is not requested is not made, and one that is fresh is not *)
(* requested.  stop() leaves no cloud fresh.                               *)
FreshInv ==
  /\ (~stopped /\ ctlPC \in {"check", "capture", "captured"} \cup HasNew \cup HasMerged
      /\ ctlPC # "merged") => ~mergedPC_is_fresh
  /\ (~stopped /\ mergedPC_want_new /\ ctlPC # "merged") => ~mergedPC_is_fresh
  /\ ctlPC = "merged" => mergedPC_is_fresh
  /\ ownPC \in {"finish", "gone"} \/ (ownPC = "idle" /\ ~control_thread) => ~mergedPC_is_fresh
  /\ FreshCloudIsComplete

FirstSessionInv ==
  /\ sessions = 0 =>
       /\ ~control_thread /\ mergedPC = NoPC
       /\ \A k \in Consumers : conPC[k] = "idle"
  /\ GetFindsItsCloud

CloudInv == MutexInv /\ HeapInv /\ PointsInv /\ FreshInv /\ FirstSessionInv

(* In mergedPC, but finished in an earlier session or not at all.          *)
Stale == mergedPC # NoPC /\ ~mergedPC_is_fresh /\ ctlPC \notin {"none", "exit"} \cup HasMerged

(* lost[i] is the cloud that the session after the i-th forgot when it     *)
(* installed its first one.                                                *)
Lost(lost) ==
  /\ live \subseteq {mergedPC, newPC} \cup {lost[i] : i \in 1 .. MaxSessions}
  /\ \A i \in 1 .. MaxSessions : i >= sessions => lost[i] = NoPC
  /\ Stale => sessions >= 2 /\ lost[sessions - 1] = NoPC

LostInv == \E lost \in [1 .. MaxSessions -> Clouds \cup {NoPC}] : Lost(lost)

(* What the clouds handed out hold.                                        *)
DeliveredInv ==
  \A i \in DOMAIN delivered : \A c \in Cameras :
    /\ delivered[i][c] <= cycle
    /\ ctlPC \in {"captured", "locked", "await", "awaited", "merge"} \cup HasNew =>
         delivered[i][c] < cycle

(* The application that does not overlap its calls with start() and stop().*)
SyncInv ==
  \A k \in Consumers :
    /\ conPC[k] # "idle" => control_thread /\ ~stopped /\ ownPC = "idle"
    /\ conPC[k] = "take" => mergedPC_is_fresh /\ mergedPC # NoPC
-----------------------------------------------------------------------------
(* The mutex.                                                              *)
LEMMA CtlMutex ==
  ASSUME CtlFlow \/ CtlCamera
  PROVE  /\ ctlHoldsMutex' => ctlHoldsMutex \/ mergedPC_mutex_free
         /\ \A k \in Consumers : conHoldsMutex(k)' => conHoldsMutex(k)
<1> USE DEF ctlHoldsMutex, conHoldsMutex, ctlStep
<1>1. CASE CtlCamera
  BY <1>1, CtlCameraFrame DEF CtlCamera, CtlCapture, CtlDispatch, CtlAwait, conVars
<1>2. CASE CtlMerged
  BY <1>2 DEF CtlMerged, mergedPC_is_fresh_notified
<1>3. CASE CtlFlow /\ ~CtlMerged
  BY <1>3
  DEF CtlFlow, CtlTop, CtlWant, CtlPark, CtlSpuriousWakeup, CtlCheck, CtlCreate, CtlCreated,
      CtlDispatched, CtlLock, CtlLocked, CtlAwaited, CtlMerge, CtlStopOrGoOn, ctlOnly, conVars
<1> QED BY <1>1, <1>2, <1>3

LEMMA ConMutex ==
  ASSUME CapTypeOK, NEW k \in Consumers, ConNext(k)
  PROVE  /\ conHoldsMutex(k)' => conHoldsMutex(k) \/ mergedPC_mutex_free
         /\ \A j \in Consumers : j # k => conPC'[j] = conPC[j]
         /\ ctlHoldsMutex' <=> ctlHoldsMutex
<1>1. ctlHoldsMutex' <=> ctlHoldsMutex
  BY ConFrame DEF ctlHoldsMutex
<1>2. /\ conHoldsMutex(k)' => conHoldsMutex(k) \/ mergedPC_mutex_free
      /\ \A j \in Consumers : j # k => conPC'[j] = conPC[j]
  BY DEF ConNext, Get, Available, ConLocal, ConLocking, GetSpuriousWakeup, GetPark,
         GetTake, GetReturn, GetRequest, GetTest, GetAgain, AvailableRequest,
         AvailableReturn, conStep, conHoldsMutex, CapTypeOK
<1> QED BY <1>1, <1>2

LEMMA OwnMutex ==
  ASSUME Start \/ OwnFlow \/ StopOneCamera
  PROVE  /\ ctlHoldsMutex' => ctlHoldsMutex
         /\ \A k \in Consumers : conHoldsMutex(k)' => conHoldsMutex(k)
<1> USE DEF ctlHoldsMutex, conHoldsMutex
<1>1. CASE Start
  BY <1>1 DEF Start, conVars
<1>2. CASE OwnFlow
  <2>1. ctlHoldsMutex' => ctlHoldsMutex
    BY <1>2, OwnFlowFrame
  <2>2. conPC' = conPC \/ conPC' = mergedPC_is_fresh_notified
    BY <1>2 DEF OwnFlow, Stop, StopSetFresh, StopClearWant, StopNotifyFresh, StopSetWant,
                StopNotifyWant, StopJoin, StopClearFresh, StopFinish, Destroy, conVars
  <2> QED BY <2>1, <2>2 DEF mergedPC_is_fresh_notified
<1>3. CASE StopOneCamera
  BY <1>3, StopOneCameraFrame DEF ctlVars, conVars
<1> QED BY <1>1, <1>2, <1>3

LEMMA MutexStep ==
  ASSUME CapTypeOK, MutexInv, [CapNext]_vars
  PROVE  MutexInv'
<1> USE DEF MutexInv
<1>1. CASE CtlFlow \/ CtlCamera
  BY <1>1, CtlMutex DEF mergedPC_mutex_free
<1>2. CASE Start \/ OwnFlow \/ StopOneCamera
  BY <1>2, OwnMutex
<1>3. ASSUME NEW k \in Consumers, ConNext(k)
      PROVE  MutexInv'
  <2>1. \A j \in Consumers : j # k => (conHoldsMutex(j)' <=> conHoldsMutex(j))
    BY <1>3, ConMutex DEF conHoldsMutex
  <2> QED BY <1>3, <2>1, ConMutex DEF mergedPC_mutex_free
<1>4. CASE (\E c \in Cameras : ProcThread(c)) \/ UNCHANGED vars
  BY <1>4, ProcThreadFrame DEF ctlHoldsMutex, conHoldsMutex, vars, capVars, ctlVars, conVars
<1> QED BY <1>1, <1>2, <1>3, <1>4, StepCases

-----------------------------------------------------------------------------
(* The owners of a cloud.                                                  *)
LEMMA CloudNumbers ==
  ASSUME CapTypeOK
  PROVE  /\ mergedPC \in Nat /\ newPC \in Nat /\ cycle \in Nat
         /\ NoPC = 0
  BY CameraNumbers DEF CapTypeOK, Clouds, NoPC

LEMMA HeapStep ==
  ASSUME ProtocolInv, MutexInv, HeapInv, [CapNext]_vars
  PROVE  HeapInv'
<1>0. CapTypeOK /\ CycleInv /\ ThreadInv
  BY DEF ProtocolInv
<1> USE <1>0, CloudNumbers DEF HeapInv, HasNew, HasMerged
<1>1. CASE CtlFlow
  <2> USE CtlFlowFrame DEF ctlStep, ctlOnly, heapVars
  <2>1. CASE CtlCreate
    BY <2>1 DEF CtlCreate
  <2>2. CASE CtlCreated \/ CtlDispatched
    BY <2>2 DEF CtlCreated, CtlDispatched, CtlStopOrGoOn
  <2>3. CASE CtlLock
    BY <2>3 DEF CtlLock
  <2>4. CASE CtlFlow /\ ~(CtlCreate \/ CtlCreated \/ CtlDispatched \/ CtlLock)
    BY <2>4 DEF CtlFlow, CtlTop, CtlWant, CtlPark, CtlSpuriousWakeup, CtlCheck, CtlLocked,
                CtlAwaited, CtlMerge, CtlMerged
  <2> QED BY <1>1, <2>1, <2>2, <2>3, <2>4
<1>2. CASE CtlCamera
  BY <1>2, CtlCameraFrame DEF CtlCamera, CtlCapture, CtlDispatch, CtlAwait, ctlStep, heapVars
<1>3. CASE Start
  BY <1>3 DEF Start, ThreadInv, heapVars
<1>4. CASE OwnFlow
  <2>1. CASE Destroy
    BY <2>1 DEF Destroy, ctlVars, ThreadInv
  <2>2. CASE OwnFlow /\ ~Destroy
    <3>1. UNCHANGED heapVars
      BY <2>2 DEF OwnFlow, Stop, StopSetFresh, StopClearWant, StopNotifyFresh, StopSetWant,
                  StopNotifyWant, StopJoin, StopClearFresh, StopFinish, ownOnly
    <3>2. ctlPC' = "none" => ctlPC \notin HasNew
      BY <2>2 DEF OwnFlow, Stop, StopSetFresh, StopClearWant, StopNotifyFresh, StopSetWant,
                  StopNotifyWant, StopJoin, StopClearFresh, StopFinish, ownOnly,
                  mergedPC_want_new_notified
    <3> QED BY <1>4, <3>1, <3>2, OwnFlowFrame DEF heapVars
  <2> QED BY <1>4, <2>1, <2>2
<1>5. CASE StopOneCamera
  BY <1>5, StopOneCameraFrame DEF heapVars, ctlVars
<1>6. ASSUME NEW k \in Consumers, ConNext(k)
      PROVE  HeapInv'
  <2>1. CASE GetTake(k)
    <3>1. ctlPC \notin HasMerged
      BY <2>1 DEF GetTake, conStep, MutexInv, conHoldsMutex, ctlHoldsMutex
    <3> QED BY <1>6, <2>1, <3>1, ConFrame DEF GetTake
  <2>2. CASE ~GetTake(k)
    <3>1. UNCHANGED heapVars
      BY <1>6, <2>2
      DEF ConNext, Get, Available, ConLocal, ConLocking, GetSpuriousWakeup, GetPark, GetReturn,
          GetRequest, GetTest, GetAgain, AvailableRequest, AvailableReturn,
          request_new_pointcloud, conLocal, conOnly
    <3> QED BY <1>6, <3>1, ConFrame DEF heapVars
  <2> QED BY <2>1, <2>2
<1>7. CASE (\E c \in Cameras : ProcThread(c)) \/ UNCHANGED vars
  BY <1>7, ProcThreadFrame DEF vars, capVars, heapVars, ctlVars
<1> QED BY <1>1, <1>2, <1>3, <1>4, <1>5, <1>6, <1>7, StepCases

-----------------------------------------------------------------------------
(* Of which cycle the clouds of the cameras are.                           *)
LEMMA PointsStep ==
  ASSUME ProtocolInv, PointsInv, [CapNext]_vars
  PROVE  PointsInv'
<1>0. CapTypeOK /\ CamTypeOK /\ ThreadInv /\ OwedInv /\ CamInv
  BY DEF ProtocolInv, CamInv
<1> SUFFICES ASSUME NEW c \in Cameras
             PROVE  /\ Given(c)' => submitted'[c].seq = cycle'
                    /\ Finished(c)' => current_pcl_pointcloud'[c].seq = cycle'
  BY DEF PointsInv
<1>n. ctlCam \in Nat /\ c \in Nat /\ c >= 1 /\ c <= NumCameras /\ NumCameras \in Nat
  BY <1>0, CameraAssumption DEF CapTypeOK, Cameras
<1>h. /\ Given(c) => submitted[c].seq = cycle
      /\ Finished(c) => current_pcl_pointcloud[c].seq = cycle
  BY DEF PointsInv
<1> USE <1>n, <1>h DEF Given, Finished
<1>1. CASE CtlFlow
  <2>1. (Given(c)' => Given(c)) /\ (Finished(c)' => Finished(c))
    BY <1>1
    DEF CtlFlow, CtlTop, CtlWant, CtlPark, CtlSpuriousWakeup, CtlCheck, CtlCreate, CtlCreated,
        CtlDispatched, CtlLock, CtlLocked, CtlAwaited, CtlMerge, CtlMerged, CtlStopOrGoOn,
        ctlStep
  <2> QED BY <1>1, <2>1, CtlFlowFrame DEF camVars
<1>2. CASE CtlCamera
  <2>1. ASSUME NEW f \in CapturedFramesets \cup {NoFrame}, CtlCapture(f)
        PROVE  ~Given(c)' /\ ~Finished(c)'
    BY <2>1 DEF CtlCapture, ctlStep
  <2>2. CASE CtlDispatch
    <3>1. current_captured_frameset[c].seq = cycle \/ c < ctlCam
      BY <1>0, <2>2 DEF OwedInv, Captured, CtlDispatch, ctlStep
    <3>2. /\ submitted' = [submitted EXCEPT ![ctlCam] = current_captured_frameset[ctlCam]]
          /\ cycle' = cycle /\ ctlPC = "dispatch"
          /\ \/ ctlPC' = "dispatch" /\ ctlCam' = ctlCam + 1
             \/ ctlPC' = "dispatched" /\ ~(ctlCam < NumCameras)
      BY <2>2 DEF CtlDispatch, ProcessPointcloudFromFrameset, ctlStep
    <3>3. Given(c)' => c < ctlCam \/ c = ctlCam
      BY <3>2
    <3>4. c \in DOMAIN submitted
      BY <1>0 DEF CamTypeOK
    <3> QED BY <3>1, <3>2, <3>3, <3>4
  <2>3. CASE CtlAwait
    <3>1. /\ UNCHANGED << submitted, current_pcl_pointcloud, cycle >>
          /\ Given(c)' => Given(c)
          /\ Finished(c)' => Finished(c) \/ c = ctlCam
          /\ processing_done[ctlCam] /\ ctlPC = "await"
      BY <2>3, <1>0 DEF CtlAwait, WaitForPointcloudProcessed, ctlStep, CapTypeOK, Cameras
    <3>2. c = ctlCam => current_pcl_pointcloud[c] = submitted[c]
      BY <1>0, <3>1 DEF CamInv, Handshake, Idle, Queued, InProcess, Processed, ThreadInv
    <3> QED BY <3>1, <3>2
  <2> QED BY <1>2, <2>1, <2>2, <2>3 DEF CtlCamera
<1>3. CASE Start
  BY <1>3 DEF Start
<1>4. CASE OwnFlow
  BY <1>4, OwnFlowFrame DEF camVars
<1>5. CASE StopOneCamera
  BY <1>5, StopOneCameraFrame DEF ctlVars
<1>6. CASE \E k \in Consumers : ConNext(k)
  BY <1>6, ConFrame DEF camVars
<1>7. ASSUME NEW d \in Cameras, ProcThread(d)
      PROVE  /\ Given(c)' => submitted'[c].seq = cycle'
             /\ Finished(c)' => current_pcl_pointcloud'[c].seq = cycle'
  <2>1. UNCHANGED << submitted, cycle, ctlPC, ctlCam >>
    BY <1>7, ProcThreadFrame DEF capVars, ctlVars
  <2>2. CamNext
    BY <1>7 DEF ProcThread, CamNext
  <2>3. Finished(c) => stopPC[c] = "up" /\ ~owed[c]
    BY <1>0 DEF ThreadInv, OwedInv, Awaited
  <2> QED BY <2>1, <2>2, <2>3, <1>0, BorrowedCloudStep
<1>8. CASE UNCHANGED vars
  BY <1>8 DEF vars, camVars, capVars, ctlVars
<1> QED BY <1>1, <1>2, <1>3, <1>4, <1>5, <1>6, <1>7, <1>8, StepCases

-----------------------------------------------------------------------------
(* The flags.                                                              *)

(* merge_camera_pointclouds() of clouds that are all of one cycle.         *)
LEMMA MergeIsComplete ==
  ASSUME CapTypeOK, HeapInv, PointsInv, CtlMerge
  PROVE  points'[mergedPC] = [c \in Cameras |-> mergedPC]
<1>1. mergedPC \in Clouds /\ mergedPC = cycle
  BY DEF HeapInv, HasMerged, CtlMerge, ctlStep, CapTypeOK, NoPC
<1>2. \A c \in Cameras : current_pcl_pointcloud[c].seq = cycle
  BY DEF PointsInv, Finished, CtlMerge, ctlStep
<1>3. mergedPC \in DOMAIN points
  BY <1>1 DEF CapTypeOK
<1> QED BY <1>1, <1>2, <1>3 DEF CtlMerge, merge_camera_pointclouds

(* The flags as the control thread's steps leave them.                     *)
LEMMA CtlFresh ==
  ASSUME ProtocolInv, HeapInv, PointsInv, FreshInv, CtlFlow
  PROVE  FreshInv'
<1>0. CapTypeOK
  BY DEF ProtocolInv
<1> USE <1>0, CtlFlowFrame
    DEF FreshInv, FreshCloudIsComplete, HasNew, HasMerged, ctlStep, ctlOnly, ownVars, heapVars,
        flagVars
<1>1. CASE CtlTop \/ CtlWant \/ CtlPark \/ CtlSpuriousWakeup \/ CtlCheck
  BY <1>1 DEF CtlTop, CtlWant, CtlPark, CtlSpuriousWakeup, CtlCheck
<1>2. CASE CtlCreate \/ CtlCreated \/ CtlDispatched
  BY <1>2 DEF CtlCreate, CtlCreated, CtlDispatched, CtlStopOrGoOn
<1>3. CASE CtlLock
  BY <1>3 DEF CtlLock
<1>4. CASE CtlLocked \/ CtlAwaited
  BY <1>4 DEF CtlLocked, CtlAwaited
<1>5. CASE CtlMerge
  <2>1. mergedPC # NoPC
    BY <1>5 DEF HeapInv, CtlMerge, NoPC
  <2>2. ownPC \notin {"finish", "gone"} /\ (ownPC = "idle" => control_thread)
    BY <1>5 DEF ProtocolInv, ThreadInv, Joined, CtlMerge
  <2> QED BY <1>5, <2>1, <2>2, MergeIsComplete DEF CtlMerge
<1>6. CASE CtlMerged
  BY <1>6 DEF CtlMerged
<1> QED BY <1>1, <1>2, <1>3, <1>4, <1>5, <1>6 DEF CtlFlow

LEMMA OwnFresh ==
  ASSUME ProtocolInv, FreshInv, Start \/ OwnFlow \/ StopOneCamera
  PROVE  FreshInv'
<1>0. CapTypeOK /\ ThreadInv
  BY DEF ProtocolInv
<1> USE <1>0
    DEF ThreadInv, Stopping, Joined, FreshInv, FreshCloudIsComplete, HasNew, HasMerged, ownStep,
        ownOnly, ownVars, ctlVars, heapVars, flagVars
<1>1. CASE Start
  BY <1>1 DEF Start
<1>2. CASE StopOneCamera
  BY <1>2, StopOneCameraFrame DEF StopOneCamera
<1>3. CASE Stop \/ StopSetFresh \/ StopClearWant \/ StopNotifyFresh
  BY <1>3 DEF Stop, StopSetFresh, StopClearWant, StopNotifyFresh
<1>4. CASE StopSetWant \/ StopNotifyWant \/ StopJoin
  BY <1>4 DEF StopSetWant, StopNotifyWant, StopJoin, mergedPC_want_new_notified
<1>5. CASE StopClearFresh \/ StopFinish \/ Destroy
  BY <1>5 DEF StopClearFresh, StopFinish, Destroy
<1> QED BY <1>1, <1>2, <1>3, <1>4, <1>5 DEF OwnFlow

LEMMA ConFresh ==
  ASSUME MutexInv, FreshInv, NEW k \in Consumers, ConNext(k)
  PROVE  FreshInv'
<1>1. CASE GetTake(k)
  <2>1. ctlPC # "merged"
    BY <1>1 DEF GetTake, conStep, MutexInv, conHoldsMutex, ctlHoldsMutex
  <2> QED BY <1>1, <2>1 DEF GetTake, FreshInv, FreshCloudIsComplete, ownVars, ctlVars
<1>2. CASE ~GetTake(k)
  <2>1. /\ UNCHANGED << stopped, mergedPC_is_fresh, mergedPC, points, ownVars >>
        /\ (mergedPC_want_new' /\ ~mergedPC_want_new) => ~mergedPC_is_fresh
        /\ mergedPC_want_new' \/ ~mergedPC_want_new
    BY <1>2
    DEF ConNext, Get, Available, ConLocal, ConLocking, GetSpuriousWakeup, GetPark, GetReturn,
        GetRequest, GetTest, GetAgain, AvailableRequest, AvailableReturn,
        request_new_pointcloud, conLocal, conOnly, flagVars, heapVars
  <2> QED BY <2>1, ConFrame DEF FreshInv, FreshCloudIsComplete, ownVars, HasNew, HasMerged
<1> QED BY <1>1, <1>2

LEMMA FreshStep ==
  ASSUME ProtocolInv, CloudInv, [CapNext]_vars
  PROVE  FreshInv'
<1>0. MutexInv /\ HeapInv /\ PointsInv /\ FreshInv
  BY DEF CloudInv
<1>1. CASE CtlCamera
  BY <1>0, <1>1, CtlCameraFrame
  DEF CtlCamera, CtlCapture, CtlDispatch, CtlAwait, ctlStep, FreshInv, FreshCloudIsComplete,
      HasNew, HasMerged, flagVars, heapVars, ownVars
<1>2. CASE (\E c \in Cameras : ProcThread(c)) \/ UNCHANGED vars
  BY <1>0, <1>2, ProcThreadFrame
  DEF FreshInv, FreshCloudIsComplete, HasNew, HasMerged, vars, capVars, flagVars, heapVars,
      ctlVars, ownVars
<1> QED BY <1>0, <1>1, <1>2, StepCases, CtlFresh, OwnFresh, ConFresh

-----------------------------------------------------------------------------
(* The first session, in which no cloud of an earlier one is around.       *)

(* Whoever comes to take a cloud saw it fresh, and whoever is there to take *)
(* one keeps the others from it.                                           *)
LEMMA CtlTake ==
  ASSUME ProtocolInv, CloudInv, CtlFlow \/ CtlCamera, NEW k \in Consumers, conPC'[k] = "take"
  PROVE  conPC[k] = "take" /\ UNCHANGED << mergedPC_is_fresh, mergedPC, stopped >>
<1>1. conPC[k] = "take"
  BY CtlCameraFrame
  DEF CtlFlow, CtlTop, CtlWant, CtlPark, CtlSpuriousWakeup, CtlCheck, CtlCreate, CtlCreated,
      CtlDispatched, CtlLock, CtlLocked, CtlAwaited, CtlMerge, CtlMerged, CtlStopOrGoOn,
      mergedPC_is_fresh_notified, ctlOnly, conVars
<1>2. ~ctlHoldsMutex /\ ~mergedPC_mutex_free
  BY <1>1 DEF CloudInv, MutexInv, conHoldsMutex, mergedPC_mutex_free
<1>3. UNCHANGED << mergedPC_is_fresh, mergedPC, stopped >>
  BY <1>2, CtlCameraFrame
  DEF CtlFlow, CtlTop, CtlWant, CtlPark, CtlSpuriousWakeup, CtlCheck, CtlCreate, CtlCreated,
      CtlDispatched, CtlLock, CtlLocked, CtlAwaited, CtlMerge, CtlMerged, CtlStopOrGoOn,
      ctlOnly, ctlStep, ctlHoldsMutex, flagVars, heapVars
<1> QED BY <1>1, <1>3

LEMMA ConTake ==
  ASSUME ProtocolInv, CloudInv, NEW k \in Consumers, ConNext(k),
         NEW j \in Consumers, conPC'[j] = "take"
  PROVE  /\ UNCHANGED << mergedPC_is_fresh, mergedPC, stopped >>
         /\ conPC[j] = "take" \/ mergedPC_is_fresh
<1>0. CapTypeOK /\ MutexInv
  BY DEF ProtocolInv, CloudInv
<1>1. CASE GetTake(k)
  <2>1. conPC[k] = "take" /\ conPC'[k] = "again"
    BY <1>0, <1>1 DEF GetTake, conStep, CapTypeOK
  <2>2. j # k /\ conPC[j] = "take"
    BY <1>0, <2>1, ConMutex
  <2> QED BY <1>0, <2>1, <2>2 DEF MutexInv, conHoldsMutex
<1>2. CASE ~GetTake(k)
  <2> USE DEF ConNext, Get, Available, ConLocal, ConLocking, GetSpuriousWakeup, GetPark,
          GetReturn, GetRequest, GetTest, GetAgain, AvailableRequest, AvailableReturn,
          request_new_pointcloud, conLocal, conOnly, flagVars, heapVars
  <2>1. UNCHANGED << mergedPC_is_fresh, mergedPC, stopped >>
    BY <1>2
  <2>2. conPC[j] = "take" \/ mergedPC_is_fresh
    BY <1>0, <1>2 DEF conStep, CapTypeOK
  <2> QED BY <2>1, <2>2
<1> QED BY <1>1, <1>2

LEMMA FirstSessionStep ==
  ASSUME ProtocolInv, CloudInv, [CapNext]_vars
  PROVE  FirstSessionInv'
<1>0. CapTypeOK /\ ThreadInv /\ MutexInv /\ HeapInv /\ FreshInv /\ FirstSessionInv
  BY DEF ProtocolInv, CloudInv
<1> USE <1>0 DEF FirstSessionInv, GetFindsItsCloud
<1>1. CASE CtlFlow \/ CtlCamera
  <2>1. UNCHANGED << sessions, control_thread, stopped >> /\ control_thread
    BY <1>1, CtlFlowFrame, CtlCameraFrame DEF ThreadInv, ownVars, flagVars
  <2> QED BY <1>1, <2>1, CtlTake
<1>2. CASE Start
  <2>1. sessions' # 0
    BY <1>2 DEF Start, CapTypeOK
  <2>2. sessions' = 1 => sessions = 0
    BY <1>2, CameraNumbers DEF Start, CapTypeOK
  <2> QED BY <1>2, <2>1, <2>2 DEF Start, conVars
<1>3. CASE OwnFlow
  <2>1. sessions' = sessions
    BY <1>3, OwnFlowFrame
  <2>2. CASE sessions = 0
    BY <1>3, <2>1, <2>2
    DEF OwnFlow, Stop, StopSetFresh, StopClearWant, StopNotifyFresh, StopSetWant,
        StopNotifyWant, StopJoin, StopClearFresh, StopFinish, Destroy, ownStep, ThreadInv,
        Stopping, Joined, ownOnly, conVars, heapVars, mergedPC_is_fresh_notified
  <2>3. CASE sessions # 0
    <3>1. stopped' = FALSE =>
            /\ UNCHANGED << stopped, mergedPC_is_fresh, conPC >>
            /\ mergedPC' = mergedPC \/ ConsumersIdle
      BY <1>3
      DEF OwnFlow, Stop, StopSetFresh, StopClearWant, StopNotifyFresh, StopSetWant,
          StopNotifyWant, StopJoin, StopClearFresh, StopFinish, Destroy, ownStep, ThreadInv,
          Stopping, Joined, ownOnly, conVars, heapVars, flagVars
    <3> QED BY <2>1, <2>3, <3>1 DEF ConsumersIdle, CapTypeOK
  <2> QED BY <2>2, <2>3
<1>4. CASE StopOneCamera
  BY <1>4, StopOneCameraFrame DEF flagVars, heapVars, conVars
<1>5. ASSUME NEW k \in Consumers, ConNext(k)
      PROVE  FirstSessionInv'
  <2>1. sessions # 0
    BY <1>5
    DEF ConNext, Get, Available, ConLocal, ConLocking, GetSpuriousWakeup, GetPark, GetTake,
        GetReturn, GetRequest, GetTest, GetAgain, AvailableRequest, AvailableReturn, conStep,
        MayCallSource
  <2>2. UNCHANGED << sessions, stopped >>
    BY <1>5, ConFrame DEF ownVars
  <2> QED BY <1>5, <2>1, <2>2, ConTake DEF FreshInv, FreshCloudIsComplete
<1>6. CASE (\E c \in Cameras : ProcThread(c)) \/ UNCHANGED vars
  BY <1>6, ProcThreadFrame DEF vars, capVars, flagVars, heapVars, conVars, ownVars
<1> QED BY <1>1, <1>2, <1>3, <1>4, <1>5, <1>6, StepCases

-----------------------------------------------------------------------------
(* The clouds' invariant and what follows from it.                         *)
LEMMA CloudInvInit == CapInit => CloudInv
<1> SUFFICES ASSUME CapInit PROVE CloudInv
  OBVIOUS
<1>1. MutexInv
  BY DEF CapInit, MutexInv, ctlHoldsMutex, conHoldsMutex
<1>2. HeapInv
  BY DEF CapInit, HeapInv, HasNew, HasMerged, NoPC
<1>3. PointsInv
  BY DEF CapInit, PointsInv, Given, Finished
<1>4. FreshInv
  BY DEF CapInit, FreshInv, FreshCloudIsComplete, HasNew, HasMerged
<1>5. FirstSessionInv
  BY DEF CapInit, FirstSessionInv, GetFindsItsCloud
<1> QED BY <1>1, <1>2, <1>3, <1>4, <1>5 DEF CloudInv

LEMMA CloudInvStep == ProtocolInv /\ CloudInv /\ [CapNext]_vars => CloudInv'
<1> SUFFICES ASSUME ProtocolInv, CloudInv, [CapNext]_vars PROVE CloudInv'
  OBVIOUS
<1>1. CapTypeOK /\ MutexInv /\ HeapInv /\ PointsInv
  BY DEF ProtocolInv, CloudInv
<1> QED BY <1>1, MutexStep, HeapStep, PointsStep, FreshStep, FirstSessionStep DEF CloudInv

(* ProtocolInv and CloudInv hold together: who holds the mutex, where every *)
(* cloud is and what it was made of agree in every step of every thread.   *)
THEOREM CloudInvariant == CapSpec => [](ProtocolInv /\ CloudInv)
  BY CloudInvInit, CloudInvStep, ProtocolInvariant, PTL DEF CapSpec

(* A cloud announced as fresh was merged from one cycle's framesets of all *)
(* cameras, whatever stop() and a restart interrupted before.              *)
THEOREM FreshCloudsAreComplete == CapSpec => []FreshCloudIsComplete
<1>1. CloudInv => FreshCloudIsComplete
  BY DEF CloudInv, FreshInv
<1> QED BY <1>1, CloudInvariant, PTL

(* No cloud is freed or handed out twice, or used after it.                *)
THEOREM CloudsHaveOneOwner == CapSpec => []CloudsAreOwnedOnce
<1>1. ProtocolInv /\ CloudInv => CloudsAreOwnedOnce
  <2> SUFFICES ASSUME ProtocolInv, CloudInv PROVE CloudsAreOwnedOnce
    OBVIOUS
  <2>1. CapTypeOK /\ HeapInv
    BY DEF ProtocolInv, CloudInv
  <2> QED BY <2>1, CloudNumbers DEF HeapInv, HasNew, HasMerged, CloudsAreOwnedOnce
<1> QED BY <1>1, CloudInvariant, PTL

(* The control thread never installs its cloud over one that is fresh.     *)
THEOREM FinishedCloudsAreNotReplaced == CapSpec => []FinishedCloudIsNotReplaced
<1>1. CloudInv => FinishedCloudIsNotReplaced
  BY DEF CloudInv, FreshInv, HasNew, FinishedCloudIsNotReplaced
<1> QED BY <1>1, CloudInvariant, PTL

(* The assertion of get_pointcloud() holds until the first stop(), however *)
(* many threads call it.                                                   *)
THEOREM GettersFindTheirCloud == CapSpec => []GetFindsItsCloud
<1>1. CloudInv => GetFindsItsCloud
  BY DEF CloudInv, FirstSessionInv
<1> QED BY <1>1, CloudInvariant, PTL

-----------------------------------------------------------------------------
(* The clouds that are forgotten.                                          *)

(* The steps that forget none: nothing is allocated but into newPC, and    *)
(* what mergedPC or newPC lets go of is no longer allocated.               *)
NothingForgotten ==
  /\ live' \subseteq {mergedPC', newPC'} \cup (live \ {mergedPC, newPC})
  /\ sessions' = sessions
  /\ Stale' => Stale

LEMMA NothingLost ==
  ASSUME NEW lost, Lost(lost), NothingForgotten
  PROVE  Lost(lost)'
  BY DEF Lost, Stale, NothingForgotten

LEMMA CtlForgets ==
  ASSUME ProtocolInv, CloudInv, CtlFlow \/ CtlCamera, ~(CtlLock /\ Stale)
  PROVE  NothingForgotten
<1>0. CapTypeOK /\ HeapInv /\ FreshInv
  BY DEF ProtocolInv, CloudInv
<1> USE <1>0 DEF NothingForgotten, Stale, HasMerged, ctlStep, ctlOnly, heapVars, ownVars, flagVars
<1>1. CASE CtlCamera
  BY <1>1, CtlCameraFrame DEF CtlCamera, CtlCapture, CtlDispatch, CtlAwait
<1>2. CASE CtlCreate
  BY <1>2 DEF CtlCreate, HeapInv, HasNew, CapTypeOK, Clouds, NoPC
<1>3. CASE CtlCreated \/ CtlDispatched
  BY <1>3 DEF CtlCreated, CtlDispatched, CtlStopOrGoOn
<1>4. CASE CtlLock
  BY <1>4 DEF CtlLock, CapTypeOK, Clouds, NoPC
<1>5. CASE CtlMerged
  BY <1>5 DEF CtlMerged, FreshInv
<1>6. CASE CtlFlow /\ ~(CtlCreate \/ CtlCreated \/ CtlDispatched \/ CtlLock \/ CtlMerged)
  BY <1>6 DEF CtlFlow, CtlTop, CtlWant, CtlPark, CtlSpuriousWakeup, CtlCheck, CtlLocked,
              CtlAwaited, CtlMerge
<1> QED BY <1>1, <1>2, <1>3, <1>4, <1>5, <1>6

LEMMA OwnForgets ==
  ASSUME ProtocolInv, OwnFlow \/ StopOneCamera
  PROVE  NothingForgotten
<1>0. ThreadInv
  BY DEF ProtocolInv
<1> USE <1>0 DEF NothingForgotten, Stale, HasMerged
<1>1. CASE StopOneCamera
  BY <1>1, StopOneCameraFrame DEF flagVars, heapVars, ctlVars
<1>2. CASE Destroy
  BY <1>2 DEF Destroy, flagVars, ctlVars
<1>3. CASE OwnFlow /\ ~Destroy
  BY <1>3, OwnFlowFrame
  DEF OwnFlow, Stop, StopSetFresh, StopClearWant, StopNotifyFresh, StopSetWant, StopNotifyWant,
      StopJoin, StopClearFresh, StopFinish, ownStep, ownOnly, flagVars, heapVars, ctlVars,
      ThreadInv, Joined, mergedPC_want_new_notified
<1> QED BY <1>1, <1>2, <1>3

LEMMA ConForgets ==
  ASSUME NEW k \in Consumers, ConNext(k)
  PROVE  NothingForgotten
<1> USE DEF NothingForgotten, Stale, HasMerged
<1>1. CASE GetTake(k)
  BY <1>1 DEF GetTake, ctlVars, ownVars
<1>2. CASE ~GetTake(k)
  <2>1. UNCHANGED << heapVars, flagVars >> \/ UNCHANGED << heapVars, mergedPC_is_fresh >>
    BY <1>2
    DEF ConNext, Get, Available, ConLocal, ConLocking, GetSpuriousWakeup, GetPark, GetReturn,
        GetRequest, GetTest, GetAgain, AvailableRequest, AvailableReturn,
        request_new_pointcloud, conLocal, conOnly
  <2> QED BY <2>1, ConFrame DEF heapVars, flagVars, ownVars
<1> QED BY <1>1, <1>2

(* The first cloud that a session installs takes the place of the one that *)
(* the session before left behind.                                         *)
LEMMA CtlLockLoses ==
  ASSUME CapTypeOK, HeapInv, CtlLock, Stale,
         NEW lost \in [1 .. MaxSessions -> Clouds \cup {NoPC}], Lost(lost)
  PROVE  LostInv'
<1>1. sessions >= 2 /\ lost[sessions - 1] = NoPC
  BY DEF Lost, Stale
<1>2. sessions \in Nat /\ sessions - 1 \in 1 .. MaxSessions
  BY <1>1, CameraNumbers DEF CapTypeOK
<1>3. PICK lost2 \in [1 .. MaxSessions -> Clouds \cup {NoPC}] :
        lost2 = [lost EXCEPT ![sessions - 1] = mergedPC]
  BY DEF CapTypeOK
<1>4. \A i \in 1 .. MaxSessions : lost2[i] = IF i = sessions - 1 THEN mergedPC ELSE lost[i]
  BY <1>3
<1>5. \A i \in 1 .. MaxSessions : lost[i] # NoPC => lost2[i] = lost[i]
  BY <1>1, <1>4
<1>6. lost2[sessions - 1] = mergedPC
  BY <1>2, <1>4
<1>7. live' \subseteq {mergedPC', newPC'} \cup {lost2[i] : i \in 1 .. MaxSessions}
  <2> SUFFICES ASSUME NEW p \in live, p # newPC, p # mergedPC
               PROVE  \E i \in 1 .. MaxSessions : p = lost2[i]
    BY <1>2, <1>6 DEF CtlLock
  <2>1. PICK i \in 1 .. MaxSessions : p = lost[i]
    BY DEF Lost
  <2>2. p # NoPC
    BY DEF CapTypeOK, Clouds, NoPC
  <2> QED BY <1>5, <2>1, <2>2
<1>8. \A i \in 1 .. MaxSessions : i >= sessions => lost2[i] = NoPC
  BY <1>2, <1>4 DEF Lost
<1>9. sessions' = sessions /\ ctlPC' = "locked"
  BY DEF CtlLock, ownVars, ctlStep
<1>10. Lost(lost2)'
  BY <1>7, <1>8, <1>9 DEF Lost, Stale, HasMerged
<1> QED BY <1>3, <1>10 DEF LostInv

LEMMA LostInit == CapInit => LostInv
<1> SUFFICES ASSUME CapInit PROVE LostInv
  OBVIOUS
<1> DEFINE none == [i \in 1 .. MaxSessions |-> NoPC]
<1>1. none \in [1 .. MaxSessions -> Clouds \cup {NoPC}]
  OBVIOUS
<1>2. Lost(none)
  BY DEF CapInit, Lost, Stale
<1> QED BY <1>1, <1>2 DEF LostInv

LEMMA LostStep ==
  ASSUME ProtocolInv, CloudInv, LostInv, [CapNext]_vars
  PROVE  LostInv'
<1>0. CapTypeOK /\ HeapInv /\ FirstSessionInv
  BY DEF ProtocolInv, CloudInv
<1>1. PICK lost \in [1 .. MaxSessions -> Clouds \cup {NoPC}] : Lost(lost)
  BY DEF LostInv
<1>2. NothingForgotten => LostInv'
  BY <1>1, NothingLost DEF LostInv
<1>3. CASE CtlLock /\ Stale
  BY <1>0, <1>1, <1>3, CtlLockLoses
<1>4. CASE Start
  <2>1. sessions' = sessions + 1 /\ sessions \in Nat /\ sessions <= MaxSessions
    BY <1>0, <1>4, CameraNumbers DEF Start, CapTypeOK
  <2>2. mergedPC # NoPC => sessions >= 1
    BY <1>0, <2>1 DEF FirstSessionInv
  <2>3. UNCHANGED << live, mergedPC, newPC >>
    BY <1>4 DEF Start, heapVars
  <2>4. Stale' => sessions \in 1 .. MaxSessions /\ lost[sessions] = NoPC
    BY <1>1, <2>1, <2>2, <2>3, <1>4, CameraNumbers DEF Stale, Lost, Start, CapTypeOK
  <2>5. Lost(lost)'
    BY <1>1, <2>1, <2>3, <2>4 DEF Lost, Stale
  <2> QED BY <1>1, <2>5 DEF LostInv
<1>5. CASE (\E c \in Cameras : ProcThread(c)) \/ UNCHANGED vars
  BY <1>2, <1>5, ProcThreadFrame
  DEF NothingForgotten, Stale, vars, capVars, flagVars, heapVars, ctlVars, ownVars
<1> QED BY <1>2, <1>3, <1>4, <1>5, StepCases, CtlForgets, OwnForgets, ConForgets

(* A restart makes the capturer forget at most one cloud, for any number   *)
(* of restarts.                                                            *)
THEOREM FewCloudsAreLost == CapSpec => []AtMostOneCloudLostPerRestart
<1>1. LostInv => AtMostOneCloudLostPerRestart
  BY DEF LostInv, Lost, AtMostOneCloudLostPerRestart
<1>2. CapSpec => []LostInv
  BY LostInit, LostStep, CloudInvariant, PTL DEF CapSpec
<1> QED BY <1>1, <1>2, PTL

-----------------------------------------------------------------------------
(* The application with one thread.                                        *)
LEMMA SyncStep ==
  ASSUME ProtocolInv, CloudInv, ~AsyncStop, SyncInv, [CapNext]_vars
  PROVE  SyncInv'
<1>0. CapTypeOK /\ ThreadInv /\ FreshInv
  BY DEF ProtocolInv, CloudInv
<1> USE <1>0 DEF SyncInv
<1>1. CASE CtlFlow \/ CtlCamera
  <2>1. UNCHANGED << control_thread, stopped, ownPC >>
    BY <1>1, CtlFlowFrame, CtlCameraFrame DEF ownVars, flagVars
  <2>2. ASSUME NEW k \in Consumers, conPC'[k] # "idle"
        PROVE  conPC[k] # "idle"
    BY <1>1, <2>2, CtlCameraFrame
    DEF CtlFlow, CtlTop, CtlWant, CtlPark, CtlSpuriousWakeup, CtlCheck, CtlCreate, CtlCreated,
        CtlDispatched, CtlLock, CtlLocked, CtlAwaited, CtlMerge, CtlMerged, CtlStopOrGoOn,
        mergedPC_is_fresh_notified, ctlOnly, conVars
  <2> QED BY <1>1, <2>1, <2>2, CtlTake
<1>2. CASE Start \/ OwnFlow
  <2>1. \A k \in Consumers : conPC[k] = "idle"
    BY <1>2
    DEF Start, OwnFlow, Stop, StopSetFresh, StopClearWant, StopNotifyFresh, StopSetWant,
        StopNotifyWant, StopJoin, StopClearFresh, StopFinish, Destroy, ownStep, ConsumersIdle
  <2>2. conPC' = conPC \/ conPC' = mergedPC_is_fresh_notified
    BY <1>2 DEF Start, OwnFlow, Stop, StopSetFresh, StopClearWant, StopNotifyFresh, StopSetWant,
                StopNotifyWant, StopJoin, StopClearFresh, StopFinish, Destroy, conVars
  <2> QED BY <2>1, <2>2 DEF mergedPC_is_fresh_notified
<1>3. CASE StopOneCamera
  <2>1. ownPC = "cameras"
    BY <1>3 DEF StopOneCamera, ownStep
  <2> QED BY <1>3, <2>1, StopOneCameraFrame DEF conVars
<1>4. ASSUME NEW k \in Consumers, ConNext(k), NEW j \in Consumers
      PROVE  /\ conPC'[j] # "idle" => control_thread' /\ ~stopped' /\ ownPC' = "idle"
             /\ conPC'[j] = "take" => mergedPC_is_fresh' /\ mergedPC' # NoPC
  <2>1. UNCHANGED << control_thread, stopped, ownPC >>
    BY <1>4, ConFrame DEF ownVars
  <2>2. control_thread /\ ~stopped /\ ownPC = "idle"
    BY <1>4
    DEF ConNext, Get, Available, ConLocal, ConLocking, GetSpuriousWakeup, GetPark, GetTake,
        GetReturn, GetRequest, GetTest, GetAgain, AvailableRequest, AvailableReturn, conStep,
        MayCallSource, ThreadInv
  <2> QED BY <1>4, <2>1, <2>2, ConTake DEF FreshInv, FreshCloudIsComplete
<1>5. CASE (\E c \in Cameras : ProcThread(c)) \/ UNCHANGED vars
  BY <1>5, ProcThreadFrame DEF vars, capVars, flagVars, heapVars, conVars, ownVars
<1> QED BY <1>1, <1>2, <1>3, <1>4, <1>5, StepCases

(* Only GetTake hands a cloud out.                                         *)
LEMMA DeliveredFrame ==
  ASSUME [CapNext]_vars, ~ \E k \in Consumers : GetTake(k)
  PROVE  UNCHANGED delivered
<1>1. CASE CtlFlow \/ CtlCamera
  BY <1>1, CtlFlowFrame, CtlCameraFrame DEF conVars
<1>2. CASE Start \/ OwnFlow \/ StopOneCamera
  BY <1>2, OwnFlowFrame, StopOneCameraFrame DEF Start, conVars
<1>3. ASSUME NEW k \in Consumers, ConNext(k)
      PROVE  UNCHANGED delivered
  BY <1>3 DEF ConNext, Get, Available, ConLocal, ConLocking, GetSpuriousWakeup, GetPark,
              GetReturn, GetRequest, GetTest, GetAgain, AvailableRequest, AvailableReturn,
              request_new_pointcloud, conLocal, conOnly
<1>4. CASE (\E c \in Cameras : ProcThread(c)) \/ UNCHANGED vars
  BY <1>4, ProcThreadFrame DEF vars, capVars, conVars
<1> QED BY <1>1, <1>2, <1>3, <1>4, StepCases

(* What GetTake hands out, in that application.                            *)
LEMMA TakenCloud ==
  ASSUME ProtocolInv, CloudInv, ~AsyncStop, SyncInv, NEW k \in Consumers, GetTake(k)
  PROVE  /\ mergedPC # NoPC /\ mergedPC_is_fresh /\ ~stopped /\ control_thread
         /\ points[mergedPC] = [c \in Cameras |-> mergedPC]
         /\ delivered' = Append(delivered, [c \in Cameras |-> mergedPC])
<1>1. conPC[k] = "take"
  BY DEF GetTake, conStep
<1>2. mergedPC # NoPC /\ mergedPC_is_fresh /\ ~stopped /\ control_thread
  BY <1>1 DEF SyncInv
<1>3. points[mergedPC] = [c \in Cameras |-> mergedPC]
  BY <1>2 DEF CloudInv, FreshInv, FreshCloudIsComplete
<1> QED BY <1>2, <1>3 DEF GetTake

LEMMA DeliveredStep ==
  ASSUME ProtocolInv, CloudInv, ~AsyncStop, SyncInv, DeliveredInv, [CapNext]_vars
  PROVE  DeliveredInv'
<1>0. CapTypeOK /\ HeapInv /\ MutexInv
  BY DEF ProtocolInv, CloudInv
<1> DEFINE before == ctlPC \in {"captured", "locked", "await", "awaited", "merge"} \cup HasNew
<1>1. \A i \in DOMAIN delivered : \A c \in Cameras : delivered[i][c] \in Nat
  BY <1>0, CameraNumbers DEF CapTypeOK
<1>2. CASE \E k \in Consumers : GetTake(k)
  <2>1. PICK k \in Consumers : GetTake(k)
    BY <1>2
  <2>2. /\ mergedPC # NoPC
        /\ delivered' = Append(delivered, [c \in Cameras |-> mergedPC])
    BY <2>1, TakenCloud
  <2>3. UNCHANGED << ctlPC, cycle >>
    BY <2>1 DEF GetTake, ctlVars
  <2>4. ctlPC \notin HasMerged
    BY <1>0, <2>1 DEF GetTake, conStep, MutexInv, conHoldsMutex, ctlHoldsMutex, HasMerged
  <2>5. mergedPC <= cycle /\ (before => mergedPC < cycle)
    BY <1>0, <2>4 DEF HeapInv, HasMerged
  <2>6. delivered \in Seq([Cameras -> 0 .. MaxFrames])
    BY <1>0 DEF CapTypeOK
  <2>7. \A i \in DOMAIN delivered' :
          \/ i \in DOMAIN delivered /\ delivered'[i] = delivered[i]
          \/ delivered'[i] = [c \in Cameras |-> mergedPC]
    BY <2>2, <2>6
  <2> QED BY <2>3, <2>5, <2>7 DEF DeliveredInv
<1>3. CASE ~ \E k \in Consumers : GetTake(k)
  <2>1. UNCHANGED delivered
    BY <1>3, DeliveredFrame
  <2>2. \/ cycle' = cycle + 1
        \/ cycle' = cycle /\ (before' => before)
    <3>1. CASE CtlFlow
      BY <3>1, CtlFlowFrame
      DEF CtlFlow, CtlTop, CtlWant, CtlPark, CtlSpuriousWakeup, CtlCheck, CtlCreate, CtlCreated,
          CtlDispatched, CtlLock, CtlLocked, CtlAwaited, CtlMerge, CtlMerged, CtlStopOrGoOn,
          ctlStep, HasNew
    <3>2. CASE CtlCamera
      BY <3>2 DEF CtlCamera, CtlCapture, CtlDispatch, CtlAwait, ctlStep, HasNew
    <3>3. CASE Start
      BY <3>3 DEF Start, HasNew
    <3>4. CASE OwnFlow
      BY <3>4, OwnFlowFrame DEF HasNew
    <3>5. CASE \E k \in Consumers : ConNext(k)
      BY <3>5, ConFrame DEF HasNew
    <3>6. CASE StopOneCamera \/ (\E c \in Cameras : ProcThread(c)) \/ UNCHANGED vars
      BY <3>6, StopOneCameraFrame, ProcThreadFrame DEF vars, capVars, ctlVars, HasNew
    <3> QED BY <3>1, <3>2, <3>3, <3>4, <3>5, <3>6, StepCases
  <2>3. cycle \in Nat
    BY <1>0, CloudNumbers
  <2> QED BY <1>1, <2>1, <2>2, <2>3 DEF DeliveredInv
<1> QED BY <1>2, <1>3

-----------------------------------------------------------------------------
(* The refinement.                                                         *)
streaming == control_thread /\ ~stopped
ready == IF mergedPC_is_fresh /\ ~stopped THEN {points[p] : p \in {mergedPC} \ {NoPC}} ELSE {}

LEMMA SourceInit == CapInit => Source!Init
  BY DEF CapInit, Source!Init

LEMMA ReadyCloud ==
  ASSUME mergedPC # NoPC, mergedPC_is_fresh, ~stopped
  PROVE  ready = {points[mergedPC]}
  BY DEF ready

LEMMA MergeProduces ==
  ASSUME ProtocolInv, CloudInv, DeliveredInv, CtlMerge, ~stopped
  PROVE  Source!Produce
<1>0. CapTypeOK /\ ThreadInv /\ HeapInv /\ PointsInv /\ FreshInv
  BY DEF ProtocolInv, CloudInv
<1>1. /\ ctlPC = "merge" /\ mergedPC_is_fresh'
      /\ UNCHANGED << stopped, control_thread, mergedPC, delivered >>
  BY DEF CtlMerge, ctlStep, ownVars, conVars
<1>2. streaming /\ streaming'
  BY <1>0, <1>1 DEF ThreadInv, streaming
<1>3. ready = {}
  BY <1>0, <1>1 DEF FreshInv, HasMerged, ready
<1>4. mergedPC \in Clouds /\ mergedPC = cycle /\ mergedPC # NoPC
  BY <1>0, <1>1 DEF HeapInv, HasMerged, CapTypeOK, NoPC
<1>5. \A i \in DOMAIN delivered : \A c \in Cameras : delivered[i][c] < mergedPC
  BY <1>1, <1>4 DEF DeliveredInv
<1>6. points'[mergedPC] = [c \in Cameras |-> mergedPC]
  BY <1>0, MergeIsComplete
<1>7. ready' = {Source!Cloud(mergedPC)}
  BY <1>1, <1>4, <1>6 DEF ready, Source!Cloud
<1> QED BY <1>1, <1>2, <1>3, <1>4, <1>5, <1>7 DEF Source!Produce, streaming, ready

LEMMA TakeDelivers ==
  ASSUME ProtocolInv, CloudInv, ~AsyncStop, SyncInv, NEW k \in Consumers, GetTake(k)
  PROVE  Source!Deliver
<1>1. /\ mergedPC # NoPC /\ mergedPC_is_fresh /\ ~stopped /\ control_thread
      /\ points[mergedPC] = [c \in Cameras |-> mergedPC]
      /\ delivered' = Append(delivered, [c \in Cameras |-> mergedPC])
  BY TakenCloud
<1>2. ready = {points[mergedPC]}
  BY <1>1, ReadyCloud
<1>3. ready' = {} /\ UNCHANGED << stopped, control_thread >>
  BY DEF GetTake, ready, ownVars
<1> QED BY <1>1, <1>2, <1>3 DEF Source!Deliver, ready

LEMMA OwnerIsSource ==
  ASSUME ProtocolInv, CloudInv, Start \/ OwnFlow \/ StopOneCamera
  PROVE  Source!Start \/ Source!Stop \/ UNCHANGED << streaming, ready, delivered >>
<1>0. ThreadInv /\ FreshInv
  BY DEF ProtocolInv, CloudInv
<1> USE <1>0 DEF ThreadInv, Stopping, Joined, FreshInv, streaming, ready
<1>1. CASE Start
  BY <1>1 DEF Start, heapVars, conVars, Source!Start
<1>2. CASE Stop
  BY <1>2 DEF Stop, ownStep, ownOnly, Source!Stop
<1>3. CASE StopOneCamera
  BY <1>3, StopOneCameraFrame DEF flagVars, heapVars, conVars
<1>4. CASE Destroy
  BY <1>4 DEF Destroy, ownStep, flagVars, conVars
<1>5. CASE OwnFlow /\ ~Stop /\ ~Destroy
  <2>1. ownPC \in Stopping \cup Joined /\ UNCHANGED stopped
    BY <1>5
    DEF OwnFlow, StopSetFresh, StopClearWant, StopNotifyFresh, StopSetWant, StopNotifyWant,
        StopJoin, StopClearFresh, StopFinish, ownStep, flagVars
  <2>2. stopped
    BY <2>1
  <2> QED BY <1>5, <2>1, <2>2, OwnFlowFrame
<1> QED BY <1>1, <1>2, <1>3, <1>4, <1>5

LEMMA SourceStutters ==
  ASSUME ProtocolInv, CloudInv, [CapNext]_vars,
         ~(Start \/ OwnFlow \/ CtlMerge \/ \E k \in Consumers : GetTake(k))
  PROVE  UNCHANGED << streaming, ready >>
<1>0. ThreadInv /\ FreshInv
  BY DEF ProtocolInv, CloudInv
<1> USE DEF streaming, ready, ownVars, flagVars, heapVars
<1>1. CASE CtlLock
  BY <1>0, <1>1 DEF CtlLock, ctlStep, FreshInv, HasNew
<1>2. CASE CtlFlow /\ ~CtlLock
  BY <1>2
  DEF CtlFlow, CtlTop, CtlWant, CtlPark, CtlSpuriousWakeup, CtlCheck, CtlCreate, CtlCreated,
      CtlDispatched, CtlLocked, CtlAwaited, CtlMerged, CtlStopOrGoOn, ctlOnly
<1>3. CASE CtlCamera
  BY <1>3, CtlCameraFrame
<1>4. CASE StopOneCamera
  BY <1>4, StopOneCameraFrame
<1>5. ASSUME NEW k \in Consumers, ConNext(k)
      PROVE  UNCHANGED << streaming, ready >>
  BY <1>5 DEF ConNext, Get, Available, ConLocal, ConLocking, GetSpuriousWakeup, GetPark,
              GetReturn, GetRequest, GetTest, GetAgain, AvailableRequest, AvailableReturn,
              request_new_pointcloud, conLocal, conOnly
<1>6. CASE (\E c \in Cameras : ProcThread(c)) \/ UNCHANGED vars
  BY <1>6, ProcThreadFrame DEF vars, capVars
<1> QED BY <1>1, <1>2, <1>3, <1>4, <1>5, <1>6, StepCases

LEMMA SourceStep ==
  ASSUME ProtocolInv, CloudInv, ~AsyncStop, SyncInv, DeliveredInv, [CapNext]_vars
  PROVE  [Source!Next]_<< streaming, ready, delivered >>
<1>1. CASE CtlMerge
  <2>1. CASE stopped
    BY <1>1, <2>1 DEF CtlMerge, ownVars, conVars, streaming, ready
  <2>2. CASE ~stopped
    BY <1>1, <2>2, MergeProduces DEF Source!Next
  <2> QED BY <2>1, <2>2
<1>2. CASE \E k \in Consumers : GetTake(k)
  BY <1>2, TakeDelivers DEF Source!Next
<1>3. CASE Start \/ OwnFlow
  BY <1>3, OwnerIsSource DEF Source!Next
<1>4. CASE ~(Start \/ OwnFlow \/ CtlMerge \/ \E k \in Consumers : GetTake(k))
  BY <1>4, SourceStutters, DeliveredFrame
<1> QED BY <1>1, <1>2, <1>3, <1>4

(* For an application that does not overlap its calls with start() and     *)
(* stop() the capturer is the point cloud source of PointCloudSource.tla:  *)
(* each get_pointcloud() hands out one whole cycle's cloud, later than any *)
(* before, and no finished cloud is replaced unfetched.                    *)
THEOREM CapturerIsPointCloudSource == ~AsyncStop /\ CapSpec => IsPointCloudSource
<1> SUFFICES ASSUME ~AsyncStop PROVE CapSpec => IsPointCloudSource
  OBVIOUS
<1>1. CapInit => SyncInv /\ DeliveredInv
  BY DEF CapInit, SyncInv, DeliveredInv
<1>2. ProtocolInv /\ CloudInv /\ SyncInv /\ DeliveredInv /\ [CapNext]_vars =>
        SyncInv' /\ DeliveredInv'
  BY SyncStep, DeliveredStep
<1>3. ProtocolInv /\ CloudInv /\ SyncInv /\ DeliveredInv /\ [CapNext]_vars =>
        [Source!Next]_<< streaming, ready, delivered >>
  BY SourceStep
<1> QED BY <1>1, <1>2, <1>3, SourceInit, CloudInvariant, PTL
        DEF CapSpec, IsPointCloudSource, Source!Spec, streaming, ready
=============================================================================
