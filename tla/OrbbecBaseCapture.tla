------------------------- MODULE OrbbecBaseCapture -------------------------
(***************************************************************************)
(* The running capturer, src/OrbbecBaseCapture.hpp, on top of its cameras  *)
(* (OrbbecBaseCamera.tla, whose variables and actions are used as they     *)
(* are).  The threads are                                                  *)
(*   - the control thread, _control_thread_main() (the Ctl... actions):    *)
(*     wait until a point cloud is wanted, capture a frameset from every   *)
(*     camera, have the cameras process them, merge the results into       *)
(*     mergedPC and announce it;                                           *)
(*   - one processing thread per camera (Proc...);                         *)
(*   - consumers: application threads that call pointcloud_available() and *)
(*     get_pointcloud();                                                   *)
(*   - the owner: the application thread that calls start(), stop() and    *)
(*     the destructor.                                                     *)
(*                                                                         *)
(* mergedPC_mutex protects mergedPC, mergedPC_is_fresh and                 *)
(* mergedPC_want_new, except that stop() writes the two flags, and         *)
(* `stopped', without it.  Each such write is a step of its own, and so is *)
(* each unlocked read.  A condition variable wait is three steps: evaluate *)
(* the predicate, go to sleep (releasing the mutex), wake up; only a       *)
(* thread that sleeps receives a notification.                             *)
(***************************************************************************)
EXTENDS OrbbecBaseCamera

CONSTANTS
  Consumers,     \* application threads that fetch point clouds
  MaxSessions,   \* bound: number of successful calls of start()
  AsyncStop      \* may start() and stop() overlap the consumers' calls?

ASSUME CaptureAssumption ==
  /\ MaxSessions \in Nat
  /\ AsyncStop \in BOOLEAN

(* A point cloud is known by the capture cycle it was made for, 0 is null. *)
Clouds == 1 .. MaxFrames
NoPC == 0

VARIABLES
  stopped,
  mergedPC,
  mergedPC_is_fresh,
  mergedPC_want_new,
  control_thread,  \* the pointer is non-null, which is what is_playing() asks
  ctlPC,           \* the control thread's position
  ctlCam,          \* ... and the camera its inner loop has reached
  newPC,           \* ... and its local variable newPC
  conPC,           \* the consumers' positions
  conRV,           \* ... and get_pointcloud()'s local variable rv
  ownPC,           \* the owner's position
  ownCam,          \* ... and the camera its loop in _stop_cameras() has reached
  cycle,           \* the last cycle that captured a frameset from every camera
  points,          \* from which framesets a cloud's points came, per camera
  live,            \* the clouds allocated, and neither freed nor handed out
  sessions,        \* number of start() calls so far
  delivered        \* history: the clouds handed out, with their points

flagVars == << stopped, mergedPC_is_fresh, mergedPC_want_new >>
heapVars == << mergedPC, points, live >>
ctlVars  == << ctlPC, ctlCam, newPC, cycle >>
conVars  == << conPC, conRV, delivered >>
ownVars  == << ownPC, ownCam, control_thread, sessions >>
capVars  == << flagVars, heapVars, ctlVars, conVars, ownVars >>
vars     == << camVars, capVars >>

(* The positions at which a thread holds mergedPC_mutex.                   *)
ctlHoldsMutex == ctlPC \in {"park", "locked", "await", "awaited", "merge", "merged"}
conHoldsMutex(k) == conPC[k] \in {"park", "take"}
mergedPC_mutex_free == ~ctlHoldsMutex /\ \A k \in Consumers : ~conHoldsMutex(k)

(* notify_all() on the two condition variables: those who sleep go back to *)
(* acquiring the mutex and testing the predicate.                          *)
mergedPC_is_fresh_notified ==
  [k \in Consumers |-> IF conPC[k] = "parked" THEN "wait" ELSE conPC[k]]
mergedPC_want_new_notified == IF ctlPC = "parked" THEN "want" ELSE ctlPC

NoPoints == [c \in Cameras |-> 0]

CapInit ==
  /\ CamInit
  /\ stopped = FALSE
  /\ mergedPC = NoPC
  /\ mergedPC_is_fresh = FALSE
  /\ mergedPC_want_new = FALSE
  /\ control_thread = FALSE
  /\ ctlPC = "none"
  /\ ctlCam = 1
  /\ newPC = NoPC
  /\ conPC = [k \in Consumers |-> "idle"]
  /\ conRV = [k \in Consumers |-> NoPC]
  /\ ownPC = "idle"
  /\ ownCam = 1
  /\ cycle = 0
  /\ points = [p \in Clouds |-> NoPoints]
  /\ live = {}
  /\ sessions = 0
  /\ delivered = << >>

-----------------------------------------------------------------------------
(* The control thread.  ctlStep moves it on.                               *)
ctlStep(from, to) == ctlPC = from /\ ctlPC' = to
ctlOnly == UNCHANGED << camVars, flagVars, heapVars, conVars, ownVars >>

(* while (!stopped)                                                        *)
CtlTop ==
  /\ ctlStep("top", IF stopped THEN "exit" ELSE "want")
  /\ UNCHANGED << ctlCam, newPC, cycle >> /\ ctlOnly

(* Lock mergedPC_mutex and test the predicate mergedPC_want_new.           *)
CtlWant ==
  /\ mergedPC_mutex_free
  /\ ctlStep("want", IF mergedPC_want_new THEN "check" ELSE "park")
  /\ UNCHANGED << ctlCam, newPC, cycle >> /\ ctlOnly

(* Go to sleep on mergedPC_want_new_cv.                                    *)
CtlPark ==
  /\ ctlStep("park", "parked")
  /\ UNCHANGED << ctlCam, newPC, cycle >> /\ ctlOnly

(* A condition variable may wake a sleeper up for no reason.               *)
CtlSpuriousWakeup ==
  /\ ctlStep("parked", "want")
  /\ UNCHANGED << ctlCam, newPC, cycle >> /\ ctlOnly

(* No code sets end_of_stream_reached: what remains is if (stopped) break. *)
CtlCheck ==
  /\ ctlStep("check", IF stopped THEN "exit" ELSE "capture")
  /\ ctlCam' = 1
  /\ UNCHANGED << newPC, cycle >> /\ ctlOnly

(* One camera's turn in _capture_all_cameras().  A camera that delivers    *)
(* nothing ends the cycle; what the others captured will be overwritten.   *)
CtlCapture(f) ==
  /\ WaitForCapturedFrameset(ctlCam, f)
  /\ IF f = NoFrame
     THEN ctlStep("capture", "top") /\ UNCHANGED << ctlCam, cycle >>
     ELSE IF ctlCam < NumCameras
     THEN ctlStep("capture", "capture") /\ ctlCam' = ctlCam + 1 /\ UNCHANGED cycle
     ELSE ctlStep("capture", "captured") /\ cycle' = cycle + 1 /\ UNCHANGED ctlCam
  /\ UNCHANGED << newPC, flagVars, heapVars, conVars, ownVars >>

(* The devices have framesets for MaxFrames cycles.                        *)
CapturedFramesets ==
  IF cycle < MaxFrames THEN [seq : {cycle + 1}, kind : FrameKinds] ELSE {}

(* if (stopped) break; cwipc_from_pcl().                                   *)
CtlCreate ==
  /\ IF stopped
     THEN ctlStep("captured", "exit") /\ UNCHANGED << newPC, live >>
     ELSE ctlStep("captured", "created") /\ newPC' = cycle /\ live' = live \cup {cycle}
  /\ UNCHANGED << ctlCam, cycle, mergedPC, points, camVars, flagVars, conVars, ownVars >>

(* Mutant: break without newPC->free().                                    *)
CtlStopOrGoOn_NoFree(from, to) ==
  /\ ctlStep(from, IF stopped THEN "exit" ELSE to)
  /\ newPC' = IF stopped THEN NoPC ELSE newPC
  /\ ctlCam' = 1
  /\ UNCHANGED << cycle, heapVars, camVars, flagVars, conVars, ownVars >>

(* if (stopped) { newPC->free(); break; }                                  *)
CtlStopOrGoOn(from, to) ==
  /\ IF stopped
     THEN ctlStep(from, "exit") /\ newPC' = NoPC /\ live' = live \ {newPC}
     ELSE ctlStep(from, to) /\ UNCHANGED << newPC, live >>
  /\ ctlCam' = 1
  /\ UNCHANGED << cycle, mergedPC, points, camVars, flagVars, conVars, ownVars >>

(* The tests behind save_frameset_metadata() and behind the dispatch.      *)
CtlCreated == CtlStopOrGoOn("created", "dispatch")

(* Mutant: the loop over the cameras runs one too far.                     *)
CtlDispatch_OneTooFar ==
  /\ ProcessPointcloudFromFrameset(ctlCam)
  /\ IF ctlCam <= NumCameras
     THEN ctlStep("dispatch", "dispatch") /\ ctlCam' = ctlCam + 1
     ELSE ctlStep("dispatch", "dispatched") /\ UNCHANGED ctlCam
  /\ UNCHANGED << newPC, cycle, flagVars, heapVars, conVars, ownVars >>

(* process_pointcloud_from_frameset() of one camera.                       *)
CtlDispatch ==
  /\ ProcessPointcloudFromFrameset(ctlCam)
  /\ IF ctlCam < NumCameras
     THEN ctlStep("dispatch", "dispatch") /\ ctlCam' = ctlCam + 1
     ELSE ctlStep("dispatch", "dispatched") /\ UNCHANGED ctlCam
  /\ UNCHANGED << newPC, cycle, flagVars, heapVars, conVars, ownVars >>

CtlDispatched == CtlStopOrGoOn("dispatched", "lock")

(* Lock mergedPC_mutex for the rest of the cycle, drop the cloud nobody    *)
(* fetched and install the new one, still without points.                  *)
CtlLock ==
  /\ mergedPC_mutex_free
  /\ ctlStep("lock", "locked")
  /\ live' = IF mergedPC # NoPC /\ mergedPC_is_fresh THEN live \ {mergedPC} ELSE live
  /\ mergedPC' = newPC
  /\ newPC' = NoPC
  /\ UNCHANGED << ctlCam, cycle, points, camVars, flagVars, conVars, ownVars >>

(* if (stopped) break, which also unlocks.                                 *)
CtlLocked ==
  /\ ctlStep("locked", IF stopped THEN "exit" ELSE "await")
  /\ ctlCam' = 1
  /\ UNCHANGED << newPC, cycle >> /\ ctlOnly

(* Mutant: only the first camera is waited for.                            *)
CtlAwait_FirstOnly ==
  /\ WaitForPointcloudProcessed(ctlCam)
  /\ ctlStep("await", "awaited") /\ UNCHANGED ctlCam
  /\ UNCHANGED << newPC, cycle, flagVars, heapVars, conVars, ownVars >>

(* wait_for_pointcloud_processed() of one camera.                          *)
CtlAwait ==
  /\ WaitForPointcloudProcessed(ctlCam)
  /\ IF ctlCam < NumCameras
     THEN ctlStep("await", "await") /\ ctlCam' = ctlCam + 1
     ELSE ctlStep("await", "awaited") /\ UNCHANGED ctlCam
  /\ UNCHANGED << newPC, cycle, flagVars, heapVars, conVars, ownVars >>

(* if (stopped) break, once the clouds of all cameras are there.           *)
CtlAwaited ==
  /\ ctlStep("awaited", IF stopped THEN "exit" ELSE "merge")
  /\ UNCHANGED << ctlCam, newPC, cycle >> /\ ctlOnly

(* The points of all cameras, each cloud as its camera left it.            *)
merge_camera_pointclouds ==
  [points EXCEPT ![mergedPC] = [c \in Cameras |-> current_pcl_pointcloud[c].seq]]

(* _merge_camera_pointclouds(), mergedPC_is_fresh = true.                  *)
CtlMerge ==
  /\ ctlStep("merge", "merged")
  /\ points' = merge_camera_pointclouds
  /\ mergedPC_is_fresh' = TRUE
  /\ UNCHANGED << mergedPC, live, stopped, mergedPC_want_new, ctlCam, newPC, cycle,
                  camVars, conVars, ownVars >>

(* Mutant: nobody is told that the cloud is fresh.                         *)
CtlMerged_NoNotify ==
  /\ ctlStep("merged", "top")
  /\ mergedPC_want_new' = FALSE
  /\ UNCHANGED << stopped, mergedPC_is_fresh, heapVars, ctlCam, newPC, cycle,
                  conVars, camVars, ownVars >>

(* mergedPC_want_new = false, notify, unlock.                              *)
CtlMerged ==
  /\ ctlStep("merged", "top")
  /\ mergedPC_want_new' = FALSE
  /\ conPC' = mergedPC_is_fresh_notified
  /\ UNCHANGED << stopped, mergedPC_is_fresh, heapVars, ctlCam, newPC, cycle,
                  conRV, delivered, camVars, ownVars >>

CtlCaptureFails == CtlCapture(NoFrame)
CtlCaptureSucceeds == \E f \in CapturedFramesets : CtlCapture(f)

CtlLocal ==
  \/ CtlTop \/ CtlPark \/ CtlCheck \/ CtlCreate \/ CtlCreated \/ CtlDispatch
  \/ CtlDispatched \/ CtlLocked \/ CtlAwait \/ CtlAwaited \/ CtlMerge \/ CtlMerged

CtlNext ==
  \/ CtlLocal \/ CtlWant \/ CtlLock
  \/ CtlCaptureFails \/ CtlCaptureSucceeds \/ CtlSpuriousWakeup

-----------------------------------------------------------------------------
(* The consumers.                                                          *)
conStep(k, from, to) == conPC[k] = from /\ conPC' = [conPC EXCEPT ![k] = to]
conOnly == UNCHANGED << camVars, heapVars, ctlCam, newPC, cycle, ownVars >>
conLocal == UNCHANGED << flagVars, ctlPC, conRV, delivered >> /\ conOnly

(* An application with one thread calls nothing while start() or stop()    *)
(* runs.  Calls made when is_playing() is false return at once.            *)
MayCallSource == control_thread /\ (AsyncStop \/ ownPC = "idle")

Get(k) == MayCallSource /\ conStep(k, "idle", "request") /\ conLocal
Available(k) == MayCallSource /\ conStep(k, "idle", "ask") /\ conLocal

(* Mutant: a cloud is requested although one is pending or waiting.        *)
request_new_pointcloud_Always ==
  /\ mergedPC_mutex_free
  /\ mergedPC_want_new' = TRUE /\ ctlPC' = mergedPC_want_new_notified
  /\ UNCHANGED << stopped, mergedPC_is_fresh, conRV, delivered >>
  /\ conOnly

(* The flags are tested and set with the mutex held.                       *)
request_new_pointcloud ==
  /\ mergedPC_mutex_free
  /\ IF ~mergedPC_want_new /\ ~mergedPC_is_fresh
     THEN mergedPC_want_new' = TRUE /\ ctlPC' = mergedPC_want_new_notified
     ELSE UNCHANGED << mergedPC_want_new, ctlPC >>
  /\ UNCHANGED << stopped, mergedPC_is_fresh, conRV, delivered >>
  /\ conOnly

(* get_pointcloud(): request, wait for a fresh cloud, take it, request the *)
(* next one.                                                               *)
GetRequest(k) == conStep(k, "request", "wait") /\ request_new_pointcloud

(* Mutant: the predicate is tested before the mutex is locked.             *)
GetTest_Unlocked(k) ==
  /\ conStep(k, "wait", IF mergedPC_is_fresh THEN "take" ELSE "park")
  /\ conLocal

GetTest(k) ==
  /\ mergedPC_mutex_free
  /\ conStep(k, "wait", IF mergedPC_is_fresh THEN "take" ELSE "park")
  /\ conLocal

GetPark(k) == conStep(k, "park", "parked") /\ conLocal

GetSpuriousWakeup(k) == conStep(k, "parked", "wait") /\ conLocal

(* Mutant: mergedPC still points to the cloud that was handed out.         *)
GetTake_KeepsMergedPC(k) ==
  /\ conStep(k, "take", "again")
  /\ mergedPC_is_fresh' = FALSE
  /\ conRV' = [conRV EXCEPT ![k] = mergedPC]
  /\ live' = live \ {mergedPC}
  /\ delivered' = IF mergedPC = NoPC THEN delivered ELSE Append(delivered, points[mergedPC])
  /\ UNCHANGED << stopped, mergedPC_want_new, mergedPC, points, ctlVars, ownVars, camVars >>

(* The predicate was true and the mutex is still held: take mergedPC.      *)
GetTake(k) ==
  /\ conStep(k, "take", "again")
  /\ mergedPC_is_fresh' = FALSE
  /\ conRV' = [conRV EXCEPT ![k] = mergedPC]
  /\ mergedPC' = NoPC
  /\ live' = live \ {mergedPC}
  /\ delivered' = IF mergedPC = NoPC THEN delivered ELSE Append(delivered, points[mergedPC])
  /\ UNCHANGED << stopped, mergedPC_want_new, points, ctlVars, ownVars, camVars >>

GetAgain(k) == conStep(k, "again", "return") /\ request_new_pointcloud

GetReturn(k) ==
  /\ conStep(k, "return", "idle")
  /\ conRV' = [conRV EXCEPT ![k] = NoPC]
  /\ UNCHANGED << flagVars, ctlPC, delivered >> /\ conOnly

(* pointcloud_available(): request, then wait for a fresh cloud or for the *)
(* timeout, which may be zero.                                             *)
AvailableRequest(k) == conStep(k, "ask", "answer") /\ request_new_pointcloud
AvailableReturn(k) == mergedPC_mutex_free /\ conStep(k, "answer", "idle") /\ conLocal

ConLocal(k) == GetPark(k) \/ GetTake(k) \/ GetReturn(k)
ConLocking(k) ==
  \/ GetRequest(k) \/ GetTest(k) \/ GetAgain(k)
  \/ AvailableRequest(k) \/ AvailableReturn(k)

ConNext(k) ==
  Get(k) \/ Available(k) \/ ConLocal(k) \/ ConLocking(k) \/ GetSpuriousWakeup(k)

-----------------------------------------------------------------------------
(* The owner.  ownStep moves it on.                                        *)
ownStep(from, to) == ownPC = from /\ ownPC' = to
ConsumersIdle == \A k \in Consumers : conPC[k] = "idle"
ownOnly == UNCHANGED << camVars, heapVars, ctlCam, newPC, cycle, conRV, delivered,
                        ownCam, control_thread, sessions >>

(* start(), when it succeeds: all cameras stream and the control thread    *)
(* runs.                                                                   *)
Start ==
  /\ ownPC = "idle" /\ ~control_thread
  /\ AsyncStop \/ ConsumersIdle
  /\ sessions < MaxSessions
  /\ StartAllCameras
  /\ stopped' = FALSE
  /\ control_thread' = TRUE
  /\ ctlPC' = "top"
  /\ sessions' = sessions + 1
  /\ UNCHANGED << mergedPC_is_fresh, mergedPC_want_new, heapVars, ctlCam, newPC, cycle,
                  conVars, ownPC, ownCam >>

(* stop(): _unload_cameras() returns at once when there are no cameras,    *)
(* _stop_cameras() begins with stopped = true.                             *)
Stop ==
  /\ control_thread
  /\ AsyncStop \/ ConsumersIdle
  /\ ownStep("idle", "setFresh")
  /\ stopped' = TRUE
  /\ UNCHANGED << mergedPC_is_fresh, mergedPC_want_new, ctlPC, conPC >> /\ ownOnly

StopSetFresh ==
  /\ ownStep("setFresh", "clearWant")
  /\ mergedPC_is_fresh' = TRUE
  /\ UNCHANGED << stopped, mergedPC_want_new, ctlPC, conPC >> /\ ownOnly

StopClearWant ==
  /\ ownStep("clearWant", "notifyFresh")
  /\ mergedPC_want_new' = FALSE
  /\ UNCHANGED << stopped, mergedPC_is_fresh, ctlPC, conPC >> /\ ownOnly

StopNotifyFresh ==
  /\ ownStep("notifyFresh", "setWant")
  /\ conPC' = mergedPC_is_fresh_notified
  /\ UNCHANGED << flagVars, ctlPC >> /\ ownOnly

(* Mutant: the control thread is notified, but of nothing.                 *)
StopSetWant_Omitted ==
  /\ ownStep("setWant", "notifyWant")
  /\ UNCHANGED << flagVars, ctlPC, conPC >> /\ ownOnly

StopSetWant ==
  /\ ownStep("setWant", "notifyWant")
  /\ mergedPC_want_new' = TRUE
  /\ UNCHANGED << stopped, mergedPC_is_fresh, ctlPC, conPC >> /\ ownOnly

StopNotifyWant ==
  /\ ownStep("notifyWant", "join")
  /\ ctlPC' = mergedPC_want_new_notified
  /\ UNCHANGED << flagVars, conPC >> /\ ownOnly

(* Mutant: the control thread is not waited for.                           *)
StopJoin_NoWait ==
  /\ ownStep("join", "cameras")
  /\ control_thread' = FALSE
  /\ ownCam' = 1
  /\ UNCHANGED << flagVars, heapVars, ctlVars, conVars, sessions, camVars >>

StopJoin ==
  /\ ownStep("join", "cameras")
  /\ ctlPC = "exit"
  /\ ctlPC' = "none"
  /\ control_thread' = FALSE
  /\ ownCam' = 1
  /\ UNCHANGED << flagVars, heapVars, ctlCam, newPC, cycle, conVars, sessions, camVars >>

(* The statements of stop_camera(), one camera after the other.            *)
StopOneCamera ==
  /\ StopCameraFlag(ownCam) \/ StopCameraNext(ownCam)
  /\ IF stopPC'[ownCam] # "down"
     THEN ownStep("cameras", "cameras") /\ UNCHANGED ownCam
     ELSE IF ownCam < NumCameras
     THEN ownStep("cameras", "cameras") /\ ownCam' = ownCam + 1
     ELSE ownStep("cameras", "clearFresh") /\ UNCHANGED ownCam
  /\ UNCHANGED << flagVars, heapVars, ctlVars, conVars, control_thread, sessions >>

(* Mutant: mergedPC_is_fresh stays as stop() set it to wake the consumers. *)
StopClearFresh_Omitted ==
  /\ ownStep("clearFresh", "finish")
  /\ UNCHANGED << flagVars, ctlPC, conPC >> /\ ownOnly

StopClearFresh ==
  /\ ownStep("clearFresh", "finish")
  /\ mergedPC_is_fresh' = FALSE
  /\ UNCHANGED << stopped, mergedPC_want_new, ctlPC, conPC >> /\ ownOnly

(* mergedPC_want_new = false, and the cameras are deleted.                 *)
StopFinish ==
  /\ ownStep("finish", "idle")
  /\ mergedPC_want_new' = FALSE
  /\ UNCHANGED << stopped, mergedPC_is_fresh, ctlPC, conPC >> /\ ownOnly

(* The destructor, after its call of _unload_cameras().                    *)
Destroy ==
  /\ ~control_thread /\ ConsumersIdle
  /\ ownStep("idle", "gone")
  /\ mergedPC' = NoPC
  /\ live' = live \ {mergedPC}
  /\ UNCHANGED << points, flagVars, ctlVars, conVars, ownCam, control_thread,
                  sessions, camVars >>

(* Nobody uses a capturer that is gone.                                    *)
Gone == ownPC = "gone" /\ UNCHANGED vars

StopNext ==
  \/ StopSetFresh \/ StopClearWant \/ StopNotifyFresh \/ StopSetWant
  \/ StopNotifyWant \/ StopJoin \/ StopOneCamera \/ StopClearFresh \/ StopFinish

OwnNext == Start \/ Stop \/ StopNext \/ Destroy \/ Gone

-----------------------------------------------------------------------------
ProcThread(c) == ProcNext(c) /\ UNCHANGED capVars

CapNext ==
  \/ CtlNext
  \/ OwnNext
  \/ \E k \in Consumers : ConNext(k)
  \/ \E c \in Cameras : ProcThread(c)

CapSpec == CapInit /\ [][CapNext]_vars

(* Every thread that can go on does.  A thread that keeps trying to lock   *)
(* the mutex gets it, and a device that is asked again and again delivers. *)
(* Nothing makes the application call, or a sleeper wake up for no reason. *)
CapFairness ==
  /\ WF_vars(CtlLocal)
  /\ SF_vars(CtlWant) /\ SF_vars(CtlLock)
  /\ WF_vars(CtlCaptureFails \/ CtlCaptureSucceeds)
  /\ \A c \in Cameras : SF_vars(ctlCam = c /\ CtlCaptureSucceeds)
  /\ WF_vars(StopNext)
  /\ \A k \in Consumers : WF_vars(ConLocal(k)) /\ SF_vars(ConLocking(k))
  /\ \A c \in Cameras :
       WF_vars((ProcTest(c) \/ ProcDequeue(c) \/ ProcLock(c) \/ ProcFinish(c) \/ ProcExit(c))
               /\ UNCHANGED capVars)

CapFairSpec == CapSpec /\ CapFairness

-----------------------------------------------------------------------------
(* The types of the capturer's fields and of its threads' positions.       *)
CapTypeOK ==
  /\ stopped \in BOOLEAN /\ control_thread \in BOOLEAN
  /\ mergedPC_is_fresh \in BOOLEAN /\ mergedPC_want_new \in BOOLEAN
  /\ mergedPC \in Clouds \cup {NoPC} /\ newPC \in Clouds \cup {NoPC}
  /\ ctlPC \in {"none", "top", "want", "park", "parked", "check", "capture", "captured",
                "created", "dispatch", "dispatched", "lock", "locked", "await", "awaited",
                "merge", "merged", "exit"}
  /\ ctlCam \in Cameras /\ ownCam \in Cameras
  /\ conPC \in [Consumers -> {"idle", "request", "wait", "park", "parked", "take", "again",
                              "return", "ask", "answer"}]
  /\ conRV \in [Consumers -> Clouds \cup {NoPC}]
  /\ ownPC \in {"idle", "setFresh", "clearWant", "notifyFresh", "setWant", "notifyWant",
                "join", "cameras", "clearFresh", "finish", "gone"}
  /\ cycle \in 0 .. MaxFrames /\ sessions \in 0 .. MaxSessions
  /\ points \in [Clouds -> [Cameras -> 0 .. MaxFrames]]
  /\ live \subseteq Clouds
  /\ delivered \in Seq([Cameras -> 0 .. MaxFrames])

(* The control thread, with the early exits that stop() causes, uses the   *)
(* cameras as OrbbecBaseCamera.tla assumes: one submission per camera and  *)
(* cycle, one wait per submission, nothing once stop_camera() has begun,   *)
(* and no start before the last camera is down.  What that module shows of *)
(* the cameras therefore holds of them inside the capturer.                *)
CapturerKeepsCameraProtocol == CamSpec

(* A cloud announced as fresh holds, of every camera, the points of the    *)
(* one cycle it was created for.                                           *)
FreshCloudIsComplete ==
  (mergedPC_is_fresh /\ ~stopped) =>
    /\ mergedPC # NoPC
    /\ points[mergedPC] = [c \in Cameras |-> mergedPC]

(* The point cloud's owner: mergedPC and newPC never point to a cloud that *)
(* was freed or handed out, nor to the same one (two calls of free()); and *)
(* the control thread has a cloud to merge into.                           *)
CloudsAreOwnedOnce ==
  /\ mergedPC # NoPC => mergedPC \in live
  /\ newPC # NoPC => newPC \in live /\ newPC # mergedPC
  /\ ctlPC \in {"created", "dispatch", "dispatched", "lock"} => newPC # NoPC
  /\ ctlPC \in {"locked", "await", "awaited", "merge"} => mergedPC # NoPC

(* Every cloud cwipc_from_pcl() allocated is freed or handed out in the    *)
(* end, but for at most one per restart.                                   *)
AtMostOneCloudLostPerRestart ==
  \E lost \in [1 .. MaxSessions -> Clouds \cup {NoPC}] :
    /\ live \subseteq {mergedPC, newPC} \cup {lost[i] : i \in 1 .. MaxSessions}
    /\ \A i \in 1 .. MaxSessions : i >= sessions => lost[i] = NoPC

(* apps/cwipc_orbbec_grab/cwipc_orbbec_grab.cpp asks at the end whether    *)
(* there are cwipc_dangling_allocations(): no cloud may be forgotten.      *)
NoCloudIsLost == live \subseteq {mergedPC, newPC}

(* The capturer does not throw a finished cloud away to make room for the  *)
(* next: when it installs a new one nobody is owed the old one.            *)
FinishedCloudIsNotReplaced ==
  (ctlPC = "lock" /\ ~stopped) => ~mergedPC_is_fresh

(* "assert(mergedPC_is_fresh)" in get_pointcloud(), and the "returning NULL, *)
(* even though mergedPC_is_fresh" it warns of: as long as nobody has       *)
(* called stop(), whoever saw the flag set finds it set and a cloud in     *)
(* mergedPC, though several threads call get_pointcloud() and              *)
(* pointcloud_available() at once.                                         *)
GetFindsItsCloud ==
  (sessions = 1 /\ ~stopped) =>
    \A k \in Consumers : conPC[k] = "take" => mergedPC_is_fresh /\ mergedPC # NoPC

(* The capturer is the point cloud source of PointCloudSource.tla.         *)
Source == INSTANCE PointCloudSource WITH
  Cycles <- Clouds,
  streaming <- control_thread /\ ~stopped,
  ready <- IF mergedPC_is_fresh /\ ~stopped
           THEN {points[p] : p \in {mergedPC} \ {NoPC}} ELSE {},
  given <- delivered

IsPointCloudSource == Source!Spec

(* get_pointcloud() returns: a fresh cloud is always on its way, as long   *)
(* as the cameras have framesets and nobody calls stop().                  *)
GetReturns ==
  \A k \in Consumers :
    conPC[k] = "request" ~> (conPC[k] = "idle" \/ cycle = MaxFrames)

(* stop() returns, unless its notification of mergedPC_want_new_cv came    *)
(* between the control thread's test of the predicate and its sleep, and   *)
(* it now sleeps although what it waits for is true.                       *)
StopReturnsOrWakeupLost ==
  ownPC = "setFresh" ~> (ownPC = "idle" \/ (ownPC = "join" /\ ctlPC = "parked" /\ mergedPC_want_new))

(* stop() returns: python/test_cwipc_orbbec.py ends each of its tests with *)
(* grabber.stop() and expects to go on.                                    *)
StopReturns == ownPC = "setFresh" ~> ownPC = "idle"
=============================================================================
