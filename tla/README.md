# A TLA+ model of cwipc_orbbec

This directory models the capture engine of `cwipc_orbbec`, which turns framesets of Orbbec
depth cameras into point clouds. Paths below are relative to the root of the repository.

## The system

| Part | State | Operations | Hard behaviour |
|---|---|---|---|
| Camera, `src/OrbbecBaseCamera.hpp` | a queue of one frameset, the captured and the processed frameset, the current point cloud, `processing_done`, the pipeline | `wait_for_captured_frameset`, `process_pointcloud_from_frameset`, `wait_for_pointcloud_processed`, `access_current_pcl_pointcloud`, `stop_camera`, the processing thread | handshake between control thread and processing thread; the pipeline is stopped by whoever comes first; draining a queue that another thread reads |
| Capturer, `src/OrbbecBaseCapture.hpp` | `mergedPC` and its two flags, a mutex, two condition variables, `stopped`, the control thread | `start`, `stop`, `pointcloud_available`, `get_pointcloud`, the control thread, the destructor | flags written by `stop()` without the mutex; early exits with a half made cloud; restart |
| Life cycle, `src/OrbbecBaseCapture.hpp`, `src/OrbbecCapture.cpp`, `src/OrbbecPlaybackCapture.cpp` | `_is_initialized`, the configuration with `connected` and `disabled`, the vector of cameras | `config_reload`, `_create_cameras`, `_check_cameras_connected`, `_start_cameras`, `_unload_cameras`, `_post_stop_all_cameras`, `config_get` | a start that fails half-way; device order against configuration order; no camera at all; a recording that is played much later |
| Frame synchronisation, `_capture_all_cameras` | timestamps | one frameset of each camera, none earlier than the first camera's | clocks that differ, framesets without a depth image |
| Clouds, their metadata and `map2d3d`, `OrbbecBaseCamera.hpp`, `OrbbecBaseCapture.hpp` | the captured and the processed frameset of each camera, `want_rgb` and `want_depth` | `save_frameset_metadata`, `_generate_point_cloud`, `_merge_camera_pointclouds`, `request_metadata`, `map2d3d` | images, points and answers that come from different framesets; the application asks about an earlier cloud |
| Hardware and playback cameras | pipeline, recorder, playback device | `start_camera`, `start_camera_streaming`, status callback | SDK errors, end of a recording |
| Queue, `src/readerwriterqueue.h`, `src/atomicops.h` | blocks of a ring buffer, a semaphore | `try_enqueue`, `try_dequeue`, `wait_dequeue_timed` | memory published by two indices; timeout of the semaphore against a signal; a second consumer |
| Configuration, `src/OrbbecConfig.cpp` | the configuration records | `from_string`, `from_file`, `to_string` | fields that one direction forgets; documents that break off |
| Entry points, `src/cwipc_orbbec.cpp` | none | factories, `request_metadata`, `auxiliary_operation` | error buffer, version check |

The application calls the capturer from its own threads. The capturer's control thread calls
the cameras. Each camera's processing thread shares the camera's fields with the control thread,
and with the application thread that is in `stop()`. Components interact by these calls, by the
queue, by two mutexes and three condition variables, and by a number of fields that are read and
written without any of them.

What makes the parts correct: a frameset that was submitted is processed, and announced, once
and for itself; a cloud that is announced as fresh holds the points of every camera, of one cycle;
a cloud has one owner, who frees it once; `get_pointcloud()` and `stop()` return; after a failed
`start()` nothing runs; a camera is configured by its own entry of the configuration. The hazards
on which this may fail are listed, each at its line, in `PROJECT.json`.

## The modules

* `OrbbecBaseCamera.tla`: the cameras. `CamSpec` leaves the control thread and the thread that
  runs `stop_camera()` free to call whenever the capturer's protocol allows: one submission and
  one wait per cycle, nothing once `stop_camera()` has begun.
* `OrbbecBaseCapture.tla` extends it. The capturer's own steps conjoin the camera actions, whose
  guards and effects are those of the camera module. The property
  `CapturerKeepsCameraProtocol` is `CamSpec` itself, so what is proved of `CamSpec` holds inside
  the capturer.
* `PointCloudSource.tla`: what the capturer promises to an application with one thread.
  `OrbbecBaseCapture` implements it under the mapping at `Source`: the source streams while there is
  a control thread and `stopped` is false, and its finished cloud is `mergedPC` when that is fresh.
* `CaptureLifecycle.tla`: from the factory to the destructor, for both capturers: load a configuration, create cameras for
  devices or recordings, check and start them, unload them. It stands beside the others: `Start` of
  `OrbbecBaseCapture` is a `start()` that ends in `start_camera_streaming` here, and the threads that run
  meanwhile are only there or not. It extends `OrbbecConfig.tla`, the operators of `src/OrbbecConfig.cpp`: what is read of a document,
  what is written of a configuration, and what is written of it for a recording.
* `CaptureCycle.tla`: what a cloud is made of. It has the threads of `OrbbecBaseCapture` in larger steps and without `stop()`, and
  instead the timestamps and images of the framesets, the metadata, the tiles, and the application that asks about the cloud it holds.
* `ProcessingFrameQueue.tla`: the queue between the control thread and the processing thread, in the steps of
  `src/readerwriterqueue.h` and the semaphore of `src/atomicops.h`. It implements `BoundedFIFO.tla`, which is how
  `OrbbecBaseCamera` uses the queue, until `stop_camera()` begins.
* The theorems: `OrbbecBaseCameraProofs.tla`; `OrbbecBaseCaptureProofs.tla`, which extends it as the capturer's module extends the
  camera's, with what the capturer does to its cameras, and `CaptureCloudProofs.tla`, which extends that one, with what becomes of
  the clouds; `CaptureCycleProofs.tla`, `CaptureLifecycleProofs.tla` and `ProcessingFrameQueueProofs.tla`.
* `MCCamera.tla`, `MCCapture.tla`, `MCCycle.tla`, `MCLifecycle.tla`, `MCQueue.tla` and the `.cfg` files: instances for TLC.

Operators whose name ends in a suffix with an underscore, such as `GetTake_KeepsMergedPC`, are
mutants. They are not part of the specifications: each shows how a likely mistake in the code would
violate a property.

### State and steps

Variables have the names of the fields they stand for. `procPC`, `ctlPC`, `conPC`, `ownPC` and
`stopPC` are the positions of the threads, and `procFrame`, `newPC`, `conRV`, `ctlCam` and `ownCam`
their local variables. `owed`, `submitted`, `delivered`, `live` and `points` exist in the model only:
what was submitted and not awaited, what was handed out, which clouds are allocated, and which
framesets a cloud's points came from. A frameset is its capture cycle and the kind of images it
carries. A point cloud is the cycle for which it was allocated.

A step ends where another thread can notice: at each lock, wait and unlock, and at each access of
a field that is not protected. `stop()` writes `stopped` and the two flags in separate steps, and the
control thread reads `stopped` in separate steps. Code that runs with a mutex held is one step
if nothing it touches is also touched without the mutex. Waiting on a condition variable is split
in the test of the predicate and the sleep, both with the mutex held, and the wakeup; a notification
reaches only a thread that sleeps. Camera waits are not split, because every write that can meet
them is made with `processing_mutex` held: `stop_camera()`, which writes `processing_done` without it,
runs only once the control thread has been joined.

The unprotected accesses are data races in C++. The model lets each of them happen at any moment, in
one order for all threads; values a compiler or a weak memory could invent beyond that are not modelled.

In `CaptureLifecycle` the owner is the only thread and its steps end where devices may come or go, or where the SDK may fail: the
rounds of the loop that creates the cameras (over the SDK's `devices`, or over the entries, of which `entry` is the next), the
check, and each `start_camera()`. `toStart` holds the cameras that are still to be started; `StartsNext` takes those that are no
sync master first, as the code's two passes over the cameras do. `handle` is the device or recording that a camera reads, `serial`
the one it believes to be, taken from the entry at its own position. `pipelines` and `processing` are `camera_started` and the
processing threads, `recorders` the cameras that have a `recording_device`, which is made before the pipeline starts and does not
depend on its success. `created_before` exists in the model only: the devices of which an earlier `start()` since the
configuration was loaded made cameras. `recording` is what a session leaves on the disk: the `cameraconfig.json`, and the files
that were recorded, each with the device it shows. `start_camera` has three outcomes. The SDK may fail where the code catches it
(`CameraFails`), and the other cameras are started all the same; or it throws where the code does not (`StartThrows`, while the
devices are listed, a pipeline, a recorder or a playback device is made), and `start()` is left there and then, past
`_unload_cameras()`, with the cameras and pipelines it has so far. The application is taken to call `stop()` or the destructor
next. A field of the configuration is at its default or not (`settings`); the fields that steer the life cycle are kept as they
are. `DebugLog` says whether the log level is DEBUG, which sets `debug`.

In `CaptureCycle` a frameset is a timestamp and the images it has; with `other` one of them is in another format than the one
asked for, so that it gives points but no metadata. `unsaved` in a cloud is history, too: the cameras whose images did not fit in
memory. The framesets of a camera have growing timestamps; nothing else is assumed of its clock. A step is one round of a loop
over the cameras, or one frameset processed. Metadata is requested between any two steps. A cloud keeps, for the properties only,
the framesets of its cycle (`frames`) and what had been requested when it was created (`wanted`).

In `ProcessingFrameQueue` each access of an index, of a slot or of the semaphore is a step. The control thread may enqueue at any
moment there, also when the queue is full, which the capturer's protocol avoids (`NoFrameDropped`). The queue is constructed with
size 1 and never grows, so there is a single block. A consumer reads its copy of the tail and the front in steps of their own,
moves the pointer out of the slot and clears the slot in two more, and stores the front in a last one, so that two consumers can
come between each other anywhere. (Reading the tail and storing the copy of it is one step: there are two consumers only when
nothing moves the tail before `stop_camera()` is through with draining.) A consumer that comes too late may find null in its slot,
read a pointer that the other one is about to clear, or reach a slot in which nothing was ever constructed (`Raw`). What C++
leaves undefined there has two outcomes in the model: a value as if it had been constructed or copied, or the end of the program
(`DequeueCrash`).

The code never assigns `end_of_stream_reached`, so the branches on it are left out, as is the branch for
a null result of `_generate_point_cloud()`, which has none. SDK exceptions in the processing thread are not
modelled.

## The runs

| Run | Instance | Shows |
|---|---|---|
| `camera_safety` | 2 cameras, framesets with and without color, 2 cycles | type invariant; the inductive invariant `CamInv`; no frameset dropped; `processing_done` never stale; the borrowed cloud stable; no sleep on an empty queue during a join; pipeline up while streaming |
| `capture_safety` | 2 cameras, framesets with and without color, 1 consumer, 3 cycles, 2 sessions, calls one at a time | fresh clouds complete and owned once; the camera protocol; refinement of `PointCloudSource` |
| `capture_async` | 1 camera, 2 consumers, 2 cycles, 2 sessions, calls overlap `start()` and `stop()` | the same safety, but for the refinement; finished clouds not replaced; at most one cloud lost per restart; until `stop()`, who sees the flag finds the cloud |
| `capture_live` | 1 camera, 1 consumer, framesets with and without color, 3 cycles, 2 sessions | a submitted frameset is processed; `stop_camera()` returns; `get_pointcloud()` returns; `stop()` returns unless its wakeup is lost |
| `stop_lost_wakeup` | 1 camera, 1 cycle | violation: `stop()` may wait for ever |
| `restart_leak` | 1 camera, 2 cycles, 2 sessions | violation: a cloud is never freed |
| `capture_cycle` | 2 cameras, timestamps 0 to 3, framesets with both images, with one, or with one in another format | the depth images of a cloud are not earlier than its timestamp; metadata and points are of the same framesets, and points come with their images but for formats and memory; `map2d3d()` finds the camera of a point and a frameset not older than it |
| `lifecycle` | 2 serials, 2 directories, 7 kinds of entries, configurations of up to 2 with all fields set or none, any devices plugged in | after a start that returned false or a stop, also one after an exception, nothing runs; all cameras stream or none; every enabled entry has its camera, but for devices of earlier sessions; the configuration is not replaced under the cameras; the sync master starts last; not more cameras than entries; what `config_get()` returns loads again; a recording can be played |
| `lifecycle_master` | the same | violation: the camera of the device that is configured as the sync master is not the sync master |
| `lifecycle_no_cameras` | the same | violation: `start()` succeeds without cameras |
| `queue` | size 1, 3 framesets | the block and the semaphore are a bounded queue; one unit per element; no lost wakeup; the processing thread ends also with two consumers, unless undefined behaviour ends the program |
| `queue_two_consumers` | size 1, 1 frameset | violation: a consumer with a unit of the semaphore finds no element |

**Bounds.** `MaxFrames` is the number of cycles for which the cameras have framesets, over all sessions; then `waitForFrameset()`
delivers nothing, as at the end of a recording. Two cycles suffice for anything of one cycle to be confused with the next; a third
lets both a fetched and an unfetched cloud precede one. `MaxSessions = 2` is one restart. Two cameras suffice for one to be ahead
of another, since cameras do not share state and the loops over them have no other memory than the index. Two consumers suffice to
compete for one cloud. Two entries and two devices suffice for any order, for a disabled entry before another, for a device that
is not configured and for a duplicate serial. Two directories suffice for a stale one. Timestamps up to 3 suffice for a dropped
frameset, an abandoned cycle, and one that the application keeps while another is made. Three framesets through a block of two
slots make every index wrap around. Reloads and restarts are not bounded.

**Fairness.** The operating system runs every thread that can run: weak fairness of the control thread,
the processing threads, the consumers inside a call and the owner inside `stop()`. A thread that
tries to lock `mergedPC_mutex` gets it in the end (strong fairness): its holders release it after a
few steps, or wait for processing threads that need no mutex of the capturer. A device that is asked again and again
delivers in the end (strong fairness of the successful capture, for each camera: that one of them delivers again and again does not
end a cycle). No call is fair, nor is a spurious wakeup. Nor is
the timeout of the timed dequeue: `StopCameraReturns` says more than that the ten seconds pass.

**Where the code disagrees.** `stop()` sets `mergedPC_want_new` and notifies without the mutex. If the control thread has tested
the predicate and does not sleep yet, the notification is lost and `join()` does not return (`StopReturns`, violated).
`StopReturnsOrWakeupLost` shows that this is the only way for `stop()` to hang. When `stop()` finds a finished cloud that nobody
fetched, it leaves it in `mergedPC` but clears the flag, and the next session overwrites the pointer (`NoCloudIsLost`, violated).
`AtMostOneCloudLostPerRestart` shows that no more is lost. A camera is created with its position among the cameras, but takes its
configuration from the entry at that position, while the check before it looks the entry up by serial: with another order of
devices, or a disabled entry, it gets the serial and the transformation of another entry, and takes its role by that serial
(`NamedDeviceIsSyncMaster`, violated for a capturer that plays). In TLC's trace the first entry is disabled and nameless and the
second is that of the only device, which is to be the sync master: its camera believes to have no serial, and no camera is the
sync master. With two cameras that took each other's entries it is the other one. `start()` does not notice that there is no
camera: all entries are disabled, or the devices of an earlier session are gone but still `connected`, or an empty configuration
was refused but kept (`ControlThreadHasCameras`, violated). `EveryEntryHasItsCamera` shows how far the second cause goes: a device
goes missing unnoticed only if it had a camera in an earlier session of the configuration. `stop_camera()` is a second consumer of
a queue made for one: it and the processing thread can both get past the semaphore for one element (`DequeueSucceeds`, violated).
`StopJoinsProcessingThread` shows that without assertions `stop_camera()` still returns, whatever the two took from the block, if
the program survives what they may do to its slots.

Smaller disagreements, which no run shows:
* `OrbbecBaseCapture.hpp:551-553` says that no frameset is earlier than the first camera's. If that has no depth image its timestamp
  counts as 1 (`OrbbecBaseCamera.hpp:178`), and any frameset will do. `FramesAreAligned` therefore asks for a depth image.
* `save_frameset_metadata()` saves nothing of a frameset with an image that is not Y16 or BGRA (`OrbbecBaseCamera.hpp:225-232`), and no image
  for which `malloc()` fails (254, 275), while the points are made all the same: such a cloud lacks metadata that was asked for.
* `OrbbecBaseCamera.hpp:199` says that after the wait `current_processed_frameset` will be valid. A frameset that lacks an image leaves
  it as it was, at first null. `Map2d3dFitsHeldCloud` shows that it fits as far as the cloud has points.
* `eof()` never returns true, and `get_pointcloud()` waits for ever at the end of a recording: the status callback sets `playback_eof`,
  the control thread tests `end_of_stream_reached` (448-455).
* `color_sharpness` is read but not written (`OrbbecConfig.cpp:109-122`); `ConfigurationRoundTrip` says that nothing else is lost.
* After a reload from a string a playback capturer still looks in the directory of the earlier configuration
  (`OrbbecPlaybackCapture.cpp:13-23`). Nothing says where it should look, so no property does.
* A recording whose cameras took other entries than their own, or from which a device of an earlier session was missing, may not play:
  `RecordingCanBePlayed` excludes both, which are the causes of the violations above.
* `single_tile`, `depth_x_erosion`, `depth_y_erosion`, `do_threshold`, the thresholds and `map_color_to_depth` are read and written, but
  used nowhere. `OrbbecConfig.hpp:42` says "If height_min != height_max perform height filtering"; the code tests `<`
  (`OrbbecBaseCamera.hpp:430`).

## The proofs

`OrbbecBaseCameraProofs.tla` proves, for any number of cameras, any set of frameset kinds and any length of recording,
assuming only `CameraAssumption`: the type invariant, `NoFrameDropped`, `DoneMeansSubmittedFrame`,
`StopNeverWaitsForTimeout`, `PipelineUpWhileStreaming` and the action property `BorrowedCloudStable`.

None of these is inductive. That the queue is empty when a frameset is submitted follows from what
happened since the last submission, so the invariant must say where the frameset of the current cycle is at
any time: nowhere (`Idle`), in the queue (`Queued`), with the processing thread (`InProcess`) or done
(`Processed`). `Handshake` says so, with `pipeline_running`, which depends on the processing thread not
leaving its loop, which depends on it never dequeuing a null frameset while the camera streams.
`StopWakesProc` is the part for `stop_camera()`. `CamInv` conjoins them with the types. The proof takes one lemma
per group of actions; since cameras share nothing, a step of one camera leaves the others' part alone
(`OtherCameraUnchanged`).

`CaptureCycleProofs.tla` proves, for any number of cameras, any images in the framesets and any bound on the timestamps, assuming
only `CycleAssumption`: the type invariant, `FramesAreAligned` and `MetadataMatchesPoints`. `FramesAreAligned` speaks of clouds
that are created already; `AlignInv` adds that while the cameras take their turns, the framesets captured so far are aligned, and
that the minimum is not 0 after the first turn, since with 0 the code would take the next camera's timestamp for it.
`MetadataMatchesPoints` is about finished clouds, and asks for no images in another format or without memory; `CloudInv` follows
each camera through the cycle: until it submits, its captured frameset is that of the cloud being made, its images are saved in
its turn of the loop, and once it has submitted, its thread has that frameset or has made its points. That holds only because
nothing is being processed while cameras capture, which is a part of `CloudInv` as well.

`Map2d3dFitsHeldCloud` needs one more hypothesis, `NumCameras <= 8`: a point's tile is a byte with the camera's bit, and is 0 from the
ninth camera on (`tile_mask`). `MapInv` says that a camera's framesets only get later on their way to `current_processed_frameset`, that
the one from which a camera made its points is there until they are merged, and that it or a later one is there from then on.

`OrbbecBaseCaptureProofs.tla` is about the capturer, for any number of cameras and consumers, any bound on framesets and sessions, and
with or without `AsyncStop`, assuming `CameraAssumption` and `CaptureAssumption`. That the capturer keeps the cameras' protocol
(`ProtocolIsKept`: `CapSpec => CamSpec`) depends on where its threads are. `ProtocolInv` has `ThreadInv`, which ties the owner's position and
`stopped` to whether there is a control thread and whether the cameras stream; `OwedInv`, which tells from the control thread's position
which cameras have captured a frameset and which owe a cloud; and `CamInv`, since whether `wait_for_captured_frameset()` may be called is a
question to the cameras. With it each step of the capturer is one of the cameras' specification or leaves them alone, and
the theorems about the cameras hold in the capturer (`CamerasInsideCapturer`).

`CaptureCloudProofs.tla` follows the clouds. `CloudInv` is inductive given `ProtocolInv`. `HeapInv` says where the cloud of the cycle
is at any place of the control thread: in `newPC`, which is null elsewhere, or in `mergedPC`; and that neither is ever freed memory.
`MutexInv` is why no consumer takes a cloud that the control thread works on. `PointsInv` says which cameras have been given
a frameset of this cycle and which have finished its cloud, so that a merge takes points of this cycle from each. `FreshInv` is
`FreshCloudIsComplete` with what keeps it: as long as `stopped` is false, no cloud is fresh while another is requested or made, and
what `stop()` made to look fresh no longer does when the next session begins.
`FirstSessionInv` is the part for `GetFindsItsCloud`. For `AtMostOneCloudLostPerRestart`, which counts, `LostInv` names the lost clouds:
a function from sessions to clouds that covers what is allocated and in neither pointer, so that the bound is the size of its domain
and needs no induction over the set. `CapturerIsPointCloudSource` adds `SyncInv`, that no consumer is inside a call while the owner stops, and
`DeliveredInv`, that what was handed out is of no later cycle, and of an earlier one while
a cloud is being made; both hold where the application does not overlap its calls, and the
theorem has that as its hypothesis (`~AsyncStop`), because otherwise a cloud can be handed out by a source that has ended.

`CaptureLifecycleProofs.tla` proves all eight properties of the run `lifecycle`, for any finite set of serials, any directories
and documents and any order of devices, assuming `LifecycleAssumption`: that the documents are documents, and that the device list
is finite. `LifeInv` has a part for each question. `RunInv` says what runs where in `start()` and `stop()`, and after an
exception. `CreateInv` says how far the loop that creates cameras has come: no device twice, hence never more cameras than
entries, which bounds the entry a camera refers to. `EntryInv` says that an entry that is `connected` has its camera or had one in
an earlier session, since the flag outlives it. `PlaceInv` and `RecordInv` say where recordings are sought and made and what the
last one holds. The properties about configurations follow with lemmas about `from_string` and `to_string`: what is written is
read back.

`ProcessingFrameQueueProofs.tla` proves, for any `QueueSize` of at least one and any number of framesets, the type invariant,
`SemaphoreCountsElements` and the refinement of `BoundedFIFO`. `dist` is the number of slots from one index of the ring to
another. Until `stop_camera()` begins, `OneConsumer` says that a stale copy of an index errs to the safe side (the producer's
`localFront` makes the queue look fuller, the consumer's `localTail` emptier), that the slots from `front` to `tail` hold
framesets, and that their number is the count of the semaphore and the units on their way. It follows that a dequeue after a
successful wait never fails, nor touches a slot it may not (`DequeueSucceedsUntilStop`), so that the second consumer is the only
cause of the violation in `queue_two_consumers`. The sequence in the block is not changed while the one consumer moves its head
out, since `content` takes it from there. Thereafter `TwoConsumers` says how far two consumers can get the count wrong: it never
falls below -1 and there is never more than one post too many. `UpperBound` is the heart of it: a consumer that moves `front` back
to the slot it took, or past the tail, which makes an empty block look full, still leaves at least as many elements as there are
units. `RoomInv` says that `stop_camera()` finds room for its null, unless a unit was taken twice. Besides `QueueAssumption` there
is `PowersOfTwo`: each power of two is a natural number above its exponent. It is true, TLC evaluates it, and without it nothing
is known of the size to which `ceilToPow2` rounds; it needs an induction, which is out of the provers' reach, and restricts no
constant. The steps of the model, and so the proofs, are in one order for all threads.

**Only model-checked.** Every invariant of the passing runs, and every property of them that is not liveness, is the statement of a theorem.
Liveness stays with TLC: `GetReturns`, `StopReturnsOrWakeupLost`, `SubmittedIsProcessed`, `StopCameraReturns`, `EnqueuedIsDequeued` and
`StopJoinsProcessingThread` rest on fairness, and so on `ENABLED`, which TLAPS does not prove. The violations are TLC's, too. That the
queue of `OrbbecBaseCamera` is the one of `BoundedFIFO` is by reading: both are a sequence to which one thread appends where there is
room and from which another takes the head.

## Not modelled

The coordinates and colors of points and what filters do to them (floating point arithmetic of unbounded data); `new_timestamps`,
which replaces a cloud's timestamp by the time of day; setting SDK properties; what a capturer does that an exception has left in
the middle of `start()`, when it is started again or reloaded instead of stopped or freed: nothing says whether it may be;
exceptions out of the factory, `config_reload()` and `stop()`; the logger callback; the version check and the error buffer; the
Python binding and the applications, which keep no state of their own. `seek()`, `pause()`, `resume()`, the capture threads and
`captured_frame_queue` are empty or unused in the code. Of the queue: blocks that are added, `peek()`, `pop()`, copying and the
semaphores of each operating system, none of which this program's one use of it reaches. That the loop over framesets that are too
early ends is a matter of the devices' clocks and beyond a bounded clock. The SDK, PCL and `cwipc_util` are external; their
behaviour is taken from how the code uses them: version, type and the fields of an entry in a document are read and written by
`cwipc_util`.

## Plan

The models of the plan are here (camera, capturer, cycle, life cycle, configuration, queue), and the safety properties that runs check are
proved. What is worth doing next, in this order:

1. What remains true where a run shows a violation: that the sync master is the named device as long as every camera has the entry of its own
   device; that a control thread has cameras in the first session of a configuration with an enabled entry; that no cloud is lost
   before the first restart.
2. The safety half of the liveness properties: which thread can step whenever one is waited for, as in `StopReturnsOrWakeupLost`.
3. The step from the queue of `OrbbecBaseCamera` to `BoundedFIFO`, as a refinement up to the beginning of `stop_camera()`.
