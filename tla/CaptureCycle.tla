---------------------------- MODULE CaptureCycle ----------------------------
(***************************************************************************)
(* What a point cloud is made of: the framesets that one cycle takes from  *)
(* the cameras, by their timestamps (_capture_all_cameras() and            *)
(* wait_for_captured_frameset()), the images saved with the cloud as       *)
(* metadata, the points with the tile of their camera, and the frameset    *)
(* that map2d3d() uses when the application asks about such a point.       *)
(*                                                                         *)
(* The threads are those of OrbbecBaseCapture.tla, in larger steps: what   *)
(* locks, flags and queues do is shown there, and so is stop().  Here the  *)
(* application has the cloud of one cycle while the next is being made,    *)
(* and may ask for metadata at any moment.                                 *)
(*                                                                         *)
(* Left out: new_timestamps, which replaces a cloud's timestamp by the     *)
(* time of day, and where the points are.                                  *)
(***************************************************************************)
EXTENDS Naturals

CONSTANTS
  NumCameras,   \* size of the capturer's `cameras' vector
  MaxTime,      \* bound: the largest timestamp of a frameset
  FrameImages   \* sets of images that a frameset may consist of, with "other"
                \* if one is not in the format that was asked for (Y16, BGRA)

ASSUME CycleAssumption ==
  /\ NumCameras \in Nat \ {0}
  /\ MaxTime \in Nat
  /\ FrameImages \subseteq SUBSET {"depth", "color", "other"}

Cameras == 1 .. NumCameras
camera_index(c) == c - 1

(* A frameset has the time at which it was taken and its images; the null  *)
(* pointer is unlike any of them.                                          *)
NoFrameset == [ts |-> 0, images |-> {"null"}]
Framesets == [ts : 0 .. MaxTime, images : FrameImages]
has_depth(f) == "depth" \in f.images
is_complete(f) == {"depth", "color"} \subseteq f.images
has_formats(f) == "other" \notin f.images

VARIABLES
  clock,            \* the earliest timestamp of each camera's next frameset
  metadata,         \* what request_metadata() asked for (want_rgb, want_depth)
  ctlPC,            \* the control thread's position
  ctlCam,           \* ... and the camera its inner loop has reached
  first_timestamp,
  current_captured_frameset,
  processing_frameset,          \* submitted and not processed yet
  current_processed_frameset,
  current_pcl_pointcloud,       \* the points of the last frameset
  newPC,            \* the cloud being made
  mergedPC,         \* the finished cloud
  held              \* the cloud the application got last

ctlVars == << ctlPC, ctlCam, first_timestamp >>
camVars == << current_captured_frameset, processing_frameset,
              current_processed_frameset, current_pcl_pointcloud >>
pcVars  == << newPC, mergedPC, held >>
vars    == << clock, metadata, ctlVars, camVars, pcVars >>

Forall(v) == [c \in Cameras |-> v]

(* A cloud: its timestamp, its metadata and its points.  The rest is       *)
(* history: the framesets of its cycle, what had been asked for when it was *)
(* created, and the cameras whose images did not fit in memory.            *)
PointCloud(timestamp, frames, wanted) ==
  [timestamp |-> timestamp, frames |-> frames, wanted |-> wanted, unsaved |-> {},
   metadata |-> {}, points |-> {}]
NoPC == PointCloud(0, Forall(NoFrameset), {})

CycleInit ==
  /\ clock = Forall(0)
  /\ metadata = {}
  /\ ctlPC = "want" /\ ctlCam = 1 /\ first_timestamp = 0
  /\ current_captured_frameset = Forall(NoFrameset)
  /\ processing_frameset = Forall(NoFrameset)
  /\ current_processed_frameset = Forall(NoFrameset)
  /\ current_pcl_pointcloud = Forall({})
  /\ newPC = NoPC /\ mergedPC = NoPC /\ held = NoPC

-----------------------------------------------------------------------------
(* Capturing.  A cycle begins when a cloud is wanted and none is finished. *)
ctlStep(from, to) == ctlPC = from /\ ctlPC' = to

BeginCycle ==
  /\ ctlStep("want", "capture")
  /\ mergedPC = NoPC
  /\ ctlCam' = 1 /\ first_timestamp' = 0
  /\ UNCHANGED << clock, metadata, camVars, pcVars >>

(* waitForFrameset() returns the camera's next frameset.                   *)
Delivers(c, f) ==
  /\ f.ts >= clock[c]
  /\ clock' = [clock EXCEPT ![c] = f.ts + 1]
  /\ current_captured_frameset' = [current_captured_frameset EXCEPT ![c] = f]

(* Mutant: a frameset from just before the minimum will do.                *)
may_return_JustBefore(f, minimum_timestamp) ==
  ~has_depth(f) \/ f.ts + 1 >= minimum_timestamp

(* The loop in wait_for_captured_frameset() ends with this frameset: it is *)
(* late enough, or has no depth image.                                     *)
may_return(f, minimum_timestamp) == ~has_depth(f) \/ f.ts >= minimum_timestamp

(* What it then returns.                                                   *)
resultant_timestamp(f) == IF has_depth(f) THEN f.ts ELSE 1

(* "drop frame": a round of the loop whose frameset is too early.          *)
DropFrameset ==
  /\ ctlStep("capture", "capture")
  /\ \E f \in Framesets :
       ~may_return(f, first_timestamp) /\ Delivers(ctlCam, f)
  /\ UNCHANGED << metadata, ctlCam, first_timestamp, processing_frameset,
                  current_processed_frameset, current_pcl_pointcloud, pcVars >>

(* waitForFrameset() gave up: the whole cycle starts over.                 *)
CaptureFails ==
  /\ ctlStep("capture", "want")
  /\ current_captured_frameset' =
       [current_captured_frameset EXCEPT ![ctlCam] = NoFrameset]
  /\ UNCHANGED << clock, metadata, ctlCam, first_timestamp, processing_frameset,
                  current_processed_frameset, current_pcl_pointcloud, pcVars >>

(* A camera's turn in _capture_all_cameras() ends with a frameset.  The    *)
(* timestamp 0 stands for none, also if it is that of a depth image.       *)
CaptureFrameset ==
  /\ ctlPC = "capture"
  /\ \E f \in Framesets :
       LET this_cam_timestamp == resultant_timestamp(f)
       IN /\ may_return(f, first_timestamp)
          /\ Delivers(ctlCam, f)
          /\ IF this_cam_timestamp = 0
             THEN ctlPC' = "want" /\ UNCHANGED << ctlCam, first_timestamp >>
             ELSE /\ first_timestamp' =
                       IF first_timestamp = 0 THEN this_cam_timestamp ELSE first_timestamp
                  /\ IF ctlCam < NumCameras
                     THEN ctlCam' = ctlCam + 1 /\ UNCHANGED ctlPC
                     ELSE ctlPC' = "create" /\ UNCHANGED ctlCam
  /\ UNCHANGED << metadata, processing_frameset, current_processed_frameset,
                  current_pcl_pointcloud, pcVars >>

-----------------------------------------------------------------------------
(* The cloud is created, and every camera saves its images in it.          *)
CreatePC ==
  /\ ctlStep("create", "save")
  /\ newPC' = PointCloud(first_timestamp, current_captured_frameset, metadata)
  /\ ctlCam' = 1
  /\ UNCHANGED << clock, metadata, first_timestamp, camVars, mergedPC, held >>

Items(c, f, wanted) == {[name |-> n, camera |-> c, frame |-> f] : n \in wanted}

(* Mutant: the images of the frameset that was processed last are saved.   *)
save_frameset_metadata_Processed(c) ==
  LET current_frameset == current_processed_frameset[c]
  IN IF is_complete(current_frameset) /\ has_formats(current_frameset)
     THEN Items(c, current_frameset, metadata) ELSE {}

(* Nothing is saved of a frameset that lacks an image, whichever it lacks, *)
(* or has one in another format.                                           *)
save_frameset_metadata(c) ==
  LET current_frameset == current_captured_frameset[c]
  IN IF is_complete(current_frameset) /\ has_formats(current_frameset)
     THEN Items(c, current_frameset, metadata) ELSE {}

(* The loops over the cameras: saving, then submitting to the processing   *)
(* threads.  An image for which malloc() has no memory is left out.        *)
SaveMetadata ==
  /\ ctlPC = "save"
  /\ \E saved \in SUBSET save_frameset_metadata(ctlCam) :
       newPC' = [newPC EXCEPT
                   !.metadata = @ \cup saved,
                   !.unsaved = IF saved = save_frameset_metadata(ctlCam) THEN @
                               ELSE @ \cup {ctlCam}]
  /\ IF ctlCam < NumCameras
     THEN ctlCam' = ctlCam + 1 /\ UNCHANGED ctlPC
     ELSE ctlCam' = 1 /\ ctlPC' = "submit"
  /\ UNCHANGED << clock, metadata, first_timestamp, camVars, mergedPC, held >>

(* Mutant: the loop over the cameras runs one too far.                     *)
SubmitFrameset_OneTooFar ==
  /\ ctlPC = "submit"
  /\ processing_frameset' =
       [processing_frameset EXCEPT ![ctlCam] = current_captured_frameset[ctlCam]]
  /\ current_captured_frameset' = [current_captured_frameset EXCEPT ![ctlCam] = NoFrameset]
  /\ IF ctlCam <= NumCameras
     THEN ctlCam' = ctlCam + 1 /\ UNCHANGED ctlPC
     ELSE ctlPC' = "await" /\ UNCHANGED ctlCam
  /\ UNCHANGED << clock, metadata, first_timestamp, current_processed_frameset,
                  current_pcl_pointcloud, pcVars >>

SubmitFrameset ==
  /\ ctlPC = "submit"
  /\ processing_frameset' =
       [processing_frameset EXCEPT ![ctlCam] = current_captured_frameset[ctlCam]]
  /\ current_captured_frameset' = [current_captured_frameset EXCEPT ![ctlCam] = NoFrameset]
  /\ IF ctlCam < NumCameras
     THEN ctlCam' = ctlCam + 1 /\ UNCHANGED ctlPC
     ELSE ctlPC' = "await" /\ UNCHANGED ctlCam
  /\ UNCHANGED << clock, metadata, first_timestamp, current_processed_frameset,
                  current_pcl_pointcloud, pcVars >>

-----------------------------------------------------------------------------
(* Mutant: the camera's number instead of its index.                       *)
tile_mask_ByNumber(c) == 2 ^ c % 256

(* pt.a = (uint8_t)(1 << camera_index)                                     *)
tile_mask(c) == 2 ^ camera_index(c) % 256

(* What the points of a frameset can be.  Those of a camera are all one    *)
(* here; the filters may leave none.                                       *)
_generate_point_cloud(c, f) == SUBSET {[tile |-> tile_mask(c), frame |-> f]}

(* A camera's processing thread.  A frameset that lacks an image yields an *)
(* empty cloud and does not become the processed frameset.                 *)
Process(c) ==
  LET f == processing_frameset[c]
  IN /\ f # NoFrameset
     /\ processing_frameset' = [processing_frameset EXCEPT ![c] = NoFrameset]
     /\ IF is_complete(f)
        THEN /\ current_processed_frameset' = [current_processed_frameset EXCEPT ![c] = f]
             /\ \E new_pointcloud \in _generate_point_cloud(c, f) :
                  current_pcl_pointcloud' =
                    [current_pcl_pointcloud EXCEPT ![c] = new_pointcloud]
        ELSE /\ current_pcl_pointcloud' = [current_pcl_pointcloud EXCEPT ![c] = {}]
             /\ UNCHANGED current_processed_frameset
     /\ UNCHANGED << clock, metadata, ctlVars, current_captured_frameset, pcVars >>

(* All cameras are done: their points are merged, the cloud is finished.   *)
Merge ==
  /\ ctlStep("await", "want")
  /\ processing_frameset = Forall(NoFrameset)
  /\ mergedPC' = [newPC EXCEPT !.points = UNION {current_pcl_pointcloud[c] : c \in Cameras}]
  /\ newPC' = NoPC
  /\ UNCHANGED << clock, metadata, ctlCam, first_timestamp, camVars, held >>

-----------------------------------------------------------------------------
(* The application.  What was asked for once stays asked for.              *)
request_metadata(name) ==
  /\ metadata' = metadata \cup {name}
  /\ UNCHANGED << clock, ctlVars, camVars, pcVars >>

get_pointcloud ==
  /\ mergedPC # NoPC
  /\ held' = mergedPC
  /\ mergedPC' = NoPC
  /\ UNCHANGED << clock, metadata, ctlVars, camVars, newPC >>

(* The camera to which the capturer's map2d3d() turns for a tile, if any,  *)
(* and the frameset that camera then uses.                                 *)
map2d3d_cameras(tile) == {c \in Cameras : tile = 2 ^ camera_index(c)}
map2d3d_frameset(c) == current_processed_frameset[c]

CycleNext ==
  \/ BeginCycle \/ DropFrameset \/ CaptureFails \/ CaptureFrameset
  \/ CreatePC \/ SaveMetadata \/ SubmitFrameset
  \/ \E c \in Cameras : Process(c)
  \/ Merge
  \/ \E name \in {"rgb", "depth"} : request_metadata(name)
  \/ get_pointcloud

CycleSpec == CycleInit /\ [][CycleNext]_vars

-----------------------------------------------------------------------------
FramesetsOrNone == Framesets \cup {NoFrameset}
Points == [tile : {tile_mask(c) : c \in Cameras}, frame : Framesets]

PointClouds ==
  [timestamp : 0 .. MaxTime + 1,
   frames : [Cameras -> FramesetsOrNone],
   wanted : SUBSET {"rgb", "depth"},
   unsaved : SUBSET Cameras,
   metadata : SUBSET [name : {"rgb", "depth"}, camera : Cameras, frame : Framesets],
   points : SUBSET Points]

(* The types of the fields.                                                *)
CycleTypeOK ==
  /\ clock \in [Cameras -> 0 .. MaxTime + 1]
  /\ metadata \subseteq {"rgb", "depth"}
  /\ ctlPC \in {"want", "capture", "create", "save", "submit", "await"}
  /\ ctlCam \in Cameras
  /\ first_timestamp \in 0 .. MaxTime + 1
  /\ current_captured_frameset \in [Cameras -> FramesetsOrNone]
  /\ processing_frameset \in [Cameras -> FramesetsOrNone]
  /\ current_processed_frameset \in [Cameras -> FramesetsOrNone]
  /\ current_pcl_pointcloud \in [Cameras -> SUBSET Points]
  /\ {newPC, mergedPC, held} \subseteq PointClouds

(* "We start getting any frame from the first camera, then for subsequent  *)
(* cameras we ensure we don't get a frame with a timestamp that is         *)
(* earlier" (_capture_all_cameras()): so it is of the depth images of a    *)
(* cloud, if the first camera's frameset has one, also when cycles are     *)
(* begun and abandoned before it.  The cloud's timestamp is then that of   *)
(* the first camera's depth image.                                         *)
FramesAreAligned ==
  \A pc \in {newPC, mergedPC, held} :
    (pc # NoPC /\ has_depth(pc.frames[1])) =>
      /\ pc.timestamp = pc.frames[1].ts
      /\ \A c \in Cameras :
           has_depth(pc.frames[c]) => pc.frames[c].ts >= pc.timestamp

(* A finished cloud's metadata and its points come from the same framesets, *)
(* those of its own cycle.  Of every camera that has points in it, what had *)
(* been asked for before the cloud was created is there, unless the images *)
(* are in another format or did not fit in memory.                         *)
MetadataMatchesPoints ==
  \A pc \in {mergedPC, held} :
    /\ \A item \in pc.metadata : item.frame = pc.frames[item.camera]
    /\ \A p \in pc.points :
         \E c \in Cameras :
           /\ p = [tile |-> tile_mask(c), frame |-> pc.frames[c]]
           /\ has_formats(p.frame) /\ c \notin pc.unsaved =>
                Items(c, p.frame, pc.wanted) \subseteq pc.metadata

(* For a point of the cloud the application holds, map2d3d() finds the     *)
(* camera that took it and no other, and that camera has a frameset with a *)
(* depth image that is not older than the point, though it may be that of  *)
(* the cycle under way.                                                    *)
Map2d3dFitsHeldCloud ==
  \A p \in held.points :
    \E c \in Cameras :
      /\ map2d3d_cameras(p.tile) = {c}
      /\ held.frames[c] = p.frame
      /\ has_depth(map2d3d_frameset(c))
      /\ map2d3d_frameset(c).ts >= p.frame.ts
=============================================================================
