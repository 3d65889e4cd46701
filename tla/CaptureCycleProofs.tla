------------------------- MODULE CaptureCycleProofs -------------------------
(***************************************************************************)
(* Theorems about CaptureCycle.tla, for any number of cameras, any sets of *)
(* images and any bound on the timestamps.                                 *)
(***************************************************************************)
EXTENDS CaptureCycle, TLAPS

-----------------------------------------------------------------------------
(* Type correctness.                                                       *)

LEMMA NoPCIsPointCloud == NoPC \in PointClouds
  BY CycleAssumption DEF PointClouds, Cameras, NoPC, PointCloud, Forall, FramesetsOrNone

(* A camera's filters leave points of the frameset, with the camera's tile. *)
LEMMA GeneratedPoints ==
  ASSUME NEW c \in Cameras, NEW f \in Framesets,
         NEW cld \in _generate_point_cloud(c, f)
  PROVE  cld \in SUBSET Points
  BY DEF _generate_point_cloud, Points

LEMMA ItemsType ==
  ASSUME NEW c \in Cameras, NEW f \in Framesets, NEW wanted \in SUBSET {"rgb", "depth"}
  PROVE  Items(c, f, wanted) \subseteq
           [name : {"rgb", "depth"}, camera : Cameras, frame : Framesets]
<1>1. SUFFICES ASSUME NEW item \in Items(c, f, wanted)
               PROVE  item \in [name : {"rgb", "depth"}, camera : Cameras, frame : Framesets]
  OBVIOUS
<1>2. PICK n \in wanted : item = [name |-> n, camera |-> c, frame |-> f]
  BY DEF Items
<1> QED BY <1>2

(* A frameset that is not null is one the devices deliver.                 *)
LEMMA CompleteIsFrameset ==
  ASSUME NEW f \in FramesetsOrNone
  PROVE  /\ f # NoFrameset => f \in Framesets
         /\ is_complete(f) => f \in Framesets
         /\ has_depth(f) => f \in Framesets
         /\ f.ts \in 0 .. MaxTime
  BY CycleAssumption DEF FramesetsOrNone, NoFrameset, Framesets, is_complete, has_depth

LEMMA InitType == CycleInit => CycleTypeOK
  BY NoPCIsPointCloud, CycleAssumption
  DEF CycleInit, CycleTypeOK, Forall, FramesetsOrNone, Cameras

LEMMA CaptureType ==
  ASSUME CycleTypeOK,
         BeginCycle \/ DropFrameset \/ CaptureFails \/ CaptureFrameset
  PROVE  CycleTypeOK'
<1>1. CASE BeginCycle
  BY <1>1, CycleAssumption DEF CycleTypeOK, BeginCycle, ctlStep, camVars, pcVars, Cameras
<1>2. ASSUME NEW f \in Framesets, Delivers(ctlCam, f)
      PROVE  /\ clock' \in [Cameras -> 0 .. MaxTime + 1]
             /\ current_captured_frameset' \in [Cameras -> FramesetsOrNone]
  BY <1>2, CycleAssumption DEF CycleTypeOK, Delivers, Framesets, FramesetsOrNone
<1>3. CASE DropFrameset
  BY <1>2, <1>3 DEF CycleTypeOK, DropFrameset, ctlStep, pcVars
<1>4. CASE CaptureFails
  BY <1>4 DEF CycleTypeOK, CaptureFails, ctlStep, pcVars, FramesetsOrNone
<1>5. CASE CaptureFrameset
  <2>1. PICK f \in Framesets :
          /\ Delivers(ctlCam, f)
          /\ first_timestamp' \in {first_timestamp, resultant_timestamp(f)}
          /\ ctlCam' = ctlCam \/ (ctlCam < NumCameras /\ ctlCam' = ctlCam + 1)
          /\ ctlPC' \in {"want", "capture", "create"}
    BY <1>5 DEF CaptureFrameset
  <2>2. resultant_timestamp(f) \in 0 .. MaxTime + 1
    BY CycleAssumption DEF resultant_timestamp, Framesets
  <2>3. ctlCam' \in Cameras
    BY <2>1, CycleAssumption DEF CycleTypeOK, Cameras
  <2> QED
    BY <1>2, <1>5, <2>1, <2>2, <2>3 DEF CycleTypeOK, CaptureFrameset, pcVars
<1> QED BY <1>1, <1>3, <1>4, <1>5

LEMMA MakeType ==
  ASSUME CycleTypeOK,
         CreatePC \/ SaveMetadata \/ SubmitFrameset \/ Merge
  PROVE  CycleTypeOK'
<1>1. CASE CreatePC
  <2>1. newPC' \in PointClouds
    BY <1>1 DEF CycleTypeOK, CreatePC, PointClouds, PointCloud
  <2> QED
    BY <1>1, <2>1, CycleAssumption
    DEF CycleTypeOK, CreatePC, ctlStep, camVars, Cameras
<1>2. CASE SaveMetadata
  <2>1. save_frameset_metadata(ctlCam) \subseteq
          [name : {"rgb", "depth"}, camera : Cameras, frame : Framesets]
    BY ItemsType, CompleteIsFrameset DEF save_frameset_metadata, CycleTypeOK
  <2>2. newPC' \in PointClouds
    <3>1. PICK saved \in SUBSET save_frameset_metadata(ctlCam) :
            newPC' = [newPC EXCEPT
                        !.metadata = newPC.metadata \cup saved,
                        !.unsaved = IF saved = save_frameset_metadata(ctlCam)
                                    THEN newPC.unsaved ELSE newPC.unsaved \cup {ctlCam}]
      BY <1>2 DEF SaveMetadata
    <3> QED BY <2>1, <3>1 DEF CycleTypeOK, PointClouds
  <2>3. ctlCam' \in Cameras /\ ctlPC' \in {"save", "submit"}
    <3>1. \/ ctlCam < NumCameras /\ ctlCam' = ctlCam + 1 /\ ctlPC' = "save"
          \/ ctlCam' = 1 /\ ctlPC' = "submit"
      BY <1>2 DEF SaveMetadata
    <3> QED BY <3>1, CycleAssumption DEF CycleTypeOK, Cameras
  <2> QED
    BY <1>2, <2>2, <2>3 DEF CycleTypeOK, SaveMetadata, camVars
<1>3. CASE SubmitFrameset
  <2>1. ctlCam' \in Cameras /\ ctlPC' \in {"submit", "await"}
    BY <1>3, CycleAssumption DEF CycleTypeOK, SubmitFrameset, Cameras
  <2> QED
    BY <1>3, <2>1 DEF CycleTypeOK, SubmitFrameset, pcVars, FramesetsOrNone
<1>4. CASE Merge
  <2>1. UNION {current_pcl_pointcloud[c] : c \in Cameras} \subseteq Points
    BY DEF CycleTypeOK
  <2>2. mergedPC' \in PointClouds /\ newPC' \in PointClouds
    BY <1>4, <2>1, NoPCIsPointCloud DEF CycleTypeOK, Merge, PointClouds
  <2> QED
    BY <1>4, <2>2 DEF CycleTypeOK, Merge, ctlStep, camVars
<1> QED BY <1>1, <1>2, <1>3, <1>4

LEMMA ProcessType ==
  ASSUME CycleTypeOK, NEW c \in Cameras, Process(c)
  PROVE  CycleTypeOK'
<1>1. processing_frameset[c] \in FramesetsOrNone
  BY DEF CycleTypeOK
<1>2. current_pcl_pointcloud' \in [Cameras -> SUBSET Points]
  BY <1>1, GeneratedPoints, CompleteIsFrameset DEF CycleTypeOK, Process
<1>3. current_processed_frameset' \in [Cameras -> FramesetsOrNone]
  BY <1>1 DEF CycleTypeOK, Process
<1>4. processing_frameset' \in [Cameras -> FramesetsOrNone]
  BY DEF CycleTypeOK, Process, FramesetsOrNone
<1> QED BY <1>2, <1>3, <1>4 DEF CycleTypeOK, Process, ctlVars, pcVars

LEMMA ApplicationType ==
  ASSUME CycleTypeOK,
         (\E name \in {"rgb", "depth"} : request_metadata(name)) \/ get_pointcloud
  PROVE  CycleTypeOK'
<1>1. CASE \E name \in {"rgb", "depth"} : request_metadata(name)
  BY <1>1 DEF CycleTypeOK, request_metadata, ctlVars, camVars, pcVars
<1>2. CASE get_pointcloud
  BY <1>2, NoPCIsPointCloud DEF CycleTypeOK, get_pointcloud, ctlVars, camVars
<1> QED BY <1>1, <1>2

LEMMA StepType == CycleTypeOK /\ [CycleNext]_vars => CycleTypeOK'
<1> SUFFICES ASSUME CycleTypeOK, [CycleNext]_vars
             PROVE  CycleTypeOK'
  OBVIOUS
<1>1. CASE UNCHANGED vars
  BY <1>1 DEF CycleTypeOK, vars, ctlVars, camVars, pcVars
<1>2. CASE CycleNext
  BY <1>2, CaptureType, MakeType, ProcessType, ApplicationType DEF CycleNext
<1> QED BY <1>1, <1>2

(* The fields, the threads and every cloud keep their types.               *)
THEOREM CycleTypeCorrect == CycleSpec => []CycleTypeOK
<1>1. CycleInit => CycleTypeOK
  BY InitType
<1>2. CycleTypeOK /\ [CycleNext]_vars => CycleTypeOK'
  BY StepType
<1> QED BY <1>1, <1>2, PTL DEF CycleSpec

-----------------------------------------------------------------------------
(* Alignment.  While the cameras take their turns, what the first ones     *)
(* captured is aligned already, and the minimum is set after the first.    *)
AlignedBefore(n) ==
  has_depth(current_captured_frameset[1]) =>
    /\ first_timestamp = current_captured_frameset[1].ts
    /\ \A c \in Cameras :
         (c < n /\ has_depth(current_captured_frameset[c])) =>
           current_captured_frameset[c].ts >= first_timestamp

Capturing ==
  /\ ctlPC = "capture" => IF ctlCam = 1 THEN first_timestamp = 0
                          ELSE first_timestamp # 0 /\ AlignedBefore(ctlCam)
  /\ ctlPC = "create" => AlignedBefore(NumCameras + 1)

Aligned(pc) ==
  has_depth(pc.frames[1]) =>
    /\ pc.timestamp = pc.frames[1].ts
    /\ \A c \in Cameras : has_depth(pc.frames[c]) => pc.frames[c].ts >= pc.timestamp

AlignInv == Capturing /\ Aligned(newPC) /\ Aligned(mergedPC) /\ Aligned(held)

LEMMA NoPCIsAligned == Aligned(NoPC)
  BY CycleAssumption
  DEF Aligned, NoPC, PointCloud, Forall, NoFrameset, has_depth, Cameras

(* The fields that a step leaves alone when it replaces another.           *)
LEMMA ReplacedFields ==
  ASSUME NEW pc \in PointClouds, NEW S, NEW T
  PROVE  /\ [pc EXCEPT !.metadata = S, !.unsaved = T].timestamp = pc.timestamp
         /\ [pc EXCEPT !.metadata = S, !.unsaved = T].frames = pc.frames
         /\ [pc EXCEPT !.metadata = S, !.unsaved = T].wanted = pc.wanted
         /\ [pc EXCEPT !.metadata = S, !.unsaved = T].unsaved = T
         /\ [pc EXCEPT !.metadata = S, !.unsaved = T].metadata = S
         /\ [pc EXCEPT !.points = S].timestamp = pc.timestamp
         /\ [pc EXCEPT !.points = S].frames = pc.frames
         /\ [pc EXCEPT !.points = S].wanted = pc.wanted
         /\ [pc EXCEPT !.points = S].unsaved = pc.unsaved
         /\ [pc EXCEPT !.points = S].metadata = pc.metadata
         /\ [pc EXCEPT !.points = S].points = S
  BY DEF PointClouds

(* A camera's images are saved: all of them, or it is among the unsaved.   *)
LEMMA SavedImages ==
  ASSUME CycleTypeOK, SaveMetadata
  PROVE  /\ newPC'.timestamp = newPC.timestamp
         /\ newPC'.frames = newPC.frames
         /\ newPC'.wanted = newPC.wanted
         /\ newPC.unsaved \subseteq newPC'.unsaved
         /\ newPC.metadata \subseteq newPC'.metadata
         /\ newPC'.metadata \subseteq newPC.metadata \cup save_frameset_metadata(ctlCam)
         /\ \/ save_frameset_metadata(ctlCam) \subseteq newPC'.metadata
            \/ ctlCam \in newPC'.unsaved
<1>1. PICK saved \in SUBSET save_frameset_metadata(ctlCam) :
        newPC' = [newPC EXCEPT
                    !.metadata = newPC.metadata \cup saved,
                    !.unsaved = IF saved = save_frameset_metadata(ctlCam)
                                THEN newPC.unsaved ELSE newPC.unsaved \cup {ctlCam}]
  BY DEF SaveMetadata
<1>2. newPC \in PointClouds
  BY DEF CycleTypeOK
<1> QED BY <1>1, <1>2, ReplacedFields

(* A camera's turn ends: its frameset is late enough, and the first one    *)
(* with a depth image sets the minimum.                                    *)
LEMMA TurnKeepsAlignment ==
  ASSUME CycleTypeOK, Capturing, CaptureFrameset
  PROVE  Capturing'
<1>1. PICK f \in Framesets :
        /\ ctlPC = "capture"
        /\ may_return(f, first_timestamp)
        /\ Delivers(ctlCam, f)
        /\ IF resultant_timestamp(f) = 0
           THEN ctlPC' = "want" /\ UNCHANGED << ctlCam, first_timestamp >>
           ELSE /\ first_timestamp' = IF first_timestamp = 0
                                      THEN resultant_timestamp(f) ELSE first_timestamp
                /\ IF ctlCam < NumCameras
                   THEN ctlCam' = ctlCam + 1 /\ UNCHANGED ctlPC
                   ELSE ctlPC' = "create" /\ UNCHANGED ctlCam
  BY DEF CaptureFrameset
<1>2. ctlCam \in Cameras /\ NumCameras \in Nat /\ 1 \in Cameras
      /\ first_timestamp \in Nat /\ f.ts \in Nat
  BY CycleAssumption DEF CycleTypeOK, Cameras, Framesets
<1>3. CASE resultant_timestamp(f) = 0
  BY <1>1, <1>3 DEF Capturing
<1>4. CASE resultant_timestamp(f) # 0
  <2>1. /\ current_captured_frameset'[ctlCam] = f
        /\ \A c \in Cameras : c # ctlCam =>
             current_captured_frameset'[c] = current_captured_frameset[c]
    BY <1>1, <1>2 DEF Delivers, CycleTypeOK
  <2>2. first_timestamp' # 0
    BY <1>1, <1>4
  <2>3. ASSUME NEW n \in Nat, n = ctlCam + 1
        PROVE  AlignedBefore(n)'
    <3>1. CASE ctlCam = 1
      <4>1. has_depth(f) => first_timestamp' = f.ts
        BY <1>1, <1>4, <3>1 DEF Capturing, resultant_timestamp
      <4>2. \A c \in Cameras : c < n => c = 1
        BY <1>2, <2>3, <3>1 DEF Cameras
      <4> QED BY <1>2, <2>1, <3>1, <4>1, <4>2 DEF AlignedBefore
    <3>2. CASE ctlCam # 1
      <4>1. first_timestamp' = first_timestamp /\ AlignedBefore(ctlCam)
        BY <1>1, <1>4, <3>2 DEF Capturing
      <4>2. has_depth(f) => f.ts >= first_timestamp
        BY <1>1 DEF may_return
      <4>3. \A c \in Cameras : c < n => c < ctlCam \/ c = ctlCam
        BY <1>2, <2>3 DEF Cameras
      <4> QED BY <1>1, <1>2, <2>1, <3>2, <4>1, <4>2, <4>3 DEF AlignedBefore
    <3> QED BY <3>1, <3>2
  <2>4. CASE ctlCam < NumCameras
    <3>1. ctlCam' = ctlCam + 1 /\ ctlCam' \in Nat /\ ctlCam' # 1 /\ ctlPC' = "capture"
      BY <1>1, <1>2, <1>4, <2>4 DEF Cameras
    <3>2. AlignedBefore(ctlCam)'
      BY <2>3, <3>1 DEF AlignedBefore
    <3> QED BY <2>2, <3>1, <3>2 DEF Capturing
  <2>5. CASE ~(ctlCam < NumCameras)
    <3>1. ctlCam = NumCameras /\ ctlPC' = "create" /\ ctlCam' = ctlCam
      BY <1>1, <1>2, <1>4, <2>5 DEF Cameras
    <3> QED BY <1>2, <2>3, <3>1 DEF Capturing, AlignedBefore
  <2> QED BY <2>4, <2>5
<1> QED BY <1>3, <1>4

LEMMA AlignStep == CycleTypeOK /\ AlignInv /\ [CycleNext]_vars => AlignInv'
<1> SUFFICES ASSUME CycleTypeOK, AlignInv, [CycleNext]_vars
             PROVE  AlignInv'
  OBVIOUS
<1> USE DEF AlignInv
<1>1. CASE UNCHANGED vars
  BY <1>1 DEF vars, ctlVars, camVars, pcVars, Capturing, AlignedBefore, Aligned
<1>2. CASE BeginCycle
  BY <1>2 DEF BeginCycle, ctlStep, camVars, pcVars, Capturing, Aligned
<1>3. CASE DropFrameset
  <2>1. PICK f \in Framesets : Delivers(ctlCam, f)
    BY <1>3 DEF DropFrameset
  <2>2. /\ ctlCam \in Cameras /\ 1 \in Cameras
        /\ \A c \in Cameras : c # ctlCam =>
             current_captured_frameset'[c] = current_captured_frameset[c]
        /\ \A c \in Cameras : c < ctlCam => c # ctlCam
    BY <2>1, CycleAssumption DEF Delivers, CycleTypeOK, Cameras
  <2>3. Capturing'
    BY <1>3, <2>2 DEF DropFrameset, ctlStep, Capturing, AlignedBefore
  <2> QED BY <1>3, <2>3 DEF DropFrameset, pcVars, Aligned
<1>4. CASE CaptureFails
  BY <1>4 DEF CaptureFails, ctlStep, pcVars, Capturing, Aligned
<1>5. CASE CaptureFrameset
  BY <1>5, TurnKeepsAlignment DEF CaptureFrameset, pcVars, Aligned
<1>6. CASE CreatePC
  <2>1. Aligned(newPC')
    BY <1>6, CycleAssumption
    DEF CreatePC, ctlStep, PointCloud, Aligned, Capturing, AlignedBefore, Cameras
  <2> QED BY <1>6, <2>1 DEF CreatePC, ctlStep, Capturing, Aligned
<1>7. CASE SaveMetadata
  <2> QED BY <1>7, SavedImages DEF SaveMetadata, Capturing, Aligned
<1>8. CASE SubmitFrameset
  BY <1>8 DEF SubmitFrameset, pcVars, Capturing, Aligned
<1>9. CASE \E c \in Cameras : Process(c)
  BY <1>9 DEF Process, ctlVars, pcVars, Capturing, AlignedBefore, Aligned
<1>10. CASE Merge
  <2>1. mergedPC'.frames = newPC.frames /\ mergedPC'.timestamp = newPC.timestamp
    BY <1>10, ReplacedFields DEF Merge, CycleTypeOK
  <2> QED BY <1>10, <2>1, NoPCIsAligned DEF Merge, ctlStep, Capturing, Aligned
<1>11. CASE \E name \in {"rgb", "depth"} : request_metadata(name)
  BY <1>11 DEF request_metadata, ctlVars, camVars, pcVars, Capturing, AlignedBefore, Aligned
<1>12. CASE get_pointcloud
  BY <1>12, NoPCIsAligned
  DEF get_pointcloud, ctlVars, camVars, Capturing, AlignedBefore, Aligned
<1> QED BY <1>1, <1>2, <1>3, <1>4, <1>5, <1>6, <1>7, <1>8, <1>9, <1>10, <1>11, <1>12
        DEF CycleNext

(* The depth images of every cloud are of the moment of the first camera's *)
(* or later, whatever was dropped and abandoned before.                    *)
THEOREM FramesAlwaysAligned == CycleSpec => []FramesAreAligned
<1>1. CycleInit => AlignInv
  BY NoPCIsAligned DEF CycleInit, AlignInv, Capturing
<1>2. AlignInv => FramesAreAligned
  BY DEF AlignInv, Aligned, FramesAreAligned
<1> QED BY <1>1, <1>2, AlignStep, CycleTypeCorrect, PTL DEF CycleSpec

-----------------------------------------------------------------------------
(* Metadata and points.  From a camera's turn until it submits, its field  *)
(* holds the frameset of this cycle ...                                    *)
Captured(c) ==
  \/ ctlPC = "capture" /\ c < ctlCam
  \/ ctlPC \in {"create", "save"}
  \/ ctlPC = "submit" /\ c >= ctlCam

HoldsFrameset(c) ==
  Captured(c) =>
    /\ current_captured_frameset[c] # NoFrameset
    /\ ctlPC \in {"save", "submit"} => newPC.frames[c] = current_captured_frameset[c]

(* ... the loop over the cameras saves its images, if it is complete, in   *)
(* the right formats and there is memory for them ...                      *)
ImagesSaved(pc, c) ==
  (is_complete(pc.frames[c]) /\ has_formats(pc.frames[c]) /\ c \notin pc.unsaved) =>
    Items(c, pc.frames[c], pc.wanted) \subseteq pc.metadata

Saved(c) == ctlPC \in {"submit", "await"} \/ (ctlPC = "save" /\ c < ctlCam)

(* ... and after that its thread has the frameset or has made the points.  *)
Submitted(c) == ctlPC = "await" \/ (ctlPC = "submit" /\ c < ctlCam)

OwnPoint(pc, c, p) ==
  p = [tile |-> tile_mask(c), frame |-> pc.frames[c]] /\ is_complete(pc.frames[c])

Processes(c) ==
  IF Submitted(c)
  THEN IF processing_frameset[c] = NoFrameset
       THEN \A p \in current_pcl_pointcloud[c] : OwnPoint(newPC, c, p)
       ELSE processing_frameset[c] = newPC.frames[c]
  ELSE processing_frameset[c] = NoFrameset

OwnItems(pc) == \A item \in pc.metadata : item.frame = pc.frames[item.camera]
OwnPoints(pc) ==
  \A p \in pc.points : \E c \in Cameras : OwnPoint(pc, c, p) /\ ImagesSaved(pc, c)

CloudInv ==
  /\ newPC.wanted \subseteq metadata
  /\ \A c \in Cameras : /\ HoldsFrameset(c) /\ Processes(c)
                        /\ Saved(c) => ImagesSaved(newPC, c)
  /\ OwnItems(newPC) /\ OwnItems(mergedPC) /\ OwnItems(held)
  /\ OwnPoints(mergedPC) /\ OwnPoints(held)

LEMMA NoPCMatches == OwnItems(NoPC) /\ OwnPoints(NoPC)
  BY DEF OwnItems, OwnPoints, NoPC, PointCloud

LEMMA SomeFrameset == NoFrameset \notin Framesets
<1>1. SUFFICES ASSUME NoFrameset \in Framesets
               PROVE  FALSE
  OBVIOUS
<1>2. NoFrameset.images \in SUBSET {"depth", "color", "other"}
  BY <1>1, CycleAssumption DEF Framesets
<1>3. "null" \in NoFrameset.images
  BY DEF NoFrameset
<1> QED BY <1>2, <1>3

LEMMA CapturePreserves ==
  ASSUME CycleTypeOK, CloudInv,
         BeginCycle \/ DropFrameset \/ CaptureFails \/ CaptureFrameset
  PROVE  CloudInv'
<1>1. pcVars' = pcVars /\ metadata' = metadata
      /\ UNCHANGED << processing_frameset, current_pcl_pointcloud >>
  BY DEF BeginCycle, DropFrameset, CaptureFails, CaptureFrameset, camVars
<1>2. /\ ctlPC \in {"want", "capture"} /\ ctlPC' \in {"want", "capture", "create"}
  BY DEF BeginCycle, DropFrameset, CaptureFails, CaptureFrameset, ctlStep
<1>3. ASSUME NEW c \in Cameras
      PROVE  Processes(c)' /\ (Saved(c)' => ImagesSaved(newPC', c))
  BY <1>1, <1>2 DEF CloudInv, Processes, Submitted, Saved, pcVars
<1>4. ASSUME NEW c \in Cameras, Captured(c)'
      PROVE  current_captured_frameset'[c] # NoFrameset
  <2>1. ctlCam \in Cameras /\ c \in Nat /\ NumCameras \in Nat
    BY CycleAssumption DEF CycleTypeOK, Cameras
  <2>2. CASE BeginCycle
    BY <1>4, <2>1, <2>2 DEF BeginCycle, ctlStep, Captured, Cameras
  <2>3. CASE CaptureFails
    BY <1>4, <2>3 DEF CaptureFails, ctlStep, Captured
  <2>4. CASE DropFrameset \/ CaptureFrameset
    <3>1. PICK f \in Framesets : Delivers(ctlCam, f)
      BY <2>4 DEF DropFrameset, CaptureFrameset
    <3>2. CASE c = ctlCam
      BY <2>1, <3>1, <3>2, SomeFrameset DEF Delivers, CycleTypeOK
    <3>3. CASE c # ctlCam
      <4>1. ctlPC = "capture" /\ (ctlCam' = ctlCam \/ ctlCam' = ctlCam + 1)
            /\ (ctlPC' = "create" => ctlCam = NumCameras)
        BY <2>1, <2>4 DEF DropFrameset, CaptureFrameset, ctlStep, Cameras
      <4>2. c < ctlCam
        BY <1>2, <1>4, <2>1, <3>3, <4>1 DEF Captured, Cameras
      <4>3. current_captured_frameset[c] # NoFrameset
        BY <4>1, <4>2 DEF CloudInv, HoldsFrameset, Captured
      <4> QED BY <3>1, <3>3, <4>3 DEF Delivers, CycleTypeOK
    <3> QED BY <3>2, <3>3
  <2> QED BY <2>2, <2>3, <2>4
<1>5. ASSUME NEW c \in Cameras
      PROVE  HoldsFrameset(c)'
  BY <1>2, <1>4 DEF HoldsFrameset
<1> QED BY <1>1, <1>3, <1>5 DEF CloudInv, pcVars, OwnItems, OwnPoints, OwnPoint, ImagesSaved

LEMMA CreatePreserves ==
  ASSUME CycleTypeOK, CloudInv, CreatePC
  PROVE  CloudInv'
<1>1. /\ newPC' = PointCloud(first_timestamp, current_captured_frameset, metadata)
      /\ ctlPC = "create" /\ ctlPC' = "save" /\ ctlCam' = 1
      /\ UNCHANGED << metadata, camVars, mergedPC, held >>
  BY DEF CreatePC, ctlStep
<1>2. /\ newPC'.frames = current_captured_frameset
      /\ newPC'.wanted = metadata /\ newPC'.metadata = {}
  BY <1>1 DEF PointCloud
<1>3. OwnItems(newPC')
  BY <1>2 DEF OwnItems
<1>4. ASSUME NEW c \in Cameras
      PROVE  /\ HoldsFrameset(c)' /\ Processes(c)'
             /\ Saved(c)' => ImagesSaved(newPC', c)
  <2>1. ~(c < 1)
    BY CycleAssumption DEF Cameras
  <2> QED BY <1>1, <1>2, <2>1
          DEF camVars, CloudInv, HoldsFrameset, Captured, Processes, Submitted, Saved
<1> QED BY <1>1, <1>2, <1>3, <1>4
        DEF CloudInv, OwnItems, OwnPoints, OwnPoint, ImagesSaved

LEMMA SavePreserves ==
  ASSUME CycleTypeOK, CloudInv, SaveMetadata
  PROVE  CloudInv'
<1>1. /\ newPC'.frames = newPC.frames /\ newPC'.wanted = newPC.wanted
      /\ newPC.unsaved \subseteq newPC'.unsaved
      /\ newPC.metadata \subseteq newPC'.metadata
      /\ newPC'.metadata \subseteq newPC.metadata \cup save_frameset_metadata(ctlCam)
      /\ \/ save_frameset_metadata(ctlCam) \subseteq newPC'.metadata
         \/ ctlCam \in newPC'.unsaved
  BY SavedImages
<1>2. /\ ctlPC = "save" /\ ctlCam \in Cameras /\ NumCameras \in Nat
      /\ \/ ctlCam < NumCameras /\ ctlCam' = ctlCam + 1 /\ ctlPC' = "save"
         \/ ctlCam = NumCameras /\ ctlCam' = 1 /\ ctlPC' = "submit"
      /\ UNCHANGED << metadata, camVars, mergedPC, held >>
  BY CycleAssumption DEF SaveMetadata, CycleTypeOK, Cameras
<1>3. newPC.frames[ctlCam] = current_captured_frameset[ctlCam]
  BY <1>2 DEF CloudInv, HoldsFrameset, Captured
<1>4. OwnItems(newPC')
  <2>1. \A item \in save_frameset_metadata(ctlCam) :
          item.frame = newPC.frames[item.camera]
    BY <1>3 DEF save_frameset_metadata, Items
  <2> QED BY <1>1, <2>1 DEF CloudInv, OwnItems
<1>5. ASSUME NEW c \in Cameras
      PROVE  HoldsFrameset(c)' /\ Processes(c)'
  <2>1. ~(c < 1) /\ c >= 1
    BY CycleAssumption DEF Cameras
  <2> QED BY <1>1, <1>2, <2>1
          DEF camVars, CloudInv, HoldsFrameset, Captured, Processes, Submitted
<1>6. ASSUME NEW c \in Cameras, Saved(c)'
      PROVE  ImagesSaved(newPC', c)
  <2>1. Saved(c) \/ c = ctlCam
    BY <1>2, <1>6 DEF Saved, Cameras
  <2>2. CASE Saved(c)
    BY <1>1, <2>2 DEF CloudInv, ImagesSaved
  <2>3. CASE c = ctlCam
    BY <1>1, <1>2, <1>3, <2>3 DEF CloudInv, ImagesSaved, save_frameset_metadata, Items
  <2> QED BY <2>1, <2>2, <2>3
<1> QED BY <1>1, <1>2, <1>4, <1>5, <1>6
        DEF CloudInv, OwnItems, OwnPoints, OwnPoint, ImagesSaved

LEMMA SubmitPreserves ==
  ASSUME CycleTypeOK, CloudInv, SubmitFrameset
  PROVE  CloudInv'
<1>1. /\ ctlPC = "submit" /\ ctlCam \in Cameras /\ NumCameras \in Nat
      /\ \/ ctlCam < NumCameras /\ ctlCam' = ctlCam + 1 /\ ctlPC' = "submit"
         \/ ctlCam = NumCameras /\ ctlCam' = ctlCam /\ ctlPC' = "await"
      /\ UNCHANGED << metadata, current_pcl_pointcloud, pcVars >>
  BY CycleAssumption DEF SubmitFrameset, CycleTypeOK, Cameras
<1>2. /\ processing_frameset'[ctlCam] = newPC.frames[ctlCam]
      /\ newPC.frames[ctlCam] # NoFrameset
  <2>1. Captured(ctlCam)
    BY <1>1 DEF Captured, Cameras
  <2> QED BY <1>1, <2>1 DEF SubmitFrameset, CycleTypeOK, CloudInv, HoldsFrameset
<1>3. ASSUME NEW c \in Cameras, c # ctlCam
      PROVE  /\ processing_frameset'[c] = processing_frameset[c]
             /\ current_captured_frameset'[c] = current_captured_frameset[c]
  BY <1>3 DEF SubmitFrameset, CycleTypeOK
<1>4. ASSUME NEW c \in Cameras
      PROVE  Processes(c)' /\ HoldsFrameset(c)' /\ (Saved(c)' => ImagesSaved(newPC', c))
  <2>1. CASE c = ctlCam
    <3>1. Submitted(c)' /\ ~Captured(c)'
      BY <1>1, <2>1 DEF Submitted, Captured, Cameras
    <3> QED BY <1>1, <1>2, <2>1, <3>1
            DEF Processes, HoldsFrameset, pcVars, CloudInv, Saved
  <2>2. CASE c # ctlCam
    <3>1. (Submitted(c)' <=> Submitted(c)) /\ (Captured(c)' => Captured(c))
      BY <1>1, <2>2 DEF Submitted, Captured, Cameras
    <3> QED BY <1>1, <1>3, <2>2, <3>1
            DEF Processes, HoldsFrameset, pcVars, CloudInv, Saved, OwnPoint
  <2> QED BY <2>1, <2>2
<1> QED BY <1>1, <1>4 DEF CloudInv, pcVars, OwnItems, OwnPoints, OwnPoint, ImagesSaved

LEMMA ProcessPreserves ==
  ASSUME CycleTypeOK, CloudInv, NEW c \in Cameras, Process(c)
  PROVE  CloudInv'
<1>1. /\ processing_frameset[c] # NoFrameset
      /\ processing_frameset' = [processing_frameset EXCEPT ![c] = NoFrameset]
      /\ UNCHANGED << metadata, ctlVars, current_captured_frameset, pcVars >>
  BY DEF Process
<1>2. Submitted(c) /\ processing_frameset[c] = newPC.frames[c]
  BY <1>1 DEF CloudInv, Processes
<1>3. \A p \in current_pcl_pointcloud'[c] : OwnPoint(newPC, c, p)
  BY <1>2 DEF Process, CycleTypeOK, OwnPoint, _generate_point_cloud
<1>4. ASSUME NEW d \in Cameras, d # c
      PROVE  /\ processing_frameset'[d] = processing_frameset[d]
             /\ current_pcl_pointcloud'[d] = current_pcl_pointcloud[d]
  BY <1>4 DEF Process, CycleTypeOK
<1>5. ASSUME NEW d \in Cameras
      PROVE  Processes(d)'
  <2>1. CASE d = c
    BY <1>1, <1>2, <1>3, <2>1
    DEF Processes, Submitted, ctlVars, pcVars, CycleTypeOK, OwnPoint
  <2>2. CASE d # c
    BY <1>1, <1>4, <2>2 DEF CloudInv, Processes, Submitted, ctlVars, pcVars, OwnPoint
  <2> QED BY <2>1, <2>2
<1>6. ASSUME NEW d \in Cameras
      PROVE  HoldsFrameset(d)' /\ (Saved(d)' => ImagesSaved(newPC', d))
  BY <1>1 DEF CloudInv, HoldsFrameset, Captured, Saved, ctlVars, pcVars
<1> QED BY <1>1, <1>5, <1>6
        DEF CloudInv, pcVars, OwnItems, OwnPoints, OwnPoint, ImagesSaved

LEMMA MergePreserves ==
  ASSUME CycleTypeOK, CloudInv, Merge
  PROVE  CloudInv'
<1>1. /\ ctlPC = "await" /\ ctlPC' = "want"
      /\ processing_frameset = Forall(NoFrameset)
      /\ newPC' = NoPC
      /\ UNCHANGED << metadata, camVars, held >>
  BY DEF Merge, ctlStep
<1>2. /\ mergedPC'.frames = newPC.frames /\ mergedPC'.wanted = newPC.wanted
      /\ mergedPC'.metadata = newPC.metadata /\ mergedPC'.unsaved = newPC.unsaved
      /\ mergedPC'.points = UNION {current_pcl_pointcloud[c] : c \in Cameras}
  BY ReplacedFields DEF Merge, CycleTypeOK
<1>3. ASSUME NEW c \in Cameras
      PROVE  /\ \A p \in current_pcl_pointcloud[c] : OwnPoint(newPC, c, p)
             /\ ImagesSaved(newPC, c)
  BY <1>1 DEF CloudInv, Processes, Submitted, Saved, Forall
<1>4. OwnPoints(mergedPC')
  <2>1. SUFFICES ASSUME NEW c \in Cameras, NEW p \in current_pcl_pointcloud[c]
                 PROVE  OwnPoint(mergedPC', c, p) /\ ImagesSaved(mergedPC', c)
    BY <1>2 DEF OwnPoints
  <2> QED BY <1>2, <1>3 DEF OwnPoint, ImagesSaved
<1>5. OwnItems(mergedPC')
  BY <1>2 DEF CloudInv, OwnItems
<1>6. NoPC.wanted = {}
  BY DEF NoPC, PointCloud
<1>7. ASSUME NEW c \in Cameras
      PROVE  HoldsFrameset(c)' /\ Processes(c)' /\ ~Saved(c)'
  BY <1>1 DEF camVars, HoldsFrameset, Captured, Processes, Submitted, Saved, Forall
<1> QED BY <1>1, <1>4, <1>5, <1>6, <1>7, NoPCMatches
        DEF CloudInv, OwnItems, OwnPoints, OwnPoint, ImagesSaved

LEMMA ApplicationPreserves ==
  ASSUME CycleTypeOK, CloudInv,
         (\E name \in {"rgb", "depth"} : request_metadata(name)) \/ get_pointcloud
  PROVE  CloudInv'
<1>1. /\ UNCHANGED << ctlVars, camVars, newPC >> /\ metadata \subseteq metadata'
      /\ held' \in {held, mergedPC} /\ mergedPC' \in {mergedPC, NoPC}
  BY DEF request_metadata, get_pointcloud, pcVars
<1>2. ASSUME NEW c \in Cameras
      PROVE  /\ HoldsFrameset(c)' /\ Processes(c)'
             /\ Saved(c)' => ImagesSaved(newPC', c)
  BY <1>1 DEF CloudInv, ctlVars, camVars, HoldsFrameset, Captured, Processes,
              Submitted, Saved
<1>3. /\ OwnItems(mergedPC') /\ OwnPoints(mergedPC')
      /\ OwnItems(held') /\ OwnPoints(held')
  BY <1>1, NoPCMatches DEF CloudInv
<1> QED BY <1>1, <1>2, <1>3
        DEF CloudInv, OwnItems, OwnPoints, OwnPoint, ImagesSaved

LEMMA CloudStep == CycleTypeOK /\ CloudInv /\ [CycleNext]_vars => CloudInv'
<1> SUFFICES ASSUME CycleTypeOK, CloudInv, [CycleNext]_vars
             PROVE  CloudInv'
  OBVIOUS
<1>1. CASE UNCHANGED vars
  BY <1>1 DEF vars, ctlVars, camVars, pcVars, CloudInv, HoldsFrameset, Captured,
              Processes, Submitted, Saved, OwnItems, OwnPoints, OwnPoint, ImagesSaved
<1>2. CASE CycleNext
  BY <1>2, CapturePreserves, CreatePreserves, SavePreserves, SubmitPreserves,
     ProcessPreserves, MergePreserves, ApplicationPreserves DEF CycleNext
<1> QED BY <1>1, <1>2

(* The metadata and the points of a finished cloud are of its own cycle,   *)
(* and a camera that has points in it without the images that were asked   *)
(* for had them in another format or no memory for them.                   *)
THEOREM MetadataAlwaysMatches == CycleSpec => []MetadataMatchesPoints
<1>1. CycleInit => CloudInv
  BY NoPCMatches
  DEF CycleInit, CloudInv, Forall, HoldsFrameset, Captured, Processes, Submitted,
      Saved, NoPC, PointCloud, OwnItems, OwnPoints
<1>2. CloudInv => MetadataMatchesPoints
  <2>1. SUFFICES ASSUME CloudInv, NEW pc \in {mergedPC, held}
                 PROVE  /\ OwnItems(pc)
                        /\ \A p \in pc.points :
                             \E c \in Cameras :
                               /\ p = [tile |-> tile_mask(c), frame |-> pc.frames[c]]
                               /\ has_formats(p.frame) /\ c \notin pc.unsaved =>
                                    Items(c, p.frame, pc.wanted) \subseteq pc.metadata
    BY DEF MetadataMatchesPoints, OwnItems
  <2>2. OwnItems(pc) /\ OwnPoints(pc)
    BY <2>1 DEF CloudInv
  <2> QED BY <2>2 DEF OwnPoints, OwnPoint, ImagesSaved
<1> QED BY <1>1, <1>2, CloudStep, CycleTypeCorrect, PTL DEF CycleSpec

-----------------------------------------------------------------------------
(* Asking about a point.  A camera's framesets get later and later on      *)
(* their way, and a processed one is never replaced by an earlier one ...  *)
LaterFramesets(c) ==
  /\ current_processed_frameset[c] = NoFrameset \/ is_complete(current_processed_frameset[c])
  /\ current_processed_frameset[c].ts <= clock[c]
  /\ current_captured_frameset[c].ts <= clock[c]
  /\ processing_frameset[c].ts <= clock[c]
  /\ Captured(c) => current_processed_frameset[c].ts <= current_captured_frameset[c].ts
  /\ processing_frameset[c] # NoFrameset =>
       current_processed_frameset[c].ts <= processing_frameset[c].ts

(* ... so the one that a camera made its points of is still there until    *)
(* they are merged, and it or a later one is there afterwards.             *)
PointsWaiting(c) ==
  (Submitted(c) /\ processing_frameset[c] = NoFrameset /\ current_pcl_pointcloud[c] # {}) =>
    current_processed_frameset[c] = newPC.frames[c]

MappedBy(pc, c) ==
  /\ is_complete(current_processed_frameset[c])
  /\ pc.frames[c].ts <= current_processed_frameset[c].ts

PointsMapped(pc) ==
  \A p \in pc.points : \E c \in Cameras : OwnPoint(pc, c, p) /\ MappedBy(pc, c)

MapInv ==
  /\ \A c \in Cameras : LaterFramesets(c) /\ PointsWaiting(c)
  /\ PointsMapped(mergedPC) /\ PointsMapped(held)

LEMMA MapOfUnchanged ==
  ASSUME CycleTypeOK, CloudInv, MapInv, UNCHANGED << pcVars, processing_frameset,
           current_processed_frameset, current_pcl_pointcloud >>,
         \A c \in Cameras : Submitted(c)' <=> Submitted(c),
         \A c \in Cameras : LaterFramesets(c)'
  PROVE  MapInv'
<1>1. ASSUME NEW c \in Cameras
      PROVE  PointsWaiting(c)'
  BY DEF MapInv, PointsWaiting, pcVars
<1> QED BY <1>1 DEF MapInv, PointsMapped, OwnPoint, MappedBy, pcVars

LEMMA CaptureKeepsMap ==
  ASSUME CycleTypeOK, CloudInv, MapInv,
         BeginCycle \/ DropFrameset \/ CaptureFails \/ CaptureFrameset
  PROVE  MapInv'
<1>1. /\ UNCHANGED << pcVars, processing_frameset, current_processed_frameset,
                      current_pcl_pointcloud >>
      /\ ctlPC \in {"want", "capture"} /\ ctlPC' \in {"want", "capture", "create"}
  BY DEF BeginCycle, DropFrameset, CaptureFails, CaptureFrameset, camVars, ctlStep
<1>2. ASSUME NEW c \in Cameras
      PROVE  Submitted(c)' <=> Submitted(c)
  BY <1>1 DEF Submitted
<1>3. ctlCam \in Cameras /\ NumCameras \in Nat /\ NoFrameset.ts = 0
  BY CycleAssumption DEF CycleTypeOK, Cameras, NoFrameset
<1>4. ASSUME NEW c \in Cameras
      PROVE  LaterFramesets(c)'
  <2>1. /\ clock[c] \in Nat /\ c \in Nat
        /\ current_processed_frameset[c].ts \in Nat
        /\ processing_frameset[c].ts \in Nat
        /\ LaterFramesets(c)
    BY CompleteIsFrameset, CycleAssumption DEF CycleTypeOK, Cameras, MapInv
  <2>2. CASE BeginCycle
    <3>1. ~Captured(c)'
      BY <1>3, <2>1, <2>2 DEF BeginCycle, ctlStep, Captured, Cameras
    <3> QED BY <1>1, <2>1, <2>2, <3>1 DEF BeginCycle, camVars, LaterFramesets
  <2>3. CASE CaptureFails
    <3>1. /\ ~Captured(c)' /\ clock' = clock
          /\ current_captured_frameset'[c] \in {current_captured_frameset[c], NoFrameset}
      BY <2>3 DEF CaptureFails, ctlStep, Captured, CycleTypeOK
    <3> QED BY <1>1, <1>3, <2>1, <3>1 DEF LaterFramesets
  <2>4. CASE DropFrameset \/ CaptureFrameset
    <3>1. PICK f \in Framesets : Delivers(ctlCam, f)
      BY <2>4 DEF DropFrameset, CaptureFrameset
    <3>2. f.ts \in Nat
      BY CycleAssumption DEF Framesets
    <3>3. CASE c = ctlCam
      <4>1. /\ clock'[c] = f.ts + 1 /\ current_captured_frameset'[c] = f
            /\ f.ts >= clock[c]
        BY <3>1, <3>3 DEF Delivers, CycleTypeOK
      <4> QED BY <1>1, <2>1, <3>2, <4>1 DEF LaterFramesets
    <3>4. CASE c # ctlCam
      <4>1. /\ clock'[c] = clock[c]
            /\ current_captured_frameset'[c] = current_captured_frameset[c]
        BY <3>1, <3>4 DEF Delivers, CycleTypeOK
      <4>2. ctlPC = "capture" /\ (ctlCam' = ctlCam \/ ctlCam' = ctlCam + 1)
            /\ (ctlPC' = "create" => ctlCam = NumCameras)
        BY <1>3, <2>4 DEF DropFrameset, CaptureFrameset, ctlStep, Cameras
      <4>3. Captured(c)' => Captured(c)
        BY <1>1, <1>3, <2>1, <3>4, <4>2 DEF Captured, Cameras
      <4> QED BY <1>1, <2>1, <4>1, <4>3 DEF LaterFramesets
    <3> QED BY <3>3, <3>4
  <2> QED BY <2>2, <2>3, <2>4
<1> QED BY <1>1, <1>2, <1>4, MapOfUnchanged

LEMMA MakingKeepsMap ==
  ASSUME CycleTypeOK, CloudInv, MapInv, CreatePC \/ SaveMetadata
  PROVE  MapInv'
<1>1. /\ UNCHANGED << clock, camVars, mergedPC, held >>
      /\ ctlPC \in {"create", "save"} /\ ctlPC' \in {"save", "submit"}
      /\ ctlPC' = "submit" => ctlPC = "save" /\ ctlCam' = 1
  BY DEF CreatePC, SaveMetadata, ctlStep
<1>2. ASSUME NEW c \in Cameras
      PROVE  ~Submitted(c)' /\ Captured(c)
  BY <1>1, CycleAssumption DEF Submitted, Captured, Cameras
<1>3. ASSUME NEW c \in Cameras
      PROVE  LaterFramesets(c)' /\ PointsWaiting(c)'
  BY <1>1, <1>2 DEF MapInv, LaterFramesets, PointsWaiting, camVars
<1> QED BY <1>1, <1>3 DEF MapInv, PointsMapped, OwnPoint, MappedBy, camVars

LEMMA SubmitKeepsMap ==
  ASSUME CycleTypeOK, CloudInv, MapInv, SubmitFrameset
  PROVE  MapInv'
<1>1. /\ ctlPC = "submit" /\ ctlCam \in Cameras /\ NumCameras \in Nat
      /\ \/ ctlCam < NumCameras /\ ctlCam' = ctlCam + 1 /\ ctlPC' = "submit"
         \/ ctlCam = NumCameras /\ ctlCam' = ctlCam /\ ctlPC' = "await"
      /\ UNCHANGED << clock, current_processed_frameset, current_pcl_pointcloud, pcVars >>
      /\ NoFrameset.ts = 0
  BY CycleAssumption DEF SubmitFrameset, CycleTypeOK, Cameras, NoFrameset
<1>2. /\ processing_frameset'[ctlCam] = current_captured_frameset[ctlCam]
      /\ current_captured_frameset'[ctlCam] = NoFrameset
      /\ current_captured_frameset[ctlCam] # NoFrameset
      /\ Captured(ctlCam)
  <2>1. Captured(ctlCam)
    BY <1>1 DEF Captured, Cameras
  <2> QED BY <1>1, <2>1 DEF SubmitFrameset, CycleTypeOK, CloudInv, HoldsFrameset
<1>3. ASSUME NEW c \in Cameras, c # ctlCam
      PROVE  /\ processing_frameset'[c] = processing_frameset[c]
             /\ current_captured_frameset'[c] = current_captured_frameset[c]
  BY <1>3 DEF SubmitFrameset, CycleTypeOK
<1>4. ASSUME NEW c \in Cameras
      PROVE  LaterFramesets(c)' /\ PointsWaiting(c)'
  <2>1. clock[c] \in Nat /\ LaterFramesets(c) /\ PointsWaiting(c)
    BY CycleAssumption DEF CycleTypeOK, MapInv
  <2>2. CASE c = ctlCam
    <3>1. ~Captured(c)'
      BY <1>1, <2>2 DEF Captured, Cameras
    <3> QED BY <1>1, <1>2, <2>1, <2>2, <3>1 DEF LaterFramesets, PointsWaiting
  <2>3. CASE c # ctlCam
    <3>1. (Submitted(c)' <=> Submitted(c)) /\ (Captured(c)' => Captured(c))
      BY <1>1, <2>3 DEF Submitted, Captured, Cameras
    <3> QED BY <1>1, <1>3, <2>1, <2>3, <3>1 DEF LaterFramesets, PointsWaiting, pcVars
  <2> QED BY <2>2, <2>3
<1> QED BY <1>1, <1>4 DEF MapInv, PointsMapped, OwnPoint, MappedBy, pcVars

LEMMA ProcessKeepsMap ==
  ASSUME CycleTypeOK, CloudInv, MapInv, NEW c \in Cameras, Process(c)
  PROVE  MapInv'
<1> DEFINE f == processing_frameset[c]
<1>1. /\ f # NoFrameset
      /\ processing_frameset' = [processing_frameset EXCEPT ![c] = NoFrameset]
      /\ UNCHANGED << clock, ctlVars, current_captured_frameset, pcVars >>
      /\ NoFrameset.ts = 0
  BY DEF Process, NoFrameset
<1>2. /\ processing_frameset'[c] = NoFrameset
      /\ \/ is_complete(f) /\ current_processed_frameset'[c] = f
         \/ /\ current_processed_frameset'[c] = current_processed_frameset[c]
            /\ current_pcl_pointcloud'[c] = {}
  BY DEF Process, CycleTypeOK
<1>3. ASSUME NEW d \in Cameras, d # c
      PROVE  /\ processing_frameset'[d] = processing_frameset[d]
             /\ current_processed_frameset'[d] = current_processed_frameset[d]
             /\ current_pcl_pointcloud'[d] = current_pcl_pointcloud[d]
  BY <1>3 DEF Process, CycleTypeOK
<1>4. Submitted(c) /\ f = newPC.frames[c]
  BY <1>1 DEF CloudInv, Processes
<1>5. ASSUME NEW d \in Cameras
      PROVE  /\ clock[d] \in Nat
             /\ current_processed_frameset[d].ts \in Nat
             /\ processing_frameset[d].ts \in Nat
             /\ LaterFramesets(d) /\ PointsWaiting(d)
  BY CompleteIsFrameset, CycleAssumption DEF CycleTypeOK, MapInv
<1>6. current_processed_frameset[c].ts <= current_processed_frameset'[c].ts
  BY <1>1, <1>2, <1>5 DEF LaterFramesets
<1> HIDE DEF f
<1>7. ASSUME NEW d \in Cameras
      PROVE  LaterFramesets(d)' /\ PointsWaiting(d)'
  <2>1. CASE d = c
    <3>1. ~Captured(c)'
      BY <1>1, <1>4, CycleAssumption DEF Submitted, Captured, ctlVars, CycleTypeOK, Cameras
    <3>2. LaterFramesets(c)'
      BY <1>1, <1>2, <1>5, <3>1 DEF LaterFramesets, f
    <3>3. PointsWaiting(c)'
      BY <1>1, <1>2, <1>4 DEF PointsWaiting, pcVars
    <3> QED BY <2>1, <3>2, <3>3
  <2>2. CASE d # c
    BY <1>1, <1>3, <1>5, <2>2
    DEF LaterFramesets, PointsWaiting, Submitted, Captured, ctlVars, pcVars
  <2> QED BY <2>1, <2>2
<1>8. ASSUME NEW pc, NEW d \in Cameras, pc.frames[d].ts \in Nat, MappedBy(pc, d)
      PROVE  MappedBy(pc, d)'
  <2>1. CASE d = c
    BY <1>2, <1>5, <1>6, <1>8, <2>1 DEF MappedBy, f
  <2>2. CASE d # c
    BY <1>3, <1>8, <2>2 DEF MappedBy
  <2> QED BY <2>1, <2>2
<1>9. ASSUME NEW pc \in PointClouds, PointsMapped(pc)
      PROVE  PointsMapped(pc)'
  <2>1. \A d \in Cameras : pc.frames[d].ts \in Nat
    BY CompleteIsFrameset, CycleAssumption DEF PointClouds
  <2> QED BY <1>8, <1>9, <2>1 DEF PointsMapped, OwnPoint
<1>10. PointsMapped(mergedPC)' /\ PointsMapped(held)'
  BY <1>1, <1>9 DEF MapInv, CycleTypeOK, pcVars, PointsMapped, OwnPoint
<1> QED BY <1>7, <1>10 DEF MapInv

LEMMA MergeKeepsMap ==
  ASSUME CycleTypeOK, CloudInv, MapInv, Merge
  PROVE  MapInv'
<1>1. /\ ctlPC = "await" /\ ctlPC' = "want"
      /\ processing_frameset = Forall(NoFrameset)
      /\ UNCHANGED << clock, camVars, held >>
  BY DEF Merge, ctlStep
<1>2. /\ mergedPC'.frames = newPC.frames
      /\ mergedPC'.points = UNION {current_pcl_pointcloud[c] : c \in Cameras}
  BY ReplacedFields DEF Merge, CycleTypeOK
<1>3. ASSUME NEW c \in Cameras
      PROVE  /\ LaterFramesets(c)' /\ PointsWaiting(c)'
             /\ \A p \in current_pcl_pointcloud[c] :
                  OwnPoint(newPC, c, p) /\ current_processed_frameset[c] = newPC.frames[c]
             /\ current_processed_frameset[c].ts \in Nat
  <2>1. Submitted(c) /\ processing_frameset[c] = NoFrameset /\ ~Submitted(c)' /\ ~Captured(c)'
    BY <1>1 DEF Submitted, Captured, Forall
  <2>2. LaterFramesets(c)' /\ PointsWaiting(c)'
    BY <1>1, <2>1 DEF MapInv, LaterFramesets, PointsWaiting, camVars
  <2>3. current_processed_frameset[c].ts \in Nat
    BY CompleteIsFrameset, CycleAssumption DEF CycleTypeOK
  <2> QED BY <2>1, <2>2, <2>3 DEF CloudInv, Processes, MapInv, PointsWaiting
<1>4. PointsMapped(mergedPC)'
  <2>1. SUFFICES ASSUME NEW c \in Cameras, NEW p \in current_pcl_pointcloud[c]
                 PROVE  (OwnPoint(mergedPC, c, p) /\ MappedBy(mergedPC, c))'
    BY <1>2 DEF PointsMapped
  <2> QED BY <1>1, <1>2, <1>3 DEF OwnPoint, MappedBy, camVars
<1>5. PointsMapped(held)'
  BY <1>1 DEF MapInv, PointsMapped, OwnPoint, MappedBy, camVars
<1> QED BY <1>3, <1>4, <1>5 DEF MapInv

LEMMA ApplicationKeepsMap ==
  ASSUME CycleTypeOK, CloudInv, MapInv,
         (\E name \in {"rgb", "depth"} : request_metadata(name)) \/ get_pointcloud
  PROVE  MapInv'
<1>1. /\ UNCHANGED << clock, ctlVars, camVars, newPC >>
      /\ held' \in {held, mergedPC} /\ mergedPC' \in {mergedPC, NoPC}
  BY DEF request_metadata, get_pointcloud, pcVars
<1>2. ASSUME NEW c \in Cameras
      PROVE  LaterFramesets(c)' /\ PointsWaiting(c)'
  BY <1>1 DEF MapInv, LaterFramesets, PointsWaiting, Captured, Submitted, ctlVars, camVars
<1>3. NoPC.points = {}
  BY DEF NoPC, PointCloud
<1>4. PointsMapped(mergedPC)' /\ PointsMapped(held)'
  BY <1>1, <1>3 DEF MapInv, PointsMapped, OwnPoint, MappedBy, camVars
<1> QED BY <1>2, <1>4 DEF MapInv

LEMMA MapStep == CycleTypeOK /\ CloudInv /\ MapInv /\ [CycleNext]_vars => MapInv'
<1> SUFFICES ASSUME CycleTypeOK, CloudInv, MapInv, [CycleNext]_vars
             PROVE  MapInv'
  OBVIOUS
<1>1. CASE UNCHANGED vars
  BY <1>1 DEF vars, ctlVars, camVars, pcVars, MapInv, LaterFramesets, PointsWaiting,
              Captured, Submitted, PointsMapped, OwnPoint, MappedBy
<1>2. CASE CycleNext
  BY <1>2, CaptureKeepsMap, MakingKeepsMap, SubmitKeepsMap, ProcessKeepsMap,
     MergeKeepsMap, ApplicationKeepsMap DEF CycleNext
<1> QED BY <1>1, <1>2

(* A tile is one byte: the masks of the first eight cameras fit in it, and *)
(* each is another.                                                        *)
BitMask(k, mask) ==
  << k, mask >> \in {<< 0, 1 >>, << 1, 2 >>, << 2, 4 >>, << 3, 8 >>,
                     << 4, 16 >>, << 5, 32 >>, << 6, 64 >>, << 7, 128 >>}

LEMMA PowerIsBitMask ==
  ASSUME NEW k \in 0 .. 7
  PROVE  BitMask(k, 2 ^ k)
<1>1. /\ k = 0 => 2 ^ k = 1
      /\ k = 1 => 2 ^ k = 2
      /\ k = 2 => 2 ^ k = 4
      /\ k = 3 => 2 ^ k = 8
      /\ k = 4 => 2 ^ k = 16
      /\ k = 5 => 2 ^ k = 32
      /\ k = 6 => 2 ^ k = 64
      /\ k = 7 => 2 ^ k = 128
  <2>1. /\ 2 ^ 0 = 1 /\ 2 ^ 1 = 2 /\ 2 ^ 2 = 4 /\ 2 ^ 3 = 8 /\ 2 ^ 4 = 16
        /\ 2 ^ 5 = 32 /\ 2 ^ 6 = 64 /\ 2 ^ 7 = 128
    OBVIOUS
  <2> QED BY <2>1
<1>2. k \in {0, 1, 2, 3, 4, 5, 6, 7}
  OBVIOUS
<1> QED BY <1>1, <1>2 DEF BitMask

LEMMA BitMasksDiffer ==
  ASSUME NEW i, NEW j, NEW m, NEW n, BitMask(i, m), BitMask(j, n)
  PROVE  m % 256 = m /\ (m = n => i = j)
<1>1. m \in {1, 2, 4, 8, 16, 32, 64, 128}
  BY DEF BitMask
<1>2. m % 256 = m
  BY <1>1
<1> QED BY <1>2 DEF BitMask

LEMMA TileOfOneCamera ==
  ASSUME NumCameras <= 8, NEW c \in Cameras
  PROVE  map2d3d_cameras(tile_mask(c)) = {c}
<1>1. ASSUME NEW d \in Cameras
      PROVE  d = camera_index(d) + 1 /\ BitMask(camera_index(d), 2 ^ camera_index(d))
  <2>1. camera_index(d) \in 0 .. 7 /\ d = camera_index(d) + 1
    BY CycleAssumption DEF Cameras, camera_index
  <2> QED BY <2>1, PowerIsBitMask
<1>2. ASSUME NEW d \in Cameras
      PROVE  tile_mask(c) = 2 ^ camera_index(d) <=> d = c
  <2>1. tile_mask(c) = 2 ^ camera_index(c)
    BY <1>1, BitMasksDiffer DEF tile_mask
  <2>2. 2 ^ camera_index(c) = 2 ^ camera_index(d) => camera_index(c) = camera_index(d)
    BY <1>1, BitMasksDiffer
  <2> QED BY <1>1, <2>1, <2>2
<1> QED BY <1>2 DEF map2d3d_cameras

(* Whoever asks about a point of the cloud he got last is answered by the  *)
(* camera that took it, with a frameset that is not older than the point,  *)
(* whatever that camera does meanwhile: as long as the cameras are not     *)
(* more than eight, the bits of the tile.                                  *)
THEOREM PointsFindTheirFrames ==
  NumCameras <= 8 /\ CycleSpec => []Map2d3dFitsHeldCloud
<1> SUFFICES ASSUME NumCameras <= 8
             PROVE  CycleSpec => []Map2d3dFitsHeldCloud
  OBVIOUS
<1>1. CycleInit => CloudInv /\ MapInv
  <2>1. CycleInit => CloudInv
    BY NoPCMatches
    DEF CycleInit, CloudInv, Forall, HoldsFrameset, Captured, Processes, Submitted,
        Saved, NoPC, PointCloud, OwnItems, OwnPoints
  <2>2. NoPC.points = {} /\ NoFrameset.ts = 0
    BY DEF NoPC, PointCloud, NoFrameset
  <2>3. CycleInit => MapInv
    BY <2>2 DEF CycleInit, MapInv, Forall, LaterFramesets, PointsWaiting, Captured,
                Submitted, PointsMapped
  <2> QED BY <2>1, <2>3
<1>2. CycleTypeOK /\ CloudInv /\ MapInv /\ [CycleNext]_vars => (CloudInv /\ MapInv)'
  BY CloudStep, MapStep
<1>3. MapInv => Map2d3dFitsHeldCloud
  <2>1. SUFFICES ASSUME MapInv, NEW p \in held.points
                 PROVE  \E c \in Cameras :
                          /\ map2d3d_cameras(p.tile) = {c}
                          /\ held.frames[c] = p.frame
                          /\ has_depth(map2d3d_frameset(c))
                          /\ map2d3d_frameset(c).ts >= p.frame.ts
    BY DEF Map2d3dFitsHeldCloud
  <2>2. PICK c \in Cameras : OwnPoint(held, c, p) /\ MappedBy(held, c)
    BY <2>1 DEF MapInv, PointsMapped
  <2>3. p.tile = tile_mask(c) /\ p.frame = held.frames[c]
    BY <2>2 DEF OwnPoint
  <2> QED BY <2>1, <2>2, <2>3, TileOfOneCamera
          DEF MappedBy, map2d3d_frameset, is_complete, has_depth
<1> QED BY <1>1, <1>2, <1>3, CycleTypeCorrect, PTL DEF CycleSpec
=============================================================================
