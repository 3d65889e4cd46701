-------------------------- MODULE CaptureLifecycle --------------------------
(***************************************************************************)
(* The life of a capturer from the factory to the destructor: loading a    *)
(* configuration, creating the cameras for it, checking and starting them, *)
(* unloading them, in src/OrbbecBaseCapture.hpp with the overrides of      *)
(* OrbbecCapture.cpp and OrbbecPlaybackCapture.cpp.                        *)
(*                                                                         *)
(* One thread, the owner, makes all these calls.  Devices are plugged in   *)
(* and out between any two of its steps.  What the threads it starts do    *)
(* meanwhile is the subject of OrbbecBaseCapture.tla.                      *)
(*                                                                         *)
(* An exception of the SDK that nobody catches leaves start() in the       *)
(* middle.  The application is taken to stop or free the capturer then,    *)
(* before it does anything else with it.                                   *)
(*                                                                         *)
(* A camera's camera_index is its position in the cameras vector, and its  *)
(* camera_config is a reference to the entry at that position.  Indexes    *)
(* start at 1 here.  The suffix .bag is left out of the names of           *)
(* recordings.  What a configuration is, is in OrbbecConfig.tla.           *)
(***************************************************************************)
EXTENDS OrbbecConfig, FiniteSets, SequencesExt

CONSTANTS
  Serials,       \* serial numbers of devices, and names of recordings
  Directories,
  Documents,     \* configurations that the application may load
  DebugLog       \* whether cwipc's log level is DEBUG

CapturerTypes == {"orbbec", "orbbec_playback"}

ASSUME LifecycleAssumption ==
  /\ IsFiniteSet(Serials) /\ None \notin Serials \cup Directories
  /\ DebugLog \in BOOLEAN
  /\ \A d \in Documents :
       /\ d.version \in Nat /\ d.type \in CapturerTypes /\ d.ok \in BOOLEAN
       /\ d.settings \subseteq ReadFields
       /\ d.sync_master_serial \in Serials \cup {None}
       /\ d.record_to_directory \in Directories \cup {None}
       /\ d.camera \in Seq([serial : Serials \cup {None}, filename : Serials \cup {None},
                            type : CapturerTypes, disabled : BOOLEAN, connected : {FALSE}])

VARIABLES
  type,                 \* of the capturer
  deviceList,           \* devices that are plugged in, in the SDK's order
  configuration,
  base_directory,       \* of the playback capturer
  _is_initialized,
  devices,              \* those that _create_cameras() has still to look at
  entry,                \* ... and the entry it has reached, of recordings
  cameras,              \* [handle, serial, directory] of each camera
  pipelines,            \* cameras whose pipeline runs (camera_started)
  recorders,            \* cameras that have a recording_device
  processing,           \* cameras whose processing thread runs
  control_thread,
  ownPC,                \* where the owner is
  toStart,              \* cameras that _start_cameras() has still to start
  start_error,
  recording,            \* what the last session wrote
  created_before        \* history: handles of the cameras of earlier calls of
                        \* start(), since the configuration was loaded

configVars == << configuration, base_directory, _is_initialized >>
cameraVars == << cameras, pipelines, processing, recorders >>
createVars == << devices, entry >>
startVars  == << toStart, start_error >>
vars == << type, deviceList, configVars, createVars, cameraVars, control_thread, ownPC,
           startVars, recording, created_before >>

all_camera_configs == configuration.all_camera_configs
sync_master_serial == configuration.sync_master_serial

DeviceLists == UNION {SetToSeqs(S) : S \in SUBSET Serials}

(* A recording: the cameraconfig.json in its directory, the files of the   *)
(* cameras with the device each was made of, and whether it was played.    *)
NoRecording == [directory |-> None, document |-> to_string(DefaultConfig, TRUE),
                files |-> {}, played |-> FALSE]

LifeInit ==
  /\ type \in CapturerTypes
  /\ deviceList \in DeviceLists
  /\ type = "orbbec_playback" => deviceList = << >>
  /\ configuration = DefaultConfig /\ base_directory = None
  /\ _is_initialized = FALSE
  /\ devices = << >> /\ entry = 1
  /\ cameras = << >> /\ pipelines = {} /\ processing = {} /\ recorders = {}
  /\ control_thread = FALSE
  /\ ownPC = "new"
  /\ toStart = {} /\ start_error = FALSE
  /\ recording = NoRecording
  /\ created_before = {}

ownStep(from, to) == ownPC = from /\ ownPC' = to

-----------------------------------------------------------------------------
(* Loading a configuration.                                                *)

(* The configuration now is config, and _is_initialized what               *)
(* config_reload() makes of it: one without cameras is refused, but leaves *)
(* the flag alone.                                                         *)
LoadConfig(config, ok) ==
  /\ configuration' =
       IF ok /\ DebugLog THEN [config EXCEPT !.settings = @ \cup {"debug"}] ELSE config
  /\ _is_initialized' = (ok /\ (config.all_camera_configs # << >> \/ _is_initialized))
  /\ created_before' = {} /\ recording' = NoRecording

(* OrbbecPlaybackCapture looks for recordings in the directory of the      *)
(* configuration, and where it did before if that is not in a directory.   *)
set_base_directory(directory, ok) ==
  base_directory' =
    IF type = "orbbec_playback" /\ ok /\ directory # None THEN directory ELSE base_directory

(* From a document: the argument itself, or a file, with or without a      *)
(* directory in its name.  A file that is not there, or whose name is not  *)
(* that of a JSON file, is as good as one of another version.              *)
_apply_document ==
  \E document \in Documents, directory \in Directories \cup {None} :
    LET loaded == from_string(document, type)
    IN /\ LoadConfig(loaded.configuration, loaded.ok)
       /\ set_base_directory(directory, loaded.ok)

(* From the devices that are plugged in.                                   *)
_apply_auto_config ==
  LET Entry(s) == [serial |-> s, filename |-> None, type |-> "orbbec",
                   disabled |-> FALSE, connected |-> FALSE]
      ok == type = "orbbec" /\ deviceList # << >>
  IN /\ LoadConfig([DefaultConfig EXCEPT !.all_camera_configs =
                      [i \in DOMAIN deviceList |-> Entry(deviceList[i])]], ok)
     /\ set_base_directory(None, ok)

_apply_config == _apply_document \/ _apply_auto_config

(* cwipc_orbbec() and cwipc_orbbec_playback(): a capturer that cannot      *)
(* start is deleted at once.                                               *)
cwipc_orbbec ==
  /\ ownPC = "new"
  /\ _apply_config
  /\ ownPC' = IF _is_initialized' THEN "idle" ELSE "gone"
  /\ UNCHANGED << type, deviceList, createVars, cameraVars, control_thread, startVars >>

(* Mutant: the configuration may change under running cameras.             *)
config_reload_WhileRunning ==
  /\ ownPC = "idle"
  /\ _apply_config
  /\ UNCHANGED << type, deviceList, createVars, cameraVars, control_thread, ownPC, startVars >>

config_reload ==
  /\ ownPC = "idle"
  /\ ~control_thread
  /\ _apply_config
  /\ UNCHANGED << type, deviceList, createVars, cameraVars, control_thread, ownPC, startVars >>

-----------------------------------------------------------------------------
(* start().  The SDK is asked for its list of devices once.                *)
start ==
  /\ ownStep("idle", "create")
  /\ _is_initialized /\ ~control_thread
  /\ devices' = deviceList /\ entry' = 1
  /\ recording' = NoRecording
  /\ UNCHANGED << type, deviceList, configVars, cameraVars, control_thread, startVars,
                  created_before >>

(* The first entry for this serial number: a set of one index, or of none. *)
get_camera_config(serial) ==
  {i \in DOMAIN all_camera_configs :
     all_camera_configs[i].serial = serial
       /\ \A k \in 1 .. i - 1 : all_camera_configs[k].serial # serial}

(* OrbbecBaseCamera(): the serial is that of the entry at the new index.   *)
(* What lies behind the end of the vector is not a serial.  The directory  *)
(* is that of the recording the camera makes or plays.                     *)
Camera(handle, index, configs, directory) ==
  [handle |-> handle, directory |-> directory,
   serial |-> IF index \in DOMAIN configs THEN configs[index].serial ELSE None]

CreateCamera(handle, configs, directory) ==
  cameras' = Append(cameras, Camera(handle, Len(cameras) + 1, configs, directory))

(* cd->connected = true                                                    *)
Connect(configs, connected) ==
  [k \in DOMAIN configs |-> [configs[k] EXCEPT !.connected = @ \/ k \in connected]]

(* Mutant: a device that is not in the configuration gets a camera too.    *)
Refused_Unknown(serial) ==
  \E i \in get_camera_config(serial) : all_camera_configs[i].type # "orbbec"

(* A device that is not in the configuration, or as another type.          *)
Refused(serial) ==
  \A i \in get_camera_config(serial) : all_camera_configs[i].type # "orbbec"

Disabled(serial) == \E i \in get_camera_config(serial) : all_camera_configs[i].disabled

(* One round of the loop of OrbbecCapture's _create_cameras(): a camera for *)
(* a device whose entry is not disabled.  A device that is refused ends it. *)
_create_camera_device ==
  LET serial == Head(devices)
  IN /\ devices # << >>
     /\ \/ /\ Refused(serial)
           /\ ownPC' = "unload" /\ devices' = << >>
           /\ UNCHANGED << cameras, configuration >>
        \/ /\ ~Refused(serial) /\ Disabled(serial)
           /\ devices' = Tail(devices)
           /\ UNCHANGED << ownPC, cameras, configuration >>
        \/ /\ ~Refused(serial) /\ ~Disabled(serial)
           /\ CreateCamera(serial, all_camera_configs, configuration.record_to_directory)
           /\ configuration' = [configuration EXCEPT !.all_camera_configs =
                                  Connect(all_camera_configs, get_camera_config(serial))]
           /\ devices' = Tail(devices)
           /\ UNCHANGED ownPC
     /\ UNCHANGED entry

(* An entry without a serial takes the name of its file.                   *)
recording_filename(cd) == IF cd.filename # None THEN cd.filename ELSE cd.serial
WithSerial(cd) == IF cd.serial = None THEN [cd EXCEPT !.serial = cd.filename] ELSE cd
Nameless(cd) == cd.filename = None /\ cd.serial = None
RejectedRecording(cd) == Nameless(cd) \/ cd.type # "orbbec_playback"

(* One round of the loop of OrbbecPlaybackCapture's: a camera for an entry *)
(* that is not disabled.  One without a name or of another type ends it.   *)
_create_camera_recording ==
  LET cd == all_camera_configs[entry]
      configs == [all_camera_configs EXCEPT ![entry] = WithSerial(cd)]
  IN /\ entry \in DOMAIN all_camera_configs
     /\ \/ /\ RejectedRecording(cd)
           /\ ownPC' = "unload" /\ entry' = 1
           /\ configuration' = [configuration EXCEPT !.all_camera_configs = configs]
           /\ UNCHANGED cameras
        \/ /\ ~RejectedRecording(cd) /\ cd.disabled
           /\ entry' = entry + 1
           /\ configuration' = [configuration EXCEPT !.all_camera_configs = configs]
           /\ UNCHANGED << ownPC, cameras >>
        \/ /\ ~RejectedRecording(cd) /\ ~cd.disabled
           /\ CreateCamera(recording_filename(cd), configs, base_directory)
           /\ entry' = entry + 1
           /\ configuration' = [configuration EXCEPT
                                  !.all_camera_configs = Connect(configs, {entry})]
           /\ UNCHANGED ownPC
     /\ UNCHANGED devices

(* The loop is through.                                                    *)
_create_cameras_done ==
  /\ IF type = "orbbec" THEN devices = << >> ELSE entry \notin DOMAIN all_camera_configs
  /\ ownPC' = "check"
  /\ devices' = << >> /\ entry' = 1
  /\ UNCHANGED << cameras, configuration >>

_create_cameras ==
  /\ ownPC = "create"
  /\ \/ type = "orbbec" /\ _create_camera_device
     \/ type = "orbbec_playback" /\ _create_camera_recording
     \/ _create_cameras_done
  /\ UNCHANGED << type, deviceList, base_directory, _is_initialized, pipelines, processing,
                  recorders, control_thread, startVars, recording, created_before >>

is_sync_master(i) == cameras[i].serial = sync_master_serial

(* Mutant: cameras that are not there are not missed.                      *)
_check_cameras_connected_Skipped ==
  /\ ownStep("check", "start")
  /\ toStart' = DOMAIN cameras /\ start_error' = FALSE
  /\ UNCHANGED << type, deviceList, configVars, createVars, cameraVars, control_thread,
                  recording, created_before >>

(* Is every entry in use connected?  Recordings are not checked.           *)
_check_cameras_connected ==
  LET Missing(cd) == ~cd.connected /\ ~cd.disabled
  IN /\ ownPC = "check"
     /\ IF type = "orbbec"
             /\ \E i \in DOMAIN all_camera_configs : Missing(all_camera_configs[i])
        THEN ownPC' = "unload" /\ UNCHANGED startVars
        ELSE ownPC' = "start" /\ toStart' = DOMAIN cameras /\ start_error' = FALSE
     /\ UNCHANGED << type, deviceList, configVars, createVars, cameraVars, control_thread,
                     recording, created_before >>

(* Mutant: the loop over the masters comes first.                          *)
StartsNext_MasterFirst(i) ==
  i \in toStart /\ \A k \in toStart : IF is_sync_master(i) <=> is_sync_master(k)
                                     THEN i <= k ELSE is_sync_master(i)

(* The two loops of _start_cameras(), which pass over all cameras in the   *)
(* order of the vector: one over those that are not sync master, and then  *)
(* one over the masters.                                                   *)
StartsNext(i) ==
  i \in toStart /\ \A k \in toStart : IF is_sync_master(i) <=> is_sync_master(k)
                                     THEN i <= k ELSE is_sync_master(k)

(* A camera that is made to record has its recorder before its pipeline is  *)
(* started, and keeps it when that fails.                                  *)
records == type = "orbbec" /\ configuration.record_to_directory # None

CameraStarts(i) ==
  /\ pipelines' = pipelines \cup {i}
  /\ recorders' = IF records THEN recorders \cup {i} ELSE recorders

CameraFails(i) ==
  /\ start_error' = TRUE
  /\ recorders' \in {recorders} \cup IF records THEN {recorders \cup {i}} ELSE {}
  /\ UNCHANGED pipelines

(* Mutant: a camera that fails is forgotten when another one succeeds.     *)
start_camera_LastCounts ==
  /\ ownPC = "start"
  /\ \E i \in toStart :
       /\ StartsNext(i)
       /\ \/ CameraStarts(i) /\ start_error' = FALSE
          \/ CameraFails(i)
       /\ toStart' = toStart \ {i}
  /\ UNCHANGED << type, deviceList, configVars, createVars, cameras, processing, control_thread,
                  ownPC, recording, created_before >>

(* One call of start_camera(), which the SDK may fail.  The others are     *)
(* started all the same.                                                   *)
start_camera ==
  /\ ownPC = "start"
  /\ \E i \in toStart :
       /\ StartsNext(i)
       /\ \/ CameraStarts(i) /\ UNCHANGED start_error
          \/ CameraFails(i)
       /\ toStart' = toStart \ {i}
  /\ UNCHANGED << type, deviceList, configVars, createVars, cameras, processing, control_thread,
                  ownPC, recording, created_before >>

(* The SDK throws where start() does not expect it: when it is asked for   *)
(* its devices, or by a camera that makes its pipeline.  start() is left   *)
(* without _unload_cameras(), with the cameras and pipelines there are.    *)
StartThrows ==
  /\ \/ ownPC = "create" /\ type = "orbbec"
     \/ ownPC = "start" /\ toStart # {}
  /\ ownPC' = "thrown"
  /\ devices' = << >> /\ toStart' = {}
  /\ UNCHANGED << type, deviceList, configVars, entry, cameraVars, control_thread, start_error,
                  recording, created_before >>

(* The rest of _start_cameras() and of start().                            *)
start_camera_streaming ==
  /\ ownPC = "start" /\ toStart = {}
  /\ IF start_error
     THEN ownPC' = "unload" /\ UNCHANGED << processing, control_thread >>
     ELSE /\ processing' = DOMAIN cameras
          /\ control_thread' = TRUE
          /\ ownPC' = "idle"
  /\ UNCHANGED << type, deviceList, configVars, createVars, cameras, pipelines, recorders,
                  startVars, recording, created_before >>

-----------------------------------------------------------------------------
(* The cameras are deleted, and with them their recorders.                 *)
delete_cameras ==
  /\ cameras' = << >> /\ recorders' = {}
  /\ created_before' = created_before \cup {cameras[k].handle : k \in DOMAIN cameras}

(* Mutant: the cameras are deleted without being stopped.                  *)
_unload_cameras_NotStopped ==
  /\ delete_cameras
  /\ control_thread' = FALSE /\ pipelines' = {}
  /\ UNCHANGED << processing, recording >>

(* The directory of a recording gets a configuration to play it with, also *)
(* after a start() that failed.                                            *)
_post_stop_all_cameras ==
  recording' =
    IF configuration.record_to_directory = None THEN recording
    ELSE [directory |-> configuration.record_to_directory,
          document |-> to_string(configuration, TRUE),
          files |-> {cameras[k] : k \in recorders},
          played |-> control_thread]

(* Without cameras it returns at once, also if there is a control thread.  *)
_unload_cameras ==
  IF cameras = << >>
  THEN UNCHANGED << cameraVars, control_thread, recording, created_before >>
  ELSE /\ control_thread' = FALSE
       /\ pipelines' = {} /\ processing' = {}
       /\ _post_stop_all_cameras
       /\ delete_cameras

(* A start() that failed.                                                  *)
StartFails ==
  /\ ownStep("unload", "idle")
  /\ _unload_cameras
  /\ UNCHANGED << type, deviceList, configVars, createVars, startVars >>

stop ==
  /\ ownPC \in {"idle", "thrown"} /\ ownPC' = "idle"
  /\ _unload_cameras
  /\ UNCHANGED << type, deviceList, configVars, createVars, startVars >>

Destroy ==
  /\ ownPC \in {"idle", "thrown"} /\ ownPC' = "gone"
  /\ _unload_cameras
  /\ UNCHANGED << type, deviceList, configVars, createVars, startVars >>

Gone == ownPC = "gone" /\ UNCHANGED vars

(* Somebody plugs a device in or out.  A playback capturer does not look.  *)
Plug ==
  /\ ownPC # "gone" /\ type = "orbbec"
  /\ deviceList' \in DeviceLists
  /\ UNCHANGED << type, configVars, createVars, cameraVars, control_thread, ownPC, startVars,
                  recording, created_before >>

(* What config_get() returns, while there are cameras.                     *)
config_get == to_string(configuration, FALSE)

OwnNext ==
  \/ cwipc_orbbec \/ config_reload
  \/ start \/ _create_cameras \/ _check_cameras_connected
  \/ start_camera \/ start_camera_streaming \/ StartFails \/ StartThrows
  \/ stop \/ Destroy \/ Gone

LifeNext == OwnNext \/ Plug

LifeSpec == LifeInit /\ [][LifeNext]_vars

-----------------------------------------------------------------------------
Entries ==
  [serial : Serials \cup {None}, filename : Serials \cup {None}, type : CapturerTypes,
   disabled : BOOLEAN, connected : BOOLEAN]

Configurations ==
  [type : CapturerTypes \cup {None}, settings : SUBSET ReadFields,
   sync_master_serial : Serials \cup {None}, record_to_directory : Directories \cup {None},
   all_camera_configs : Seq(Entries)]

(* The types of the fields; cameras refer to entries by position, so there *)
(* must not be more of them than entries.                                  *)
LifeTypeOK ==
  /\ type \in CapturerTypes
  /\ deviceList \in DeviceLists
  /\ configuration \in Configurations
  /\ configuration.type \in {None, type}
  /\ {base_directory, recording.directory} \subseteq Directories \cup {None}
  /\ _is_initialized \in BOOLEAN /\ control_thread \in BOOLEAN /\ start_error \in BOOLEAN
  /\ cameras \in Seq([handle : Serials, serial : Serials \cup {None},
                      directory : Directories \cup {None}])
  /\ Len(cameras) <= Len(all_camera_configs)
  /\ pipelines \subseteq DOMAIN cameras /\ processing \subseteq DOMAIN cameras
  /\ recorders \subseteq DOMAIN cameras /\ toStart \subseteq DOMAIN cameras
  /\ devices \in Seq(Serials) /\ entry \in 1 .. Len(all_camera_configs) + 1
  /\ ownPC \in {"new", "idle", "create", "check", "start", "unload", "thrown", "gone"}
  /\ created_before \subseteq Serials

(* After a start() that returned false, after stop(), also one that follows *)
(* an exception out of start(), and in the end: no camera is left over, no *)
(* pipeline runs, no recorder is open and no processing thread is left     *)
(* without its camera.                                                     *)
NothingRunsWhenStopped ==
  (ownPC \in {"idle", "gone"} /\ ~control_thread) =>
    cameras = << >> /\ pipelines = {} /\ processing = {} /\ recorders = {}

(* While the capturer plays, all of its cameras do: a start() of which one *)
(* camera failed does not leave a capturer with the others.                *)
AllCamerasStream ==
  (ownPC = "idle" /\ control_thread) =>
    pipelines = DOMAIN cameras /\ processing = DOMAIN cameras

(* Cameras hold references to the configuration and its entries, which     *)
(* must therefore neither be replaced nor reallocated under them: while    *)
(* there are cameras nothing changes but what _create_cameras() writes,    *)
(* which is never the entry of a camera that is there, but for its         *)
(* `connected'.                                                            *)
ConfigurationStaysUnderCameras ==
  [][cameras # << >> =>
       /\ UNCHANGED base_directory
       /\ configuration' = [configuration EXCEPT !.all_camera_configs = all_camera_configs']
       /\ DOMAIN all_camera_configs' = DOMAIN all_camera_configs
       /\ \A k \in DOMAIN cameras \cap DOMAIN all_camera_configs :
            all_camera_configs'[k] =
              [all_camera_configs[k] EXCEPT !.connected = all_camera_configs'[k].connected]]_vars

(* The sync master is started after all others, so that recordings begin at *)
(* the same frame (the comment in _start_cameras()): no pipeline of        *)
(* another camera starts while that of a master runs.                      *)
MasterStartsLast ==
  [][\A i \in pipelines' \ pipelines, k \in pipelines :
       is_sync_master(k) => is_sync_master(i)]_vars

(* A capturer that plays has a camera for every entry that is not          *)
(* disabled, or had one earlier, when the same configuration was started:  *)
(* `connected' is not reset, so that only such a device can be missing     *)
(* unnoticed.  A recording is never missing.                               *)
EveryEntryHasItsCamera ==
  (ownPC = "idle" /\ control_thread) =>
    \A i \in DOMAIN all_camera_configs :
      LET handle == IF type = "orbbec" THEN all_camera_configs[i].serial
                    ELSE recording_filename(all_camera_configs[i])
      IN ~all_camera_configs[i].disabled =>
           \/ \E k \in DOMAIN cameras : cameras[k].handle = handle
           \/ type = "orbbec" /\ handle \in created_before

(* What config_get() hands out is a configuration that can be loaded again *)
(* and is then the same, but for color_sharpness, which is not written,    *)
(* and for what was found connected.  (Of a configuration made from the    *)
(* devices the type depends on cwipc_util.)                                *)
ConfigurationRoundTrip ==
  (cameras # << >> /\ configuration.type # None) =>
    from_string(config_get, type) =
      [ok |-> TRUE,
       configuration |-> [configuration EXCEPT !.settings = @ \ {"color_sharpness"},
                                               !.all_camera_configs = Unconnected(@)]]

(* A recording can be played: after a session of all cameras that the      *)
(* configuration ever had, which were given their own entries, and if the  *)
(* disabled entries have a name, the cameraconfig.json that is written     *)
(* loads into a playback capturer, which will reject none of its entries   *)
(* and finds a file beside it for every one that is in use.                *)
RecordingCanBePlayed ==
  LET loaded == from_string(recording.document, "orbbec_playback")
      entries == ToSet(loaded.configuration.all_camera_configs)
  IN (/\ type = "orbbec" /\ recording.played
      /\ created_before \subseteq {file.handle : file \in recording.files}
      /\ \A file \in recording.files : file.serial = file.handle
      /\ \A cd \in entries : cd.filename = None /\ (cd.disabled => cd.serial # None)) =>
       /\ loaded.ok
       /\ \A cd \in entries : ~RejectedRecording(cd)
       /\ \A cd \in entries :
            ~cd.disabled =>
              \E file \in recording.files :
                file.directory = recording.directory /\ file.serial = recording_filename(cd)

(* OrbbecConfig.hpp says of sync_master_serial: "If non-empty this camera  *)
(* is the sync master".                                                    *)
NamedDeviceIsSyncMaster ==
  (type = "orbbec" /\ control_thread /\ sync_master_serial # None) =>
    \A k \in DOMAIN cameras :
      cameras[k].handle = sync_master_serial => is_sync_master(k)

(* The control thread asserts cameras.size() > 0.                          *)
ControlThreadHasCameras == control_thread => cameras # << >>
=============================================================================
