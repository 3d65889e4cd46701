----------------------- MODULE CaptureLifecycleProofs -----------------------
(***************************************************************************)
(* Proofs about CaptureLifecycle.tla, for any serial numbers, directories  *)
(* and documents, and any order of devices.                                *)
(*                                                                         *)
(* The inductive invariant LifeInv has a part for each question: where the *)
(* owner is and what runs then (RunInv), how far the loop that creates     *)
(* cameras has come (CreateInv), which entries have their camera           *)
(* (EntryInv), where recordings are sought and made (PlaceInv) and what    *)
(* the last one holds (RecordInv).                                         *)
(***************************************************************************)
EXTENDS CaptureLifecycle, TLAPS, FiniteSetTheorems

Starting == ownPC \in {"create", "check", "start", "unload", "thrown"}

(* What runs: there are cameras from their creation to the end of stop(),  *)
(* pipelines from _start_cameras() on, with a recorder if there is to be   *)
(* one, processing threads only along with the control thread, and those   *)
(* of all cameras.                                                         *)
RunInv ==
  /\ Starting => ~control_thread
  /\ ~control_thread => (Starting \/ cameras = << >>) /\ processing = {}
  /\ control_thread => ownPC \in {"idle", "gone"} /\ pipelines = DOMAIN cameras
                         /\ processing = DOMAIN cameras
  /\ ownPC \in {"create", "check"} => pipelines = {} /\ recorders = {}
  /\ records => pipelines \subseteq recorders
  /\ ownPC # "start" => toStart = {}
  /\ ownPC = "start" =>
       /\ ~start_error => pipelines \cup toStart = DOMAIN cameras
       /\ \A i \in toStart, k \in pipelines : is_sync_master(k) => is_sync_master(i)

(* The loop of _create_cameras(): no device twice, every camera has its    *)
(* entry, and the entry reached has no camera's position.                  *)
CreateInv ==
  /\ ownPC # "create" => devices = << >> /\ entry = 1
  /\ type = "orbbec" => entry = 1
  /\ type = "orbbec_playback" => deviceList = << >> /\ devices = << >>
  /\ \A i, j \in DOMAIN devices : devices[i] = devices[j] => i = j
  /\ (ownPC = "create" /\ type = "orbbec_playback") => Len(cameras) < entry
  /\ (ownPC = "create" /\ type = "orbbec") =>
       \A k \in DOMAIN cameras :
         /\ \A i \in DOMAIN devices : devices[i] # cameras[k].handle
         /\ \A j \in DOMAIN cameras : cameras[j].handle = cameras[k].handle => j = k
         /\ \E i \in DOMAIN all_camera_configs :
              all_camera_configs[i].serial = cameras[k].handle

HasCamera(handle) == \E k \in DOMAIN cameras : cameras[k].handle = handle

(* Which entries have their camera: of hardware those that are connected,  *)
(* or had one in an earlier session, of recordings those that the loop has *)
(* passed.                                                                 *)
EntryInv ==
  /\ type = "orbbec" =>
       \A i \in DOMAIN all_camera_configs :
         all_camera_configs[i].connected =>
           \/ HasCamera(all_camera_configs[i].serial)
           \/ all_camera_configs[i].serial \in created_before
  /\ (type = "orbbec" /\ (ownPC = "start" \/ control_thread)) =>
       \A i \in DOMAIN all_camera_configs :
         ~all_camera_configs[i].disabled => all_camera_configs[i].connected
  /\ (type = "orbbec_playback"
        /\ (ownPC \in {"create", "check", "start"} \/ control_thread)) =>
       \A i \in DOMAIN all_camera_configs :
         (ownPC = "create" => i < entry) /\ ~all_camera_configs[i].disabled =>
           HasCamera(recording_filename(all_camera_configs[i]))

(* Where the recordings are that cameras play or make.                     *)
PlaceInv ==
  \A k \in DOMAIN cameras :
    cameras[k].directory = IF type = "orbbec" THEN configuration.record_to_directory
                           ELSE base_directory

(* What the last session recorded, until the configuration is changed.     *)
RecordInv ==
  /\ Starting \/ control_thread => ~recording.played
  /\ (type = "orbbec" /\ recording.played) =>
       /\ recording.document = to_string(configuration, TRUE)
       /\ \A file \in recording.files :
            file.handle \in Serials /\ file.directory = recording.directory
       /\ created_before \subseteq {file.handle : file \in recording.files} =>
            \A i \in DOMAIN all_camera_configs :
              ~all_camera_configs[i].disabled =>
                \E file \in recording.files : file.handle = all_camera_configs[i].serial

LifeInv == LifeTypeOK /\ RunInv /\ CreateInv /\ EntryInv /\ PlaceInv /\ RecordInv

-----------------------------------------------------------------------------
(* Lemmas about what the model is built from.                              *)

(* The SDK's list names every device once.                                 *)
LEMMA DeviceListsAreInjective ==
  ASSUME NEW s \in DeviceLists
  PROVE  s \in Seq(Serials) /\ \A i, j \in DOMAIN s : s[i] = s[j] => i = j
<1>1. PICK S \in SUBSET Serials : s \in SetToSeqs(S)
  BY DEF DeviceLists
<1>2. Cardinality(S) \in Nat
  BY FS_Subset, FS_CardinalityType, LifecycleAssumption DEF LifecycleAssumption
<1>3. /\ s \in [1 .. Cardinality(S) -> S]
      /\ \A i, j \in 1 .. Cardinality(S) : i # j => s[i] # s[j]
  BY <1>1 DEF SetToSeqs
<1> QED BY <1>2, <1>3

(* The fields of a configuration, and one with other entries.              *)
LEMMA ConfigurationFields ==
  ASSUME NEW c \in Configurations
  PROVE  /\ c.type \in CapturerTypes \cup {None} /\ c.settings \in SUBSET ReadFields
         /\ c.sync_master_serial \in Serials \cup {None}
         /\ c.record_to_directory \in Directories \cup {None}
         /\ c.all_camera_configs \in Seq(Entries)
BY DEF Configurations

LEMMA ConfigurationWithEntries ==
  ASSUME NEW c \in Configurations, NEW entries \in Seq(Entries)
  PROVE  LET d == [c EXCEPT !.all_camera_configs = entries]
         IN /\ d \in Configurations
            /\ d.all_camera_configs = entries
            /\ d.type = c.type /\ d.settings = c.settings
            /\ d.sync_master_serial = c.sync_master_serial
            /\ d.record_to_directory = c.record_to_directory
BY DEF Configurations

LEMMA EntryFields ==
  ASSUME NEW cd \in Entries
  PROVE  /\ cd.serial \in Serials \cup {None} /\ cd.filename \in Serials \cup {None}
         /\ cd.type \in CapturerTypes /\ cd.disabled \in BOOLEAN /\ cd.connected \in BOOLEAN
BY DEF Entries

LEMMA EntryWithConnected ==
  ASSUME NEW cd \in Entries, NEW b \in BOOLEAN
  PROVE  LET d == [cd EXCEPT !.connected = b]
         IN /\ d \in Entries
            /\ d.serial = cd.serial /\ d.filename = cd.filename
            /\ d.type = cd.type /\ d.disabled = cd.disabled
            /\ d.connected = b
BY DEF Entries

(* Connecting entries changes nothing else of them.                        *)
LEMMA ConnectOnlyConnects ==
  ASSUME NEW configs \in Seq(Entries), NEW S
  PROVE  /\ Connect(configs, S) \in Seq(Entries)
         /\ DOMAIN Connect(configs, S) = DOMAIN configs
         /\ Len(Connect(configs, S)) = Len(configs)
         /\ \A k \in DOMAIN configs : Connect(configs, S)[k].serial = configs[k].serial
         /\ \A k \in DOMAIN configs : Connect(configs, S)[k].filename = configs[k].filename
         /\ \A k \in DOMAIN configs : Connect(configs, S)[k].disabled = configs[k].disabled
         /\ \A k \in DOMAIN configs :
              Connect(configs, S)[k].connected <=> (configs[k].connected \/ k \in S)
         /\ \A k \in DOMAIN configs :
              Connect(configs, S)[k] =
                [configs[k] EXCEPT !.connected = Connect(configs, S)[k].connected]
<1> DEFINE C == Connect(configs, S)
<1>1. /\ C = [k \in DOMAIN configs |->
               [configs[k] EXCEPT !.connected = configs[k].connected \/ k \in S]]
      /\ DOMAIN configs = 1 .. Len(configs) /\ Len(configs) \in Nat
  BY DEF Connect
<1> HIDE DEF C
<1>2. ASSUME NEW k \in DOMAIN configs
      PROVE  /\ C[k] \in Entries
             /\ C[k].serial = configs[k].serial /\ C[k].filename = configs[k].filename
             /\ C[k].disabled = configs[k].disabled
             /\ C[k].connected <=> (configs[k].connected \/ k \in S)
             /\ C[k] = [configs[k] EXCEPT !.connected = C[k].connected]
  <2>1. configs[k] \in Entries
    OBVIOUS
  <2>2. PICK b \in BOOLEAN : b = (configs[k].connected \/ k \in S)
    OBVIOUS
  <2>3. C[k] = [configs[k] EXCEPT !.connected = b]
    BY <1>1, <2>2, Zenon
  <2>4. b <=> (configs[k].connected \/ k \in S)
    BY <2>2
  <2> QED BY <2>1, <2>3, <2>4, EntryWithConnected
<1>3. DOMAIN C = 1 .. Len(configs)
  BY <1>1
<1>4. C \in [1 .. Len(configs) -> Entries]
  BY <1>1, <1>2, <1>3
<1>5. C \in Seq(Entries) /\ DOMAIN C = DOMAIN configs /\ Len(C) = Len(configs)
  BY <1>1, <1>3, <1>4
<1> QED BY <1>2, <1>5 DEF C

(* Forgetting what is connected.                                           *)
LEMMA UnconnectedEntries ==
  ASSUME NEW entries \in Seq(Entries)
  PROVE  /\ Unconnected(entries) \in Seq(Entries)
         /\ DOMAIN Unconnected(entries) = DOMAIN entries
         /\ \A i \in DOMAIN entries :
              /\ Unconnected(entries)[i] = [entries[i] EXCEPT !.connected = FALSE]
              /\ ~Unconnected(entries)[i].connected
<1> DEFINE U == Unconnected(entries)
<1>1. /\ U = [i \in DOMAIN entries |-> [entries[i] EXCEPT !.connected = FALSE]]
      /\ DOMAIN entries = 1 .. Len(entries) /\ Len(entries) \in Nat
  BY DEF Unconnected
<1> HIDE DEF U
<1>2. ASSUME NEW i \in DOMAIN entries
      PROVE  /\ U[i] = [entries[i] EXCEPT !.connected = FALSE]
             /\ U[i] \in Entries /\ ~U[i].connected
  <2>1. entries[i] \in Entries /\ FALSE \in BOOLEAN
    OBVIOUS
  <2>2. U[i] = [entries[i] EXCEPT !.connected = FALSE]
    BY <1>1
  <2> QED BY <2>1, <2>2, EntryWithConnected
<1>3. U \in [1 .. Len(entries) -> Entries]
  BY <1>1, <1>2
<1>4. U \in Seq(Entries) /\ DOMAIN U = DOMAIN entries
  BY <1>1, <1>3
<1> QED BY <1>2, <1>4 DEF U

-----------------------------------------------------------------------------
(* Loading a configuration.                                                *)

NoneConnected(entries) == \A i \in DOMAIN entries : ~entries[i].connected

(* What is read from a document is a configuration for this capturer,      *)
(* without anything connected.                                             *)
LEMMA FromStringIsConfiguration ==
  ASSUME NEW d \in Documents, NEW t \in CapturerTypes
  PROVE  LET loaded == from_string(d, t)
         IN /\ loaded.ok \in BOOLEAN
            /\ loaded.configuration \in Configurations
            /\ loaded.configuration.type \in {None, t}
            /\ NoneConnected(loaded.configuration.all_camera_configs)
<1> DEFINE c == _from_json(d)
<1>1. /\ d.type \in CapturerTypes /\ d.ok \in BOOLEAN
      /\ d.sync_master_serial \in Serials \cup {None}
      /\ d.record_to_directory \in Directories \cup {None}
  BY LifecycleAssumption DEF LifecycleAssumption
<1>2. d.camera \in Seq(Entries)
  <2> DEFINE R == [serial : Serials \cup {None}, filename : Serials \cup {None},
                   type : CapturerTypes, disabled : BOOLEAN, connected : {FALSE}]
  <2>1. d.camera \in Seq(R)
    BY LifecycleAssumption DEF LifecycleAssumption
  <2>2. \A cd \in R : cd \in Entries
    BY DEF Entries
  <2> HIDE DEF R
  <2>3. d.camera \in [1 .. Len(d.camera) -> Entries] /\ Len(d.camera) \in Nat
    BY <2>1, <2>2
  <2> QED BY <2>3
<1>3. c \in Configurations /\ c.type = d.type /\ NoneConnected(c.all_camera_configs)
  BY <1>1, <1>2, UnconnectedEntries DEF _from_json, Configurations, NoneConnected
<1>4. /\ DefaultConfig \in Configurations /\ DefaultConfig.type = None
      /\ NoneConnected(DefaultConfig.all_camera_configs)
  <2>1. << >> \in Seq(Entries)
    OBVIOUS
  <2> QED BY <2>1 DEF DefaultConfig, Configurations, NoneConnected
<1>5. CASE d.version # 5 \/ d.type # t
  BY <1>4, <1>5 DEF from_string
<1>6. CASE ~(d.version # 5 \/ d.type # t)
  BY <1>1, <1>3, <1>6 DEF from_string
<1> QED BY <1>5, <1>6

(* LoadConfig() keeps the types and starts afresh.                         *)
LEMMA LoadConfigKeepsTypes ==
  ASSUME NEW config \in Configurations, NEW ok \in BOOLEAN,
         config.type \in {None, type}, NoneConnected(config.all_camera_configs),
         _is_initialized \in BOOLEAN,
         LoadConfig(config, ok)
  PROVE  /\ configuration' \in Configurations /\ configuration'.type \in {None, type}
         /\ NoneConnected(configuration'.all_camera_configs)
         /\ _is_initialized' \in BOOLEAN
         /\ created_before' = {} /\ recording' = NoRecording
<1>1. /\ configuration' =
           IF ok /\ DebugLog THEN [config EXCEPT !.settings = config.settings \cup {"debug"}]
                             ELSE config
      /\ _is_initialized' = (ok /\ (config.all_camera_configs # << >> \/ _is_initialized))
      /\ created_before' = {} /\ recording' = NoRecording
  BY DEF LoadConfig
<1>2. LET c == [config EXCEPT !.settings = config.settings \cup {"debug"}]
      IN c \in Configurations /\ c.type = config.type
           /\ c.all_camera_configs = config.all_camera_configs
  BY DEF Configurations, ReadFields
<1> QED BY <1>1, <1>2

LEMMA SetBaseDirectory ==
  ASSUME LifeTypeOK, NEW d \in Directories \cup {None}, NEW ok \in BOOLEAN,
         set_base_directory(d, ok)
  PROVE  base_directory' \in Directories \cup {None}
BY DEF LifeTypeOK, set_base_directory

(* ... from a document, or from the devices.                               *)
LEMMA ApplyConfigResult ==
  ASSUME LifeTypeOK, _apply_config
  PROVE  /\ configuration' \in Configurations /\ configuration'.type \in {None, type}
         /\ NoneConnected(configuration'.all_camera_configs)
         /\ _is_initialized' \in BOOLEAN
         /\ created_before' = {} /\ recording' = NoRecording
         /\ base_directory' \in Directories \cup {None}
<1>1. type \in CapturerTypes /\ _is_initialized \in BOOLEAN /\ deviceList \in DeviceLists
  BY DEF LifeTypeOK
<1>2. CASE _apply_document
  <2>1. PICK document \in Documents, directory \in Directories \cup {None} :
          /\ LoadConfig(from_string(document, type).configuration,
                        from_string(document, type).ok)
          /\ set_base_directory(directory, from_string(document, type).ok)
    BY <1>2 DEF _apply_document
  <2>2. /\ from_string(document, type).ok \in BOOLEAN
        /\ from_string(document, type).configuration \in Configurations
        /\ from_string(document, type).configuration.type \in {None, type}
        /\ NoneConnected(from_string(document, type).configuration.all_camera_configs)
    BY <1>1, FromStringIsConfiguration
  <2> QED BY <1>1, <2>1, <2>2, LoadConfigKeepsTypes, SetBaseDirectory
<1>3. CASE _apply_auto_config
  <2> DEFINE Entry(s) == [serial |-> s, filename |-> None, type |-> "orbbec",
                          disabled |-> FALSE, connected |-> FALSE]
             entries == [i \in DOMAIN deviceList |-> Entry(deviceList[i])]
             config == [DefaultConfig EXCEPT !.all_camera_configs = entries]
  <2>1. PICK ok \in BOOLEAN : ok = (type = "orbbec" /\ deviceList # << >>)
    OBVIOUS
  <2>2. LoadConfig(config, ok) /\ set_base_directory(None, ok)
    BY <1>3, <2>1 DEF _apply_auto_config
  <2>3. deviceList \in Seq(Serials)
    BY <1>1, DeviceListsAreInjective
  <2>4. \A s \in Serials : Entry(s) \in Entries /\ ~Entry(s).connected
    BY DEF Entries, CapturerTypes
  <2>5. entries \in Seq(Entries) /\ NoneConnected(entries)
    <3>1. /\ DOMAIN deviceList = 1 .. Len(deviceList) /\ Len(deviceList) \in Nat
          /\ \A i \in DOMAIN deviceList : deviceList[i] \in Serials
      BY <2>3
    <3>2. entries \in [1 .. Len(deviceList) -> Entries]
      BY <2>4, <3>1
    <3>3. \A i \in DOMAIN entries : entries[i] = Entry(deviceList[i])
      OBVIOUS
    <3>4. \A i \in DOMAIN entries : ~entries[i].connected
      <4> HIDE DEF Entry
      <4> QED BY <2>4, <3>1, <3>3
    <3> HIDE DEF entries
    <3> QED BY <3>1, <3>2, <3>4 DEF NoneConnected
  <2>6. config \in Configurations /\ config.type = None
        /\ config.all_camera_configs = entries
    <3> HIDE DEF entries
    <3> QED BY <2>5 DEF Configurations, DefaultConfig
  <2> HIDE DEF config, entries
  <2> QED BY <1>1, <2>2, <2>5, <2>6, LoadConfigKeepsTypes, SetBaseDirectory
<1> QED BY <1>2, <1>3 DEF _apply_config

-----------------------------------------------------------------------------
(* The initial states.                                                     *)
LEMMA LifeInitInv ==
  ASSUME LifeInit
  PROVE  LifeInv
<1>1. /\ configuration \in Configurations /\ configuration.type = None
      /\ configuration.all_camera_configs = << >>
  <2>1. << >> \in Seq(Entries)
    OBVIOUS
  <2> QED BY <2>1 DEF LifeInit, DefaultConfig, Configurations
<1>2. LifeTypeOK
  <2>1. /\ cameras \in Seq([handle : Serials, serial : Serials \cup {None},
                           directory : Directories \cup {None}])
        /\ devices \in Seq(Serials) /\ entry \in 1 .. Len(all_camera_configs) + 1
        /\ Len(cameras) <= Len(all_camera_configs)
    BY <1>1 DEF LifeInit, all_camera_configs
  <2>2. {base_directory, recording.directory} \subseteq Directories \cup {None}
    BY DEF LifeInit, NoRecording
  <2>3. type \in CapturerTypes /\ deviceList \in DeviceLists
    BY DEF LifeInit
  <2>4. _is_initialized \in BOOLEAN /\ control_thread \in BOOLEAN /\ start_error \in BOOLEAN
    BY DEF LifeInit
  <2>5. /\ pipelines \subseteq DOMAIN cameras /\ processing \subseteq DOMAIN cameras
        /\ recorders \subseteq DOMAIN cameras /\ toStart \subseteq DOMAIN cameras
    BY DEF LifeInit
  <2>6. /\ created_before \subseteq Serials
        /\ ownPC \in {"new", "idle", "create", "check", "start", "unload", "thrown", "gone"}
    BY DEF LifeInit
  <2> QED BY <1>1, <2>1, <2>2, <2>3, <2>4, <2>5, <2>6 DEF LifeTypeOK
<1>3. RunInv
  BY DEF LifeInit, RunInv, Starting, records
<1>4. CreateInv
  BY DEF LifeInit, CreateInv
<1>5. EntryInv
  BY <1>1 DEF LifeInit, EntryInv, Starting, all_camera_configs
<1>6. PlaceInv
  BY DEF LifeInit, PlaceInv
<1>7. RecordInv
  BY DEF LifeInit, RecordInv, Starting, NoRecording
<1> QED BY <1>2, <1>3, <1>4, <1>5, <1>6, <1>7 DEF LifeInv

(* A configuration is only loaded when there are no cameras.               *)
LEMMA LoadStep ==
  ASSUME LifeInv, cwipc_orbbec \/ config_reload
  PROVE  LifeInv'
<1> USE DEF LifeInv
<1>1. /\ _apply_config
      /\ ownPC \in {"new", "idle"} /\ ownPC' \in {"idle", "gone"}
      /\ UNCHANGED << type, deviceList, devices, entry, cameras, pipelines, processing, recorders,
                      control_thread, toStart, start_error >>
  BY DEF cwipc_orbbec, config_reload, createVars, cameraVars, startVars
<1>2. ~control_thread /\ cameras = << >> /\ pipelines = {} /\ recorders = {}
  BY <1>1 DEF cwipc_orbbec, config_reload, RunInv, LifeTypeOK, Starting
<1>3. /\ configuration' \in Configurations /\ configuration'.type \in {None, type}
      /\ NoneConnected(configuration'.all_camera_configs)
      /\ _is_initialized' \in BOOLEAN
      /\ created_before' = {} /\ recording' = NoRecording
      /\ base_directory' \in Directories \cup {None}
  BY <1>1, ApplyConfigResult
<1>4. LifeTypeOK'
  <2>1. configuration'.all_camera_configs \in Seq(Entries)
    BY <1>3, ConfigurationFields
  <2>2. entry = 1
    BY <1>1 DEF CreateInv
  <2>3. /\ Len(cameras') <= Len(configuration'.all_camera_configs)
        /\ entry' \in 1 .. Len(configuration'.all_camera_configs) + 1
    BY <1>1, <1>2, <2>1, <2>2
  <2> QED BY <1>1, <1>2, <1>3, <2>3 DEF LifeTypeOK, all_camera_configs, NoRecording
<1>5. RunInv'
  BY <1>1, <1>2 DEF RunInv, Starting
<1>6. CreateInv'
  BY <1>1, <1>2 DEF CreateInv
<1>7. EntryInv'
  BY <1>1, <1>2, <1>3 DEF EntryInv, Starting, NoneConnected, all_camera_configs
<1>8. PlaceInv'
  BY <1>1, <1>2, <1>3 DEF PlaceInv
<1>9. RecordInv'
  BY <1>1, <1>2, <1>3 DEF RecordInv, Starting, NoRecording
<1> QED BY <1>4, <1>5, <1>6, <1>7, <1>8, <1>9

LEMMA StartStep ==
  ASSUME LifeInv, start
  PROVE  LifeInv'
<1> USE DEF LifeInv
<1>1. /\ ownPC = "idle" /\ ownPC' = "create" /\ ~control_thread
      /\ devices' = deviceList /\ entry' = 1
      /\ recording' = NoRecording
      /\ UNCHANGED << type, deviceList, configuration, base_directory, _is_initialized,
                      cameras, pipelines, processing, recorders, control_thread,
                      toStart, start_error, created_before >>
  BY DEF start, ownStep, configVars, cameraVars, startVars
<1>2. cameras = << >> /\ pipelines = {} /\ processing = {} /\ recorders = {} /\ toStart = {}
  BY <1>1 DEF RunInv, Starting, LifeTypeOK
<1>3. deviceList \in Seq(Serials)
      /\ \A i, j \in DOMAIN deviceList : deviceList[i] = deviceList[j] => i = j
  BY DeviceListsAreInjective DEF LifeTypeOK
<1>4. LifeTypeOK'
  <2>1. configuration.all_camera_configs \in Seq(Entries)
    BY ConfigurationFields DEF LifeTypeOK
  <2>2. entry' \in 1 .. Len(configuration'.all_camera_configs) + 1
    BY <1>1, <2>1
  <2> QED BY <1>1, <1>3, <2>2 DEF LifeTypeOK, all_camera_configs, NoRecording
<1>5. RunInv'
  BY <1>1, <1>2 DEF RunInv, Starting
<1>6. CreateInv'
  BY <1>1, <1>2, <1>3 DEF CreateInv
<1>7. EntryInv'
  <2>1. configuration.all_camera_configs \in Seq(Entries)
    BY ConfigurationFields DEF LifeTypeOK
  <2>2. \A i \in DOMAIN configuration'.all_camera_configs : ~(i < entry')
    BY <1>1, <2>1
  <2> QED BY <1>1, <2>2 DEF EntryInv, HasCamera, all_camera_configs
<1>8. PlaceInv'
  BY <1>1, <1>2 DEF PlaceInv
<1>9. RecordInv'
  BY <1>1, <1>2 DEF RecordInv, Starting, NoRecording
<1> QED BY <1>4, <1>5, <1>6, <1>7, <1>8, <1>9

-----------------------------------------------------------------------------
(* Creating cameras.                                                       *)

CameraRecords ==
  [handle : Serials, serial : Serials \cup {None}, directory : Directories \cup {None}]

(* Cameras of distinct devices, each with an entry for its device, are not *)
(* more than there are entries.                                            *)
LEMMA NoMoreCamerasThanEntries ==
  ASSUME NEW cams \in Seq(CameraRecords), NEW configs \in Seq(Entries),
         \A k \in DOMAIN cams :
           /\ \A j \in DOMAIN cams : cams[j].handle = cams[k].handle => j = k
           /\ \E i \in DOMAIN configs : configs[i].serial = cams[k].handle
  PROVE  Len(cams) <= Len(configs)
<1> DEFINE n == Len(cams)
           m == Len(configs)
           S == 1 .. n
           T == 1 .. m
           f == [k \in S |-> CHOOSE i \in T : configs[i].serial = cams[k].handle]
<1>1. n \in Nat /\ m \in Nat /\ DOMAIN cams = S /\ DOMAIN configs = T
  OBVIOUS
<1>2. \A k \in S : f[k] \in T /\ configs[f[k]].serial = cams[k].handle
  BY <1>1
<1>3. f \in [S -> T]
  BY <1>2
<1>4. /\ IsFiniteSet(S) /\ Cardinality(S) = n
      /\ IsFiniteSet(T) /\ Cardinality(T) = m
  <2>1. \A l \in Nat : IsFiniteSet(1 .. l) /\ Cardinality(1 .. l) = l
    BY FS_Interval
  <2> HIDE DEF n, m
  <2> QED BY <1>1, <2>1
<1> HIDE DEF n, m, S, T, f
<1>5. SUFFICES ASSUME m < n PROVE FALSE
  BY <1>1 DEF n, m
<1>6. PICK k, j \in S : k # j /\ f[k] = f[j]
  BY <1>3, <1>4, <1>5, FS_PigeonHole
<1> QED BY <1>1, <1>2, <1>6

(* A camera is added behind the others.                                    *)
LEMMA CreateCameraAppends ==
  ASSUME cameras \in Seq(CameraRecords), NEW handle \in Serials,
         NEW configs \in Seq(Entries), NEW directory \in Directories \cup {None},
         CreateCamera(handle, configs, directory)
  PROVE  /\ cameras' \in Seq(CameraRecords)
         /\ Len(cameras') = Len(cameras) + 1 /\ Len(cameras) \in Nat
         /\ DOMAIN cameras = 1 .. Len(cameras) /\ DOMAIN cameras' = 1 .. Len(cameras) + 1
         /\ \A k \in DOMAIN cameras : cameras'[k] = cameras[k]
         /\ cameras'[Len(cameras) + 1].handle = handle
         /\ cameras'[Len(cameras) + 1].directory = directory
<1> DEFINE cam == Camera(handle, Len(cameras) + 1, configs, directory)
<1>1. cam \in CameraRecords /\ cam.handle = handle /\ cam.directory = directory
  <2>1. CASE Len(cameras) + 1 \in DOMAIN configs
    BY <2>1, EntryFields DEF Camera, CameraRecords
  <2>2. CASE Len(cameras) + 1 \notin DOMAIN configs
    BY <2>2 DEF Camera, CameraRecords
  <2> QED BY <2>1, <2>2
<1>2. cameras' = Append(cameras, cam)
  BY DEF CreateCamera
<1> HIDE DEF cam
<1> QED BY <1>1, <1>2

(* The cameras' handles that are in use.                                   *)
LEMMA HasCameraStays ==
  ASSUME Len(cameras) \in Nat, DOMAIN cameras = 1 .. Len(cameras),
         DOMAIN cameras' = 1 .. Len(cameras) + 1,
         \A k \in DOMAIN cameras : cameras'[k] = cameras[k]
  PROVE  /\ \A h : HasCamera(h) => HasCamera(h)'
         /\ \A h : cameras'[Len(cameras) + 1].handle = h => HasCamera(h)'
<1>1. ASSUME NEW h, HasCamera(h) PROVE HasCamera(h)'
  <2>1. PICK k \in DOMAIN cameras : cameras[k].handle = h
    BY <1>1 DEF HasCamera
  <2>2. k \in DOMAIN cameras' /\ cameras'[k].handle = h
    BY <2>1
  <2> QED BY <2>2 DEF HasCamera
<1>2. ASSUME NEW h, cameras'[Len(cameras) + 1].handle = h PROVE HasCamera(h)'
  BY <1>2 DEF HasCamera
<1> QED BY <1>1, <1>2

(* What _create_cameras() leaves alone.                                    *)
CreateFrame ==
  /\ ownPC = "create"
  /\ UNCHANGED << type, deviceList, base_directory, _is_initialized, pipelines, processing,
                  recorders, control_thread, toStart, start_error, recording, created_before >>

(* Before the loop goes on: nothing runs, and what entry refers to.        *)
LEMMA CreateFacts ==
  ASSUME LifeInv, ownPC = "create"
  PROVE  /\ ~control_thread /\ pipelines = {} /\ processing = {} /\ recorders = {}
         /\ toStart = {} /\ ~recording.played
         /\ all_camera_configs \in Seq(Entries)
         /\ configuration \in Configurations /\ configuration.type \in {None, type}
         /\ configuration.record_to_directory \in Directories \cup {None}
         /\ cameras \in Seq(CameraRecords) /\ Len(cameras) <= Len(all_camera_configs)
         /\ devices \in Seq(Serials) /\ entry \in 1 .. Len(all_camera_configs) + 1
         /\ base_directory \in Directories \cup {None}
<1> USE DEF LifeInv
<1>1. ~control_thread /\ pipelines = {} /\ processing = {} /\ recorders = {} /\ toStart = {}
  BY DEF RunInv, Starting
<1>2. ~recording.played
  BY DEF RecordInv, Starting
<1>3. all_camera_configs \in Seq(Entries)
      /\ configuration.record_to_directory \in Directories \cup {None}
  BY ConfigurationFields DEF LifeTypeOK, all_camera_configs
<1> QED BY <1>1, <1>2, <1>3 DEF LifeTypeOK, CameraRecords

(* The parts of the invariant that do not depend on how the loop goes on.  *)
LEMMA CreateKeeps ==
  ASSUME LifeInv, CreateFrame, ownPC' \in {"create", "check", "unload"},
         configuration' \in Configurations, configuration'.type = configuration.type,
         cameras' \in Seq(CameraRecords), Len(cameras') <= Len(all_camera_configs'),
         devices' \in Seq(Serials), entry' \in 1 .. Len(all_camera_configs') + 1
  PROVE  LifeTypeOK' /\ RunInv' /\ RecordInv'
<1>1. /\ ~control_thread /\ pipelines = {} /\ processing = {} /\ recorders = {}
      /\ toStart = {} /\ ~recording.played
  BY CreateFacts DEF CreateFrame
<1>2. LifeTypeOK'
  <2>1. configuration'.type \in {None, type'}
    BY CreateFacts DEF CreateFrame
  <2>2. LifeTypeOK
    BY DEF LifeInv
  <2> QED BY <1>1, <2>1, <2>2 DEF LifeTypeOK, CreateFrame, CameraRecords
<1>3. RunInv'
  BY <1>1 DEF RunInv, CreateFrame, Starting
<1>4. RecordInv'
  BY <1>1 DEF RecordInv, CreateFrame, Starting
<1> QED BY <1>2, <1>3, <1>4

LEMMA CreateDeviceStep ==
  ASSUME LifeInv, CreateFrame, type = "orbbec", _create_camera_device
  PROVE  LifeInv'
<1> DEFINE serial == Head(devices)
<1>1. /\ ~control_thread
      /\ all_camera_configs \in Seq(Entries)
      /\ configuration \in Configurations
      /\ configuration.record_to_directory \in Directories \cup {None}
      /\ cameras \in Seq(CameraRecords) /\ Len(cameras) <= Len(all_camera_configs)
      /\ devices \in Seq(Serials)
  BY CreateFacts DEF CreateFrame
<1>2. devices # << >> /\ entry' = entry /\ entry = 1
  BY DEF _create_camera_device, LifeInv, CreateInv
<1>3. /\ serial \in Serials /\ serial = devices[1]
      /\ Tail(devices) \in Seq(Serials)
      /\ \A i \in DOMAIN Tail(devices) :
           Tail(devices)[i] = devices[i + 1] /\ i + 1 \in DOMAIN devices /\ i + 1 # 1
      /\ 1 \in DOMAIN devices
  BY <1>1, <1>2
<1>4. CASE Refused(serial)
  <2>1. ownPC' = "unload" /\ devices' = << >> /\ UNCHANGED << cameras, configuration >>
    BY <1>4 DEF _create_camera_device
  <2>2. LifeTypeOK' /\ RunInv' /\ RecordInv'
    BY <1>1, <1>2, <2>1, CreateKeeps DEF all_camera_configs
  <2>3. CreateInv'
    BY <1>2, <2>1 DEF LifeInv, CreateInv, CreateFrame
  <2>4. EntryInv'
    BY <1>1, <2>1 DEF LifeInv, EntryInv, CreateFrame, HasCamera, all_camera_configs
  <2>5. PlaceInv'
    BY <2>1 DEF LifeInv, PlaceInv, CreateFrame
  <2> QED BY <2>2, <2>3, <2>4, <2>5 DEF LifeInv
<1>5. CASE ~Refused(serial) /\ Disabled(serial)
  <2>1. devices' = Tail(devices) /\ UNCHANGED << ownPC, cameras, configuration >>
    BY <1>5 DEF _create_camera_device
  <2>2. LifeTypeOK' /\ RunInv' /\ RecordInv'
    BY <1>1, <1>2, <1>3, <2>1, CreateKeeps DEF all_camera_configs, CreateFrame
  <2>3. CreateInv'
    BY <1>2, <1>3, <2>1 DEF LifeInv, CreateInv, CreateFrame, all_camera_configs
  <2>4. EntryInv'
    BY <1>1, <1>2, <2>1 DEF LifeInv, EntryInv, CreateFrame, Starting, HasCamera, all_camera_configs
  <2>5. PlaceInv'
    BY <2>1 DEF LifeInv, PlaceInv, CreateFrame
  <2> QED BY <2>2, <2>3, <2>4, <2>5 DEF LifeInv
<1>6. CASE ~Refused(serial) /\ ~Disabled(serial)
  <2> DEFINE G == get_camera_config(serial)
  <2>1. /\ CreateCamera(serial, all_camera_configs, configuration.record_to_directory)
        /\ configuration' = [configuration EXCEPT !.all_camera_configs =
                               Connect(all_camera_configs, G)]
        /\ devices' = Tail(devices)
        /\ UNCHANGED ownPC
    BY <1>6 DEF _create_camera_device
  <2>2. /\ cameras' \in Seq(CameraRecords)
        /\ Len(cameras') = Len(cameras) + 1 /\ Len(cameras) \in Nat
        /\ DOMAIN cameras = 1 .. Len(cameras) /\ DOMAIN cameras' = 1 .. Len(cameras) + 1
        /\ \A k \in DOMAIN cameras : cameras'[k] = cameras[k]
        /\ cameras'[Len(cameras) + 1].handle = serial
        /\ cameras'[Len(cameras) + 1].directory = configuration.record_to_directory
    BY <1>1, <1>3, <2>1, CreateCameraAppends
  <2>3. /\ configuration' \in Configurations /\ configuration'.type = configuration.type
        /\ configuration'.record_to_directory = configuration.record_to_directory
        /\ all_camera_configs' \in Seq(Entries)
        /\ DOMAIN all_camera_configs' = DOMAIN all_camera_configs
        /\ Len(all_camera_configs') = Len(all_camera_configs)
        /\ \A k \in DOMAIN all_camera_configs :
             /\ all_camera_configs'[k].serial = all_camera_configs[k].serial
             /\ all_camera_configs'[k].connected <=> (all_camera_configs[k].connected \/ k \in G)
    <3> DEFINE configs == Connect(all_camera_configs, G)
    <3>1. /\ configs \in Seq(Entries)
          /\ DOMAIN configs = DOMAIN all_camera_configs
          /\ Len(configs) = Len(all_camera_configs)
          /\ \A k \in DOMAIN all_camera_configs :
               /\ configs[k].serial = all_camera_configs[k].serial
               /\ configs[k].connected <=> (all_camera_configs[k].connected \/ k \in G)
      <4> HIDE DEF G
      <4>1. /\ configs \in Seq(Entries)
            /\ DOMAIN configs = DOMAIN all_camera_configs
            /\ Len(configs) = Len(all_camera_configs)
        BY <1>1, ConnectOnlyConnects
      <4>2. \A k \in DOMAIN all_camera_configs :
              configs[k].serial = all_camera_configs[k].serial
        BY <1>1, ConnectOnlyConnects
      <4>3. \A k \in DOMAIN all_camera_configs :
              configs[k].connected <=> (all_camera_configs[k].connected \/ k \in G)
        BY <1>1, ConnectOnlyConnects
      <4> QED BY <4>1, <4>2, <4>3
    <3>2. configuration' = [configuration EXCEPT !.all_camera_configs = configs]
      BY <2>1
    <3> HIDE DEF configs
    <3>3. /\ configuration' \in Configurations /\ configuration'.type = configuration.type
          /\ configuration'.record_to_directory = configuration.record_to_directory
          /\ configuration'.all_camera_configs = configs
      BY <1>1, <3>1, <3>2, ConfigurationWithEntries
    <3>4. all_camera_configs' = configs
      BY <3>3 DEF all_camera_configs
    <3> QED BY <3>1, <3>3, <3>4
  <2>4. \A i \in G : i \in DOMAIN all_camera_configs /\ all_camera_configs[i].serial = serial
    BY DEF get_camera_config
  <2>5. PICK i \in DOMAIN all_camera_configs : all_camera_configs[i].serial = serial
    BY <1>6, <2>4 DEF Refused
  <2>6. CreateInv'
    <3>1. \A k \in DOMAIN cameras :
            /\ \A j \in DOMAIN devices : devices[j] # cameras[k].handle
            /\ \A j \in DOMAIN cameras : cameras[j].handle = cameras[k].handle => j = k
            /\ \E j \in DOMAIN all_camera_configs : all_camera_configs[j].serial = cameras[k].handle
      BY DEF CreateFrame, LifeInv, CreateInv
    <3>2. \A k, j \in DOMAIN devices : devices[k] = devices[j] => k = j
      BY DEF LifeInv, CreateInv
    <3>3. \A k, j \in DOMAIN devices' : devices'[k] = devices'[j] => k = j
      BY <1>3, <2>1, <3>2
    <3>4. ASSUME NEW k \in DOMAIN cameras'
          PROVE  /\ \A j \in DOMAIN devices' : devices'[j] # cameras'[k].handle
                 /\ \A j \in DOMAIN cameras' : cameras'[j].handle = cameras'[k].handle => j = k
                 /\ \E j \in DOMAIN all_camera_configs' :
                      all_camera_configs'[j].serial = cameras'[k].handle
      <4>1. CASE k \in DOMAIN cameras
        <5>1. cameras'[k] = cameras[k]
          BY <2>2, <4>1
        <5>2. \A j \in DOMAIN devices' : devices'[j] # cameras'[k].handle
          BY <1>3, <2>1, <3>1, <4>1, <5>1
        <5>3. serial # cameras[k].handle
          BY <1>3, <3>1, <4>1
        <5>4. \A j \in DOMAIN cameras' : cameras'[j].handle = cameras'[k].handle => j = k
          BY <2>2, <3>1, <4>1, <5>1, <5>3
        <5>5. \E j \in DOMAIN all_camera_configs' :
                all_camera_configs'[j].serial = cameras'[k].handle
          BY <2>3, <3>1, <4>1, <5>1
        <5> QED BY <5>2, <5>4, <5>5
      <4>2. CASE k = Len(cameras) + 1
        <5>1. cameras'[k].handle = serial
          BY <2>2, <4>2
        <5>2. \A j \in DOMAIN devices' : devices'[j] # serial
          BY <1>3, <2>1, <3>2
        <5>3. \A j \in DOMAIN cameras : cameras'[j].handle # serial
          BY <1>3, <2>2, <3>1
        <5>4. \A j \in DOMAIN cameras' : cameras'[j].handle = serial => j = k
          BY <2>2, <4>2, <5>3
        <5>5. \E j \in DOMAIN all_camera_configs' : all_camera_configs'[j].serial = serial
          BY <2>3, <2>5
        <5> QED BY <5>1, <5>2, <5>4, <5>5
      <4> QED BY <2>2, <4>1, <4>2
    <3> QED BY <1>2, <2>1, <3>3, <3>4 DEF CreateInv, CreateFrame
  <2>7. Len(cameras') <= Len(all_camera_configs')
    <3>1. \A k \in DOMAIN cameras' :
            /\ \A j \in DOMAIN cameras' : cameras'[j].handle = cameras'[k].handle => j = k
            /\ \E j \in DOMAIN all_camera_configs' :
                 all_camera_configs'[j].serial = cameras'[k].handle
      BY <2>1, <2>6 DEF CreateInv, CreateFrame
    <3> QED BY <2>2, <2>3, <3>1, NoMoreCamerasThanEntries
  <2>8. LifeTypeOK' /\ RunInv' /\ RecordInv'
    BY <1>1, <1>2, <1>3, <2>1, <2>2, <2>3, <2>7, CreateKeeps DEF CreateFrame
  <2>9. EntryInv'
    <3>1. ASSUME NEW j \in DOMAIN all_camera_configs', all_camera_configs'[j].connected
          PROVE  \/ HasCamera(all_camera_configs[j].serial)'
                 \/ all_camera_configs'[j].serial \in created_before
      <4>1. CASE all_camera_configs[j].connected
        <5>1. \/ HasCamera(all_camera_configs[j].serial)
              \/ all_camera_configs[j].serial \in created_before
          BY <2>3, <3>1, <4>1 DEF LifeInv, EntryInv
        <5>2. \A h : HasCamera(h) => HasCamera(h)'
          BY <2>2, HasCameraStays
        <5>3. all_camera_configs'[j].serial = all_camera_configs[j].serial
          BY <2>3, <3>1
        <5> QED BY <5>1, <5>2, <5>3 DEF HasCamera
      <4>2. CASE j \in G
        <5>1. all_camera_configs'[j].serial = serial
          BY <2>3, <2>4, <3>1, <4>2
        <5>2. cameras'[Len(cameras) + 1].handle = serial /\ Len(cameras) + 1 \in DOMAIN cameras'
          BY <2>2
        <5> QED BY <5>1, <5>2 DEF HasCamera
      <4> QED BY <2>3, <3>1, <4>1, <4>2
    <3> QED BY <1>1, <2>1, <3>1 DEF EntryInv, CreateFrame, Starting
  <2>10. PlaceInv'
    <3>1. \A k \in DOMAIN cameras' : cameras'[k].directory = configuration'.record_to_directory
      BY <2>2, <2>3 DEF LifeInv, PlaceInv
    <3> QED BY <3>1 DEF PlaceInv, CreateFrame
  <2> QED BY <2>6, <2>8, <2>9, <2>10 DEF LifeInv
<1> QED BY <1>4, <1>5, <1>6

(* Recordings: a name that is filled in is the one that was meant.         *)
LEMMA WithSerialIsSameRecording ==
  ASSUME NEW cd \in Entries
  PROVE  /\ WithSerial(cd) \in Entries
         /\ recording_filename(WithSerial(cd)) = recording_filename(cd)
         /\ WithSerial(cd).disabled = cd.disabled
         /\ ~RejectedRecording(cd) => recording_filename(cd) \in Serials
<1>1. CASE cd.serial = None
  BY <1>1 DEF Entries, WithSerial, recording_filename, RejectedRecording, Nameless
<1>2. CASE cd.serial # None
  BY <1>2 DEF Entries, WithSerial, recording_filename, RejectedRecording, Nameless
<1> QED BY <1>1, <1>2

LEMMA ReplacedEntry ==
  ASSUME NEW configs \in Seq(Entries), NEW i \in DOMAIN configs, NEW e \in Entries
  PROVE  LET new == [configs EXCEPT ![i] = e]
         IN /\ new \in Seq(Entries) /\ DOMAIN new = DOMAIN configs /\ Len(new) = Len(configs)
            /\ \A k \in DOMAIN configs : new[k] = IF k = i THEN e ELSE configs[k]
OBVIOUS

SameRecordings(new, old) ==
  /\ new \in Seq(Entries) /\ DOMAIN new = DOMAIN old /\ Len(new) = Len(old)
  /\ \A k \in DOMAIN old :
       new[k].disabled = old[k].disabled /\ recording_filename(new[k]) = recording_filename(old[k])

(* What happens to the entries in a round of the loop.                     *)
LEMMA RecordingEntries ==
  ASSUME NEW configs \in Seq(Entries), NEW i \in DOMAIN configs
  PROVE  LET new == [configs EXCEPT ![i] = WithSerial(configs[i])]
         IN SameRecordings(new, configs) /\ SameRecordings(Connect(new, {i}), configs)
<1> DEFINE new == [configs EXCEPT ![i] = WithSerial(configs[i])]
           con == Connect(new, {i})
<1>1. configs[i] \in Entries /\ WithSerial(configs[i]) \in Entries
  BY WithSerialIsSameRecording
<1>2. /\ new \in Seq(Entries) /\ DOMAIN new = DOMAIN configs /\ Len(new) = Len(configs)
      /\ \A k \in DOMAIN configs : new[k] = IF k = i THEN WithSerial(configs[i]) ELSE configs[k]
  BY <1>1, ReplacedEntry
<1> HIDE DEF new
<1>3. /\ con \in Seq(Entries) /\ DOMAIN con = DOMAIN new /\ Len(con) = Len(new)
      /\ \A k \in DOMAIN new : con[k].serial = new[k].serial
      /\ \A k \in DOMAIN new : con[k].filename = new[k].filename
      /\ \A k \in DOMAIN new : con[k].disabled = new[k].disabled
  BY <1>2, ConnectOnlyConnects
<1> HIDE DEF con
<1>4. \A k \in DOMAIN configs :
        /\ new[k].disabled = configs[k].disabled
        /\ recording_filename(new[k]) = recording_filename(configs[k])
  BY <1>1, <1>2, WithSerialIsSameRecording
<1>5. \A k \in DOMAIN configs :
        /\ con[k].disabled = configs[k].disabled
        /\ recording_filename(con[k]) = recording_filename(new[k])
  BY <1>2, <1>3, <1>4 DEF recording_filename
<1> QED BY <1>2, <1>3, <1>4, <1>5 DEF SameRecordings, new, con

LEMMA CreateRecordingStep ==
  ASSUME LifeInv, CreateFrame, type = "orbbec_playback", _create_camera_recording
  PROVE  LifeInv'
<1> DEFINE cd == all_camera_configs[entry]
           configs == [all_camera_configs EXCEPT ![entry] = WithSerial(cd)]
<1>1. /\ ~control_thread
      /\ all_camera_configs \in Seq(Entries)
      /\ configuration \in Configurations
      /\ base_directory \in Directories \cup {None}
      /\ cameras \in Seq(CameraRecords) /\ Len(cameras) <= Len(all_camera_configs)
  BY CreateFacts DEF CreateFrame
<1>2. /\ entry \in DOMAIN all_camera_configs /\ entry \in Nat /\ cd \in Entries
      /\ Len(cameras) < entry
      /\ devices' = devices /\ devices = << >> /\ deviceList = << >>
  <2>1. /\ Len(cameras) < entry /\ devices = << >> /\ deviceList = << >>
    BY DEF LifeInv, CreateInv, CreateFrame
  <2> QED BY <1>1, <2>1 DEF _create_camera_recording
<1>3. SameRecordings(configs, all_camera_configs)
      /\ SameRecordings(Connect(configs, {entry}), all_camera_configs)
  BY <1>1, <1>2, RecordingEntries
<1>4. configs \in Seq(Entries) /\ Connect(configs, {entry}) \in Seq(Entries)
  BY <1>3 DEF SameRecordings
<1> HIDE DEF configs
<1>5. ASSUME NEW new \in Seq(Entries),
             configuration' = [configuration EXCEPT !.all_camera_configs = new]
      PROVE  /\ configuration' \in Configurations /\ configuration'.type = configuration.type
             /\ configuration'.record_to_directory = configuration.record_to_directory
             /\ all_camera_configs' = new
  <2>1. configuration'.all_camera_configs = new
    BY <1>1, <1>5, ConfigurationWithEntries
  <2> QED BY <1>1, <1>5, <2>1, ConfigurationWithEntries DEF all_camera_configs
<1>6. CASE RejectedRecording(cd)
  <2>1. /\ ownPC' = "unload" /\ entry' = 1 /\ cameras' = cameras
        /\ configuration' = [configuration EXCEPT !.all_camera_configs = configs]
    BY <1>6 DEF _create_camera_recording, configs
  <2>2. /\ configuration' \in Configurations /\ configuration'.type = configuration.type
        /\ SameRecordings(all_camera_configs', all_camera_configs)
    BY <1>3, <1>4, <1>5, <2>1
  <2>3. LifeTypeOK' /\ RunInv' /\ RecordInv'
    BY <1>1, <1>2, <2>1, <2>2, CreateKeeps DEF SameRecordings
  <2>4. CreateInv'
    BY <1>2, <2>1 DEF CreateInv, CreateFrame
  <2>5. EntryInv'
    BY <1>1, <2>1 DEF EntryInv, CreateFrame, Starting
  <2>6. PlaceInv'
    BY <2>1 DEF LifeInv, PlaceInv, CreateFrame
  <2> QED BY <2>3, <2>4, <2>5, <2>6 DEF LifeInv
<1>7. CASE ~RejectedRecording(cd) /\ cd.disabled
  <2>1. /\ entry' = entry + 1 /\ UNCHANGED << ownPC, cameras >>
        /\ configuration' = [configuration EXCEPT !.all_camera_configs = configs]
    BY <1>7 DEF _create_camera_recording, configs
  <2>2. /\ configuration' \in Configurations /\ configuration'.type = configuration.type
        /\ SameRecordings(all_camera_configs', all_camera_configs)
    BY <1>3, <1>4, <1>5, <2>1
  <2>3. LifeTypeOK' /\ RunInv' /\ RecordInv'
    BY <1>1, <1>2, <2>1, <2>2, CreateKeeps DEF SameRecordings, CreateFrame
  <2>4. CreateInv'
    BY <1>1, <1>2, <2>1 DEF CreateInv, CreateFrame
  <2>5. ASSUME NEW i \in DOMAIN all_camera_configs', i < entry',
               ~all_camera_configs'[i].disabled
        PROVE  HasCamera(recording_filename(all_camera_configs[i]))'
    <3>1. /\ i \in DOMAIN all_camera_configs /\ i < entry /\ ~all_camera_configs[i].disabled
          /\ recording_filename(all_camera_configs'[i]) = recording_filename(all_camera_configs[i])
      BY <1>1, <1>2, <1>7, <2>1, <2>2, <2>5 DEF SameRecordings
    <3>2. HasCamera(recording_filename(all_camera_configs[i]))
      BY <3>1 DEF LifeInv, EntryInv, CreateFrame
    <3> QED BY <2>1, <3>1, <3>2 DEF HasCamera
  <2>6. EntryInv'
    BY <1>1, <2>1, <2>5 DEF EntryInv, CreateFrame, Starting
  <2>7. PlaceInv'
    BY <2>1 DEF LifeInv, PlaceInv, CreateFrame
  <2> QED BY <2>3, <2>4, <2>6, <2>7 DEF LifeInv
<1>8. CASE ~RejectedRecording(cd) /\ ~cd.disabled
  <2>1. /\ CreateCamera(recording_filename(cd), configs, base_directory)
        /\ entry' = entry + 1 /\ UNCHANGED ownPC
        /\ configuration' =
             [configuration EXCEPT !.all_camera_configs = Connect(configs, {entry})]
    BY <1>8 DEF _create_camera_recording, configs
  <2>2. /\ configuration' \in Configurations /\ configuration'.type = configuration.type
        /\ SameRecordings(all_camera_configs', all_camera_configs)
    BY <1>3, <1>4, <1>5, <2>1
  <2>3. recording_filename(cd) \in Serials
    BY <1>2, <1>8, WithSerialIsSameRecording
  <2>4. /\ cameras' \in Seq(CameraRecords)
        /\ Len(cameras') = Len(cameras) + 1 /\ Len(cameras) \in Nat
        /\ DOMAIN cameras = 1 .. Len(cameras) /\ DOMAIN cameras' = 1 .. Len(cameras) + 1
        /\ \A k \in DOMAIN cameras : cameras'[k] = cameras[k]
        /\ cameras'[Len(cameras) + 1].handle = recording_filename(cd)
        /\ cameras'[Len(cameras) + 1].directory = base_directory
    BY <1>1, <1>4, <2>1, <2>3, CreateCameraAppends
  <2>5. LifeTypeOK' /\ RunInv' /\ RecordInv'
    <3>1. /\ Len(cameras') <= Len(all_camera_configs')
          /\ entry' \in 1 .. Len(all_camera_configs') + 1
      BY <1>1, <1>2, <2>1, <2>2, <2>4 DEF SameRecordings
    <3> QED BY <1>2, <2>1, <2>2, <2>4, <3>1, CreateKeeps DEF CreateFrame
  <2>6. CreateInv'
    BY <1>1, <1>2, <2>1, <2>4 DEF CreateInv, CreateFrame
  <2>7. ASSUME NEW i \in DOMAIN all_camera_configs', i < entry',
               ~all_camera_configs'[i].disabled
        PROVE  HasCamera(recording_filename(all_camera_configs[i]))'
    <3>1. /\ i \in DOMAIN all_camera_configs /\ i <= entry /\ ~all_camera_configs[i].disabled
          /\ recording_filename(all_camera_configs'[i]) = recording_filename(all_camera_configs[i])
      BY <1>1, <1>2, <2>1, <2>2, <2>7 DEF SameRecordings
    <3>2. CASE i < entry
      <4>1. HasCamera(recording_filename(all_camera_configs[i]))
        BY <3>1, <3>2 DEF LifeInv, EntryInv, CreateFrame
      <4>2. PICK k \in DOMAIN cameras :
              cameras[k].handle = recording_filename(all_camera_configs[i])
        BY <4>1 DEF HasCamera
      <4>3. k \in DOMAIN cameras' /\ cameras'[k].handle = recording_filename(all_camera_configs'[i])
        BY <2>4, <3>1, <4>2
      <4> QED BY <4>3 DEF HasCamera
    <3>3. CASE i = entry
      <4>1. /\ Len(cameras) + 1 \in DOMAIN cameras'
            /\ cameras'[Len(cameras) + 1].handle = recording_filename(all_camera_configs'[i])
        BY <2>4, <3>1, <3>3
      <4> QED BY <4>1 DEF HasCamera
    <3> QED BY <1>1, <1>2, <3>1, <3>2, <3>3
  <2>8. EntryInv'
    BY <1>1, <2>1, <2>7 DEF EntryInv, CreateFrame, Starting
  <2>9. PlaceInv'
    <3>1. \A k \in DOMAIN cameras' : cameras'[k].directory = base_directory
      BY <2>4 DEF LifeInv, PlaceInv, CreateFrame
    <3> QED BY <3>1 DEF LifeInv, PlaceInv, CreateFrame
  <2> QED BY <2>5, <2>6, <2>8, <2>9 DEF LifeInv
<1> QED BY <1>6, <1>7, <1>8

LEMMA CreateDoneStep ==
  ASSUME LifeInv, CreateFrame, _create_cameras_done
  PROVE  LifeInv'
<1>1. /\ ~control_thread
      /\ all_camera_configs \in Seq(Entries)
      /\ configuration \in Configurations
      /\ cameras \in Seq(CameraRecords) /\ Len(cameras) <= Len(all_camera_configs)
      /\ entry \in 1 .. Len(all_camera_configs) + 1
  BY CreateFacts DEF CreateFrame
<1>2. /\ ownPC' = "check" /\ devices' = << >> /\ entry' = 1
      /\ UNCHANGED << cameras, configuration >>
      /\ UNCHANGED all_camera_configs
  BY DEF _create_cameras_done, all_camera_configs
<1>3. LifeTypeOK' /\ RunInv' /\ RecordInv'
  <2>1. devices' \in Seq(Serials) /\ entry' \in 1 .. Len(all_camera_configs') + 1
    BY <1>1, <1>2
  <2> QED BY <1>1, <1>2, <2>1, CreateKeeps
<1>4. CreateInv'
  BY <1>2 DEF LifeInv, CreateInv, CreateFrame
<1>5. type = "orbbec_playback" => \A i \in DOMAIN all_camera_configs : i < entry
  BY <1>1 DEF _create_cameras_done
<1>6. EntryInv'
  BY <1>1, <1>2, <1>5 DEF LifeInv, EntryInv, CreateFrame, Starting, HasCamera
<1>7. PlaceInv'
  BY <1>2 DEF LifeInv, PlaceInv, CreateFrame
<1> QED BY <1>3, <1>4, <1>6, <1>7 DEF LifeInv

LEMMA CreateStep ==
  ASSUME LifeInv, _create_cameras
  PROVE  LifeInv'
<1>1. CreateFrame
  BY DEF _create_cameras, CreateFrame, startVars
<1> QED BY <1>1, CreateDeviceStep, CreateRecordingStep, CreateDoneStep DEF _create_cameras

-----------------------------------------------------------------------------
(* Checking and starting cameras.                                          *)
LEMMA CheckStep ==
  ASSUME LifeInv, _check_cameras_connected
  PROVE  LifeInv'
<1>1. /\ ownPC = "check"
      /\ UNCHANGED << type, deviceList, configuration, base_directory, _is_initialized,
                      devices, entry, cameras, pipelines, processing, recorders,
                      control_thread, recording, created_before >>
      /\ UNCHANGED all_camera_configs
  BY DEF _check_cameras_connected, configVars, createVars, cameraVars, all_camera_configs
<1>2. \/ ownPC' = "unload" /\ UNCHANGED << toStart, start_error >>
      \/ /\ ownPC' = "start" /\ toStart' = DOMAIN cameras /\ start_error' = FALSE
         /\ type = "orbbec" =>
              \A i \in DOMAIN all_camera_configs :
                all_camera_configs[i].connected \/ all_camera_configs[i].disabled
  BY DEF _check_cameras_connected, startVars
<1>3. ~control_thread /\ pipelines = {} /\ processing = {} /\ toStart = {}
  BY <1>1 DEF LifeInv, RunInv, Starting
<1>4. LifeTypeOK'
  BY <1>1, <1>2 DEF LifeInv, LifeTypeOK
<1>5. RunInv'
  BY <1>1, <1>2, <1>3 DEF RunInv, Starting
<1>6. CreateInv'
  BY <1>1, <1>2 DEF LifeInv, CreateInv
<1>7. EntryInv'
  BY <1>1, <1>2, <1>3 DEF LifeInv, EntryInv, Starting, HasCamera
<1>8. PlaceInv'
  BY <1>1 DEF LifeInv, PlaceInv
<1>9. RecordInv'
  BY <1>1, <1>2, <1>3 DEF LifeInv, RecordInv, Starting
<1> QED BY <1>4, <1>5, <1>6, <1>7, <1>8, <1>9 DEF LifeInv

LEMMA StartCameraStep ==
  ASSUME LifeInv, start_camera
  PROVE  LifeInv'
<1>1. /\ ownPC = "start" /\ ownPC' = "start"
      /\ UNCHANGED << type, deviceList, configuration, base_directory, _is_initialized,
                      devices, entry, cameras, processing, control_thread,
                      recording, created_before >>
      /\ UNCHANGED all_camera_configs
      /\ \A k : UNCHANGED is_sync_master(k)
  BY DEF start_camera, configVars, createVars, all_camera_configs, is_sync_master,
         sync_master_serial
<1>2. PICK i \in toStart :
        /\ StartsNext(i)
        /\ (CameraStarts(i) /\ UNCHANGED start_error) \/ CameraFails(i)
        /\ toStart' = toStart \ {i}
  BY DEF start_camera
<1>3. ~control_thread /\ processing = {} /\ toStart \subseteq DOMAIN cameras
      /\ pipelines \subseteq DOMAIN cameras /\ recorders \subseteq DOMAIN cameras
      /\ start_error \in BOOLEAN
  BY <1>1 DEF LifeInv, RunInv, Starting, LifeTypeOK
<1>10. /\ recorders \subseteq recorders' /\ recorders' \subseteq recorders \cup {i}
       /\ \/ /\ pipelines' = pipelines \cup {i} /\ UNCHANGED start_error
             /\ records => i \in recorders'
          \/ start_error' = TRUE /\ UNCHANGED pipelines
  BY <1>2 DEF CameraStarts, CameraFails
<1>11. UNCHANGED records
  BY <1>1 DEF records
<1>4. LifeTypeOK'
  BY <1>1, <1>2, <1>3, <1>10 DEF LifeInv, LifeTypeOK
<1>5. RunInv'
  <2>1. ASSUME ~start_error' PROVE pipelines' \cup toStart' = DOMAIN cameras
    <3>1. ~start_error /\ pipelines' = pipelines \cup {i} /\ toStart' = toStart \ {i}
      BY <1>2, <1>10, <2>1
    <3>2. pipelines \cup toStart = DOMAIN cameras
      BY <1>1, <3>1 DEF LifeInv, RunInv
    <3> QED BY <3>1, <3>2
  <2>2. ASSUME NEW j \in toStart', NEW k \in pipelines', is_sync_master(k)
        PROVE  is_sync_master(j)
    <3>1. CASE k \in pipelines
      BY <1>1, <1>2, <2>2, <3>1 DEF LifeInv, RunInv
    <3>2. CASE k = i
      BY <1>2, <2>2, <3>2 DEF StartsNext
    <3> QED BY <1>10, <2>2, <3>1, <3>2
  <2>3. records' => pipelines' \subseteq recorders'
    BY <1>10, <1>11 DEF LifeInv, RunInv
  <2> QED BY <1>1, <1>3, <2>1, <2>2, <2>3 DEF RunInv, Starting
<1>6. CreateInv'
  BY <1>1 DEF LifeInv, CreateInv
<1>7. EntryInv'
  BY <1>1 DEF LifeInv, EntryInv, Starting, HasCamera
<1>8. PlaceInv'
  BY <1>1 DEF LifeInv, PlaceInv
<1>9. RecordInv'
  BY <1>1 DEF LifeInv, RecordInv, Starting
<1> QED BY <1>4, <1>5, <1>6, <1>7, <1>8, <1>9 DEF LifeInv

LEMMA ThrowStep ==
  ASSUME LifeInv, StartThrows
  PROVE  LifeInv'
<1>1. /\ ownPC \in {"create", "start"} /\ ownPC' = "thrown"
      /\ devices' = << >> /\ toStart' = {}
      /\ UNCHANGED << type, deviceList, configuration, base_directory, _is_initialized, entry,
                      cameras, pipelines, processing, recorders, control_thread, start_error,
                      recording, created_before >>
      /\ UNCHANGED << all_camera_configs, records >>
  BY DEF StartThrows, configVars, cameraVars, all_camera_configs, records
<1>2. ~control_thread /\ processing = {} /\ entry = 1
  <2>1. ownPC = "create" => type = "orbbec"
    BY <1>1 DEF StartThrows
  <2> QED BY <1>1, <2>1 DEF LifeInv, RunInv, CreateInv, Starting
<1>3. LifeTypeOK'
  <2>1. devices' \in Seq(Serials)
    BY <1>1
  <2> QED BY <1>1, <2>1 DEF LifeInv, LifeTypeOK
<1>4. RunInv'
  BY <1>1, <1>2 DEF LifeInv, RunInv, Starting
<1>5. CreateInv'
  BY <1>1, <1>2 DEF LifeInv, CreateInv
<1>6. EntryInv'
  BY <1>1, <1>2 DEF LifeInv, EntryInv, HasCamera
<1>7. PlaceInv'
  BY <1>1 DEF LifeInv, PlaceInv
<1>8. RecordInv'
  BY <1>1, <1>2 DEF LifeInv, RecordInv, Starting
<1> QED BY <1>3, <1>4, <1>5, <1>6, <1>7, <1>8 DEF LifeInv

LEMMA StreamingStep ==
  ASSUME LifeInv, start_camera_streaming
  PROVE  LifeInv'
<1>1. /\ ownPC = "start" /\ toStart = {}
      /\ UNCHANGED << type, deviceList, configuration, base_directory, _is_initialized,
                      devices, entry, cameras, pipelines, recorders, toStart, start_error,
                      recording, created_before >>
      /\ UNCHANGED all_camera_configs
  BY DEF start_camera_streaming, configVars, createVars, startVars, all_camera_configs
<1>2. \/ start_error /\ ownPC' = "unload" /\ UNCHANGED << processing, control_thread >>
      \/ /\ ~start_error
         /\ ownPC' = "idle" /\ processing' = DOMAIN cameras /\ control_thread' = TRUE
  BY DEF start_camera_streaming
<1>3. ~control_thread /\ processing = {} /\ ~recording.played
  BY <1>1 DEF LifeInv, RunInv, RecordInv, Starting
<1>4. LifeTypeOK'
  BY <1>1, <1>2 DEF LifeInv, LifeTypeOK
<1>5. RunInv'
  <2>1. ~start_error => pipelines = DOMAIN cameras
    BY <1>1 DEF LifeInv, RunInv
  <2>2. records' => pipelines' \subseteq recorders'
    BY <1>1 DEF LifeInv, RunInv, records
  <2> QED BY <1>1, <1>2, <1>3, <2>1, <2>2 DEF RunInv, Starting
<1>6. CreateInv'
  BY <1>1, <1>2 DEF LifeInv, CreateInv
<1>7. EntryInv'
  BY <1>1, <1>2, <1>3 DEF LifeInv, EntryInv, Starting, HasCamera
<1>8. PlaceInv'
  BY <1>1 DEF LifeInv, PlaceInv
<1>9. RecordInv'
  BY <1>1, <1>2, <1>3 DEF RecordInv, Starting
<1> QED BY <1>4, <1>5, <1>6, <1>7, <1>8, <1>9 DEF LifeInv

-----------------------------------------------------------------------------
(* Stopping: a start() that failed, stop() and the destructor.             *)
LEMMA UnloadStep ==
  ASSUME LifeInv, StartFails \/ stop \/ Destroy
  PROVE  LifeInv'
<1>1. /\ ownPC \in {"unload", "idle", "thrown"} /\ ownPC' \in {"idle", "gone"}
      /\ ownPC \in {"unload", "thrown"} => ~control_thread
      /\ UNCHANGED << type, deviceList, configuration, base_directory, _is_initialized,
                      devices, entry, toStart, start_error >>
      /\ UNCHANGED << all_camera_configs, records >>
      /\ _unload_cameras
  BY DEF StartFails, stop, Destroy, ownStep, configVars, createVars, startVars,
         all_camera_configs, records, LifeInv, RunInv, Starting
<1>2. toStart = {}
  BY <1>1 DEF LifeInv, RunInv
<1>3. CASE cameras = << >>
  <2>1. UNCHANGED << cameras, pipelines, processing, recorders, control_thread, recording,
                     created_before >>
    BY <1>1, <1>3 DEF _unload_cameras, cameraVars
  <2>2. LifeTypeOK'
    BY <1>1, <2>1 DEF LifeInv, LifeTypeOK
  <2>3. RunInv'
    BY <1>1, <1>2, <1>3, <2>1 DEF LifeInv, RunInv, Starting
  <2>4. CreateInv'
    BY <1>1, <2>1 DEF LifeInv, CreateInv
  <2>5. EntryInv'
    BY <1>1, <2>1 DEF LifeInv, EntryInv, Starting, HasCamera
  <2>6. PlaceInv'
    BY <1>1, <2>1 DEF LifeInv, PlaceInv
  <2>7. RecordInv'
    BY <1>1, <2>1 DEF LifeInv, RecordInv, Starting
  <2> QED BY <2>2, <2>3, <2>4, <2>5, <2>6, <2>7 DEF LifeInv
<1>4. CASE cameras # << >>
  <2>1. /\ cameras' = << >> /\ pipelines' = {} /\ processing' = {}
        /\ recorders' = {} /\ control_thread' = FALSE
        /\ created_before' = created_before \cup {cameras[k].handle : k \in DOMAIN cameras}
        /\ _post_stop_all_cameras
    BY <1>1, <1>4 DEF _unload_cameras, delete_cameras
  <2>8. \A k \in DOMAIN cameras : cameras[k].handle \in Serials
    <3>1. cameras \in Seq(CameraRecords)
      BY DEF LifeInv, LifeTypeOK, CameraRecords
    <3>2. \A k \in DOMAIN cameras : cameras[k] \in CameraRecords
      BY <3>1
    <3> QED BY <3>2 DEF CameraRecords
  <2>2. LifeTypeOK'
    <3>1. configuration.record_to_directory \in Directories \cup {None}
      BY ConfigurationFields DEF LifeInv, LifeTypeOK
    <3>2. recording'.directory \in Directories \cup {None}
      BY <2>1, <3>1 DEF _post_stop_all_cameras, LifeInv, LifeTypeOK
    <3>3. /\ cameras' \in Seq([handle : Serials, serial : Serials \cup {None},
                               directory : Directories \cup {None}])
          /\ Len(cameras') <= Len(all_camera_configs)
      <4>1. all_camera_configs \in Seq(Entries)
        BY ConfigurationFields DEF LifeInv, LifeTypeOK, all_camera_configs
      <4> QED BY <2>1, <4>1
    <3>4. created_before' \subseteq Serials
      BY <2>1, <2>8 DEF LifeInv, LifeTypeOK
    <3> QED BY <1>1, <1>2, <2>1, <3>2, <3>3, <3>4 DEF LifeInv, LifeTypeOK
  <2>3. RunInv'
    BY <1>1, <1>2, <2>1 DEF RunInv, Starting
  <2>4. CreateInv'
    BY <1>1, <2>1 DEF LifeInv, CreateInv
  <2>5. EntryInv'
    BY <1>1, <2>1 DEF LifeInv, EntryInv, HasCamera
  <2>6. PlaceInv'
    BY <1>1, <2>1 DEF LifeInv, PlaceInv
  <2>7. RecordInv'
    <3>1. CASE configuration.record_to_directory = None
      BY <1>1, <2>1, <3>1 DEF LifeInv, RecordInv, _post_stop_all_cameras, Starting
    <3>2. CASE configuration.record_to_directory # None
      <4>1. /\ recording'.directory = configuration.record_to_directory
            /\ recording'.document = to_string(configuration, TRUE)
            /\ recording'.files = {cameras[k] : k \in recorders}
            /\ recording'.played = control_thread
        BY <2>1, <3>2 DEF _post_stop_all_cameras
      <4>2. ASSUME type = "orbbec", NEW file \in recording'.files
            PROVE  /\ file.handle \in Serials
                   /\ file.directory = configuration.record_to_directory
        <5>1. PICK k \in DOMAIN cameras : file = cameras[k]
          BY <4>1, <4>2 DEF LifeInv, LifeTypeOK
        <5> QED BY <2>8, <4>2, <5>1 DEF LifeInv, PlaceInv
      <4>3. ASSUME type = "orbbec", control_thread,
                   created_before' \subseteq {file.handle : file \in recording'.files},
                   NEW i \in DOMAIN all_camera_configs, ~all_camera_configs[i].disabled
            PROVE  \E file \in recording'.files : file.handle = all_camera_configs[i].serial
        <5>1. all_camera_configs[i].connected
          BY <4>3 DEF LifeInv, EntryInv
        <5>2. \/ HasCamera(all_camera_configs[i].serial)
              \/ all_camera_configs[i].serial \in created_before
          BY <4>3, <5>1 DEF LifeInv, EntryInv
        <5>3. all_camera_configs[i].serial \in created_before'
          BY <2>1, <5>2 DEF HasCamera
        <5> QED BY <4>3, <5>3
      <4> QED BY <1>1, <2>1, <4>1, <4>2, <4>3 DEF RecordInv, Starting
    <3> QED BY <3>1, <3>2
  <2> QED BY <2>2, <2>3, <2>4, <2>5, <2>6, <2>7 DEF LifeInv
<1> QED BY <1>3, <1>4

(* Plugging, and steps that change nothing.                                *)
LEMMA PlugStep ==
  ASSUME LifeInv, Plug
  PROVE  LifeInv'
<1>1. /\ type = "orbbec" /\ deviceList' \in DeviceLists
      /\ UNCHANGED << type, configuration, base_directory, _is_initialized,
                      devices, entry, cameras, pipelines, processing, recorders, control_thread, ownPC,
                      toStart, start_error, recording, created_before >>
  BY DEF Plug, configVars, createVars, cameraVars, startVars
<1>2. /\ UNCHANGED << all_camera_configs, sync_master_serial, records >>
      /\ \A k : UNCHANGED is_sync_master(k)
  BY <1>1 DEF all_camera_configs, sync_master_serial, is_sync_master, records
<1>3. LifeTypeOK'
  BY <1>1, <1>2 DEF LifeInv, LifeTypeOK
<1>4. RunInv' /\ RecordInv'
  BY <1>1, <1>2 DEF LifeInv, RunInv, RecordInv, Starting
<1>5. CreateInv'
  BY <1>1, <1>2 DEF LifeInv, CreateInv
<1>6. EntryInv' /\ PlaceInv'
  BY <1>1, <1>2 DEF LifeInv, EntryInv, PlaceInv, Starting, HasCamera
<1> QED BY <1>3, <1>4, <1>5, <1>6 DEF LifeInv

LEMMA LifeStutter ==
  ASSUME LifeInv, UNCHANGED vars
  PROVE  LifeInv'
<1>1. UNCHANGED << type, deviceList, configuration, base_directory, _is_initialized,
                   devices, entry, cameras, pipelines, processing, recorders, control_thread, ownPC,
                   toStart, start_error, recording, created_before >>
  BY DEF vars, configVars, createVars, cameraVars, startVars
<1>2. /\ UNCHANGED << all_camera_configs, sync_master_serial, records >>
      /\ \A k : UNCHANGED is_sync_master(k)
  BY <1>1 DEF all_camera_configs, sync_master_serial, is_sync_master, records
<1>3. LifeTypeOK'
  BY <1>1, <1>2 DEF LifeInv, LifeTypeOK
<1>4. RunInv' /\ RecordInv'
  BY <1>1, <1>2 DEF LifeInv, RunInv, RecordInv, Starting
<1>5. CreateInv'
  BY <1>1, <1>2 DEF LifeInv, CreateInv
<1>6. EntryInv' /\ PlaceInv'
  BY <1>1, <1>2 DEF LifeInv, EntryInv, PlaceInv, Starting, HasCamera
<1> QED BY <1>3, <1>4, <1>5, <1>6 DEF LifeInv

LEMMA LifeInductive ==
  ASSUME LifeInv, [LifeNext]_vars
  PROVE  LifeInv'
BY LoadStep, StartStep, CreateStep, CheckStep, StartCameraStep, ThrowStep, StreamingStep,
   UnloadStep, PlugStep, LifeStutter DEF LifeNext, OwnNext, Gone

(* LifeInv is an invariant: the parts of the capturer's state agree        *)
(* whatever devices come and go and whichever starts fail.                 *)
THEOREM LifeInvariant == LifeSpec => []LifeInv
<1>1. LifeInit => LifeInv
  BY LifeInitInv
<1>2. LifeInv /\ [LifeNext]_vars => LifeInv'
  BY LifeInductive
<1> QED BY <1>1, <1>2, PTL DEF LifeSpec

-----------------------------------------------------------------------------
(* The properties of the capturer's life.                                  *)

(* The capturer's fields and its cameras keep their types, and there are   *)
(* never more cameras than entries, which they refer to by position.       *)
THEOREM LifeTypeCorrect == LifeSpec => []LifeTypeOK
<1>1. LifeInv => LifeTypeOK
  BY DEF LifeInv
<1> QED BY <1>1, LifeInvariant, PTL

(* After a start() that returned false, and after stop(), also one that    *)
(* follows an exception out of start(), nothing is left running.           *)
THEOREM NothingIsLeftRunning == LifeSpec => []NothingRunsWhenStopped
<1>1. LifeInv => NothingRunsWhenStopped
  <2>1. SUFFICES ASSUME LifeInv, ownPC \in {"idle", "gone"}, ~control_thread
                 PROVE  cameras = << >> /\ pipelines = {} /\ processing = {} /\ recorders = {}
    BY DEF NothingRunsWhenStopped
  <2>2. cameras = << >>
    BY <2>1 DEF LifeInv, RunInv, Starting
  <2> QED BY <2>1, <2>2 DEF LifeInv, LifeTypeOK
<1> QED BY <1>1, LifeInvariant, PTL

(* A capturer that plays streams from all of its cameras.                  *)
THEOREM CamerasStreamTogether == LifeSpec => []AllCamerasStream
<1>1. LifeInv => AllCamerasStream
  BY DEF LifeInv, RunInv, AllCamerasStream
<1> QED BY <1>1, LifeInvariant, PTL

(* Every entry in use has its camera, or is of a device that had one       *)
(* earlier.                                                                *)
THEOREM EntriesHaveTheirCameras == LifeSpec => []EveryEntryHasItsCamera
<1>1. LifeInv => EveryEntryHasItsCamera
  <2>1. SUFFICES ASSUME LifeInv, ownPC = "idle", control_thread,
                        NEW i \in DOMAIN all_camera_configs, ~all_camera_configs[i].disabled
                 PROVE  IF type = "orbbec"
                        THEN \/ HasCamera(all_camera_configs[i].serial)
                             \/ all_camera_configs[i].serial \in created_before
                        ELSE HasCamera(recording_filename(all_camera_configs[i]))
    BY DEF EveryEntryHasItsCamera, HasCamera
  <2>2. CASE type = "orbbec"
    <3>1. all_camera_configs[i].connected
      BY <2>1, <2>2 DEF LifeInv, EntryInv
    <3> QED BY <2>1, <2>2, <3>1 DEF LifeInv, EntryInv
  <2>3. CASE type = "orbbec_playback"
    BY <2>1, <2>3 DEF LifeInv, EntryInv
  <2> QED BY <2>1, <2>2, <2>3 DEF LifeInv, LifeTypeOK, CapturerTypes
<1> QED BY <1>1, LifeInvariant, PTL

LEMMA UnconnectedTwice ==
  ASSUME NEW entries \in Seq(Entries)
  PROVE  Unconnected(Unconnected(entries)) = Unconnected(entries)
<1> DEFINE U == Unconnected(entries)
<1>1. U \in Seq(Entries) /\ \A i \in DOMAIN U : U[i] \in Entries /\ ~U[i].connected
  <2>1. U \in Seq(Entries) /\ DOMAIN U = DOMAIN entries
    BY UnconnectedEntries
  <2>2. \A i \in DOMAIN entries : ~U[i].connected
    BY UnconnectedEntries
  <2> HIDE DEF U
  <2> QED BY <2>1, <2>2
<1>2. \A i \in DOMAIN U : [U[i] EXCEPT !.connected = FALSE] = U[i]
  <2> HIDE DEF U
  <2> QED BY <1>1 DEF Entries
<1>3. U = [i \in DOMAIN U |-> U[i]]
  BY DEF Unconnected
<1> HIDE DEF U
<1>4. Unconnected(U) = U
  BY <1>2, <1>3 DEF Unconnected
<1> QED BY <1>4 DEF U

LEMMA ConfigurationByFields ==
  ASSUME NEW c \in Configurations, NEW settings \in SUBSET ReadFields,
         NEW entries \in Seq(Entries)
  PROVE  [c EXCEPT !.settings = settings, !.all_camera_configs = entries] =
           [type |-> c.type, settings |-> settings,
            sync_master_serial |-> c.sync_master_serial,
            record_to_directory |-> c.record_to_directory, all_camera_configs |-> entries]
<1> DEFINE new == [c EXCEPT !.settings = settings, !.all_camera_configs = entries]
           old == [type |-> c.type, settings |-> settings,
                   sync_master_serial |-> c.sync_master_serial,
                   record_to_directory |-> c.record_to_directory,
                   all_camera_configs |-> entries]
<1>1. new \in Configurations /\ old \in Configurations
  BY DEF Configurations
<1>2. /\ new.type = old.type /\ new.settings = old.settings
      /\ new.sync_master_serial = old.sync_master_serial
      /\ new.record_to_directory = old.record_to_directory
      /\ new.all_camera_configs = old.all_camera_configs
  BY DEF Configurations
<1> HIDE DEF new, old
<1>3. new = old
  BY <1>1, <1>2 DEF Configurations
<1> QED BY <1>3 DEF new, old

(* What config_get() hands out can be loaded again.                        *)
THEOREM ConfigurationsCanBeReloaded == LifeSpec => []ConfigurationRoundTrip
<1>1. LifeInv => ConfigurationRoundTrip
  <2>1. SUFFICES ASSUME LifeInv, configuration.type # None
                 PROVE  from_string(config_get, type) =
                          [ok |-> TRUE,
                           configuration |->
                             [configuration EXCEPT !.settings = @ \ {"color_sharpness"},
                                                   !.all_camera_configs = Unconnected(@)]]
    BY DEF ConfigurationRoundTrip
  <2>2. configuration \in Configurations /\ configuration.type = type
    BY <2>1 DEF LifeInv, LifeTypeOK
  <2>3. /\ config_get.version = 5 /\ config_get.type = type /\ config_get.ok = TRUE
        /\ config_get.settings = configuration.settings \cap WrittenFields
        /\ config_get.sync_master_serial = configuration.sync_master_serial
        /\ config_get.record_to_directory = configuration.record_to_directory
        /\ config_get.camera = Unconnected(configuration.all_camera_configs)
    BY <2>2 DEF config_get, to_string, _to_json
  <2>4. /\ (configuration.settings \cap WrittenFields) \cap ReadFields =
             configuration.settings \ {"color_sharpness"}
        /\ Unconnected(Unconnected(configuration.all_camera_configs)) =
             Unconnected(configuration.all_camera_configs)
    BY <2>2, ConfigurationFields, UnconnectedTwice DEF WrittenFields
  <2>5. from_string(config_get, type) =
          [ok |-> TRUE,
           configuration |->
             [type |-> configuration.type,
              settings |-> configuration.settings \ {"color_sharpness"},
              sync_master_serial |-> configuration.sync_master_serial,
              record_to_directory |-> configuration.record_to_directory,
              all_camera_configs |-> Unconnected(configuration.all_camera_configs)]]
    BY <2>2, <2>3, <2>4 DEF from_string, _from_json
  <2>6. [configuration EXCEPT !.settings = @ \ {"color_sharpness"},
                              !.all_camera_configs = Unconnected(@)] =
          [type |-> configuration.type,
           settings |-> configuration.settings \ {"color_sharpness"},
           sync_master_serial |-> configuration.sync_master_serial,
           record_to_directory |-> configuration.record_to_directory,
           all_camera_configs |-> Unconnected(configuration.all_camera_configs)]
    <3> DEFINE s == configuration.settings \ {"color_sharpness"}
               u == Unconnected(configuration.all_camera_configs)
    <3>1. [configuration EXCEPT !.settings = @ \ {"color_sharpness"},
                                !.all_camera_configs = Unconnected(@)] =
            [configuration EXCEPT !.settings = s, !.all_camera_configs = u]
      BY <2>2 DEF Configurations
    <3> HIDE DEF s, u
    <3>2. [configuration EXCEPT !.settings = s, !.all_camera_configs = u] =
            [type |-> configuration.type, settings |-> s,
             sync_master_serial |-> configuration.sync_master_serial,
             record_to_directory |-> configuration.record_to_directory,
             all_camera_configs |-> u]
      <4>1. s \in SUBSET ReadFields /\ u \in Seq(Entries)
        BY <2>2, ConfigurationFields, UnconnectedEntries DEF s, u
      <4> QED BY <2>2, <4>1, ConfigurationByFields
    <3> QED BY <3>1, <3>2 DEF s, u
  <2> QED BY <2>5, <2>6
<1> QED BY <1>1, LifeInvariant, PTL

(* A recording of all cameras that the configuration had can be played.    *)
THEOREM RecordingsCanBePlayed == LifeSpec => []RecordingCanBePlayed
<1>1. LifeInv => RecordingCanBePlayed
  <2> DEFINE loaded == from_string(recording.document, "orbbec_playback")
             configs == loaded.configuration.all_camera_configs
             C == configuration.all_camera_configs
  <2>1. SUFFICES ASSUME LifeInv, type = "orbbec", recording.played,
                        created_before \subseteq {file.handle : file \in recording.files},
                        \A file \in recording.files : file.serial = file.handle,
                        \A cd \in ToSet(configs) :
                          cd.filename = None /\ (cd.disabled => cd.serial # None)
                 PROVE  /\ loaded.ok
                        /\ \A cd \in ToSet(configs) :
                             /\ ~RejectedRecording(cd)
                             /\ ~cd.disabled =>
                                  \E file \in recording.files :
                                    /\ file.directory = recording.directory
                                    /\ file.serial = recording_filename(cd)
    BY DEF RecordingCanBePlayed
  <2>2. /\ recording.document = to_string(configuration, TRUE)
        /\ \A file \in recording.files :
             file.handle \in Serials /\ file.directory = recording.directory
        /\ \A i \in DOMAIN C :
             ~C[i].disabled => \E file \in recording.files : file.handle = C[i].serial
    BY <2>1 DEF LifeInv, RecordInv, all_camera_configs
  <2>3. C \in Seq(Entries)
    BY <2>1, ConfigurationFields DEF LifeInv, LifeTypeOK
  <2> DEFINE U == Unconnected(C)
             P == [i \in DOMAIN U |-> [U[i] EXCEPT !.type = "orbbec_playback"]]
  <2>4. /\ U \in Seq(Entries) /\ DOMAIN U = DOMAIN C
        /\ \A i \in DOMAIN C : U[i] = [C[i] EXCEPT !.connected = FALSE]
    BY <2>3, UnconnectedEntries
  <2>5. /\ recording.document.version = 5
        /\ recording.document.type = "orbbec_playback"
        /\ recording.document.ok = TRUE
        /\ recording.document.camera = P
    BY <2>2 DEF to_string, _to_json
  <2>6. loaded.ok = TRUE /\ configs = Unconnected(P)
    BY <2>5 DEF from_string, _from_json
  <2> HIDE DEF U
  <2>7. \A i \in DOMAIN C :
          LET cd == Unconnected(P)[i]
          IN /\ cd.serial = C[i].serial /\ cd.filename = C[i].filename
             /\ cd.type = "orbbec_playback" /\ cd.disabled = C[i].disabled
    <3> SUFFICES ASSUME NEW i \in DOMAIN C
                 PROVE  LET cd == Unconnected(P)[i]
                        IN /\ cd.serial = C[i].serial /\ cd.filename = C[i].filename
                           /\ cd.type = "orbbec_playback" /\ cd.disabled = C[i].disabled
      OBVIOUS
    <3>1. C[i] \in Entries /\ i \in DOMAIN U
      BY <2>3, <2>4
    <3>2. Unconnected(P)[i] =
            [[[C[i] EXCEPT !.connected = FALSE] EXCEPT !.type = "orbbec_playback"]
               EXCEPT !.connected = FALSE]
      BY <2>4, <3>1 DEF Unconnected
    <3> QED BY <3>1, <3>2 DEF Entries
  <2>8. DOMAIN configs = DOMAIN C
    BY <2>4, <2>6 DEF Unconnected
  <2> SUFFICES ASSUME NEW cd \in ToSet(configs)
               PROVE  /\ ~RejectedRecording(cd)
                      /\ ~cd.disabled =>
                           \E file \in recording.files :
                             /\ file.directory = recording.directory
                             /\ file.serial = recording_filename(cd)
    BY <2>6
  <2>9. PICK i \in DOMAIN C : cd = Unconnected(P)[i]
    <3> HIDE DEF configs, C, P
    <3>1. PICK i \in DOMAIN configs : cd = configs[i]
      BY DEF ToSet
    <3> QED BY <2>6, <2>8, <3>1
  <2> HIDE DEF configs, C, P
  <2>10. /\ cd.serial = C[i].serial /\ cd.type = "orbbec_playback"
         /\ cd.disabled = C[i].disabled
         /\ cd.filename = None /\ (cd.disabled => cd.serial # None)
    BY <2>1, <2>7, <2>9
  <2>11. recording_filename(cd) = cd.serial
    BY <2>10 DEF recording_filename
  <2>12. ASSUME ~cd.disabled
         PROVE  \E file \in recording.files :
                  file.directory = recording.directory /\ file.serial = cd.serial
    BY <2>1, <2>2, <2>10, <2>12
  <2>13. cd.serial # None
    <3>1. CASE cd.disabled
      BY <2>10, <3>1
    <3>2. CASE ~cd.disabled
      <4>1. PICK file \in recording.files : file.serial = cd.serial
        BY <2>12, <3>2
      <4> QED BY <2>1, <2>2, <4>1, LifecycleAssumption DEF LifecycleAssumption
    <3> QED BY <3>1, <3>2
  <2> QED BY <2>10, <2>11, <2>12, <2>13 DEF RejectedRecording, Nameless
<1> QED BY <1>1, LifeInvariant, PTL

(* The entries of a step that changes none.                                *)
LEMMA SameEntry ==
  ASSUME NEW cd \in Entries
  PROVE  cd = [cd EXCEPT !.connected = cd.connected]
BY DEF Entries

LEMMA SameConfiguration ==
  ASSUME NEW c \in Configurations
  PROVE  c = [c EXCEPT !.all_camera_configs = c.all_camera_configs]
BY DEF Configurations

(* What ConfigurationStaysUnderCameras says of a step.                     *)
StaysUnderCameras ==
  /\ UNCHANGED base_directory
  /\ configuration' = [configuration EXCEPT !.all_camera_configs = all_camera_configs']
  /\ DOMAIN all_camera_configs' = DOMAIN all_camera_configs
  /\ \A k \in DOMAIN cameras \cap DOMAIN all_camera_configs :
       all_camera_configs'[k] =
         [all_camera_configs[k] EXCEPT !.connected = all_camera_configs'[k].connected]

LEMMA UnchangedStays ==
  ASSUME LifeInv, UNCHANGED << configuration, base_directory >>
  PROVE  StaysUnderCameras
<1>1. /\ configuration \in Configurations /\ all_camera_configs \in Seq(Entries)
      /\ UNCHANGED all_camera_configs
  BY ConfigurationFields DEF LifeInv, LifeTypeOK, all_camera_configs
<1>2. configuration' = [configuration EXCEPT !.all_camera_configs = all_camera_configs']
  <2>1. configuration = [configuration EXCEPT !.all_camera_configs = all_camera_configs]
    BY <1>1, SameConfiguration DEF all_camera_configs
  <2> QED BY <1>1, <2>1
<1>3. \A k \in DOMAIN all_camera_configs :
        all_camera_configs[k] =
          [all_camera_configs[k] EXCEPT !.connected = all_camera_configs[k].connected]
  <2>1. \A k \in DOMAIN all_camera_configs : all_camera_configs[k] \in Entries
    BY <1>1
  <2> QED BY <2>1, SameEntry
<1> QED BY <1>1, <1>2, <1>3 DEF StaysUnderCameras

(* Creating a camera: connecting entries, and for a recording, writing the *)
(* entry that was reached, which is behind those of the cameras.           *)
LEMMA CreateStays ==
  ASSUME LifeInv, _create_cameras
  PROVE  StaysUnderCameras
<1>1. CreateFrame
  BY DEF _create_cameras, CreateFrame, startVars
<1>2. /\ configuration \in Configurations /\ all_camera_configs \in Seq(Entries)
      /\ cameras \in Seq(CameraRecords) /\ base_directory' = base_directory
  BY <1>1, CreateFacts DEF CreateFrame
<1>3. ASSUME NEW new \in Seq(Entries), DOMAIN new = DOMAIN all_camera_configs,
             configuration' = [configuration EXCEPT !.all_camera_configs = new],
             \A k \in DOMAIN cameras \cap DOMAIN all_camera_configs :
               new[k] = [all_camera_configs[k] EXCEPT !.connected = new[k].connected]
      PROVE  StaysUnderCameras
  <2>1. all_camera_configs' = new
    BY <1>2, <1>3, ConfigurationWithEntries DEF all_camera_configs
  <2> QED BY <1>2, <1>3, <2>1 DEF StaysUnderCameras
<1>4. CASE UNCHANGED configuration
  BY <1>2, <1>4, UnchangedStays
<1>5. CASE type = "orbbec" /\ _create_camera_device /\ configuration' # configuration
  <2> DEFINE G == get_camera_config(Head(devices))
             new == Connect(all_camera_configs, G)
  <2>1. configuration' = [configuration EXCEPT !.all_camera_configs = new]
    BY <1>5 DEF _create_camera_device
  <2> HIDE DEF G
  <2>2. new \in Seq(Entries) /\ DOMAIN new = DOMAIN all_camera_configs
    BY <1>2, ConnectOnlyConnects
  <2>3. \A k \in DOMAIN all_camera_configs :
          new[k] = [all_camera_configs[k] EXCEPT !.connected = new[k].connected]
    BY <1>2, ConnectOnlyConnects
  <2> HIDE DEF new
  <2> QED BY <1>3, <2>1, <2>2, <2>3
<1>6. CASE type = "orbbec_playback" /\ _create_camera_recording
  <2> DEFINE configs == [all_camera_configs EXCEPT ![entry] = WithSerial(all_camera_configs[entry])]
             con == Connect(configs, {entry})
  <2>1. /\ entry \in DOMAIN all_camera_configs
        /\ \/ configuration' = [configuration EXCEPT !.all_camera_configs = configs]
           \/ configuration' = [configuration EXCEPT !.all_camera_configs = con]
    BY <1>6 DEF _create_camera_recording
  <2>2. \A k \in DOMAIN cameras : k # entry
    <3>1. Len(cameras) < entry
      BY <1>1, <1>6 DEF LifeInv, CreateInv, CreateFrame
    <3> QED BY <1>2, <2>1, <3>1
  <2>3. SameRecordings(configs, all_camera_configs) /\ SameRecordings(con, all_camera_configs)
    BY <1>2, <2>1, RecordingEntries
  <2>4. \A k \in DOMAIN cameras \cap DOMAIN all_camera_configs :
          configs[k] = all_camera_configs[k] /\ all_camera_configs[k] \in Entries
    BY <1>2, <2>1, <2>2
  <2> HIDE DEF configs
  <2>5. \A k \in DOMAIN configs : con[k] = [configs[k] EXCEPT !.connected = con[k].connected]
    BY <2>3, ConnectOnlyConnects DEF SameRecordings
  <2> HIDE DEF con
  <2>6. \A k \in DOMAIN cameras \cap DOMAIN all_camera_configs :
          /\ configs[k] = [all_camera_configs[k] EXCEPT !.connected = configs[k].connected]
          /\ con[k] = [all_camera_configs[k] EXCEPT !.connected = con[k].connected]
    BY <2>3, <2>4, <2>5, SameEntry DEF SameRecordings
  <2> QED BY <1>3, <2>1, <2>3, <2>6 DEF SameRecordings
<1>7. CASE _create_cameras_done
  BY <1>4, <1>7 DEF _create_cameras_done
<1> QED BY <1>4, <1>5, <1>6, <1>7 DEF _create_cameras

(* The configuration a camera refers to is neither replaced nor            *)
(* reallocated while the camera is there.                                  *)
THEOREM ConfigurationIsStable == LifeSpec => ConfigurationStaysUnderCameras
<1>1. LifeInv /\ [LifeNext]_vars => (cameras # << >> => StaysUnderCameras)
  <2> SUFFICES ASSUME LifeInv, [LifeNext]_vars, cameras # << >>
               PROVE  StaysUnderCameras
    OBVIOUS
  <2>1. CASE cwipc_orbbec \/ config_reload
    <3>1. ownPC \in {"new", "idle"} /\ ~control_thread
      BY <2>1 DEF cwipc_orbbec, config_reload, LifeInv, RunInv
    <3> QED BY <3>1 DEF LifeInv, RunInv, Starting
  <2>2. CASE _create_cameras
    BY <2>2, CreateStays
  <2>3. CASE \/ start \/ _check_cameras_connected \/ start_camera \/ start_camera_streaming
             \/ StartThrows \/ StartFails \/ stop \/ Destroy \/ Plug \/ UNCHANGED vars
    <3>1. UNCHANGED << configuration, base_directory >>
      BY <2>3 DEF start, _check_cameras_connected, start_camera, start_camera_streaming,
                  StartThrows, StartFails, stop, Destroy, Plug, vars, configVars
    <3> QED BY <3>1, UnchangedStays
  <2> QED BY <2>1, <2>2, <2>3 DEF LifeNext, OwnNext, Gone
<1>2. [][cameras # << >> => StaysUnderCameras]_vars => ConfigurationStaysUnderCameras
  <2>1. (cameras # << >> => StaysUnderCameras) <=>
          (cameras # << >> =>
             /\ UNCHANGED base_directory
             /\ configuration' = [configuration EXCEPT !.all_camera_configs = all_camera_configs']
             /\ DOMAIN all_camera_configs' = DOMAIN all_camera_configs
             /\ \A k \in DOMAIN cameras \cap DOMAIN all_camera_configs :
                  all_camera_configs'[k] =
                    [all_camera_configs[k] EXCEPT !.connected = all_camera_configs'[k].connected])
    BY DEF StaysUnderCameras
  <2> QED BY <2>1, PTL DEF ConfigurationStaysUnderCameras
<1> QED BY <1>1, <1>2, LifeInvariant, PTL DEF LifeSpec

(* The pipelines of the masters start last.                                *)
THEOREM MastersStartLast == LifeSpec => MasterStartsLast
<1>1. LifeInv /\ [LifeNext]_vars =>
        \A i \in pipelines' \ pipelines, k \in pipelines :
          is_sync_master(k) => is_sync_master(i)
  <2> SUFFICES ASSUME LifeInv, [LifeNext]_vars,
                      NEW i \in pipelines' \ pipelines, NEW k \in pipelines, is_sync_master(k)
               PROVE  is_sync_master(i)
    OBVIOUS
  <2>1. CASE start_camera
    <3>1. ownPC = "start" /\ i \in toStart
      BY <2>1 DEF start_camera, CameraStarts, CameraFails
    <3> QED BY <3>1 DEF LifeInv, RunInv
  <2>2. CASE \/ cwipc_orbbec \/ config_reload \/ start \/ _create_cameras
             \/ _check_cameras_connected \/ StartThrows \/ start_camera_streaming \/ Plug
             \/ UNCHANGED vars
    <3>1. UNCHANGED pipelines
      BY <2>2 DEF cwipc_orbbec, config_reload, start, _create_cameras, _check_cameras_connected,
                  StartThrows, start_camera_streaming, Plug, vars, cameraVars
    <3> QED BY <3>1
  <2>3. CASE StartFails \/ stop \/ Destroy
    <3>1. pipelines' \subseteq pipelines
      BY <2>3 DEF StartFails, stop, Destroy, _unload_cameras, cameraVars
    <3> QED BY <3>1
  <2> QED BY <2>1, <2>2, <2>3 DEF LifeNext, OwnNext, Gone
<1> QED BY <1>1, LifeInvariant, PTL DEF LifeSpec, MasterStartsLast
=============================================================================
