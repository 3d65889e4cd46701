---------------------------- MODULE OrbbecConfig ----------------------------
(***************************************************************************)
(* The configuration of a capturer and the JSON document it is read from   *)
(* and written to (src/OrbbecConfig.cpp).                                  *)
(*                                                                         *)
(* Of most fields it only matters whether they differ from their default:  *)
(* settings is the set of those that do.  A document that cannot be read   *)
(* to its end (not ok) stands for what is read of it before the exception. *)
(* The fields of an entry of "camera", and version and type, are read and  *)
(* written by cwipc_util; `connected' is not part of a document.           *)
(***************************************************************************)
EXTENDS Naturals, Sequences

CONSTANT None       \* the empty string

(* The fields that _from_json() looks for: in the sections system and      *)
(* sync, hardware, processing, filtering.                                  *)
ReadFields ==
  {"single_tile", "debug", "apiDebug", "new_timestamps", "ignore_sync"}
  \cup {"color_width", "color_height", "depth_width", "depth_height", "fps",
        "color_exposure_time", "color_whitebalance", "color_backlight_compensation",
        "color_brightness", "color_contrast", "color_saturation", "color_sharpness",
        "color_gain", "color_powerline_frequency"}
  \cup {"greenscreenremoval", "depth_x_erosion", "depth_y_erosion",
        "height_min", "height_max", "radius_filter"}
  \cup {"map_color_to_depth", "do_threshold", "threshold_near", "threshold_far"}

(* Mutant: the exposure is not written.                                    *)
WrittenFields_NoExposure == ReadFields \ {"color_sharpness", "color_exposure_time"}

(* _to_json() writes all of them but one.                                  *)
WrittenFields == ReadFields \ {"color_sharpness"}

DefaultConfig ==
  [type |-> None, settings |-> {}, sync_master_serial |-> None,
   record_to_directory |-> None, all_camera_configs |-> << >>]

Unconnected(entries) == [i \in DOMAIN entries |-> [entries[i] EXCEPT !.connected = FALSE]]

_from_json(document) ==
  [type |-> document.type,
   settings |-> document.settings \cap ReadFields,
   sync_master_serial |-> document.sync_master_serial,
   record_to_directory |-> document.record_to_directory,
   all_camera_configs |-> Unconnected(document.camera)]

(* Mutant: the entries keep their type when a recording is described.      *)
_to_json_KeepsTypes(config, for_recording) ==
  [version |-> 5, ok |-> TRUE,
   type |-> IF for_recording THEN "orbbec_playback" ELSE config.type,
   settings |-> config.settings \cap WrittenFields,
   sync_master_serial |-> config.sync_master_serial,
   record_to_directory |-> IF for_recording THEN None ELSE config.record_to_directory,
   camera |-> Unconnected(config.all_camera_configs)]

(* The document of a recording is one for a playback capturer.             *)
_to_json(config, for_recording) ==
  LET entries == Unconnected(config.all_camera_configs)
  IN [version |-> 5, ok |-> TRUE,
      type |-> IF for_recording THEN "orbbec_playback" ELSE config.type,
      settings |-> config.settings \cap WrittenFields,
      sync_master_serial |-> config.sync_master_serial,
      record_to_directory |-> IF for_recording THEN None ELSE config.record_to_directory,
      camera |-> IF for_recording
                 THEN [i \in DOMAIN entries |-> [entries[i] EXCEPT !.type = "orbbec_playback"]]
                 ELSE entries]

(* from_file() and from_string(), into a configuration that has just been  *)
(* reset: a document of another version or type is not read at all.        *)
from_string(document, typeWanted) ==
  IF document.version # 5 \/ document.type # typeWanted
  THEN [ok |-> FALSE, configuration |-> DefaultConfig]
  ELSE [ok |-> document.ok, configuration |-> _from_json(document)]

to_string(config, for_recording) == _to_json(config, for_recording)
=============================================================================
