---------------------------- MODULE MCLifecycle ----------------------------
(* Model checking the life cycle with two devices.  An entry names a device *)
(* by its serial, or a recording by its file, or neither, and may be       *)
(* disabled.                                                               *)
EXTENDS CaptureLifecycle

MCEntry(s, f, t, d) ==
  [serial |-> s, filename |-> f, type |-> t, disabled |-> d, connected |-> FALSE]

MCEntries ==
  {MCEntry(s, "", "orbbec", FALSE) : s \in Serials}
  \cup {MCEntry("A", "", "orbbec", TRUE)}
  \cup {MCEntry(s, "", "orbbec_playback", s = "A") : s \in Serials}
  \cup {MCEntry("", "B", "orbbec_playback", FALSE), MCEntry("", "", "orbbec_playback", FALSE)}
  \cup {MCEntry("", "", "orbbec", TRUE)}

MCDocument(version, t, settings, master, directory, camera, ok) ==
  [version |-> version, type |-> t, settings |-> settings, sync_master_serial |-> master,
   record_to_directory |-> directory, camera |-> camera, ok |-> ok]

(* Up to two entries in any order; a document that sets all fields also    *)
(* asks for a recording.  One breaks off, one is of another version.       *)
MCDocuments ==
  {MCDocument(5, t, {}, m, "", c, TRUE) :
     t \in CapturerTypes, m \in Serials \cup {""}, c \in SeqOf(MCEntries, 2)}
  \cup {MCDocument(5, t, ReadFields, "", "X", c, TRUE) :
          t \in CapturerTypes, c \in SeqOf(MCEntries, 2)}
  \cup {MCDocument(v, "orbbec", {}, "", "", << MCEntry("A", "", "orbbec", FALSE) >>, v # 5) :
          v \in {4, 5}}
=============================================================================
