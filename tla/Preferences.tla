------------------------------ MODULE Preferences ------------------------------
(***************************************************************************)
(* The preferences of a program (pref.cpp): settings in memory that any    *)
(* thread changes, the flag that they changed, and how they are stored in  *)
(* a file and read again by the GUI (ltr_gui_prefs.cpp), which may be      *)
(* killed at any step. The files are linuxtrack1.conf, the same with .new  *)
(* and .old, and with .backup. Of sections, keys and the grammar the model *)
(* keeps that some names, one with a bracket, cannot be read back.         *)
(***************************************************************************)
EXTENDS Integers, FiniteSets

CONSTANTS
  Settings,   \* what can be set
  Odd,        \* the settings that cannot be read back
  MaxCrashes  \* bound: how often the program is killed or quits

SettingsAssumption == Odd \subseteq Settings /\ MaxCrashes \in Nat

Files == {"file", "new", "old", "backup"}
Absent == "absent"
Torn == "torn"

VARIABLES
  memory,    \* prefs::items
  changed,   \* changed_flag
  disk,      \* the content of each file
  saver,     \* where ltr_int_save_prefs is
  stored,    \* history: what was stored or read last
  crashes

prefVars == <<memory, changed, disk, saver, stored, crashes>>

Default == {}
Whole == SUBSET Settings
Holding(w) == <<"whole", w>>
Contents == {<<Absent>>, <<Torn>>} \cup {Holding(w) : w \in Whole}

TypeOK ==
  /\ memory \in Whole /\ changed \in BOOLEAN
  /\ disk \in [Files -> Contents]
  /\ saver \in {"down", "idle", "dump", "check", "remove", "aside", "place", "reset"}
  /\ stored \in Whole /\ crashes \in 0 .. MaxCrashes

Empty == [f \in Files |-> <<Absent>>]

\* The program starts with the file it stored last.
Init ==
  /\ memory = Default /\ changed = FALSE
  /\ disk = [Empty EXCEPT !["file"] = Holding(Default)]
  /\ saver = "down" /\ stored = Default /\ crashes = 0

\* PrefProxy::PrefProxy: a file that cannot be read is put aside, and the
\* default preferences are copied in its place. Nothing reads .new or .old.
Start ==
  /\ saver = "down"
  /\ IF disk["file"] \in {<<Absent>>, <<Torn>>}
     THEN /\ disk' = [disk EXCEPT !["file"] = Holding(Default),
                        !["backup"] = IF disk["file"] = <<Absent>> THEN @ ELSE disk["file"]]
          /\ memory' = Default
     ELSE /\ memory' = disk["file"][2] /\ UNCHANGED disk
  /\ stored' = memory' /\ changed' = FALSE /\ saver' = "idle"
  /\ UNCHANGED crashes

\* prefs::setValue, addKey, addSection: a thread changes a setting when no other
\* holds the lock to read.
Change ==
  /\ saver \notin {"down", "dump"}
  /\ \E s \in Settings : memory' \in {memory \cup {s}, memory \ {s}}
  /\ memory' # memory /\ changed' = TRUE
  /\ UNCHANGED <<disk, saver, stored, crashes>>

\* Seeded fault: the file is written in place.
DumpInPlace ==
  /\ saver \in {"idle", "dump"}
  /\ saver = "idle" => changed
  /\ IF saver = "idle"
     THEN disk' = [disk EXCEPT !["file"] = <<Torn>>] /\ saver' = "dump"
     ELSE disk' = [disk EXCEPT !["file"] = Holding(memory), !["new"] = Holding(memory)]
          /\ saver' = "check"
  /\ UNCHANGED <<memory, changed, stored, crashes>>

\* ltr_int_dump_prefs to .new, while the lock is held to read
Dump ==
  /\ saver \in {"idle", "dump"}
  /\ saver = "idle" => changed
  /\ IF saver = "idle"
     THEN disk' = [disk EXCEPT !["new"] = <<Torn>>] /\ saver' = "dump"
     ELSE disk' = [disk EXCEPT !["new"] = Holding(memory)] /\ saver' = "check"
  /\ UNCHANGED <<memory, changed, stored, crashes>>

\* parse_prefs of .new into preferences of its own. When it fails it frees those
\* of the program, which has none from here on.
Check ==
  /\ saver = "check"
  /\ IF disk["new"][2] \cap Odd = {}
     THEN saver' = "remove" /\ UNCHANGED <<memory, changed>>
     ELSE saver' = "idle" /\ memory' = {} /\ changed' = FALSE
  /\ UNCHANGED <<disk, stored, crashes>>

RemoveOld ==
  /\ saver = "remove" /\ saver' = "aside"
  /\ disk' = [disk EXCEPT !["old"] = <<Absent>>]
  /\ UNCHANGED <<memory, changed, stored, crashes>>

\* The first rename; that it fails is said and no more.
PutAside ==
  /\ saver = "aside" /\ saver' = "place"
  /\ disk' = [disk EXCEPT !["old"] = disk["file"], !["file"] = <<Absent>>]
  /\ UNCHANGED <<memory, changed, stored, crashes>>

\* The second rename
Place ==
  /\ saver = "place" /\ saver' = "reset"
  /\ disk' = [disk EXCEPT !["file"] = disk["new"], !["new"] = <<Absent>>]
  /\ stored' = disk["new"][2]
  /\ UNCHANGED <<memory, changed, crashes>>

\* A change since the dump is forgotten with the others.
ResetChangeFlag ==
  /\ saver = "reset" /\ saver' = "idle" /\ changed' = FALSE
  /\ UNCHANGED <<memory, disk, stored, crashes>>

\* PrefProxy::rereadPrefs: what was not saved is dropped.
Reread ==
  /\ saver = "idle" /\ disk["file"] # <<Absent>>
  /\ memory' = disk["file"][2] /\ changed' = FALSE
  /\ UNCHANGED <<disk, saver, stored, crashes>>

\* The program quits without saving, or is killed.
Die ==
  /\ saver # "down" /\ crashes < MaxCrashes
  /\ saver' = "down" /\ crashes' = crashes + 1
  /\ memory' = {} /\ changed' = FALSE
  /\ UNCHANGED <<disk, stored>>

PrefNext ==
  \/ Start \/ Change \/ Dump \/ Check \/ RemoveOld \/ PutAside \/ Place
  \/ ResetChangeFlag \/ Reread \/ Die

PrefSpec == Init /\ [][PrefNext]_prefVars

------------------------------------------------------------------------------
\* The preferences that were stored last are whole in a file, at whichever step
\* of a save the program is killed, until others take their place
\* (pref.cpp:506-527).
StoredCopyKept == \E f \in {"file", "old"} : disk[f] = Holding(stored)

================================================================================
