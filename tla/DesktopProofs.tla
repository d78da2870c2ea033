---------------------------- MODULE DesktopProofs ----------------------------
(***************************************************************************)
(* Proofs about programs of the user's desktop: the preferences every      *)
(* program of the package keeps (Preferences), the settings mickey tries   *)
(* out (Mickey), the processes of TrackIR.exe (TrackIRWindow), the search  *)
(* for the firmware (Extractor), the models (ModelSetup), the hot keys of  *)
(* mickey (Shortcuts), the Wiimote server of macOS (MacWiimote) and the    *)
(* LEDs of a Wiimote (WiiLights).                                          *)
(***************************************************************************)
EXTENDS Integers, FiniteSets, FiniteSetTheorems, Sequences, TLAPS

CONSTANTS
  Settings, Odd, MaxCrashes,                          \* Preferences
  Setups, Ranges, MaxTrials,                          \* Mickey
  Gamers, Instances, Nobody,                          \* TrackIRWindow
  Installations, MaxDirs, MaxPresses,                 \* Extractor
  KeptModels, NewModel, MaxChanges,                   \* ModelSetup
  Keyboard, Unknown, HotKeys, Assigned, MaxAssigns, MaxTyped, MaxOthers, \* Shortcuts
  MaxPushes, MaxCommands, MaxLosses,                  \* MacWiimote
  KeptLights, MaxTicks, MaxTurns                      \* WiiLights

VARIABLES
  memory, changed, disk, saver, stored, crashes,
  mouse, dialog, setup, oldSetup, newSetup, sliders, range, prevRange, guiRange,
  calibrating, asleep, used, outcome, trials,
  game, shared, instance, hidden, handles, owner, exclusive, views, lost,
  plugin, shown, buttons, mfcButtons, download, wine, box, stage, contents, destPath,
  link, thread, queued, twice, presses,
  models, active, kept, current, listed, tweaker, mdlType, devType, warned,
  announcing, model_changed, why, flag, section, pose, recenter, init_recenter,
  centre, behind, slipped, choices,
  shortcutHash, grabbed, others, filters, handler, hotKey, settings, down, ctrl,
  added, prev_btns, device, clicker, excused, stale, failed, assigns, strokes,
  server_state, inquiry, state, opened, channel, connected_channels, timers, irOn,
  mode, polls, held, indicate, command, old_cmd, late, missed, refused, pushes,
  commands, losses,
  lights, boxes, gui, tracker, driver, given, indication, cmd, seen, old, leds, torn,
  unseen, ticks, turns

Prf == INSTANCE Preferences
Mou == INSTANCE Mickey
Win == INSTANCE TrackIRWindow
Ext == INSTANCE Extractor
Mod == INSTANCE ModelSetup
Hot == INSTANCE Shortcuts
Mac == INSTANCE MacWiimote
Led == INSTANCE WiiLights

------------------------------------------------------------------------------
(***************************************************************************)
(* Preferences, for any settings, any of them odd, and any number of       *)
(* crashes.  A save moves the file out of the way before the new one takes *)
(* its place; for each step of it InStep says which of the two copies      *)
(* there is, and that the new one is whole by then.                        *)
(***************************************************************************)

\* Where the stored preferences are at each step of a save.
InStep ==
  /\ saver \in {"idle", "dump", "check", "remove", "aside", "reset"} =>
       disk["file"] = Prf!Holding(stored)
  /\ saver = "place" => disk["old"] = Prf!Holding(stored)
  /\ saver \in {"check", "remove", "aside", "place"} =>
       \E w \in Prf!Whole : disk["new"] = Prf!Holding(w)

\* The invariant of Preferences.
PrefInv == Prf!TypeOK /\ InStep /\ Prf!StoredCopyKept

\* What a file can hold, taken apart.
LEMMA ContentsAre ==
  ASSUME NEW c \in Prf!Contents
  PROVE  \/ c = <<Prf!Absent>>
         \/ c = <<Prf!Torn>>
         \/ c[2] \in Prf!Whole /\ c = Prf!Holding(c[2])
BY DEF Prf!Contents, Prf!Holding

\* A file that holds settings, one that is absent and one that is torn are contents of a file.
LEMMA HoldingIsContent ==
  /\ \A w \in Prf!Whole : Prf!Holding(w) \in Prf!Contents /\ Prf!Holding(w)[2] = w
  /\ <<Prf!Absent>> \in Prf!Contents /\ <<Prf!Torn>> \in Prf!Contents
  /\ Prf!Default \in Prf!Whole
BY DEF Prf!Contents, Prf!Holding, Prf!Whole, Prf!Default

\* The start of the program, its changes and its end.
LEMMA ProgramKeeps ==
  ASSUME Prf!SettingsAssumption, PrefInv, Prf!Start \/ Prf!Change \/ Prf!Reread \/ Prf!Die
  PROVE  PrefInv'
<1> USE DEF PrefInv, Prf!StoredCopyKept, Prf!SettingsAssumption
<1>1. CASE Prf!Start
  <2>1. disk["file"] \in Prf!Contents /\ "file" \in Prf!Files /\ "backup" \in Prf!Files /\ "old" \in Prf!Files
    BY DEF Prf!TypeOK, Prf!Files
  <2>2. CASE disk["file"] \in {<<Prf!Absent>>, <<Prf!Torn>>}
    <3>1. disk' \in [Prf!Files -> Prf!Contents] /\ disk'["file"] = Prf!Holding(Prf!Default)
      BY <1>1, <2>1, <2>2, HoldingIsContent DEF Prf!Start, Prf!TypeOK, Prf!Files
    <3> QED
      BY <1>1, <2>2, <3>1, HoldingIsContent DEF Prf!Start, Prf!TypeOK, InStep
  <2>3. CASE disk["file"] \notin {<<Prf!Absent>>, <<Prf!Torn>>}
    <3>1. disk["file"][2] \in Prf!Whole /\ disk["file"] = Prf!Holding(disk["file"][2])
      BY <2>1, <2>3, ContentsAre
    <3> QED
      BY <1>1, <2>3, <3>1 DEF Prf!Start, Prf!TypeOK, InStep
  <2> QED
    BY <2>2, <2>3
<1>2. CASE Prf!Change
  BY <1>2 DEF Prf!Change, Prf!TypeOK, InStep, Prf!Whole
<1>3. CASE Prf!Reread
  <2>1. disk["file"] = Prf!Holding(stored)
    BY <1>3 DEF Prf!Reread, InStep
  <2>2. disk["file"][2] \in Prf!Whole
    BY <2>1, HoldingIsContent DEF Prf!TypeOK
  <2> QED
    BY <1>3, <2>2 DEF Prf!Reread, Prf!TypeOK, InStep
<1>4. CASE Prf!Die
  <2>1. memory' \in Prf!Whole /\ crashes' \in 0 .. MaxCrashes
    BY <1>4, HoldingIsContent DEF Prf!Die, Prf!TypeOK, Prf!Default
  <2>2. saver' = "down" /\ changed' = FALSE /\ disk' = disk /\ stored' = stored
    BY <1>4 DEF Prf!Die
  <2>3. Prf!TypeOK' /\ InStep'
    BY <2>1, <2>2 DEF Prf!TypeOK, InStep
  <2> QED
    BY <2>2, <2>3
<1> QED
  BY <1>1, <1>2, <1>3, <1>4

\* The steps of ltr_int_save_prefs.
LEMMA SaveKeeps ==
  ASSUME Prf!SettingsAssumption, PrefInv,
         Prf!Dump \/ Prf!Check \/ Prf!RemoveOld \/ Prf!PutAside \/ Prf!Place \/ Prf!ResetChangeFlag
  PROVE  PrefInv'
<1> USE DEF PrefInv, Prf!StoredCopyKept
<1>1. "file" \in Prf!Files /\ "new" \in Prf!Files /\ "old" \in Prf!Files /\ "backup" \in Prf!Files
  BY DEF Prf!Files
<1>2. CASE Prf!Dump
  <2>1. disk' \in [Prf!Files -> Prf!Contents] /\ disk'["file"] = disk["file"]
    BY <1>1, <1>2, HoldingIsContent DEF Prf!Dump, Prf!TypeOK
  <2>2. saver' = "check" => disk'["new"] = Prf!Holding(memory)
    BY <1>1, <1>2 DEF Prf!Dump, Prf!TypeOK
  <2> QED
    BY <1>2, <2>1, <2>2 DEF Prf!Dump, Prf!TypeOK, InStep
<1>3. CASE Prf!Check
  BY <1>3 DEF Prf!Check, Prf!TypeOK, InStep, Prf!Whole
<1>4. CASE Prf!RemoveOld
  <2>1. disk' \in [Prf!Files -> Prf!Contents] /\ disk'["file"] = disk["file"]
        /\ disk'["new"] = disk["new"]
    BY <1>1, <1>4, HoldingIsContent DEF Prf!RemoveOld, Prf!TypeOK
  <2> QED
    BY <1>4, <2>1 DEF Prf!RemoveOld, Prf!TypeOK, InStep
<1>5. CASE Prf!PutAside
  <2>1. disk' \in [Prf!Files -> Prf!Contents] /\ disk'["old"] = disk["file"]
        /\ disk'["new"] = disk["new"]
    BY <1>1, <1>5, HoldingIsContent DEF Prf!PutAside, Prf!TypeOK
  <2> QED
    BY <1>5, <2>1 DEF Prf!PutAside, Prf!TypeOK, InStep
<1>6. CASE Prf!Place
  <2>1. PICK w \in Prf!Whole : disk["new"] = Prf!Holding(w)
    BY <1>6 DEF Prf!Place, InStep
  <2>2. disk' \in [Prf!Files -> Prf!Contents] /\ disk'["file"] = disk["new"]
    BY <1>1, <1>6, HoldingIsContent DEF Prf!Place, Prf!TypeOK
  <2>3. stored' = w
    BY <1>6, <2>1, HoldingIsContent DEF Prf!Place
  <2> QED
    BY <1>6, <2>1, <2>2, <2>3 DEF Prf!Place, Prf!TypeOK, InStep
<1>7. CASE Prf!ResetChangeFlag
  BY <1>7 DEF Prf!ResetChangeFlag, Prf!TypeOK, InStep
<1> QED
  BY <1>2, <1>3, <1>4, <1>5, <1>6, <1>7

\* At each step of a save the old copy or the new one is where InStep says.
THEOREM PrefInvariance == ASSUME Prf!SettingsAssumption PROVE Prf!PrefSpec => []PrefInv
<1>1. Prf!Init => PrefInv
  <2> SUFFICES ASSUME Prf!Init PROVE PrefInv
    OBVIOUS
  <2>1. disk \in [Prf!Files -> Prf!Contents] /\ disk["file"] = Prf!Holding(Prf!Default)
    BY HoldingIsContent DEF Prf!Init, Prf!Empty, Prf!Files
  <2>2. Prf!TypeOK
    <3>1. memory \in Prf!Whole /\ stored \in Prf!Whole
      BY HoldingIsContent DEF Prf!Init
    <3>2. saver = "down" /\ crashes = 0 /\ changed = FALSE
      BY Zenon DEF Prf!Init
    <3>3. crashes \in 0 .. MaxCrashes
      BY <3>2 DEF Prf!SettingsAssumption
    <3> QED
      BY <2>1, <3>1, <3>2, <3>3 DEF Prf!TypeOK
  <2>3. InStep
    BY DEF Prf!Init, InStep
  <2>4. Prf!StoredCopyKept
    BY <2>1 DEF Prf!Init, Prf!StoredCopyKept
  <2> QED
    BY <2>2, <2>3, <2>4 DEF PrefInv
<1>2. PrefInv /\ [Prf!PrefNext]_(Prf!prefVars) => PrefInv'
  <2>1. PrefInv /\ UNCHANGED Prf!prefVars => PrefInv'
    BY DEF PrefInv, Prf!TypeOK, InStep, Prf!StoredCopyKept, Prf!prefVars
  <2> QED
    BY <2>1, ProgramKeeps, SaveKeeps DEF Prf!PrefNext
<1> QED
  BY <1>1, <1>2, PTL DEF Prf!PrefSpec

\* Every variable has its type.
THEOREM PrefTypes == ASSUME Prf!SettingsAssumption PROVE Prf!PrefSpec => []Prf!TypeOK
<1>1. PrefInv => Prf!TypeOK
  BY DEF PrefInv
<1> QED
  BY <1>1, PrefInvariance, PTL

\* The preferences stored last are in a file, at whatever step of a save
\* (pref.cpp:506-531) and however often the program is killed.
THEOREM StoredCopySurvives == ASSUME Prf!SettingsAssumption PROVE Prf!PrefSpec => []Prf!StoredCopyKept
<1>1. PrefInv => Prf!StoredCopyKept
  BY DEF PrefInv
<1> QED
  BY <1>1, PrefInvariance, PTL
------------------------------------------------------------------------------
(***************************************************************************)
(* Mickey, for any setups and ranges and any number of dialogs.  What a    *)
(* trial goes back to is set aside in two places, the old setup when it    *)
(* begins and the range when a calibration before it did: for each dialog  *)
(* Aside says which of the variables hold what was in use.                 *)
(***************************************************************************)

\* Between the dialogs the three copies of the range agree, and of the setup those that
\* the window shows.
Copies ==
  /\ newSetup = sliders
  /\ dialog \notin {"CALIBRATE", "apply"} => prevRange = range
  /\ dialog # "CALIBRATE" => guiRange = range

\* Where what was in use before a trial can be found.
Aside ==
  /\ calibrating <=> dialog = "CALIBRATE"
  /\ dialog # "none" => outcome = "none"
  /\ dialog = "CALIBRATE" =>
       guiRange = prevRange /\ used = [setup |-> setup, range |-> prevRange]
  /\ dialog = "apply" => used = [setup |-> oldSetup, range |-> prevRange]
  /\ dialog = "none" /\ outcome = "reverted" => used = [setup |-> setup, range |-> range]

\* The invariant of Mickey.
MouInv == Copies /\ Aside

\* The dialogs of mickey set aside what they need to put back.
THEOREM MouInvariance == Mou!MickeySpec => []MouInv
<1>1. Mou!Init => MouInv
  BY DEF Mou!Init, MouInv, Copies, Aside
<1>2. MouInv /\ [Mou!MickeyNext]_(Mou!mickeyVars) => MouInv'
  <2> SUFFICES ASSUME MouInv, [Mou!MickeyNext]_(Mou!mickeyVars)
               PROVE  MouInv'
    OBVIOUS
  <2> USE DEF MouInv, Copies, Aside
  <2>1. CASE Mou!Toggle
    BY <2>1 DEF Mou!Toggle, Mou!settingVars
  <2>2. CASE Mou!MoveSlider
    BY <2>2 DEF Mou!MoveSlider
  <2>3. CASE Mou!Apply
    BY <2>3 DEF Mou!Apply, Mou!TrySettings
  <2>4. CASE Mou!Keep
    BY <2>4 DEF Mou!Keep
  <2>5. CASE Mou!Revert
    BY <2>5 DEF Mou!Revert
  <2>6. CASE Mou!Calibrate
    BY <2>6 DEF Mou!Calibrate, Mou!settingVars
  <2>7. CASE Mou!Centred
    BY <2>7 DEF Mou!Centred
  <2>8. CASE Mou!HeadMoves
    BY <2>8 DEF Mou!HeadMoves
  <2>9. CASE Mou!FinishCalibration
    BY <2>9 DEF Mou!FinishCalibration, Mou!TrySettings
  <2>10. CASE Mou!CancelCalibration
    BY <2>10 DEF Mou!CancelCalibration
  <2>11. CASE UNCHANGED Mou!mickeyVars
    BY <2>11 DEF Mou!mickeyVars
  <2> QED
    BY <2>1, <2>2, <2>3, <2>4, <2>5, <2>6, <2>7, <2>8, <2>9, <2>10, <2>11 DEF Mou!MickeyNext
<1> QED
  BY <1>1, <1>2, PTL DEF Mou!MickeySpec

\* A trial of settings that is reverted leaves the setup and the range that were in use
\* before it, whatever was calibrated, kept or cancelled earlier (Mickey::revertSettings).
THEOREM RevertGoesBack == Mou!MickeySpec => []Mou!RevertRestores
<1>1. MouInv => Mou!RevertRestores
  BY DEF MouInv, Copies, Aside, Mou!RevertRestores
<1> QED
  BY <1>1, MouInvariance, PTL
------------------------------------------------------------------------------
(***************************************************************************)
(* TrackIRWindow, for any number of games and of processes.  An instance   *)
(* with a window owns the mutex and has it open, so there is one; a hidden *)
(* one leaves only when no game has the lock of NPClient.dll, which every  *)
(* game has while nothing is lost.                                         *)
(***************************************************************************)

\* Who has the mutex open, and whose it is.
Owned ==
  /\ \A i \in Instances : instance[i] \in Win!Alive => owner = i
  /\ \A i \in Instances : instance[i] \in Win!Alive \cup {"opened"} => i \in handles

\* A game that runs has the lock, and a TrackIR that has not begun to leave.
Served ==
  ~lost =>
    /\ \A g \in Gamers : game[g] \in {"locked", "runs"} => g \in shared
    /\ (\E g \in Gamers : game[g] = "runs") =>
         \E i \in Instances : instance[i] \in Win!Alive \cup {"started", "opened"}

\* The invariant of TrackIRWindow.
WinInv == Win!TypeOK /\ Owned /\ Served

\* The games.
LEMMA GamesKeep ==
  ASSUME WinInv, NEW g \in Gamers, Win!Register(g) \/ Win!RunFile(g) \/ Win!GameEnds(g)
  PROVE  WinInv'
<1> USE DEF WinInv, Win!TypeOK, Win!Alive
<1>1. CASE Win!Register(g)
  <2>1. Win!TypeOK'
    BY <1>1 DEF Win!Register, Win!SharedLock
  <2>2. Owned' /\ Served'
    BY <1>1 DEF Win!Register, Win!SharedLock, Owned, Served
  <2> QED
    BY <2>1, <2>2
<1>2. CASE Win!RunFile(g)
  <2>1. PICK i \in Instances :
          instance[i] = "none" /\ instance' = [instance EXCEPT ![i] = "started"]
          /\ hidden' = hidden \cup {i}
    BY <1>2 DEF Win!RunFile, Win!GoTo
  <2>2. Win!TypeOK'
    BY <1>2, <2>1 DEF Win!RunFile, Win!Places
  <2>3. Owned'
    BY <1>2, <2>1 DEF Win!RunFile, Owned
  <2>4. Served'
    BY <1>2, <2>1 DEF Win!RunFile, Served
  <2> QED
    BY <2>2, <2>3, <2>4
<1>3. CASE Win!GameEnds(g)
  BY <1>3 DEF Win!GameEnds, Owned, Served
<1> QED
  BY <1>1, <1>2, <1>3

\* A process that ends takes nothing from one that has a window.
LEMMA ReleaseKeeps ==
  ASSUME WinInv, NEW i \in Instances, instance[i] \notin Win!Alive, Win!Released(i),
         instance' = [instance EXCEPT ![i] = "over"]
  PROVE  /\ instance' \in [Instances -> Win!Places]
         /\ handles' \subseteq Instances /\ exclusive' \in Instances \cup {Nobody}
         /\ owner' \in Instances \cup {Nobody, "abandoned"}
         /\ Owned'
<1> USE DEF WinInv, Win!TypeOK, Win!Released
<1>1. /\ instance' \in [Instances -> Win!Places]
      /\ handles' \subseteq Instances /\ exclusive' \in Instances \cup {Nobody}
      /\ owner' \in Instances \cup {Nobody, "abandoned"}
  BY DEF Win!Places
<1>2. ASSUME NEW j \in Instances, instance'[j] \in Win!Alive \cup {"opened"}
      PROVE  j # i /\ instance[j] = instance'[j] /\ j \in handles'
  BY <1>2 DEF Owned, Win!Alive
<1>3. ASSUME NEW j \in Instances, instance'[j] \in Win!Alive
      PROVE  owner' = j
  <2>1. j # i /\ owner = j /\ handles' # {}
    BY <1>2, <1>3 DEF Owned
  <2> QED
    BY <2>1
<1> QED
  BY <1>1, <1>2, <1>3 DEF Owned

\* The instances.
LEMMA InstanceKeeps ==
  ASSUME WinInv, NEW i \in Instances,
         Win!UserStarts(i) \/ Win!UserQuits(i) \/ Win!InstanceGoes(i)
  PROVE  WinInv'
<1> USE DEF WinInv, Win!GoTo
<1>1. CASE Win!UserStarts(i)
  BY <1>1 DEF Win!UserStarts, Win!TypeOK, Win!Places, Win!Alive, Owned, Served
<1>2. CASE Win!UserQuits(i)
  <2>1. Win!TypeOK' /\ Served'
    BY <1>2 DEF Win!UserQuits, Win!TypeOK, Win!Places, Served
  <2>2. ASSUME NEW j \in Instances PROVE instance'[j] \notin Win!Alive
    BY <1>2 DEF Win!UserQuits, Win!TypeOK, Win!Alive, Owned
  <2>3. ASSUME NEW j \in Instances, instance'[j] = "opened" PROVE j \in handles'
    BY <1>2, <2>3 DEF Win!UserQuits, Win!TypeOK, Owned
  <2> QED
    BY <2>1, <2>2, <2>3 DEF Owned
<1>3. CASE Win!OpenMutex(i)
  <2>1. Win!TypeOK'
    BY <1>3 DEF Win!OpenMutex, Win!TypeOK, Win!Places
  <2>2. Owned'
    BY <1>3 DEF Win!OpenMutex, Win!TypeOK, Win!Alive, Owned
  <2>3. Served'
    BY <1>3 DEF Win!OpenMutex, Win!TypeOK, Win!Alive, Served
  <2> QED
    BY <2>1, <2>2, <2>3
<1>4. CASE Win!WaitMutex(i)
  <2>1. CASE owner = i
    BY <1>4, <2>1 DEF Win!WaitMutex, Win!TypeOK, Win!Places, Win!Alive, Owned, Served
  <2>2. CASE owner # i
    <3>1. instance[i] \notin Win!Alive /\ instance' = [instance EXCEPT ![i] = "over"]
          /\ Win!Released(i) /\ UNCHANGED <<game, shared, hidden, views>>
      BY <1>4, <2>2 DEF Win!WaitMutex, Win!Alive
    <3>2. Win!TypeOK' /\ Owned'
      BY <1>4, <2>2, <3>1, ReleaseKeeps DEF Win!WaitMutex, Win!TypeOK
    <3>3. ~lost' => ~lost /\ \E j \in Instances : j # i /\ instance[j] \in Win!Alive
      BY <1>4, <2>2, <3>1 DEF Win!WaitMutex, Win!TypeOK, Win!Alive
    <3>4. Served'
      BY <3>1, <3>3 DEF Served, Win!TypeOK
    <3> QED
      BY <3>2, <3>4
  <2> QED
    BY <2>1, <2>2
<1>5. CASE Win!Create(i)
  BY <1>5 DEF Win!Create, Win!TypeOK, Win!Places, Win!Alive, Owned, Served
<1>6. CASE Win!Tick(i)
  BY <1>6 DEF Win!Tick, Win!ExclusiveLock, Win!TypeOK, Win!Places, Win!Alive, Owned, Served
<1>7. CASE Win!Leave(i)
  <2>1. instance[i] = "leaves" /\ instance' = [instance EXCEPT ![i] = "over"]
        /\ Win!Released(i) /\ UNCHANGED <<game, shared, hidden, views, lost>>
    BY <1>7 DEF Win!Leave
  <2>2. Win!TypeOK' /\ Owned'
    BY <2>1, ReleaseKeeps DEF Win!TypeOK, Win!Alive
  <2>3. Served'
    BY <2>1 DEF Served, Win!TypeOK, Win!Alive
  <2> QED
    BY <2>2, <2>3
<1> QED
  BY <1>1, <1>2, <1>3, <1>4, <1>5, <1>6, <1>7 DEF Win!InstanceGoes

\* Whose the mutex of TrackIR.exe is, and who is served, whether the instances are fair or
\* not.
THEOREM WinInvariance == Win!Init /\ [][Win!WindowNext]_(Win!windowVars) => []WinInv
<1>1. Win!Init => WinInv
  BY DEF Win!Init, WinInv, Win!TypeOK, Win!Places, Win!Alive, Owned, Served
<1>2. WinInv /\ [Win!WindowNext]_(Win!windowVars) => WinInv'
  <2>1. WinInv /\ UNCHANGED Win!windowVars => WinInv'
    BY DEF WinInv, Win!TypeOK, Owned, Served, Win!windowVars
  <2> QED
    BY <2>1, GamesKeep, InstanceKeeps DEF Win!WindowNext
<1> QED
  BY <1>1, <1>2, PTL

\* One TrackIR at a time has a window, and while nothing is lost a game that has started
\* one has one (WinMain, runFile), for any number of games and processes.
THEOREM OneTrackIRServes ==
  Win!Init /\ [][Win!WindowNext]_(Win!windowVars) => []Win!OneTrackIR
<1>1. WinInv => Win!OneTrackIR
  <2> SUFFICES ASSUME WinInv
               PROVE  Win!OneTrackIR
    OBVIOUS
  <2> DEFINE alive == {i \in Instances : instance[i] \in Win!Alive}
  <2>1. alive \subseteq {owner}
    BY DEF WinInv, Owned
  <2>2. Cardinality(alive) <= 1
    <3>1. alive = {} \/ alive = {owner}
      BY <2>1
    <3>2. Cardinality({}) = 0 /\ Cardinality({owner}) = 1
      BY FS_EmptySet, FS_Singleton
    <3> QED
      BY <3>1, <3>2
  <2>3. ~lost /\ (\E g \in Gamers : game[g] = "runs") =>
          \E i \in Instances : instance[i] \in Win!Alive \cup {"started", "opened"}
    BY DEF WinInv, Served
  <2>4. Win!Cardinality(alive) = Cardinality(alive)
    BY DEF Cardinality, Win!Cardinality
  <2> QED
    BY <2>2, <2>3, <2>4 DEF Win!OneTrackIR
<1> QED
  BY <1>1, WinInvariance, PTL
------------------------------------------------------------------------------
(***************************************************************************)
(* Extractor, for any installations and any number of directories and      *)
(* presses.  While nothing has reported twice there is one thing under     *)
(* way: the user may press a button, or there is a download, Wine, a       *)
(* warning, a search or the end of one to be taken up.  So the directory   *)
(* that was made last is the one that is searched, and the one the end of  *)
(* the search is about.                                                    *)
(***************************************************************************)

\* One thing is under way at most.
OneAtATime ==
  /\ buttons => ~download /\ wine["tir"] # "running" /\ ~box /\ ~thread.running /\ ~queued
  /\ download => wine["tir"] # "running" /\ ~box /\ ~thread.running /\ ~queued
  /\ wine["tir"] = "running" => ~box /\ ~thread.running /\ ~queued
  /\ box => ~thread.running /\ ~queued
  /\ thread.running => ~queued

\* The directory of a search is a new one, with what was found in it; that of a search
\* which found everything has everything.
SearchIsOfNew ==
  /\ thread.running =>
       /\ destPath # Ext!None /\ thread.dest = destPath /\ link # destPath
       /\ thread.found \subseteq contents[destPath]
  /\ queued /\ thread.everything =>
       destPath # Ext!None /\ Ext!Needed \subseteq contents[destPath]

\* What the link leads to has all that a TrackIR needs.
LinkIsComplete == link # Ext!None => Ext!Needed \subseteq contents[link]

\* The invariant of Extractor: while one extraction is at work at a time.
ExtInv == Ext!TypeOK /\ (~twice => OneAtATime /\ SearchIsOfNew /\ LinkIsComplete)

\* A new directory is empty and leaves the others as they are.
LEMMA NewDirectory ==
  ASSUME Ext!ExtractorAssumption, Ext!TypeOK, Ext!MakeDestPath
  PROVE  /\ destPath' \in 0 .. MaxDirs /\ destPath' = destPath + 1 /\ destPath' # Ext!None
         /\ Ext!Dirs' = 1 .. destPath' /\ Ext!Dirs \subseteq Ext!Dirs'
         /\ destPath' \in Ext!Dirs' /\ destPath' \notin Ext!Dirs
         /\ \A d \in Ext!Dirs : contents'[d] = contents[d]
         /\ \A d \in Ext!Dirs' : contents'[d] \subseteq Ext!Things
BY DEF Ext!ExtractorAssumption, Ext!TypeOK, Ext!MakeDestPath, Ext!Dirs, Ext!None

\* The type of a search in one of the directories.
Threads(dirs) ==
  [running : BOOLEAN, quit : BOOLEAN, dest : {Ext!None} \cup dirs,
   left : [Ext!Needed -> Nat], found : SUBSET Ext!Needed, everything : BOOLEAN]

\* A search begins with nothing found, or is the one that runs.
LEMMA SearchBegins ==
  ASSUME Ext!ExtractorAssumption, Ext!TypeOK, Ext!MakeDestPath, Ext!Search(destPath')
  PROVE  /\ thread' \in Threads(Ext!Dirs')
         /\ ~thread.running =>
              /\ thread'.running /\ thread'.dest = destPath' /\ thread'.found = {}
              /\ thread'.everything = thread.everything
<1>1. thread \in Threads(Ext!Dirs) /\ Ext!Dirs \subseteq Ext!Dirs' /\ destPath' \in Ext!Dirs'
  BY NewDirectory DEF Ext!TypeOK, Threads
<1>2. CASE thread.running
  BY <1>1, <1>2 DEF Ext!Search, Threads
<1>3. CASE ~thread.running
  <2>1. PICK files \in Installations :
          thread' = [thread EXCEPT !.running = TRUE, !.quit = FALSE, !.dest = destPath',
                                   !.left = files, !.found = {}]
    BY <1>3 DEF Ext!Search
  <2>2. files \in [Ext!Needed -> Nat]
    BY DEF Ext!ExtractorAssumption
  <2> QED
    BY <1>1, <1>3, <2>1, <2>2 DEF Threads
<1> QED
  BY <1>2, <1>3

\* What is extracted now: the only thing under way gives way to a search.
LEMMA ExtractionKeeps ==
  ASSUME Ext!ExtractorAssumption, ExtInv, Ext!MakeDestPath, Ext!Search(destPath'),
         UNCHANGED <<plugin, shown, mfcButtons, download, stage, link, queued>>,
         wine' \in [{"tir", "mfc", "plugin"} -> {"idle", "running", "crashed"}],
         buttons' \in BOOLEAN, box' \in BOOLEAN, twice' \in BOOLEAN,
         presses' \in 0 .. MaxPresses,
         ~twice' => ~twice /\ ~thread.running /\ ~queued,
         ~twice' => ~buttons' /\ ~download' /\ wine'["tir"] # "running" /\ ~box'
  PROVE  ExtInv'
<1> USE DEF ExtInv
<1>1. /\ destPath' \in 0 .. MaxDirs /\ destPath' # Ext!None
      /\ Ext!Dirs' = 1 .. destPath' /\ Ext!Dirs \subseteq Ext!Dirs'
      /\ destPath' \in Ext!Dirs' /\ destPath' \notin Ext!Dirs
      /\ \A d \in Ext!Dirs : contents'[d] = contents[d]
      /\ \A d \in Ext!Dirs' : contents'[d] \subseteq Ext!Things
  BY NewDirectory
<1>2. /\ thread' \in Threads(Ext!Dirs')
      /\ ~thread.running => thread'.running /\ thread'.dest = destPath' /\ thread'.found = {}
  BY SearchBegins
<1>3. Ext!TypeOK'
  BY <1>1, <1>2 DEF Ext!TypeOK, Threads
<1>4. ASSUME ~twice' PROVE (OneAtATime /\ SearchIsOfNew /\ LinkIsComplete)'
  <2>1. link \in {Ext!None} \cup Ext!Dirs
    BY DEF Ext!TypeOK
  <2>2. OneAtATime'
    BY <1>2, <1>4 DEF OneAtATime
  <2>3. SearchIsOfNew'
    BY <1>1, <1>2, <1>4, <2>1 DEF SearchIsOfNew
  <2>4. LinkIsComplete'
    BY <1>1, <1>4, <2>1 DEF LinkIsComplete
  <2> QED
    BY <2>2, <2>3, <2>4
<1> QED
  BY <1>3, <1>4

\* The dialogs one after the other, and those of the other installer: they may add the
\* library to the directory that is linked.
LEMMA DialogsKeep ==
  ASSUME Ext!ExtractorAssumption, ExtInv,
         Ext!PressFirmware \/ Ext!PressPlugin \/ Ext!PluginEnds \/ Ext!PressMfc \/ Ext!MfcReports
  PROVE  ExtInv'
<1> USE DEF ExtInv
<1>0. /\ plugin' \in {"DONE", "TIR_FW", "MFC", "LTR_W"} /\ shown' \in {"none", "tir", "mfc"}
  BY DEF Ext!PressFirmware, Ext!PressPlugin, Ext!PluginEnds, Ext!PressMfc, Ext!MfcReports,
         Ext!Finished, Ext!InstallPlugin, Ext!TypeOK
<1>1. presses' \in 0 .. MaxPresses
  BY DEF Ext!PressFirmware, Ext!PressPlugin, Ext!PluginEnds, Ext!PressMfc, Ext!MfcReports,
         Ext!Press, Ext!TypeOK, Ext!ExtractorAssumption
<1>7. mfcButtons' \in BOOLEAN /\ stage' \in 0 .. 1
  <2>1. mfcButtons' \in {mfcButtons, TRUE, FALSE} /\ stage' \in {stage, 0, 1}
    BY Zenon DEF Ext!PressFirmware, Ext!PressPlugin, Ext!PluginEnds, Ext!PressMfc,
                 Ext!MfcReports, Ext!Rest
  <2>2. mfcButtons \in BOOLEAN /\ stage \in 0 .. 1
    BY DEF Ext!TypeOK
  <2>3. mfcButtons' \in BOOLEAN
    BY <2>1, <2>2, Zenon
  <2> QED
    BY <2>1, <2>2, <2>3
<1>2. /\ UNCHANGED <<buttons, download, box, destPath, link, thread, queued, twice>>
      /\ wine' \in [{"tir", "mfc", "plugin"} -> {"idle", "running", "crashed"}]
      /\ wine'["tir"] = wine["tir"]
  BY DEF Ext!PressFirmware, Ext!PressPlugin, Ext!PluginEnds, Ext!PressMfc, Ext!MfcReports,
         Ext!Finished, Ext!InstallPlugin, Ext!Rest, Ext!TypeOK
<1>3. \/ UNCHANGED contents
      \/ link # Ext!None /\ contents' = [contents EXCEPT ![link] = @ \cup {"mfc"}]
  BY DEF Ext!PressFirmware, Ext!PressPlugin, Ext!PluginEnds, Ext!PressMfc, Ext!MfcReports, Ext!Rest
<1>4. /\ Ext!Dirs' = Ext!Dirs
      /\ \A d \in Ext!Dirs : contents[d] \subseteq contents'[d] /\ contents'[d] \subseteq Ext!Things
  BY <1>3 DEF Ext!Dirs, Ext!Things, Ext!TypeOK
<1>5. Ext!TypeOK'
  BY <1>0, <1>1, <1>2, <1>4, <1>7 DEF Ext!TypeOK
<1>6. ASSUME ~twice' PROVE (OneAtATime /\ SearchIsOfNew /\ LinkIsComplete)'
  <2>1. /\ link \in {Ext!None} \cup Ext!Dirs
        /\ destPath # Ext!None => destPath \in Ext!Dirs
    BY DEF Ext!TypeOK, Ext!None
  <2>2. OneAtATime'
    BY <1>2, <1>6 DEF OneAtATime
  <2>3. SearchIsOfNew' /\ LinkIsComplete'
    BY <1>2, <1>4, <1>6, <2>1 DEF SearchIsOfNew, LinkIsComplete
  <2> QED
    BY <2>2, <2>3
<1> QED
  BY <1>5, <1>6

\* What the user begins, and what Wine and the download report.
LEMMA ReportsKeep ==
  ASSUME Ext!ExtractorAssumption, ExtInv,
         Ext!PressInstaller \/ Ext!PressDirectory \/ Ext!PressDownload \/ Ext!DownloadDone
         \/ Ext!WineReports \/ Ext!CloseBox
  PROVE  ExtInv'
<1> DEFINE Winers == [{"tir", "mfc", "plugin"} -> {"idle", "running", "crashed"}]
<1>0. wine \in Winers /\ \A w \in {"idle", "running", "crashed"} : [wine EXCEPT !["tir"] = w] \in Winers
  BY DEF ExtInv, Ext!TypeOK
<1>1. CASE Ext!PressInstaller
  <2>1. /\ buttons /\ buttons' = FALSE /\ wine' = [wine EXCEPT !["tir"] = "running"] /\ presses' \in 0 .. MaxPresses
        /\ UNCHANGED <<plugin, shown, mfcButtons, download, box, stage, contents, destPath,
                       link, thread, queued, twice>>
    BY <1>1 DEF Ext!PressInstaller, Ext!Pressable, Ext!Press, ExtInv, Ext!TypeOK, Ext!ExtractorAssumption
  <2>2. Ext!TypeOK'
    <3>1. Ext!Dirs' = Ext!Dirs
      BY <2>1 DEF Ext!Dirs
    <3>2. wine' \in Winers
      BY <1>0, <2>1
    <3>3. buttons' \in BOOLEAN /\ download' \in BOOLEAN
      BY <2>1 DEF ExtInv, Ext!TypeOK
    <3> QED
      BY <2>1, <3>1, <3>2, <3>3 DEF ExtInv, Ext!TypeOK
  <2> QED
    BY <1>0, <2>1, <2>2 DEF ExtInv, OneAtATime, SearchIsOfNew, LinkIsComplete
<1>2. CASE Ext!PressDownload
  <2>1. /\ buttons /\ buttons' = FALSE /\ download' = TRUE /\ presses' \in 0 .. MaxPresses
        /\ UNCHANGED <<plugin, shown, mfcButtons, wine, box, stage, contents, destPath,
                       link, thread, queued, twice>>
    BY <1>2 DEF Ext!PressDownload, Ext!Pressable, Ext!Press, ExtInv, Ext!TypeOK, Ext!ExtractorAssumption
  <2>2. Ext!TypeOK'
    <3>1. Ext!Dirs' = Ext!Dirs
      BY <2>1 DEF Ext!Dirs
    <3>2. wine' \in Winers
      BY <1>0, <2>1
    <3>3. buttons' \in BOOLEAN /\ download' \in BOOLEAN
      BY <2>1 DEF ExtInv, Ext!TypeOK
    <3> QED
      BY <2>1, <3>1, <3>2, <3>3 DEF ExtInv, Ext!TypeOK
  <2> QED
    BY <1>0, <2>1, <2>2 DEF ExtInv, OneAtATime, SearchIsOfNew, LinkIsComplete
<1>3. CASE Ext!DownloadDone
  <2>1. /\ download /\ download' = FALSE
        /\ UNCHANGED <<plugin, shown, mfcButtons, box, stage, contents, destPath, link, thread,
                       queued, presses>>
        /\ \/ wine' = [wine EXCEPT !["tir"] = "running"] /\ UNCHANGED <<buttons, twice>>
           \/ buttons' = TRUE /\ UNCHANGED <<wine, twice>>
           \/ buttons' = TRUE /\ wine' = [wine EXCEPT !["tir"] = "running"] /\ twice' = TRUE
    BY <1>3 DEF Ext!DownloadDone
  <2>2. Ext!TypeOK'
    BY <1>0, <1>3, <2>1 DEF Ext!DownloadDone, ExtInv, Ext!TypeOK, Ext!Dirs
  <2> QED
    BY <1>0, <2>1, <2>2 DEF ExtInv, OneAtATime, SearchIsOfNew, LinkIsComplete
<1>4. CASE Ext!PressDirectory
  <2>1. buttons /\ buttons' = FALSE /\ presses' \in 0 .. MaxPresses
    BY <1>4 DEF Ext!PressDirectory, Ext!Pressable, Ext!Press, ExtInv, Ext!TypeOK, Ext!ExtractorAssumption
  <2> QED
    BY <1>4, <2>1, <1>0, ExtractionKeeps DEF Ext!PressDirectory, ExtInv, Ext!TypeOK, OneAtATime
<1>5. CASE Ext!WineReports
  <2>1. PICK ok \in BOOLEAN, crash \in BOOLEAN :
          /\ crash => wine["tir"] = "running" /\ ~ok
          /\ wine' = [wine EXCEPT !["tir"] = IF crash THEN "crashed" ELSE "idle"]
          /\ twice' = (twice \/ wine["tir"] = "crashed")
          /\ IF ok
             THEN box' = box /\ Ext!MakeDestPath /\ Ext!Search(destPath')
             ELSE box' = TRUE /\ UNCHANGED <<contents, destPath, thread>>
    BY <1>5 DEF Ext!WineReports
  <2>2. /\ wine' \in Winers /\ wine'["tir"] # "running" /\ twice' \in BOOLEAN
        /\ ~twice' => ~twice /\ wine["tir"] = "running"
        /\ UNCHANGED <<plugin, shown, buttons, mfcButtons, download, stage, link, queued, presses>>
    BY <1>0, <1>5, <2>1 DEF Ext!WineReports, ExtInv, Ext!TypeOK
  <2>3. CASE ok
    BY <1>5, <2>1, <2>2, <2>3, ExtractionKeeps DEF Ext!WineReports, ExtInv, Ext!TypeOK, OneAtATime
  <2>4. CASE ~ok
    <3>1. Ext!TypeOK'
      BY <2>1, <2>2, <2>4 DEF ExtInv, Ext!TypeOK, Ext!Dirs
    <3> QED
      BY <2>1, <2>2, <2>4, <3>1 DEF ExtInv, OneAtATime, SearchIsOfNew, LinkIsComplete
  <2> QED
    BY <2>3, <2>4
<1>6. CASE Ext!CloseBox
  BY <1>0, <1>6, ExtractionKeeps DEF Ext!CloseBox, ExtInv, Ext!TypeOK, OneAtATime
<1> QED
  BY <1>1, <1>2, <1>3, <1>4, <1>5, <1>6

\* What a search finds is in the directory; it forgets what it could not keep.
LEMMA ExamineKeeps == ASSUME Ext!ExtractorAssumption, ExtInv, Ext!Examine PROVE ExtInv'
<1> USE DEF ExtInv
<1>0. thread \in Threads(Ext!Dirs) /\ thread.running
  BY DEF Ext!TypeOK, Threads, Ext!Examine
<1> DEFINE there == contents[thread.dest]
           Found(k, things, flags) ==
             /\ contents' = [contents EXCEPT ![thread.dest] = things]
             /\ thread' = [thread EXCEPT !.left[k] = @ - 1, !.found = flags]
             /\ thread.left[k] > 0
             /\ things \subseteq there \cup Ext!Things /\ flags \subseteq Ext!Needed
             /\ thread.found \subseteq there => flags \subseteq things
<1>1. PICK k \in Ext!Needed : \E things, flags : Found(k, things, flags)
  <2>1. thread.found \subseteq Ext!Needed /\ Ext!Needed \subseteq Ext!Things
    BY <1>0 DEF Threads, Ext!Things
  <2>2. PICK k \in Ext!Needed, ok \in BOOLEAN :
          /\ thread.left[k] > 0
          /\ \/ k = "fw" /\ ok /\ contents' = [contents EXCEPT ![thread.dest] = there \cup {k}]
                /\ thread' = [thread EXCEPT !.left[k] = @ - 1, !.found = thread.found \cup {k}]
             \/ k = "fw" /\ ~ok /\ contents' = [contents EXCEPT ![thread.dest] = there]
                /\ thread' = [thread EXCEPT !.left[k] = @ - 1, !.found = thread.found]
             \/ /\ k = "views"
                /\ contents' = [contents EXCEPT ![thread.dest] = IF ok THEN there \cup {k} ELSE there]
                /\ thread' = [thread EXCEPT !.left[k] = @ - 1,
                                !.found = IF ok THEN thread.found \cup {k} ELSE thread.found \ {k}]
             \/ /\ k = "data"
                /\ contents' = [contents EXCEPT ![thread.dest] =
                       (there \ {"data", "nodata"}) \cup {IF ok THEN "data" ELSE "nodata"}]
                /\ thread' = [thread EXCEPT !.left[k] = @ - 1,
                                !.found = IF ok THEN thread.found \cup {k} ELSE thread.found \ {k}]
    BY Zenon DEF Ext!Examine
  <2>3. CASE k = "fw" /\ ok
    <3>1. Found(k, there \cup {k}, thread.found \cup {k})
      BY <2>1, <2>2, <2>3
    <3> QED
      BY <3>1
  <2>4. CASE k = "fw" /\ ~ok
    <3>1. Found(k, there, thread.found)
      BY <2>1, <2>2, <2>4
    <3> QED
      BY <3>1
  <2>5. CASE k = "views"
    <3>1. Found(k, IF ok THEN there \cup {k} ELSE there,
                   IF ok THEN thread.found \cup {k} ELSE thread.found \ {k})
      BY <2>1, <2>2, <2>5
    <3> QED
      BY <3>1
  <2>6. CASE k = "data"
    <3>1. Found(k, (there \ {"data", "nodata"}) \cup {IF ok THEN "data" ELSE "nodata"},
                   IF ok THEN thread.found \cup {k} ELSE thread.found \ {k})
      BY <2>1, <2>2, <2>6 DEF Ext!Things, Ext!Needed
    <3> QED
      BY <3>1
  <2> QED
    BY <2>2, <2>3, <2>4, <2>5, <2>6
<1>7. PICK things, flags : Found(k, things, flags)
  BY <1>1
<1>2. UNCHANGED <<plugin, shown, buttons, mfcButtons, download, wine, box, stage, destPath,
                  link, queued, twice, presses>>
  BY DEF Ext!Examine
<1>3. /\ thread' \in Threads(Ext!Dirs)
      /\ thread'.running = thread.running /\ thread'.dest = thread.dest
      /\ thread'.everything = thread.everything /\ thread'.found = flags
  <2>1. [thread.left EXCEPT ![k] = @ - 1] \in [Ext!Needed -> Nat]
    BY <1>0, <1>7 DEF Threads
  <2> QED
    BY <1>0, <1>7, <2>1 DEF Threads
<1>4. /\ Ext!Dirs' = Ext!Dirs
      /\ \A d \in Ext!Dirs : contents'[d] \subseteq Ext!Things
      /\ \A d \in Ext!Dirs \ {thread.dest} : contents'[d] = contents[d]
      /\ thread.dest \in Ext!Dirs => contents'[thread.dest] = things
  BY <1>7 DEF Ext!Dirs, Ext!TypeOK
<1>5. Ext!TypeOK'
  <2>1. thread' \in [running : BOOLEAN, quit : BOOLEAN, dest : {Ext!None} \cup Ext!Dirs',
                     left : [Ext!Needed -> Nat], found : SUBSET Ext!Needed, everything : BOOLEAN]
    BY <1>3, <1>4 DEF Threads
  <2>2. \A d \in Ext!Dirs' : contents'[d] \subseteq Ext!Things
    BY <1>4
  <2>3. Ext!Dirs' = 1 .. destPath' /\ link' \in {Ext!None} \cup Ext!Dirs'
    BY <1>2, <1>4 DEF Ext!TypeOK
  <2> QED
    BY <1>2, <2>1, <2>2, <2>3 DEF Ext!TypeOK
<1>6. ASSUME ~twice' PROVE (OneAtATime /\ SearchIsOfNew /\ LinkIsComplete)'
  <2>1. /\ thread.dest = destPath /\ destPath \in Ext!Dirs /\ link # destPath
        /\ thread.found \subseteq contents[destPath] /\ ~queued
    BY <1>0, <1>2, <1>6 DEF OneAtATime, SearchIsOfNew, Ext!TypeOK, Ext!None
  <2>2. OneAtATime'
    BY <1>2, <1>3, <1>6 DEF OneAtATime
  <2>3. SearchIsOfNew'
    BY <1>2, <1>3, <1>4, <1>6, <1>7, <2>1 DEF SearchIsOfNew
  <2>4. LinkIsComplete'
    BY <1>2, <1>4, <1>6, <2>1 DEF LinkIsComplete, Ext!TypeOK
  <2> QED
    BY <2>2, <2>3, <2>4
<1> QED
  BY <1>5, <1>6

\* The end of a search, and what it is taken for.
LEMMA SearchEndKeeps ==
  ASSUME Ext!ExtractorAssumption, ExtInv, Ext!SearchEnds \/ Ext!ThreadFinished \/ Ext!Quit
  PROVE  ExtInv'
<1> USE DEF ExtInv
<1>0. thread \in Threads(Ext!Dirs) /\ Ext!NoFiles \in [Ext!Needed -> Nat]
  BY DEF Ext!TypeOK, Threads, Ext!NoFiles
<1>1. CASE Ext!SearchEnds
  <2>1. /\ thread' \in Threads(Ext!Dirs) /\ ~thread'.running /\ queued' /\ thread.running
        /\ thread'.everything <=> thread.found = Ext!Needed
        /\ UNCHANGED <<plugin, shown, buttons, mfcButtons, download, wine, box, stage, contents,
                       destPath, link, twice, presses>>
    BY <1>0, <1>1 DEF Ext!SearchEnds, Threads
  <2>2. Ext!TypeOK'
    BY <1>1, <2>1 DEF Ext!SearchEnds, Ext!TypeOK, Threads, Ext!Dirs
  <2>3. ~twice' => OneAtATime' /\ SearchIsOfNew' /\ LinkIsComplete'
    BY <2>1 DEF OneAtATime, SearchIsOfNew, LinkIsComplete
  <2> QED
    BY <2>2, <2>3
<1>2. CASE Ext!ThreadFinished
  <2>1. /\ queued /\ ~queued' /\ buttons'
        /\ link' = IF thread.everything THEN destPath ELSE link
        /\ UNCHANGED <<mfcButtons, download, box, stage, contents, destPath, thread, twice, presses>>
    BY <1>2 DEF Ext!ThreadFinished
  <2>2. /\ plugin' \in {"DONE", "TIR_FW", "MFC", "LTR_W"} /\ shown' \in {"none", "tir", "mfc"}
        /\ wine' \in [{"tir", "mfc", "plugin"} -> {"idle", "running", "crashed"}]
        /\ wine'["tir"] = wine["tir"]
    BY <1>2 DEF Ext!ThreadFinished, Ext!Finished, Ext!InstallPlugin, Ext!TypeOK
  <2>3. link' \in {Ext!None} \cup Ext!Dirs
    BY <2>1 DEF Ext!TypeOK, Ext!None
  <2>4. Ext!TypeOK'
    BY <1>2, <2>1, <2>2, <2>3 DEF Ext!ThreadFinished, Ext!TypeOK, Ext!Dirs
  <2>5. ~twice' => OneAtATime' /\ SearchIsOfNew' /\ LinkIsComplete'
    BY <2>1, <2>2 DEF OneAtATime, SearchIsOfNew, LinkIsComplete
  <2> QED
    BY <2>4, <2>5
<1>3. CASE Ext!Quit
  <2>1. /\ buttons /\ shown' = "none" /\ presses' \in 0 .. MaxPresses
        /\ UNCHANGED <<plugin, buttons, mfcButtons, download, wine, box, stage, contents,
                       destPath, link, twice>>
    BY <1>3 DEF Ext!Quit, Ext!Pressable, Ext!Press, Ext!TypeOK, Ext!ExtractorAssumption
  <2>2. thread' \in Threads(Ext!Dirs) /\ queued' \in BOOLEAN
    BY <1>0, <1>3 DEF Ext!Quit, Threads, Ext!TypeOK
  <2>3. ~thread.running => UNCHANGED <<thread, queued>>
    BY <1>3 DEF Ext!Quit, Ext!TypeOK
  <2>4. Ext!TypeOK'
    BY <2>1, <2>2 DEF Ext!TypeOK, Threads, Ext!Dirs
  <2>5. ~twice' => OneAtATime' /\ SearchIsOfNew' /\ LinkIsComplete'
    BY <2>1, <2>3 DEF OneAtATime, SearchIsOfNew, LinkIsComplete
  <2> QED
    BY <2>4, <2>5
<1> QED
  BY <1>1, <1>2, <1>3

\* One thing is under way, and a search is in a directory of its own.
THEOREM ExtInvariance == ASSUME Ext!ExtractorAssumption PROVE Ext!ExtSpec => []ExtInv
<1>1. Ext!Init => ExtInv
  <2> SUFFICES ASSUME Ext!Init
               PROVE  ExtInv
    OBVIOUS
  <2>1. Ext!Dirs = 1 .. 0 /\ destPath = 0 /\ link = 0 /\ \A d \in Ext!Dirs : contents[d] \subseteq Ext!Things
    BY DEF Ext!Init, Ext!Dirs, Ext!None
  <2>2. thread \in Threads(Ext!Dirs) /\ ~thread.running
    BY DEF Ext!Init, Threads, Ext!NoFiles, Ext!None
  <2>4. wine \in [{"tir", "mfc", "plugin"} -> {"idle", "running", "crashed"}]
    BY DEF Ext!Init
  <2>5. /\ plugin = "DONE" /\ shown = "none" /\ buttons = TRUE /\ mfcButtons = TRUE
        /\ download = FALSE /\ box = FALSE /\ stage = 0 /\ queued = FALSE /\ twice = FALSE
        /\ presses = 0
    BY DEF Ext!Init
  <2>3. Ext!TypeOK
    <3>1. destPath \in 0 .. MaxDirs /\ Ext!Dirs = 1 .. destPath /\ presses \in 0 .. MaxPresses
      BY <2>1, <2>5 DEF Ext!ExtractorAssumption
    <3> QED
      <4>1. /\ buttons \in BOOLEAN /\ mfcButtons \in BOOLEAN /\ download \in BOOLEAN
            /\ box \in BOOLEAN /\ queued \in BOOLEAN /\ twice \in BOOLEAN
        BY <2>5, Zenon
      <4>2. plugin \in {"DONE", "TIR_FW", "MFC", "LTR_W"} /\ shown \in {"none", "tir", "mfc"}
        BY <2>5
      <4>3. stage \in 0 .. 1 /\ link \in {Ext!None} \cup Ext!Dirs
        BY <2>1, <2>5 DEF Ext!None
      <4> QED
        BY <2>1, <2>2, <2>4, <3>1, <4>1, <4>2, <4>3, Zenon DEF Ext!TypeOK, Threads
  <2> QED
    BY <2>1, <2>2, <2>3 DEF Ext!Init, ExtInv, OneAtATime, SearchIsOfNew, LinkIsComplete, Ext!None
<1>2. ExtInv /\ [Ext!ExtNext]_(Ext!extVars) => ExtInv'
  <2>1. ExtInv /\ UNCHANGED Ext!extVars => ExtInv'
    BY DEF ExtInv, Ext!TypeOK, Ext!Dirs, OneAtATime, SearchIsOfNew, LinkIsComplete, Ext!extVars
  <2> QED
    BY <2>1, DialogsKeep, ReportsKeep, ExamineKeeps, SearchEndKeeps DEF Ext!ExtNext
<1> QED
  BY <1>1, <1>2, PTL DEF Ext!ExtSpec

\* tir_firmware is linked to a directory with everything that is needed, whatever is
\* pressed, searched, found and lost, while nothing reports twice (threadFinished,
\* makeDestPath).
THEOREM LinkedHasAll ==
  ASSUME Ext!ExtractorAssumption PROVE Ext!ExtSpec => []Ext!LinkedIsComplete
<1>1. ExtInv => Ext!LinkedIsComplete
  BY DEF ExtInv, LinkIsComplete, Ext!LinkedIsComplete
<1> QED
  BY <1>1, ExtInvariance, PTL
------------------------------------------------------------------------------
(***************************************************************************)
(* ModelSetup, for any models that are kept and any number of changes. The *)
(* thread looks at the preferences in several steps; where it is says what *)
(* it has of the model (Used), and whether a centre is still to be taken   *)
(* for it (Centred).                                                       *)
(***************************************************************************)

\* The types of what the steps of ModelSetup depend on.
ModTypes ==
  /\ models = [n \in DOMAIN models |-> models[n]] /\ \A n \in DOMAIN models : models[n] \in Mod!Model
  /\ active \in Mod!Names /\ kept \in DOMAIN KeptModels
  /\ thread \in {"off", "frame", "check", "clear", "section", "keys", "points"}
  /\ why \in {"init", "change", "points"} /\ flag \in BOOLEAN
  /\ announcing \in BOOLEAN /\ model_changed \in BOOLEAN /\ behind \in BOOLEAN
  /\ lost \in BOOLEAN /\ slipped \in BOOLEAN /\ recenter \in BOOLEAN /\ init_recenter \in BOOLEAN

\* The window, until changes are discarded.
WindowShows ==
  ~behind =>
    /\ active \in DOMAIN models /\ listed = DOMAIN models
    /\ current = active /\ tweaker = Mod!Tuned(active)
    /\ mdlType = models[active].type /\ warned = Mod!Unfit(devType, mdlType)

\* No change is on its way to the thread, which has, or will have, the active model.
Used ==
  ~announcing /\ ~model_changed /\ ~behind /\ ~lost =>
    /\ thread \in {"off", "frame", "points", "check"} \/ (thread = "clear" /\ ~flag) =>
         pose = models[active]
    /\ thread = "keys" => section = active

\* The thread takes a centre for the model, or will.
Centred ==
  ~slipped =>
    /\ thread \in {"frame", "points"} \/ (thread \in {"check", "clear"} /\ why = "points") =>
         recenter \/ init_recenter \/ centre = pose
    /\ thread \in {"section", "keys"} => why # "points"

\* The invariant of ModelSetup.
ModInv == ModTypes /\ WindowShows /\ Used /\ Centred

\* What the user does.
LEMMA ChosenKeeps ==
  ASSUME Mod!ModelAssumption, ModInv, NEW name \in Mod!Names, Mod!Select(name)
  PROVE  ModInv'
<1>1. UNCHANGED <<models, model_changed, thread, why, flag, section, pose, recenter,
                  init_recenter, centre, lost, slipped, behind, listed, devType, kept>>
  BY DEF Mod!Select, Mod!tracking
<1>2. CASE name \notin DOMAIN models
  <2>1. UNCHANGED <<active, announcing>> /\ name \in listed
    BY <1>2 DEF Mod!Select, Mod!Activated
  <2> QED
    BY <1>1, <1>2, <2>1 DEF ModInv, ModTypes, WindowShows, Used, Centred
<1>3. CASE name \in DOMAIN models
  <2>1. /\ current' = name /\ active' = name /\ announcing' = TRUE
        /\ tweaker' = Mod!Tuned(name) /\ mdlType' = models[name].type
        /\ warned' = Mod!Unfit(devType, mdlType')
    BY <1>3 DEF Mod!Select, Mod!Activated, Mod!Tuned
  <2> QED
    BY <1>1, <1>3, <2>1 DEF ModInv, ModTypes, WindowShows, Used, Centred, Mod!Tuned
<1> QED
  BY <1>2, <1>3

\* A changed value of the model keeps the invariant.
LEMMA TweakKeeps ==
  ASSUME ModInv, NEW v \in 1 .. 2, Mod!Tweak(v)
  PROVE  ModInv'
<1>1. UNCHANGED <<active, kept, current, listed, tweaker, mdlType, devType, warned,
                  model_changed, thread, why, flag, section, pose, recenter, init_recenter,
                  centre, lost, slipped, behind>> /\ announcing' = TRUE
  BY DEF Mod!Tweak, Mod!tracking, Mod!window, Mod!guardian
<1>2. /\ models' = [n \in DOMAIN models |-> models'[n]] /\ DOMAIN models' = DOMAIN models
      /\ \A n \in DOMAIN models : models'[n] \in Mod!Model /\ models'[n].type = models[n].type
  BY DEF Mod!Tweak, ModInv, ModTypes, Mod!Model
<1> QED
  BY <1>1, <1>2 DEF ModInv, ModTypes, WindowShows, Used, Centred, Mod!Tuned

\* A new model keeps the invariant.
LEMMA CreateKeeps ==
  ASSUME Mod!ModelAssumption, ModInv, NEW t \in {"Clip", "Face"}, Mod!Create(t)
  PROVE  ModInv'
<1>1. UNCHANGED <<model_changed, thread, why, flag, section, pose, recenter, init_recenter,
                  centre, lost, slipped, behind, devType, kept>>
  BY DEF Mod!Create, Mod!tracking
<1>2. /\ NewModel \notin DOMAIN models
      /\ models' = [n \in DOMAIN models \cup {NewModel} |->
                      IF n = NewModel THEN Mod!Dumped(t) ELSE models[n]]
      /\ listed' = DOMAIN models'
      /\ \/ UNCHANGED <<current, active, tweaker, mdlType, warned, announcing>>
         \/ /\ current \notin DOMAIN models' /\ announcing' = TRUE
            /\ active' \in {active, NewModel}
  BY DEF Mod!Create, Mod!ModelCreated, Mod!Activated
<1>3. /\ models' = [n \in DOMAIN models' |-> models'[n]]
      /\ DOMAIN models' = DOMAIN models \cup {NewModel}
      /\ \A n \in DOMAIN models' : models'[n] \in Mod!Model
      /\ \A n \in DOMAIN models : models'[n] = models[n]
  BY <1>2 DEF ModInv, ModTypes, Mod!Model, Mod!Dumped, Mod!Types, Mod!ThreePoints
<1>4. CASE UNCHANGED <<current, active, tweaker, mdlType, warned, announcing>>
  BY <1>1, <1>2, <1>3, <1>4 DEF ModInv, ModTypes, WindowShows, Used, Centred, Mod!Tuned
<1>5. CASE /\ current \notin DOMAIN models' /\ announcing' = TRUE
           /\ active' \in {active, NewModel}
  BY <1>1, <1>3, <1>5 DEF ModInv, ModTypes, WindowShows, Used, Centred, Mod!Names
<1> QED
  BY <1>2, <1>4, <1>5

\* So do the settings that are left, announced, or of another device.
LEMMA SettingsKeep ==
  ASSUME Mod!ModelAssumption, ModInv,
         Mod!Discard \/ Mod!Announce \/ (\E d \in Mod!Devices : Mod!DeviceChosen(d))
  PROVE  ModInv'
<1>1. CASE Mod!Discard
  <2>1. /\ models' = KeptModels /\ active' = kept
        /\ behind' = (behind \/ models' # models \/ active' # active) /\ thread = "off"
        /\ UNCHANGED <<kept, current, listed, tweaker, mdlType, devType, warned, announcing,
                       model_changed, thread, why, flag, section, pose, recenter,
                       init_recenter, centre, lost, slipped>>
    BY <1>1 DEF Mod!Discard, Mod!window, Mod!guardian, Mod!tracking
  <2>2. CASE models' = models /\ active' = active
    <3>1. ModTypes'
      BY <2>1, <2>2 DEF ModInv, ModTypes
    <3>2. WindowShows'
      BY <2>1, <2>2 DEF ModInv, WindowShows, Mod!Tuned
    <3>3. Used' /\ Centred'
      BY <2>1, <2>2 DEF ModInv, Used, Centred
    <3> QED
      BY <3>1, <3>2, <3>3 DEF ModInv
  <2>3. CASE models' # models \/ active' # active
    <3>1. ModTypes'
      <4>1. active' \in Mod!Names /\ models' = KeptModels /\ DOMAIN models' = DOMAIN KeptModels
        BY <2>1 DEF ModInv, ModTypes, Mod!Names
      <4>2. /\ models' = [n \in DOMAIN models' |-> models'[n]]
            /\ \A n \in DOMAIN models' : models'[n] \in Mod!Model
        BY <4>1 DEF Mod!ModelAssumption
      <4> QED
        BY <2>1, <2>3, <4>1, <4>2 DEF ModInv, ModTypes
    <3>2. behind'
      BY <2>1, <2>3
    <3>3. WindowShows' /\ Used'
      BY <3>2 DEF WindowShows, Used
    <3>4. Centred'
      BY <2>1 DEF ModInv, Centred
    <3> QED
      BY <3>1, <3>3, <3>4 DEF ModInv
  <2> QED
    BY <2>2, <2>3
<1>2. CASE Mod!Announce
  <2>1. /\ UNCHANGED <<models, active, kept, current, listed, tweaker, mdlType, devType, warned,
                       thread, why, flag, section, pose, recenter, init_recenter, centre, lost,
                       slipped, behind>>
        /\ announcing' = FALSE /\ model_changed' = TRUE
    BY <1>2 DEF Mod!Announce, Mod!window, Mod!guardian, Mod!tracking, Mod!prefs
  <2>2. ModTypes'
    BY <2>1 DEF ModInv, ModTypes
  <2>3. WindowShows'
    BY <2>1 DEF ModInv, WindowShows, Mod!Tuned
  <2>4. Used' /\ Centred'
    BY <2>1 DEF ModInv, Used, Centred
  <2> QED
    BY <2>2, <2>3, <2>4 DEF ModInv
<1>3. ASSUME NEW d \in Mod!Devices, Mod!DeviceChosen(d)
      PROVE  ModInv'
  <2>1. /\ UNCHANGED <<models, active, kept, current, listed, tweaker, mdlType, announcing,
                       model_changed, thread, why, flag, section, pose, recenter, init_recenter,
                       centre, lost, slipped, behind>>
        /\ devType' = d /\ warned' = Mod!Unfit(d, mdlType)
    BY <1>3 DEF Mod!DeviceChosen, Mod!window, Mod!tracking, Mod!prefs
  <2>2. ModTypes'
    BY <2>1 DEF ModInv, ModTypes
  <2>3. WindowShows'
    BY <2>1 DEF ModInv, WindowShows, Mod!Tuned
  <2>4. Used' /\ Centred'
    BY <2>1 DEF ModInv, Used, Centred
  <2> QED
    BY <2>2, <2>3, <2>4 DEF ModInv
<1> QED
  BY <1>1, <1>2, <1>3

\* The thread of the device.
LEMMA ThreadKeeps ==
  ASSUME ModInv,
         \/ Mod!Start \/ Mod!ReadFlag \/ Mod!ClearFlag \/ Mod!ReadSection \/ Mod!ReadKeys
         \/ Mod!UpdatePose \/ Mod!UpdatePoints \/ Mod!Stop
  PROVE  ModInv'
<1>1. UNCHANGED <<models, active, kept, current, listed, tweaker, mdlType, devType, warned,
                  announcing, behind, choices>>
  BY DEF Mod!Start, Mod!ReadFlag, Mod!ClearFlag, Mod!ReadSection, Mod!ReadKeys,
         Mod!UpdatePose, Mod!UpdatePoints, Mod!Stop, Mod!gui, Mod!prefs, Mod!window, Mod!guardian
<1>2. WindowShows'
  BY <1>1 DEF ModInv, WindowShows, Mod!Tuned
<1>3. ASSUME Mod!EndFrame(pose)
      PROVE  /\ thread' = "frame" /\ recenter' \in BOOLEAN /\ init_recenter' \in BOOLEAN
             /\ (recenter \/ init_recenter \/ centre = pose) =>
                  (recenter' \/ init_recenter' \/ centre' = pose)
  BY <1>3 DEF Mod!EndFrame, ModInv, ModTypes
<1>4. CASE Mod!Start
  BY <1>1, <1>2, <1>4 DEF Mod!Start, ModInv, ModTypes, Used, Centred
<1>5. CASE Mod!ReadFlag
  BY <1>1, <1>2, <1>5 DEF Mod!ReadFlag, ModInv, ModTypes, Used, Centred
<1>6. CASE Mod!ClearFlag
  <2>1. CASE flag
    BY <1>1, <1>2, <1>6, <2>1 DEF Mod!ClearFlag, ModInv, ModTypes, Used, Centred
  <2>2. CASE ~flag /\ why = "points"
    BY <1>1, <1>2, <1>3, <1>6, <2>2 DEF Mod!ClearFlag, ModInv, ModTypes, Used, Centred
  <2>3. CASE ~flag /\ why # "points"
    BY <1>1, <1>2, <1>6, <2>3 DEF Mod!ClearFlag, Mod!Checked, ModInv, ModTypes, Used, Centred
  <2> QED
    BY <2>1, <2>2, <2>3 DEF ModInv, ModTypes
<1>7. CASE Mod!ReadSection
  BY <1>1, <1>2, <1>7 DEF Mod!ReadSection, ModInv, ModTypes, Used, Centred
<1>8. CASE Mod!ReadKeys
  <2>1. thread = "keys" /\ pose' = models[section] /\ UNCHANGED <<model_changed, why, flag, section, lost, slipped>>
    BY <1>8 DEF Mod!ReadKeys, Mod!PoseInit
  <2>2. CASE why = "points"
    <3>1. thread' = "frame" /\ recenter' \in BOOLEAN /\ init_recenter' \in BOOLEAN
      BY <1>8, <2>2 DEF Mod!ReadKeys, Mod!EndFrame, ModInv, ModTypes
    <3>2. slipped
      BY <2>1, <2>2 DEF ModInv, ModTypes, Centred
    <3>3. Used' /\ Centred'
      BY <1>1, <2>1, <2>2, <3>1, <3>2 DEF ModInv, ModTypes, Used, Centred
    <3>4. ModTypes'
      BY <1>1, <2>1, <3>1 DEF ModInv, ModTypes
    <3> QED
      BY <1>2, <3>3, <3>4 DEF ModInv
  <2>3. CASE why # "points"
    <3>1. /\ thread' \in {"frame", "points"} /\ UNCHANGED centre
          /\ recenter' \in BOOLEAN /\ init_recenter' \in BOOLEAN /\ (recenter' \/ init_recenter')
      BY <1>8, <2>3 DEF Mod!ReadKeys, Mod!Checked, ModInv, ModTypes
    <3>2. Used' /\ Centred'
      BY <1>1, <2>1, <2>3, <3>1 DEF ModInv, ModTypes, Used, Centred
    <3>3. ModTypes'
      BY <1>1, <2>1, <3>1 DEF ModInv, ModTypes
    <3> QED
      BY <1>2, <3>2, <3>3 DEF ModInv
  <2> QED
    BY <2>2, <2>3
<1>9. CASE Mod!UpdatePose
  BY <1>1, <1>2, <1>9 DEF Mod!UpdatePose, ModInv, ModTypes, Used, Centred
<1>10. CASE Mod!UpdatePoints
  BY <1>1, <1>2, <1>3, <1>10 DEF Mod!UpdatePoints, ModInv, ModTypes, Used, Centred
<1>11. CASE Mod!Stop
  BY <1>1, <1>2, <1>11 DEF Mod!Stop, ModInv, ModTypes, Used, Centred
<1> QED
  BY <1>4, <1>5, <1>6, <1>7, <1>8, <1>9, <1>10, <1>11

\* The window shows the model there is, and the poses are of the model in use, but for
\* those that a change has yet to reach (tracking.c, ltr_model.cpp), for any models and
\* devices.
THEOREM ModInvariance == ASSUME Mod!ModelAssumption PROVE Mod!ModelSpec => []ModInv
<1>1. Mod!Init => ModInv
  BY DEF Mod!ModelAssumption, Mod!Init, ModInv, ModTypes, WindowShows, Used, Centred, Mod!Names
<1>2. ModInv /\ [Mod!ModelNext]_(Mod!modelVars) => ModInv'
  <2>1. ASSUME ModInv, UNCHANGED Mod!modelVars
        PROVE  ModInv'
    BY <2>1 DEF ModInv, ModTypes, WindowShows, Used, Centred, Mod!Tuned, Mod!modelVars
  <2> QED
    BY <2>1, ChosenKeeps, TweakKeeps, CreateKeeps, SettingsKeep, ThreadKeeps DEF Mod!ModelNext
<1> QED
  BY <1>1, <1>2, PTL DEF Mod!ModelSpec

\* A pose is of the model that is set (tracking.c, qt_gui/ltr_model.cpp).
THEOREM ModelsAreUsed == ASSUME Mod!ModelAssumption PROVE Mod!ModelSpec => []Mod!ModelInUse
<1>1. ModInv => Mod!ModelInUse
  BY DEF ModInv, ModTypes, WindowShows, Used, Centred, Mod!ModelInUse
<1> QED
  BY <1>1, ModInvariance, PTL

------------------------------------------------------------------------------
(***************************************************************************)
(* Shortcuts, for any keyboard, any of its keys unknown to X, and any      *)
(* buttons, each made once. A hot key is grabbed in four variants, one for *)
(* each state of the locks, of which another program may have some: what   *)
(* is grabbed is accounted for (Kept), and a hot key that is in the table  *)
(* has all four (InForce).                                                 *)
(***************************************************************************)

\* Each hot key is one button's, X keeps it for mickey in every state of the locks, and
\* the filter that looks for it is there.
InForce ==
  /\ \A p, q \in DOMAIN shortcutHash : shortcutHash[p] = shortcutHash[q] => p = q
  /\ \A p \in DOMAIN shortcutHash : Hot!Variants(p) \subseteq grabbed
  /\ filters \in Nat /\ (DOMAIN shortcutHash # {} => filters > 0)

\* What X keeps for mickey.
Kept ==
  \A g \in grabbed :
    g \in Hot!Variants(g[1]) /\ g \notin others /\ g[1] \in DOMAIN shortcutHash \cup stale

\* The buttons that are there are of those that were made, and none was refused before the
\* last is.
Made ==
  /\ added \in 0 .. Len(HotKeys) /\ DOMAIN settings = Hot!Ids
  /\ \A id \in DOMAIN hotKey : \E i \in 1 .. added : id = HotKeys[i]
  /\ dialog = [id |-> dialog.id, typed |-> dialog.typed]
  /\ dialog # Hot!Closed => dialog.id \in DOMAIN hotKey /\ added = Len(HotKeys)
  /\ added < Len(HotKeys) => failed = {}

Shows(id) ==
  /\ settings[id] = hotKey[id]
  /\ Hot!Old(id) = IF id \in failed \/ hotKey[id] = Hot!None THEN {} ELSE {hotKey[id]}
ButtonsShow == \A id \in DOMAIN hotKey : Shows(id)

\* A button that a hot key pressed is that hot key's as long as its key is down.
Clicked ==
  /\ device = prev_btns
  /\ device # {} /\ clicker \in Keyboard /\ ~excused =>
       clicker \in DOMAIN down /\ Hot!Button(down[clicker].id) # {}

\* The invariant of Shortcuts.
HotInv == InForce /\ Kept /\ Made /\ ButtonsShow /\ Clicked

\* Without a hot key the combinations of the others are left.
LEMMA WithoutId ==
  ASSUME NEW id
  PROVE  /\ DOMAIN Hot!Without(id) = DOMAIN shortcutHash \ Hot!Old(id)
         /\ \A p \in DOMAIN Hot!Without(id) :
              Hot!Without(id)[p] = shortcutHash[p] /\ shortcutHash[p] # id
BY DEF Hot!Without, Hot!Old, Hot!Restrict

\* There are four combinations of the locks.
LEMMA FourLocks == DOMAIN Hot!Locks = 1 .. 4
BY DEF Hot!Locks

\* A combination that another program has grabbed fails at one of the four.
LEMMA FirstTaken ==
  ASSUME NEW p, Hot!Taken(p) # {}
  PROVE  Hot!Min(Hot!Taken(p)) \in 1 .. 4
<1>1. Hot!Taken(p) \subseteq 1 .. 4
  BY FourLocks DEF Hot!Taken
<1>2. PICK i \in Hot!Taken(p) : \A j \in Hot!Taken(p) : i <= j
  <2>1. CASE 1 \in Hot!Taken(p)
    BY <1>1, <2>1
  <2>2. CASE 1 \notin Hot!Taken(p) /\ 2 \in Hot!Taken(p)
    BY <1>1, <2>2
  <2>3. CASE 1 \notin Hot!Taken(p) /\ 2 \notin Hot!Taken(p) /\ 3 \in Hot!Taken(p)
    BY <1>1, <2>3
  <2>4. CASE 1 \notin Hot!Taken(p) /\ 2 \notin Hot!Taken(p) /\ 3 \notin Hot!Taken(p)
    BY <1>1, <2>4
  <2> QED
    BY <2>1, <2>2, <2>3, <2>4
<1> QED
  BY <1>1, <1>2 DEF Hot!Min

\* What X keeps when a key is asked for: all variants, or none that was not kept before.
LEMMA Grabbing ==
  ASSUME NEW p, Hot!GrabKeyX(p), Kept
  PROVE  /\ Hot!Taken(p) = {} => grabbed' = grabbed \cup Hot!Variants(p)
         /\ Hot!Taken(p) # {} =>
              grabbed' \subseteq grabbed /\ grabbed \ grabbed' \subseteq Hot!Variants(p)
<1>1. CASE Hot!Taken(p) = {}
  BY <1>1 DEF Hot!GrabKeyX
<1>2. CASE Hot!Taken(p) # {}
  <2>1. PICK first \in 1 .. 4 : grabbed' = grabbed \ {<<p, Hot!Locks[i]>> : i \in 1 .. first - 1}
    BY <1>2, FirstTaken DEF Hot!GrabKeyX
  <2>2. {<<p, Hot!Locks[i]>> : i \in 1 .. first - 1} \subseteq Hot!Variants(p)
    BY FourLocks DEF Hot!Variants
  <2> QED
    BY <1>2, <2>1, <2>2
<1> QED
  BY <1>1, <1>2

\* What is grabbed for a combination is of it.
LEMMA OfOne ==
  ASSUME NEW p, NEW g \in Hot!Variants(p)
  PROVE  g[1] = p
BY DEF Hot!Variants

\* The hot keys after a change of the one of id: no other is touched.
Rekeyed(id, keys) ==
  /\ DOMAIN shortcutHash' = (DOMAIN shortcutHash \ Hot!Old(id)) \cup keys
  /\ \A q \in DOMAIN shortcutHash' :
       shortcutHash'[q] = IF q \in keys THEN id ELSE shortcutHash[q]

\* A hot key that is changed has its new combinations, the others keep theirs.
LEMMA RekeyedOld ==
  ASSUME NEW id, NEW keys, Rekeyed(id, keys), keys \cap (DOMAIN shortcutHash \ Hot!Old(id)) = {}
  PROVE  /\ Hot!Old(id)' = keys
         /\ \A j : j # id => Hot!Old(j)' = Hot!Old(j)
BY DEF Rekeyed, Hot!Old

\* A combination that is set works for its hot key, or nothing does.
LEMMA SetRekeys ==
  ASSUME NEW id, NEW p, Hot!SetShortCut(id, p)
  PROVE  /\ Rekeyed(id, IF Hot!Works(id, p) THEN {p} ELSE {})
         /\ Hot!Works(id, p) => p \notin DOMAIN shortcutHash \ Hot!Old(id)
<1>1. CASE Hot!Works(id, p)
  <2>1. p \notin DOMAIN Hot!Without(id)
    BY <1>1 DEF Hot!Works, Hot!Usable
  <2>2. shortcutHash' = Hot!Put(Hot!Without(id), p, id)
    BY <1>1 DEF Hot!SetShortCut
  <2> QED
    BY <1>1, <2>1, <2>2, WithoutId DEF Rekeyed, Hot!Put
<1>2. CASE ~Hot!Works(id, p)
  <2>1. shortcutHash' = Hot!Without(id)
    BY <1>2 DEF Hot!SetShortCut
  <2> QED
    BY <1>2, <2>1, WithoutId DEF Rekeyed
<1> QED
  BY <1>1, <1>2

\* To set a combination keeps what is in force.
LEMMA SetKeeps ==
  ASSUME InForce, Kept, NEW id, NEW p, Hot!SetShortCut(id, p), UNCHANGED others
  PROVE  InForce' /\ Kept'
<1>1. Rekeyed(id, IF Hot!Works(id, p) THEN {p} ELSE {})
  BY SetRekeys
<1>2. stale' = (stale \cup Hot!Old(id)) \ DOMAIN shortcutHash'
  BY DEF Hot!SetShortCut
<1>3. DOMAIN Hot!Without(id) = DOMAIN shortcutHash \ Hot!Old(id)
  BY WithoutId
<1>4. CASE Hot!Works(id, p)
  <2>1. Hot!Taken(p) = {} /\ grabbed' = grabbed \cup Hot!Variants(p)
    BY <1>4, Grabbing DEF Hot!SetShortCut, Hot!Works
  <2>2. \A g \in Hot!Variants(p) : g \notin others
    BY <2>1 DEF Hot!Taken, Hot!Variants
  <2>3. filters' \in Nat /\ filters' > 0
    <3>1. filters' = IF DOMAIN Hot!Without(id) = {} THEN filters + 1 ELSE filters
      BY <1>4 DEF Hot!SetShortCut
    <3> QED
      BY <1>3, <3>1 DEF InForce
  <2>4. p \notin DOMAIN shortcutHash \ Hot!Old(id)
    BY <1>4, SetRekeys
  <2>5. \A q, r \in DOMAIN shortcutHash' : shortcutHash'[q] = shortcutHash'[r] => q = r
    BY <1>1, <1>4, <2>4 DEF Rekeyed, InForce, Hot!Old
  <2>6. \A q \in DOMAIN shortcutHash' : Hot!Variants(q) \subseteq grabbed'
    BY <1>1, <1>4, <2>1 DEF Rekeyed, InForce
  <2>7. Kept'
    <3> SUFFICES ASSUME NEW g \in grabbed'
                 PROVE  g \in Hot!Variants(g[1]) /\ g \notin others
                        /\ g[1] \in DOMAIN shortcutHash' \cup stale'
      BY DEF Kept, Hot!Variants
    <3>1. CASE g \in Hot!Variants(p)
      BY <1>1, <1>4, <2>2, <3>1, OfOne DEF Rekeyed
    <3>2. CASE g \in grabbed
      BY <1>1, <1>2, <3>2 DEF Kept, Rekeyed
    <3> QED
      BY <2>1, <3>1, <3>2
  <2> QED
    BY <2>3, <2>5, <2>6, <2>7 DEF InForce, Hot!Variants
<1>5. CASE ~Hot!Works(id, p)
  <2>1. /\ DOMAIN shortcutHash' = DOMAIN shortcutHash \ Hot!Old(id)
        /\ \A q \in DOMAIN shortcutHash' : shortcutHash'[q] = shortcutHash[q]
    BY <1>1, <1>5 DEF Rekeyed
  <2>2. grabbed' \subseteq grabbed /\ \A g \in grabbed \ grabbed' : g[1] \notin DOMAIN shortcutHash'
    <3>1. CASE Hot!Usable(id, p)
      <4>1. Hot!GrabKeyX(p) /\ Hot!Taken(p) # {} /\ p \notin DOMAIN shortcutHash'
        BY <1>3, <1>5, <2>1, <3>1 DEF Hot!SetShortCut, Hot!Works, Hot!Usable
      <4> QED
        BY <4>1, Grabbing, OfOne
    <3>2. CASE ~Hot!Usable(id, p)
      BY <3>2 DEF Hot!SetShortCut
    <3> QED
      BY <3>1, <3>2
  <2>3. filters' = filters
    BY <1>5 DEF Hot!SetShortCut
  <2>4. \A q \in DOMAIN shortcutHash' : Hot!Variants(q) \subseteq grabbed'
    <3> SUFFICES ASSUME NEW q \in DOMAIN shortcutHash', NEW g \in Hot!Variants(q)
                 PROVE  g \in grabbed'
      OBVIOUS
    <3>1. g \in grabbed /\ g[1] = q
      BY <2>1, OfOne DEF InForce
    <3> QED
      BY <2>2, <3>1
  <2>5. Kept'
    BY <1>2, <2>1, <2>2 DEF Kept, Hot!Variants
  <2>6. \A q, r \in DOMAIN shortcutHash' : shortcutHash'[q] = shortcutHash'[r] => q = r
    BY <2>1 DEF InForce
  <2>7. filters' \in Nat /\ (DOMAIN shortcutHash' # {} => filters' > 0)
    BY <2>1, <2>3 DEF InForce
  <2> QED
    BY <2>4, <2>5, <2>6, <2>7 DEF InForce, Hot!Variants
<1> QED
  BY <1>4, <1>5

\* To take it back does too.
LEMMA UnsetKeeps ==
  ASSUME InForce, Kept, NEW id, Hot!UnsetShortcut(id), UNCHANGED others
  PROVE  InForce' /\ Kept' /\ Rekeyed(id, {})
<1>1. Rekeyed(id, {})
  BY WithoutId DEF Hot!UnsetShortcut, Rekeyed
<1>2. /\ grabbed' = grabbed \ UNION {Hot!Variants(p) : p \in Hot!Old(id)} /\ stale' = stale
  BY DEF Hot!UnsetShortcut
<1>3. DOMAIN Hot!Without(id) = DOMAIN shortcutHash \ Hot!Old(id)
  BY WithoutId
<1>4. filters' \in Nat /\ (DOMAIN shortcutHash' # {} => filters' > 0)
  <2>1. filters' = IF Hot!Old(id) # {} /\ DOMAIN Hot!Without(id) = {} THEN filters - 1 ELSE filters
    BY DEF Hot!UnsetShortcut
  <2>2. Hot!Old(id) # {} => filters > 0
    BY DEF InForce, Hot!Old
  <2>3. DOMAIN shortcutHash' = DOMAIN shortcutHash \ Hot!Old(id)
    BY <1>1 DEF Rekeyed
  <2> QED
    BY <1>3, <2>1, <2>2, <2>3 DEF InForce
<1>5. \A q, r \in DOMAIN shortcutHash' : shortcutHash'[q] = shortcutHash'[r] => q = r
  BY <1>1 DEF Rekeyed, InForce
<1>6. \A q \in DOMAIN shortcutHash' : Hot!Variants(q) \subseteq grabbed'
  <2> SUFFICES ASSUME NEW q \in DOMAIN shortcutHash', NEW g \in Hot!Variants(q)
               PROVE  g \in grabbed'
    OBVIOUS
  <2>1. q \in DOMAIN shortcutHash /\ q \notin Hot!Old(id)
    BY <1>1 DEF Rekeyed
  <2>2. g \in grabbed /\ g[1] = q
    BY <2>1, OfOne DEF InForce
  <2>3. \A p \in Hot!Old(id) : g \notin Hot!Variants(p)
    BY <2>1, <2>2, OfOne
  <2> QED
    BY <1>2, <2>2, <2>3
<1>7. Kept'
  <2> SUFFICES ASSUME NEW g \in grabbed'
               PROVE  g \in Hot!Variants(g[1]) /\ g \notin others
                      /\ g[1] \in DOMAIN shortcutHash' \cup stale'
    BY DEF Kept, Hot!Variants
  <2>1. g \in grabbed /\ g \in Hot!Variants(g[1]) /\ g \notin others
        /\ g[1] \in DOMAIN shortcutHash \cup stale
    BY <1>2 DEF Kept
  <2>2. g[1] \notin Hot!Old(id)
    BY <1>2, <2>1
  <2> QED
    BY <1>1, <1>2, <2>1, <2>2 DEF Rekeyed
<1> QED
  BY <1>1, <1>4, <1>5, <1>6, <1>7 DEF InForce, Hot!Variants

\* A change of the hot key of id, to the combination p or to none.
LEMMA ChangeKeeps ==
  ASSUME HotInv, NEW id, NEW p, UNCHANGED others,
         IF p = Hot!None THEN Hot!UnsetShortcut(id) ELSE Hot!SetShortCut(id, p)
  PROVE  /\ InForce' /\ Kept'
         /\ Hot!Old(id)' = IF p # Hot!None /\ Hot!Works(id, p) THEN {p} ELSE {}
         /\ \A j : j # id => Hot!Old(j)' = Hot!Old(j)
<1>1. CASE p = Hot!None
  <2>1. InForce' /\ Kept' /\ Rekeyed(id, {})
    BY <1>1, UnsetKeeps DEF HotInv
  <2> QED
    BY <1>1, <2>1, RekeyedOld
<1>2. CASE p # Hot!None
  <2>1. InForce' /\ Kept'
    BY <1>2, SetKeeps DEF HotInv
  <2>2. CASE Hot!Works(id, p)
    <3>1. Rekeyed(id, {p}) /\ p \notin DOMAIN shortcutHash \ Hot!Old(id)
      BY <1>2, <2>2, SetRekeys
    <3>2. {p} \cap (DOMAIN shortcutHash \ Hot!Old(id)) = {}
      BY <3>1
    <3> QED
      BY <1>2, <2>1, <2>2, <3>1, <3>2, RekeyedOld
  <2>3. CASE ~Hot!Works(id, p)
    <3>1. Rekeyed(id, {})
      BY <1>2, <2>3, SetRekeys
    <3> QED
      BY <1>2, <2>1, <2>3, <3>1, RekeyedOld
  <2> QED
    BY <2>2, <2>3
<1> QED
  BY <1>1, <1>2

\* A new hot key keeps the invariant.
LEMMA AddKeeps ==
  ASSUME Hot!ShortcutsAssumption, HotInv, Hot!AddHotKey
  PROVE  HotInv'
<1>. PICK id, p : id = HotKeys[added + 1] /\ p = settings[id]
  OBVIOUS
<1> DEFINE set == p = Hot!None \/ Hot!Works(id, p)
<1>1. /\ added < Len(HotKeys) /\ added' = added + 1
      /\ IF p = Hot!None THEN Hot!UnsetShortcut(id) ELSE Hot!SetShortCut(id, p)
      /\ hotKey' = IF set THEN Hot!Put(hotKey, id, p) ELSE hotKey
      /\ UNCHANGED <<others, settings, dialog, down, prev_btns, device, clicker, excused, failed>>
  BY DEF Hot!AddHotKey, Hot!buttons
<1>2. /\ InForce' /\ Kept'
      /\ Hot!Old(id)' = IF p # Hot!None /\ Hot!Works(id, p) THEN {p} ELSE {}
      /\ \A j : j # id => Hot!Old(j)' = Hot!Old(j)
  BY <1>1, ChangeKeeps
<1>3. added \in Nat /\ Len(HotKeys) \in Nat /\ DOMAIN HotKeys = 1 .. Len(HotKeys) /\ failed = {}
  BY <1>1 DEF Hot!ShortcutsAssumption, HotInv, Made
<1>4. id \notin DOMAIN hotKey
  BY <1>1, <1>3 DEF Hot!ShortcutsAssumption, HotInv, Made
<1>5. Made'
  <2>1. \A j \in DOMAIN hotKey' : \E i \in 1 .. added' : j = HotKeys[i]
    <3>1. \A j \in DOMAIN hotKey : \E i \in 1 .. added' : j = HotKeys[i]
      BY <1>1, <1>3 DEF HotInv, Made
    <3>2. added + 1 \in 1 .. added'
      BY <1>1, <1>3
    <3> QED
      BY <1>1, <3>1, <3>2 DEF Hot!Put
  <2>2. dialog = Hot!Closed
    BY <1>1, <1>3 DEF HotInv, Made
  <2> QED
    BY <1>1, <1>3, <2>1, <2>2 DEF HotInv, Made, Hot!Closed, Hot!None
<1>6. ButtonsShow'
  <2> SUFFICES ASSUME NEW j \in DOMAIN hotKey'
               PROVE  Shows(j)'
    BY DEF ButtonsShow
  <2>1. CASE j # id
    <3>1. j \in DOMAIN hotKey /\ hotKey'[j] = hotKey[j]
      BY <1>1, <2>1 DEF Hot!Put
    <3> QED
      BY <1>1, <1>2, <2>1, <3>1 DEF HotInv, ButtonsShow, Shows, Hot!None
  <2>2. CASE j = id
    <3>1. set /\ hotKey'[id] = p
      BY <1>1, <1>4, <2>2 DEF Hot!Put
    <3>2. settings'[id] = p /\ failed' = {}
      BY <1>1, <1>3
    <3> QED
      BY <1>2, <2>2, <3>1, <3>2 DEF Shows, Hot!None
  <2> QED
    BY <2>1, <2>2
<1>7. Clicked'
  BY <1>1 DEF HotInv, Clicked, Hot!Button
<1> QED
  BY <1>2, <1>5, <1>6, <1>7 DEF HotInv

\* So does one that the dialog sets.
LEMMA AcceptKeeps ==
  ASSUME Hot!ShortcutsAssumption, HotInv, Hot!Accept
  PROVE  HotInv'
<1>. PICK id, p : id = dialog.id /\ p = dialog.typed
  OBVIOUS
<1> DEFINE set == p = Hot!None \/ Hot!Works(id, p)
<1>1. /\ dialog # Hot!Closed /\ dialog' = Hot!Closed
      /\ IF p = Hot!None THEN Hot!UnsetShortcut(id) ELSE Hot!SetShortCut(id, p)
      /\ hotKey' = IF set THEN [hotKey EXCEPT ![id] = p] ELSE hotKey
      /\ settings' = IF set THEN [settings EXCEPT ![id] = p] ELSE settings
      /\ failed' = IF set THEN failed \ {id} ELSE failed \cup {id}
      /\ UNCHANGED <<others, down, added, prev_btns, device, clicker, excused>>
  BY DEF Hot!Accept, Hot!buttons
<1>2. /\ InForce' /\ Kept'
      /\ Hot!Old(id)' = IF p # Hot!None /\ Hot!Works(id, p) THEN {p} ELSE {}
      /\ \A j : j # id => Hot!Old(j)' = Hot!Old(j)
  BY <1>1, ChangeKeeps
<1>3. id \in DOMAIN hotKey /\ added = Len(HotKeys) /\ added \in Nat
  BY <1>1 DEF HotInv, Made
<1>4. id \in DOMAIN settings
  <2>1. PICK i \in 1 .. Len(HotKeys) : id = HotKeys[i]
    BY <1>3 DEF HotInv, Made
  <2> QED
    BY <2>1 DEF HotInv, Made, Hot!Ids, Hot!ShortcutsAssumption
<1>5. Made'
  <2>1. DOMAIN hotKey' = DOMAIN hotKey /\ DOMAIN settings' = DOMAIN settings
    BY <1>1
  <2> QED
    BY <1>1, <1>3, <2>1 DEF HotInv, Made, Hot!Closed, Hot!None
<1>6. ButtonsShow'
  <2> SUFFICES ASSUME NEW j \in DOMAIN hotKey'
               PROVE  Shows(j)'
    BY DEF ButtonsShow
  <2>1. j \in DOMAIN hotKey
    BY <1>1
  <2>2. Shows(j)
    BY <2>1 DEF HotInv, ButtonsShow
  <2>3. CASE j # id
    <3>1. hotKey'[j] = hotKey[j] /\ settings'[j] = settings[j] /\ (j \in failed' <=> j \in failed)
      BY <1>1, <2>1, <2>3
    <3> QED
      BY <1>2, <2>2, <2>3, <3>1 DEF Shows, Hot!None
  <2>4. CASE j = id /\ set
    <3>1. hotKey'[id] = p /\ settings'[id] = p /\ id \notin failed'
      BY <1>1, <1>3, <1>4, <2>4
    <3> QED
      BY <1>2, <2>4, <3>1 DEF Shows, Hot!None
  <2>5. CASE j = id /\ ~set
    <3>1. hotKey' = hotKey /\ settings' = settings /\ id \in failed'
      BY <1>1, <2>5
    <3> QED
      BY <1>2, <2>2, <2>5, <3>1 DEF Shows, Hot!None
  <2> QED
    BY <2>3, <2>4, <2>5
<1>7. Clicked'
  BY <1>1 DEF HotInv, Clicked, Hot!Button
<1> QED
  BY <1>2, <1>5, <1>6, <1>7 DEF HotInv

\* The X server and what the window shows are not touched.
Settled == UNCHANGED <<shortcutHash, grabbed, others, filters, stale, failed, hotKey, settings>>

\* What is in force stays while no hot key changes.
LEMMA SettledKeeps ==
  ASSUME HotInv, Settled
  PROVE  InForce' /\ Kept' /\ ButtonsShow'
BY DEF HotInv, Settled, InForce, Kept, ButtonsShow, Shows, Hot!Old, Hot!Variants, Hot!Locks, Hot!None

\* A click leaves the buttons as it says.
LEMMA ClickSets ==
  ASSUME Clicked, NEW btns, NEW who, Hot!Click(btns, who)
  PROVE  device' = btns /\ prev_btns' = btns /\ clicker' = who
BY DEF Clicked, Hot!Click

\* A hot key moves its buttons, if it has any.
LEMMA ActivateClicks ==
  ASSUME Clicked, NEW id, NEW pressed \in BOOLEAN, NEW k, Hot!Activate(id, pressed, k)
  PROVE  /\ Hot!Button(id) = {} => UNCHANGED <<prev_btns, device, clicker>>
         /\ Hot!Button(id) # {} =>
              /\ device' = (IF pressed THEN Hot!Button(id) ELSE {})
              /\ prev_btns' = device' /\ clicker' = k
BY ClickSets DEF Hot!Activate, Hot!buttons

\* A key that is pressed keeps the invariant.
LEMMA PressKeeps ==
  ASSUME HotInv, NEW k \in Keyboard, Hot!Press(k)
  PROVE  HotInv'
<1> DEFINE p == <<k, ctrl>>
           own == active = "none" /\ Hot!Variants(p) \cap grabbed # {}
           hot == (own \/ active # "none" \/ dialog # Hot!Closed) /\ p \in DOMAIN shortcutHash
           id == IF hot THEN shortcutHash[p] ELSE "none"
<1>1. /\ k \notin DOMAIN down
      /\ down' = Hot!Put(down, k, [ctrl |-> ctrl, id |-> id])
      /\ IF hot THEN Hot!Activate(shortcutHash[p], TRUE, k) ELSE UNCHANGED Hot!buttons
      /\ dialog' = IF dialog # Hot!Closed /\ ~hot THEN Hot!Typed(p) ELSE dialog
      /\ excused' = (excused /\ ~(hot /\ Hot!Button(shortcutHash[p]) # {}))
      /\ UNCHANGED <<shortcutHash, grabbed, others, filters, stale, failed, hotKey, settings, added>>
  BY DEF Hot!Press, Hot!xServer
<1>2. InForce' /\ Kept' /\ ButtonsShow'
  BY <1>1, SettledKeeps DEF Settled
<1>3. Made'
  <2>1. dialog' = dialog \/ (dialog # Hot!Closed /\ dialog' = Hot!Typed(p))
    BY <1>1
  <2>2. dialog' # Hot!Closed => dialog # Hot!Closed /\ dialog'.id = dialog.id
    BY <2>1 DEF HotInv, Made, Hot!Typed
  <2>3. dialog' = [id |-> dialog'.id, typed |-> dialog'.typed]
    BY <2>1 DEF HotInv, Made, Hot!Typed
  <2> QED
    BY <1>1, <2>2, <2>3 DEF HotInv, Made, Hot!Closed, Hot!None
<1>4. Clicked'
  <2>1. DOMAIN down' = DOMAIN down \cup {k} /\ down'[k].id = id
        /\ \A j \in DOMAIN down : down'[j] = down[j]
    BY <1>1 DEF Hot!Put
  <2>2. CASE hot /\ Hot!Button(shortcutHash[p]) # {}
    <3>1. device' = prev_btns' /\ clicker' = k
      BY <1>1, <2>2, ActivateClicks DEF HotInv
    <3> QED
      BY <2>1, <2>2, <3>1 DEF Clicked
  <2>3. CASE ~(hot /\ Hot!Button(shortcutHash[p]) # {})
    <3>1. UNCHANGED <<prev_btns, device, clicker>>
      <4>1. CASE hot
        BY <1>1, <2>3, <4>1, ActivateClicks DEF HotInv
      <4>2. CASE ~hot
        BY <1>1, <4>2 DEF Hot!buttons
      <4> QED
        BY <4>1, <4>2
    <3>2. ~excused' => ~excused
      BY <1>1, <2>3
    <3> QED
      BY <2>1, <3>1, <3>2 DEF HotInv, Clicked, Hot!Button
  <2> QED
    BY <2>2, <2>3
<1> QED
  BY <1>2, <1>3, <1>4 DEF HotInv

\* So does a key that is let go.
LEMMA KeyUpKeeps ==
  ASSUME HotInv, NEW k \in Keyboard, Hot!Release(k)
  PROVE  HotInv'
<1> DEFINE p == <<k, ctrl>>
           same == /\ ctrl = down[k].ctrl /\ active # "none"
                   /\ p \in DOMAIN shortcutHash /\ shortcutHash[p] = down[k].id
<1>1. PICK focus \in BOOLEAN :
        IF (active # "none" \/ focus) /\ p \in DOMAIN shortcutHash
        THEN Hot!Activate(shortcutHash[p], FALSE, k) ELSE UNCHANGED Hot!buttons
  BY DEF Hot!Release
<1>2. /\ down' = Hot!Restrict(down, DOMAIN down \ {k})
      /\ excused' = (excused \/ (clicker = k /\ ~same))
      /\ UNCHANGED <<shortcutHash, grabbed, others, filters, stale, failed, hotKey, settings,
                     added, dialog>>
  BY DEF Hot!Release, Hot!xServer
<1>3. InForce' /\ Kept' /\ ButtonsShow'
  BY <1>2, SettledKeeps DEF Settled
<1>4. Made'
  BY <1>2 DEF HotInv, Made, Hot!Closed, Hot!None
<1>5. Clicked'
  <2>1. DOMAIN down' = DOMAIN down \ {k} /\ \A j \in DOMAIN down' : down'[j] = down[j]
    BY <1>2 DEF Hot!Restrict
  <2>2. CASE device' = {} /\ prev_btns' = {}
    BY <2>2 DEF Clicked
  <2>3. CASE UNCHANGED <<prev_btns, device, clicker>>
    <3>1. CASE clicker = k /\ ~excused' /\ device # {} /\ clicker \in Keyboard
      <4>1. same /\ ~excused
        BY <1>2, <3>1
      <4>2. Hot!Button(shortcutHash[p]) # {}
        BY <3>1, <4>1 DEF HotInv, Clicked
      <4>3. device' = {}
        BY <1>1, <4>1, <4>2, ActivateClicks DEF HotInv
      <4> QED
        BY <2>3, <3>1, <4>3
    <3>2. CASE ~(clicker = k /\ ~excused' /\ device # {} /\ clicker \in Keyboard)
      BY <1>2, <2>1, <2>3, <3>2 DEF HotInv, Clicked, Hot!Button
    <3> QED
      BY <3>1, <3>2
  <2> QED
    BY <1>1, <2>2, <2>3, ActivateClicks DEF HotInv, Hot!buttons
<1> QED
  BY <1>3, <1>4, <1>5 DEF HotInv

\* So do the start of mickey, the dialog, ctrl, the buttons of a SmartNav and other
\* programs.
LEMMA OthersKeep ==
  ASSUME HotInv,
         \/ Hot!Starts \/ Hot!Cancel \/ Hot!Ctrl
         \/ \E id \in Hot!Ids : Hot!Ask(id)
         \/ \E up \in SUBSET {1, 2} : Hot!SmartNavClicks(up)
         \/ \E p \in Hot!Pairs, i \in DOMAIN Hot!Locks : Hot!OtherGrabs(p, Hot!Locks[i]),
         Hot!ShortcutsAssumption
  PROVE  HotInv'
<1> USE DEF Hot!xServer, Hot!buttons
<1>1. CASE Hot!Starts \/ Hot!Ctrl
  <2>1. Settled /\ UNCHANGED <<added, dialog, down, prev_btns, device, clicker, excused>>
    BY <1>1 DEF Hot!Starts, Hot!Ctrl, Settled
  <2> QED
    BY <2>1, SettledKeeps DEF HotInv, Settled, Made, Clicked, Hot!Closed, Hot!None, Hot!Button
<1>2. CASE Hot!Cancel
  <2>1. /\ Settled /\ UNCHANGED <<added, down, prev_btns, device, clicker, excused>>
        /\ dialog' = Hot!Closed
    BY <1>2 DEF Hot!Cancel, Settled
  <2> QED
    BY <2>1, SettledKeeps DEF HotInv, Settled, Made, Clicked, Hot!Closed, Hot!None, Hot!Button
<1>3. CASE \E id \in Hot!Ids : Hot!Ask(id)
  <2>1. PICK id : /\ Settled /\ UNCHANGED <<added, down, prev_btns, device, clicker, excused>>
                  /\ dialog' = [id |-> id, typed |-> Hot!None]
                  /\ id \in DOMAIN hotKey /\ added = Len(HotKeys)
    BY <1>3 DEF Hot!Ask, Settled
  <2> QED
    BY <2>1, SettledKeeps DEF HotInv, Settled, Made, Clicked, Hot!Closed, Hot!None, Hot!Button
<1>4. CASE \E up \in SUBSET {1, 2} : Hot!SmartNavClicks(up)
  <2>1. PICK btns : /\ Settled /\ UNCHANGED <<added, dialog, down>> /\ Hot!Click(btns, "SmartNav")
    BY <1>4 DEF Hot!SmartNavClicks, Settled
  <2>2. Clicked'
    BY <2>1, ClickSets DEF HotInv, Clicked, Hot!ShortcutsAssumption
  <2> QED
    BY <2>1, <2>2, SettledKeeps DEF HotInv, Settled, Made, Hot!Closed, Hot!None
<1>5. CASE \E p \in Hot!Pairs, i \in DOMAIN Hot!Locks : Hot!OtherGrabs(p, Hot!Locks[i])
  <2>1. /\ \E g : g \notin grabbed /\ others' = others \cup {g}
        /\ UNCHANGED <<shortcutHash, grabbed, filters, stale, failed, hotKey, settings, added,
                       dialog, down, prev_btns, device, clicker, excused>>
    BY <1>5 DEF Hot!OtherGrabs
  <2>2. Kept'
    BY <2>1 DEF HotInv, Kept, Hot!Variants, Hot!Locks
  <2>3. InForce' /\ ButtonsShow'
    BY <2>1 DEF HotInv, InForce, ButtonsShow, Shows, Hot!Old, Hot!Variants, Hot!Locks, Hot!None
  <2>4. Made' /\ Clicked'
    BY <2>1 DEF HotInv, Made, Clicked, Hot!Closed, Hot!None, Hot!Button
  <2> QED
    BY <2>2, <2>3, <2>4 DEF HotInv
<1> QED
  BY <1>1, <1>2, <1>3, <1>4, <1>5

\* A combination in the table is grabbed for its hot key, the dialog shows it, and a
\* button that is down has been clicked (hotkey.cpp, keyb_x11.cpp), for any keyboard and
\* hot keys.
THEOREM HotInvariance ==
  ASSUME Hot!ShortcutsAssumption
  PROVE  Hot!ShortcutsSpec => []HotInv
<1>1. Hot!Init => HotInv
  <2> SUFFICES ASSUME Hot!Init
               PROVE  HotInv
    OBVIOUS
  <2>1. DOMAIN shortcutHash = {} /\ DOMAIN hotKey = {}
    BY DEF Hot!Init
  <2>2. InForce /\ Kept /\ ButtonsShow
    BY <2>1 DEF Hot!Init, InForce, Kept, ButtonsShow
  <2>3. Len(HotKeys) \in Nat
    BY DEF Hot!ShortcutsAssumption
  <2>4. Made /\ Clicked
    BY <2>1, <2>3 DEF Hot!Init, Made, Clicked, Hot!Closed
  <2> QED
    BY <2>2, <2>4 DEF HotInv
<1>2. HotInv /\ [Hot!ShortcutsNext]_(Hot!shortcutVars) => HotInv'
  <2>1. ASSUME HotInv, UNCHANGED Hot!shortcutVars
        PROVE  HotInv'
    <3>1. Settled /\ UNCHANGED <<added, dialog, down, prev_btns, device, clicker, excused>>
      BY <2>1 DEF Hot!shortcutVars, Settled
    <3> QED
      BY <2>1, <3>1, SettledKeeps
         DEF HotInv, Settled, Made, Clicked, Hot!Closed, Hot!None, Hot!Button
  <2> QED
    BY <2>1, AddKeeps, AcceptKeeps, PressKeeps, KeyUpKeeps, OthersKeep DEF Hot!ShortcutsNext
<1> QED
  BY <1>1, <1>2, PTL DEF Hot!ShortcutsSpec

\* A hot key works as it is shown, and the buttons of the mouse follow it
\* (mickey/hotkey.cpp, keyb_x11.cpp).
THEOREM HotKeysFollow ==
  ASSUME Hot!ShortcutsAssumption
  PROVE  Hot!ShortcutsSpec => [](Hot!HotkeysWork /\ Hot!ButtonsFollow)
<1>1. HotInv => Hot!HotkeysWork /\ Hot!ButtonsFollow
  BY DEF HotInv, InForce, Kept, Made, ButtonsShow, Shows, Clicked, Hot!HotkeysWork, Hot!ButtonsFollow
<1> QED
  BY <1>1, HotInvariance, PTL

------------------------------------------------------------------------------
(***************************************************************************)
(* MacWiimote, for any number of pushes, commands and losses. As long as   *)
(* the timer comes in time, the window follows the link (WindowFollows);   *)
(* that a Wiimote whose camera is used has it on rests on the last command *)
(* that was carried out (CameraFollows).                                   *)
(***************************************************************************)

\* The states of a link to the Wiimote.
Links == {"nil", "opening", "open", "failed", "closing"}

\* The types of what the steps of MacWiimote depend on.
MacTypes ==
  /\ server_state \in {"WII_DISCONNECTED", "WII_CONNECTING", "WII_CONNECTED"}
  /\ state \in {"DISCONNECTED", "CONNECTING", "CONNECTED", "DISCONNECTING"}
  /\ channel \in [Mac!Channels -> Links] /\ connected_channels \subseteq Mac!Channels
  /\ irOn \in BOOLEAN /\ mode \in {"none", "ir"} /\ polls \in Int /\ held \in BOOLEAN
  /\ late \in BOOLEAN /\ missed \in BOOLEAN /\ refused \in BOOLEAN

\* The window and the link, as long as the timer came in time.
WindowFollows ==
  ~late =>
    /\ server_state = "WII_CONNECTED" => state = "CONNECTED" /\ held /\ polls = 1
    /\ server_state # "WII_CONNECTED" => ~held /\ polls = 0 /\ old_cmd = "STOP"
    /\ state \in {"DISCONNECTED", "DISCONNECTING"} => missed \/ server_state = "WII_DISCONNECTED"

\* A channel that is counted is there.
ChannelsThere == \A c \in connected_channels : channel[c] # "nil"

\* The camera of the Wiimote is in the mode of the last order.
CameraFollows ==
  server_state = "WII_CONNECTED" /\ ~late /\ ~refused =>
    /\ irOn = (old_cmd = "WAKEUP")
    /\ mode = "ir" /\ channel["control"] = "open" => irOn

\* The invariant of MacWiimote.
MacInv == MacTypes /\ WindowFollows /\ ChannelsThere /\ CameraFollows

\* What becomes of the link and the window, with the channels ch, when it is opened or closed.
Moves(ch) ==
  /\ channel' \in [Mac!Channels -> Links]
  /\ \A c \in Mac!Channels : ch[c] # "nil" => channel'[c] # "nil"
  /\ channel'["control"] = "open" => ch["control"] = "open"
  /\ \/ /\ UNCHANGED Mac!window
        /\ \/ state' = state
           \/ state = "CONNECTING" /\ state' = "CONNECTED"
           \/ state = "DISCONNECTING" /\ state' = "DISCONNECTED"
     \/ /\ Mac!WiiDisconnected /\ state \in {"CONNECTING", "CONNECTED"}
        /\ state' \in {"DISCONNECTED", "DISCONNECTING"}

\* To close the link closes the channels that were open.
LEMMA CloseMoves ==
  ASSUME NEW ch \in [Mac!Channels -> Links], Mac!Close(ch)
  PROVE  /\ channel' \in [Mac!Channels -> Links] /\ state' \in {"DISCONNECTED", "DISCONNECTING"}
         /\ \A c \in Mac!Channels : ch[c] # "nil" => channel'[c] # "nil"
         /\ channel'["control"] = "open" => ch["control"] = "open"
BY DEF Mac!Close, Mac!Channels, Links

\* To ask for it moves the link on.
LEMMA RequestMoves ==
  ASSUME MacTypes, NEW ch \in [Mac!Channels -> Links], Mac!DisconnectRequest(ch)
  PROVE  Moves(ch)
<1>1. CASE state \in {"CONNECTING", "CONNECTED"}
  BY <1>1, CloseMoves DEF Mac!DisconnectRequest, Moves
<1>2. CASE state = "DISCONNECTING"
  BY <1>2, CloseMoves DEF Mac!DisconnectRequest, Moves
<1>3. CASE state = "DISCONNECTED"
  BY <1>3 DEF Mac!DisconnectRequest, Moves
<1> QED
  BY <1>1, <1>2, <1>3 DEF MacTypes

\* So does the next step of a link that is being made.
LEMMA ConnectMoves ==
  ASSUME MacTypes, NEW ch \in [Mac!Channels -> Links], NEW connected, NEW dev,
         Mac!Connect(ch, connected, dev)
  PROVE  Moves(ch)
<1>1. CASE Mac!DisconnectRequest(ch)
  BY <1>1, RequestMoves
<1>2. CASE channel' = ch /\ UNCHANGED Mac!window
           /\ \/ state' = state
              \/ state = "CONNECTING" /\ state' = "CONNECTED"
  BY <1>2 DEF Moves
<1>3. CASE /\ channel' = [ch EXCEPT ![Mac!Next1(ch)] = "opening"]
           /\ "nil" \in {ch[c] : c \in Mac!Channels} /\ UNCHANGED <<state, Mac!window>>
  <2>1. Mac!Next1(ch) \in Mac!Channels /\ ch[Mac!Next1(ch)] = "nil"
    BY <1>3 DEF Mac!Next1, Mac!Channels
  <2>2. /\ channel' \in [Mac!Channels -> Links]
        /\ \A c \in Mac!Channels : channel'[c] = IF c = Mac!Next1(ch) THEN "opening" ELSE ch[c]
    BY <1>3, <2>1 DEF Links
  <2> QED
    BY <1>3, <2>1, <2>2 DEF Moves, Mac!Channels
<1>4. CASE state \notin {"CONNECTING", "CONNECTED"}
  <2>1. channel' = ch /\ UNCHANGED <<state, Mac!window>>
    BY <1>4 DEF Mac!Connect, Mac!window
  <2> QED
    BY <1>2, <2>1
<1>5. CASE state \in {"CONNECTING", "CONNECTED"} /\ "nil" \in {ch[c] : c \in Mac!Channels}
  <2>1. CASE /\ channel' = IF dev THEN [ch EXCEPT ![Mac!Next1(ch)] = "opening"] ELSE ch
             /\ UNCHANGED <<state, Mac!window>>
    <3>1. CASE channel' = ch
      BY <1>2, <2>1, <3>1
    <3>2. CASE channel' = [ch EXCEPT ![Mac!Next1(ch)] = "opening"]
      BY <1>3, <1>5, <2>1, <3>2
    <3> QED
      BY <2>1, <3>1, <3>2
  <2> QED
    BY <1>1, <1>5, <2>1 DEF Mac!Connect, Mac!window
<1>6. CASE state \in {"CONNECTING", "CONNECTED"} /\ "nil" \notin {ch[c] : c \in Mac!Channels}
  BY <1>2, <1>6 DEF Mac!Connect, Mac!window
<1> QED
  BY <1>4, <1>5, <1>6

\* What a move of the link does to the rest.
LEMMA MovesKeep ==
  ASSUME MacInv, NEW ch \in [Mac!Channels -> Links], Moves(ch),
         UNCHANGED <<irOn, late, missed, refused>>,
         connected_channels' \subseteq Mac!Channels,
         \A c \in connected_channels' : ch[c] # "nil",
         mode' \in {"none", "ir"},
         state = "CONNECTED" =>
           mode' = "none" \/ (mode' = mode /\ (ch["control"] = "open" => channel["control"] = "open"))
  PROVE  MacInv'
<1>1. MacTypes'
  <2>1. \/ UNCHANGED <<server_state, polls, held>>
        \/ server_state' = "WII_DISCONNECTED" /\ held' = FALSE /\ polls' \in {polls, polls - 1}
    BY DEF Moves, Mac!window, Mac!WiiDisconnected, Mac!Invalidate
  <2>2. state' \in {state, "CONNECTED", "DISCONNECTED", "DISCONNECTING"}
    BY DEF Moves
  <2>3. channel' \in [Mac!Channels -> Links]
    BY DEF Moves
  <2>4. server_state' \in {"WII_DISCONNECTED", "WII_CONNECTING", "WII_CONNECTED"}
    BY <2>1 DEF MacInv, MacTypes
  <2>5. polls' \in Int
    BY <2>1 DEF MacInv, MacTypes
  <2>8. held' \in BOOLEAN
    BY <2>1 DEF MacInv, MacTypes
  <2>6. state' \in {"DISCONNECTED", "CONNECTING", "CONNECTED", "DISCONNECTING"}
    BY <2>2 DEF MacInv, MacTypes
  <2>7. irOn' \in BOOLEAN /\ late' \in BOOLEAN /\ missed' \in BOOLEAN /\ refused' \in BOOLEAN
    BY DEF MacInv, MacTypes
  <2> QED
    BY <2>3, <2>4, <2>5, <2>6, <2>7, <2>8 DEF MacTypes
<1>4. ChannelsThere'
  BY DEF ChannelsThere, Moves
<1>2. WindowFollows'
  BY DEF MacInv, MacTypes, WindowFollows, Moves, Mac!window, Mac!WiiDisconnected, Mac!Invalidate
<1>3. CameraFollows'
  BY DEF MacInv, MacTypes, WindowFollows, CameraFollows, Moves, Mac!window, Mac!WiiDisconnected, Mac!Invalidate
<1> QED
  BY <1>1, <1>2, <1>3, <1>4 DEF MacInv

\* The button of the window keeps the invariant.
LEMMA PressedKeeps ==
  ASSUME MacInv, Mac!ConnectPressed
  PROVE  MacInv'
<1>1. UNCHANGED <<device, connected_channels, irOn, mode, late, refused>>
  BY DEF Mac!ConnectPressed
<1>2. CASE /\ server_state = "WII_DISCONNECTED" /\ server_state' = "WII_CONNECTING"
           /\ IF state = "DISCONNECTED" THEN state' = "CONNECTING" ELSE UNCHANGED state
           /\ missed' = (missed \/ state # "DISCONNECTED")
           /\ UNCHANGED <<channel, polls, held, old_cmd>>
  BY <1>1, <1>2 DEF MacInv, MacTypes, WindowFollows, ChannelsThere, CameraFollows
<1>3. CASE Mac!DisconnectRequest(channel) /\ UNCHANGED missed
  <2>1. Moves(channel)
    BY <1>3, RequestMoves DEF MacInv, MacTypes
  <2> QED
    BY <1>1, <1>3, <2>1, MovesKeep DEF MacInv, MacTypes, ChannelsThere
<1>4. CASE /\ server_state = "WII_CONNECTED" /\ state \notin {"CONNECTING", "CONNECTED"}
           /\ Mac!Invalidate /\ UNCHANGED <<server_state, old_cmd, missed>>
           /\ IF state = "DISCONNECTING" THEN Mac!Close(channel) ELSE UNCHANGED Mac!link
  <2>1. late
    BY <1>4 DEF MacInv, MacTypes, WindowFollows
  <2>2. /\ channel' \in [Mac!Channels -> Links]
        /\ \A c \in Mac!Channels : channel[c] # "nil" => channel'[c] # "nil"
        /\ state' \in {"DISCONNECTED", "DISCONNECTING"}
    BY <1>4, CloseMoves DEF MacInv, MacTypes, Mac!link
  <2> QED
    <3>1. polls' \in Int /\ held' = FALSE
      BY <1>4 DEF MacInv, MacTypes, Mac!Invalidate
    <3>2. MacTypes'
      BY <1>1, <1>4, <2>2, <3>1 DEF MacInv, MacTypes
    <3>3. ChannelsThere'
      BY <1>1, <2>2 DEF MacInv, MacTypes, ChannelsThere
    <3> QED
      BY <1>1, <2>1, <3>2, <3>3 DEF MacInv, WindowFollows, CameraFollows
<1> QED
  BY <1>2, <1>3, <1>4 DEF Mac!ConnectPressed

\* So do the inquiry and the channels.
LEMMA LinkKeeps ==
  ASSUME MacInv,
         \/ Mac!DiscoveryStarted \/ Mac!DiscoveryComplete
         \/ \E c \in Mac!Channels : Mac!OpenComplete(c) \/ Mac!ChannelClosed(c)
  PROVE  MacInv'
<1>1. CASE Mac!DiscoveryStarted
  BY <1>1 DEF Mac!DiscoveryStarted, Mac!link, Mac!window, Mac!history, MacInv, MacTypes,
              WindowFollows, ChannelsThere, CameraFollows
<1>2. CASE Mac!DiscoveryComplete
  <2>1. UNCHANGED <<connected_channels, irOn, mode, late, missed, refused>>
    BY <1>2 DEF Mac!DiscoveryComplete, Mac!history
  <2>2. CASE UNCHANGED <<Mac!link, Mac!window>>
    BY <2>1, <2>2 DEF Mac!link, Mac!window, MacInv, MacTypes, WindowFollows, ChannelsThere,
                      CameraFollows
  <2>3. ASSUME NEW found \in BOOLEAN, Mac!Connect(channel, connected_channels, found)
        PROVE  MacInv'
    <3>1. Moves(channel)
      BY <2>3, ConnectMoves DEF MacInv, MacTypes
    <3> QED
      BY <2>1, <3>1, MovesKeep DEF MacInv, MacTypes, ChannelsThere
  <2> QED
    BY <1>2, <2>2, <2>3 DEF Mac!DiscoveryComplete
<1>3. ASSUME NEW c \in Mac!Channels, Mac!OpenComplete(c)
      PROVE  MacInv'
  <2>1. channel[c] = "opening" /\ UNCHANGED <<irOn, late, missed, refused>>
    BY <1>3 DEF Mac!OpenComplete, Mac!history
  <2>2. CASE /\ channel' = [channel EXCEPT ![c] = "failed"]
             /\ UNCHANGED <<state, Mac!window, connected_channels, mode>>
    BY <2>1, <2>2 DEF Mac!window, MacInv, MacTypes, WindowFollows, ChannelsThere, CameraFollows,
                      Links, Mac!Channels
  <2>3. ASSUME NEW ch, ch = [channel EXCEPT ![c] = "open"],
               connected_channels' = connected_channels \cup {c},
               Mac!Connect(ch, connected_channels', device),
               IF c = "control" THEN Mac!Reports(FALSE, ch) ELSE UNCHANGED mode
        PROVE  MacInv'
    <3>1. ch \in [Mac!Channels -> Links] /\ \A d \in connected_channels' : ch[d] # "nil"
      BY <2>1, <2>3 DEF MacInv, MacTypes, ChannelsThere, Links
    <3>2. Moves(ch)
      BY <2>3, <3>1, ConnectMoves DEF MacInv
    <3>3. /\ mode' \in {"none", "ir"}
          /\ state = "CONNECTED" =>
               mode' = "none"
               \/ (mode' = mode /\ (ch["control"] = "open" => channel["control"] = "open"))
      BY <2>3 DEF Mac!Reports, MacInv, MacTypes, Mac!Channels
    <3>4. connected_channels' \subseteq Mac!Channels
      BY <2>3 DEF MacInv, MacTypes
    <3> QED
      BY <2>1, <3>1, <3>2, <3>3, <3>4, MovesKeep
  <2> QED
    BY <1>3, <2>2, <2>3 DEF Mac!OpenComplete
<1>4. ASSUME NEW c \in Mac!Channels, Mac!ChannelClosed(c)
      PROVE  MacInv'
  <2>1. PICK ch : /\ ch = [channel EXCEPT ![c] = "nil"]
                  /\ Mac!Connect(ch, connected_channels', device) \/ Mac!DisconnectRequest(ch)
    BY <1>4 DEF Mac!ChannelClosed
  <2>2. /\ connected_channels' = connected_channels \ {c}
        /\ UNCHANGED <<irOn, mode, late, missed, refused>>
    BY <1>4 DEF Mac!ChannelClosed, Mac!history
  <2>3. /\ ch \in [Mac!Channels -> Links] /\ \A d \in connected_channels' : ch[d] # "nil"
        /\ ch["control"] = "open" => channel["control"] = "open"
    BY <2>1, <2>2 DEF MacInv, MacTypes, ChannelsThere, Links, Mac!Channels
  <2>4. Moves(ch)
    BY <2>1, <2>3, ConnectMoves, RequestMoves DEF MacInv
  <2>5. connected_channels' \subseteq Mac!Channels /\ mode' \in {"none", "ir"}
    BY <2>2 DEF MacInv, MacTypes
  <2> QED
    BY <2>2, <2>3, <2>4, <2>5, MovesKeep
<1> QED
  BY <1>1, <1>2, <1>3, <1>4

\* So do the timers and the orders of the driver.
LEMMA TimersKeep ==
  ASSUME MacInv,
         \/ Mac!InitializeWii \/ Mac!TimerCallback \/ Mac!ReportsAgain
         \/ \E c \in Mac!Orders : Mac!Order(c)
  PROVE  MacInv'
<1>1. CASE Mac!InitializeWii
  <2>1. /\ UNCHANGED <<state, channel, connected_channels, old_cmd, missed, refused>>
        /\ server_state' = "WII_CONNECTED" /\ polls' = polls + 1 /\ held' = TRUE
        /\ irOn' = FALSE /\ mode' \in {"none", mode}
        /\ state = "CONNECTED" /\ channel["control"] = "open" => mode' = "none"
        /\ late' = (late \/ state # "CONNECTED" \/ server_state = "WII_CONNECTED")
    BY <1>1 DEF Mac!InitializeWii, Mac!DisableIR, Mac!Reports, Mac!WiiConnected
  <2>5. polls' \in Int /\ mode' \in {"none", "ir"} /\ late' \in BOOLEAN
    BY <2>1 DEF MacInv, MacTypes
  <2>2. MacTypes' /\ ChannelsThere'
    BY <2>1, <2>5 DEF MacInv, MacTypes, ChannelsThere
  <2>3. ASSUME ~late'
        PROVE  ~late /\ state = "CONNECTED" /\ server_state # "WII_CONNECTED"
    BY <2>1, <2>3
  <2>4. WindowFollows' /\ CameraFollows'
    <3>1. CASE late'
      BY <3>1 DEF WindowFollows, CameraFollows
    <3>2. CASE ~late'
      <4>1. polls' = 1 /\ old_cmd' = "STOP" /\ state' = "CONNECTED"
        BY <2>1, <2>3, <3>2 DEF MacInv, MacTypes, WindowFollows
      <4>2. channel'["control"] = "open" => mode' = "none"
        BY <2>1, <4>1
      <4> QED
        BY <2>1, <4>1, <4>2 DEF WindowFollows, CameraFollows
    <3> QED
      BY <3>1, <3>2
  <2> QED
    BY <2>2, <2>4 DEF MacInv
<1>2. CASE Mac!TimerCallback
  <2>1. /\ UNCHANGED <<server_state, state, channel, connected_channels, polls, held, late, missed>>
        /\ polls > 0 /\ old_cmd' = command /\ old_cmd' # old_cmd
        /\ IF old_cmd' = "WAKEUP" THEN Mac!EnableIR ELSE Mac!DisableIR
    BY <1>2 DEF Mac!TimerCallback, Mac!link
  <2>2. /\ irOn' \in BOOLEAN /\ mode' \in {"none", "ir"} /\ refused' \in BOOLEAN
        /\ refused' \/ (refused' = refused /\ irOn' = (old_cmd' = "WAKEUP")
                         /\ (state = "CONNECTED" /\ channel["control"] = "open"
                              => mode' = IF irOn' THEN "ir" ELSE "none"))
    BY <2>1 DEF MacInv, MacTypes, Mac!EnableIR, Mac!DisableIR, Mac!Reports
  <2>3. MacTypes' /\ ChannelsThere'
    BY <2>1, <2>2 DEF MacInv, MacTypes, ChannelsThere
  <2>4. WindowFollows'
    BY <2>1 DEF MacInv, MacTypes, WindowFollows
  <2>5. CameraFollows'
    BY <2>1, <2>2 DEF MacInv, MacTypes, WindowFollows, CameraFollows
  <2> QED
    BY <2>3, <2>4, <2>5 DEF MacInv
<1>3. CASE Mac!ReportsAgain
  BY <1>3 DEF Mac!ReportsAgain, Mac!Reports, Mac!link, Mac!window, Mac!history, MacInv, MacTypes,
              WindowFollows, ChannelsThere, CameraFollows
<1>4. CASE \E c \in Mac!Orders : Mac!Order(c)
  BY <1>4 DEF Mac!Order, Mac!link, Mac!window, Mac!history, MacInv, MacTypes,
              WindowFollows, ChannelsThere, CameraFollows
<1> QED
  BY <1>1, <1>2, <1>3, <1>4

\* The window agrees with the link, and the camera with the orders (wiimote_server.m),
\* for any number of presses, orders and losses.
THEOREM MacInvariance == Mac!MacSpec => []MacInv
<1>1. Mac!Init => MacInv
  <2> SUFFICES ASSUME Mac!Init
               PROVE  MacInv
    OBVIOUS
  <2>1. channel \in [Mac!Channels -> Links]
    BY DEF Mac!Init, Mac!LinkInit, Links
  <2>4. /\ irOn \in BOOLEAN /\ held \in BOOLEAN /\ late \in BOOLEAN /\ missed \in BOOLEAN
        /\ refused \in BOOLEAN
    BY DEF Mac!Init, Mac!LinkInit
  <2>5. /\ server_state \in {"WII_DISCONNECTED", "WII_CONNECTING", "WII_CONNECTED"}
        /\ state \in {"DISCONNECTED", "CONNECTING", "CONNECTED", "DISCONNECTING"}
        /\ mode \in {"none", "ir"} /\ polls \in Int /\ connected_channels = {}
    BY DEF Mac!Init, Mac!LinkInit
  <2>2. MacTypes /\ ChannelsThere
    BY <2>1, <2>4, <2>5 DEF MacTypes, ChannelsThere
  <2>3. WindowFollows /\ CameraFollows
    BY DEF Mac!Init, Mac!LinkInit, WindowFollows, CameraFollows
  <2> QED
    BY <2>2, <2>3 DEF MacInv
<1>2. MacInv /\ [Mac!MacNext]_(Mac!macVars) => MacInv'
  <2>1. ASSUME MacInv, UNCHANGED Mac!macVars
        PROVE  MacInv'
    BY <2>1 DEF Mac!macVars, MacInv, MacTypes, WindowFollows, ChannelsThere, CameraFollows
  <2> QED
    BY <2>1, PressedKeeps, LinkKeeps, TimersKeep DEF Mac!MacNext
<1> QED
  BY <1>1, <1>2, PTL DEF Mac!MacSpec

\* The window tells the state of the link (mac/wiimote_server.m).
THEOREM WindowIsRight == Mac!MacSpec => []Mac!WindowAgrees
<1>1. MacInv => Mac!WindowAgrees
  BY DEF MacInv, MacTypes, WindowFollows, ChannelsThere, CameraFollows, Mac!WindowAgrees
<1> QED
  BY <1>1, MacInvariance, PTL

------------------------------------------------------------------------------
(***************************************************************************)
(* WiiLights, for any LEDs that are kept and any number of looks and       *)
(* turns. An indication is a number with a bit for each LED, which can be  *)
(* read again (BitsTell).                                                  *)
(***************************************************************************)

\* The types of what the steps of WiiLights depend on.
LedTypes ==
  /\ lights \in Led!KeptSections \cup {Led!Nothing} /\ active \in BOOLEAN
  /\ boxes \in Led!Lights \cup {Led!Nothing} /\ gui \in Led!Lights /\ driver \in Led!Lights
  /\ tracker \in {"off", "running", "paused"} /\ given \in {"none", "SLEEP", "WAKEUP"}
  /\ cmd \in {"STOP", "SLEEP", "WAKEUP"} /\ old \in {"STOP", "SLEEP", "WAKEUP"}
  /\ torn \in BOOLEAN /\ unseen \in BOOLEAN

\* What the boxes show is in the section of the Wiimote, which is there.
BoxesTell ==
  /\ active => lights # Led!Nothing
  /\ boxes # Led!Nothing =>
       /\ active /\ gui = boxes
       /\ \A k \in {"run", "pause"} : lights[k] \in {Led!NoKey, boxes[k]}

\* The command is the one of the state the tracking is in, or is about to be given.
Commanded ==
  /\ tracker = "off" => given = "none" /\ cmd = "STOP"
  /\ tracker = "running" => given = "WAKEUP" \/ (given = "none" /\ cmd = "WAKEUP")
  /\ tracker = "paused" => given = "SLEEP" \/ (given = "none" /\ cmd = "SLEEP")
  /\ tracker # "off" => indication = Led!Indication(driver)

\* The LEDs are those of the last command the server saw.
LedsLit ==
  tracker # "off" /\ ~torn /\ ~unseen =>
    /\ old = "WAKEUP" => leds = driver.run
    /\ old = "SLEEP" => leds = driver.pause

\* The invariant of WiiLights.
LedInv == LedTypes /\ BoxesTell /\ Commanded /\ LedsLit

\* The bits of an indication are one for each LED, so it can be read again.
LEMMA BitsTell ==
  ASSUME NEW on \in SUBSET Led!Leds
  PROVE  Led!Bits(on) \in 0 .. 15 /\ Led!Shown(Led!Bits(on)) = on
<1>1. \A a, b \in SUBSET Led!Leds :
        Led!Bits(a) = Led!Bits(b) => \A i \in Led!Leds : i \in a <=> i \in b
  BY DEF Led!Bits, Led!Leds
<1>2. \A a, b \in SUBSET Led!Leds : Led!Bits(a) = Led!Bits(b) => a = b
  BY <1>1
<1>3. Led!Bits(on) \in 0 .. 15
  BY DEF Led!Bits
<1> QED
  BY <1>2, <1>3 DEF Led!Shown

\* The LEDs that are put into a byte come back from it.
LEMMA IndicationTells ==
  ASSUME NEW l \in Led!Lights
  PROVE  /\ Led!Shown(Led!Indication(l) % 16) = l.pause
         /\ Led!Shown((Led!Indication(l) \div 16) % 16) = l.run
<1>1. l.run \in SUBSET Led!Leds /\ l.pause \in SUBSET Led!Leds
  BY DEF Led!Lights
<1>2. \A a, b \in 0 .. 15 : (a * 16 + b) % 16 = b /\ ((a * 16 + b) \div 16) % 16 = a
  OBVIOUS
<1> QED
  BY <1>1, <1>2, BitsTell DEF Led!Indication

\* What a section says of the LEDs.
LEMMA KeptIs ==
  ASSUME NEW l \in Led!Lights, NEW s \in Led!KeptSections
  PROVE  /\ Led!Kept(l, s) \in Led!Lights
         /\ \A k \in {"run", "pause"} : s[k] \in {Led!NoKey, Led!Kept(l, s)[k]}
<1> DEFINE q == Led!Kept(l, s)
<1>1. /\ q = [k \in {"run", "pause"} |-> q[k]]
      /\ \A k \in {"run", "pause"} : q[k] = IF s[k] = Led!NoKey THEN l[k] ELSE s[k]
  BY DEF Led!Kept
<1>2. \A k \in {"run", "pause"} : q[k] \in SUBSET Led!Leds
  BY <1>1 DEF Led!Lights, Led!KeptSections
<1> HIDE DEF q
<1>3. q \in Led!Lights
  BY <1>1, <1>2 DEF Led!Lights
<1> QED
  BY <1>1, <1>3 DEF q

\* There is no Wiimote where nothing is kept.
LEMMA NothingIsNone == Led!Nothing \notin Led!KeptSections
<1>1. \A s \in Led!KeptSections : s.run \in {Led!NoKey} \cup SUBSET Led!Leds
  BY DEF Led!KeptSections
<1>2. Led!Nothing.run = {-1}
  BY DEF Led!Nothing
<1>3. -1 \notin Led!NoKey /\ -1 \notin Led!Leds
  BY DEF Led!NoKey, Led!Leds
<1> QED
  BY <1>1, <1>2, <1>3

\* The window.
LEMMA WindowKeeps ==
  ASSUME LedInv,
         \/ Led!Activate \/ Led!Leave
         \/ \E k \in {"run", "pause"}, led \in Led!Leds : Led!IndicationChanged(k, led)
  PROVE  LedInv'
<1>1. UNCHANGED <<driver, tracker, given, indication, cmd, seen, old, leds, torn, unseen>>
  BY DEF Led!Activate, Led!Leave, Led!IndicationChanged, Led!server
<1>2. Commanded' /\ LedsLit'
  BY <1>1 DEF LedInv, Commanded, LedsLit, Led!Indication, Led!Bits
<1>3. CASE Led!Activate
  <2>1. /\ active' = TRUE /\ gui' = Led!Kept(gui, lights') /\ boxes' = gui'
        /\ lights' = IF lights = Led!Nothing THEN [run |-> {2}, pause |-> {3}] ELSE lights
    BY <1>3 DEF Led!Activate
  <2>2. lights' \in Led!KeptSections /\ lights' # Led!Nothing
    BY <2>1 DEF LedInv, LedTypes, Led!KeptSections, Led!Nothing, Led!Leds, Led!NoKey
  <2>3. /\ gui' \in Led!Lights /\ \A k \in {"run", "pause"} : lights'[k] \in {Led!NoKey, gui'[k]}
    BY <2>1, <2>2, KeptIs DEF LedInv, LedTypes
  <2> QED
    BY <1>1, <1>2, <2>1, <2>2, <2>3 DEF LedInv, LedTypes, BoxesTell
<1>4. CASE Led!Leave
  BY <1>1, <1>2, <1>4 DEF Led!Leave, LedInv, LedTypes, BoxesTell
<1>5. ASSUME NEW k \in {"run", "pause"}, NEW led \in Led!Leds, Led!IndicationChanged(k, led)
      PROVE  LedInv'
  <2>1. /\ boxes # Led!Nothing /\ active' = active
        /\ gui' = [gui EXCEPT ![k] = boxes'[k]] /\ lights' = [lights EXCEPT ![k] = boxes'[k]]
    BY <1>5 DEF Led!IndicationChanged, Led!SetIndication
  <2>2. boxes \in Led!Lights /\ gui = boxes /\ lights \in Led!KeptSections /\ active
    BY <2>1 DEF LedInv, LedTypes, BoxesTell
  <2>3. PICK on \in SUBSET Led!Leds : boxes' = [boxes EXCEPT ![k] = on]
    <3> DEFINE now == IF led \in boxes[k] THEN boxes[k] \ {led} ELSE boxes[k] \cup {led}
    <3>1. boxes' = [boxes EXCEPT ![k] = now]
      BY <1>5 DEF Led!IndicationChanged
    <3>2. now \in SUBSET Led!Leds
      BY <2>2 DEF Led!Lights
    <3> QED
      BY <3>1, <3>2
  <2>4. boxes'[k] = on
    BY <2>2, <2>3 DEF Led!Lights
  <2>5. gui' = [gui EXCEPT ![k] = on] /\ lights' = [lights EXCEPT ![k] = on]
    BY <2>1, <2>4
  <2>6. gui' = boxes' /\ boxes' \in Led!Lights
    BY <2>2, <2>3, <2>5 DEF Led!Lights
  <2>7. lights' \in Led!KeptSections /\ lights' # Led!Nothing
    <3>1. lights' \in Led!KeptSections
      BY <2>2, <2>5 DEF Led!KeptSections
    <3> QED
      BY <3>1, NothingIsNone
  <2>8. \A j \in {"run", "pause"} : lights'[j] \in {Led!NoKey, boxes'[j]}
    BY <2>1, <2>2, <2>3, <2>5 DEF LedInv, BoxesTell, Led!Lights, Led!KeptSections
  <2> QED
    BY <1>1, <1>2, <2>1, <2>2, <2>6, <2>7, <2>8 DEF LedInv, LedTypes, BoxesTell
<1> QED
  BY <1>3, <1>4, <1>5

\* The driver.
LEMMA DriverKeeps ==
  ASSUME LedInv,
         Led!TrackerInit \/ Led!TrackerPause \/ Led!TrackerResume \/ Led!Give \/ Led!TrackerClose
  PROVE  LedInv'
<1>1. UNCHANGED <<lights, active, boxes, gui, seen, old, leds, torn>>
  BY DEF Led!TrackerInit, Led!TrackerPause, Led!TrackerResume, Led!Give, Led!TrackerClose,
         Led!setup, Led!server
<1>2. BoxesTell'
  BY <1>1 DEF LedInv, BoxesTell
<1>3. CASE Led!TrackerInit
  <2>1. /\ tracker = "off" /\ active /\ driver' = Led!Kept(Led!NoLights, lights)
        /\ tracker' = "running" /\ given' = "WAKEUP" /\ indication' = Led!Indication(driver')
        /\ unseen' = (unseen \/ old # "STOP") /\ UNCHANGED cmd
    BY <1>3 DEF Led!TrackerInit, Led!Tell
  <2>2. driver' \in Led!Lights
    <3>1. Led!NoLights \in Led!Lights
      BY DEF Led!NoLights, Led!Lights
    <3> QED
      BY <2>1, <3>1, KeptIs DEF LedInv, LedTypes, BoxesTell
  <2> QED
    BY <1>1, <1>2, <2>1, <2>2 DEF LedInv, LedTypes, Commanded, LedsLit
<1>4. CASE Led!TrackerPause
  BY <1>1, <1>2, <1>4 DEF Led!TrackerPause, Led!Tell, LedInv, LedTypes, Commanded, LedsLit
<1>5. CASE Led!TrackerResume
  BY <1>1, <1>2, <1>5 DEF Led!TrackerResume, Led!Tell, LedInv, LedTypes, Commanded, LedsLit
<1>6. CASE Led!Give
  <2>1. cmd' = given /\ given # "none" /\ given' = "none" /\ UNCHANGED <<driver, tracker, indication, unseen>>
    BY <1>6 DEF Led!Give
  <2>2. Led!Indication(driver)' = Led!Indication(driver)
    BY <2>1 DEF Led!Indication, Led!Bits
  <2> QED
    BY <1>1, <1>2, <2>1, <2>2 DEF LedInv, LedTypes, Commanded, LedsLit
<1>7. CASE Led!TrackerClose
  BY <1>1, <1>2, <1>7 DEF Led!TrackerClose, LedInv, LedTypes, Commanded, LedsLit
<1> QED
  BY <1>3, <1>4, <1>5, <1>6, <1>7

\* The server.
LEMMA ServerKeeps ==
  ASSUME LedInv, Led!ReadIndication \/ Led!TakeCommand
  PROVE  LedInv'
<1>1. UNCHANGED <<lights, active, boxes, gui, driver, tracker, given, indication, cmd, unseen>>
  BY DEF Led!ReadIndication, Led!TakeCommand, Led!setup
<1>2. BoxesTell' /\ Commanded'
  BY <1>1 DEF LedInv, BoxesTell, Commanded, Led!Indication, Led!Bits
<1>3. CASE Led!ReadIndication
  BY <1>1, <1>2, <1>3 DEF Led!ReadIndication, LedInv, LedTypes, LedsLit
<1>4. CASE Led!TakeCommand
  <2>1. /\ old' = cmd /\ torn' = (torn \/ (cmd # old /\ seen # indication))
        /\ leds' = IF cmd = old \/ cmd = "STOP" THEN leds
                   ELSE Led!Shown(IF cmd = "SLEEP" THEN seen % 16 ELSE (seen \div 16) % 16)
    BY <1>4 DEF Led!TakeCommand
  <2>2. ASSUME tracker # "off", ~torn', ~unseen, cmd # "STOP"
        PROVE  /\ cmd = "WAKEUP" => leds' = driver.run
               /\ cmd = "SLEEP" => leds' = driver.pause
    <3>1. CASE cmd = old
      BY <2>1, <2>2, <3>1 DEF LedInv, LedTypes, LedsLit
    <3>2. CASE cmd # old
      <4>1. seen = Led!Indication(driver)
        BY <2>1, <2>2, <3>2 DEF LedInv, Commanded
      <4>2. Led!Shown(seen % 16) = driver.pause /\ Led!Shown((seen \div 16) % 16) = driver.run
        BY <4>1, IndicationTells DEF LedInv, LedTypes
      <4> QED
        BY <2>1, <2>2, <3>2, <4>2
    <3> QED
      BY <3>1, <3>2
  <2>3. LedsLit'
    BY <1>1, <2>1, <2>2 DEF LedsLit
  <2>4. LedTypes'
    BY <1>1, <2>1 DEF LedInv, LedTypes
  <2> QED
    BY <1>2, <2>3, <2>4 DEF LedInv
<1> QED
  BY <1>3, <1>4

\* The boxes, the driver and the LEDs of the Wiimote agree but for what is on its way
\* (wii_driver_prefs.cpp, macwii_driver.c), for any LEDs kept and any number of changes.
THEOREM LedInvariance == ASSUME Led!LightsAssumption PROVE Led!LightsSpec => []LedInv
<1>1. Led!Init => LedInv
  <2> SUFFICES ASSUME Led!Init
               PROVE  LedInv
    OBVIOUS
  <2>1. lights \in Led!KeptSections \cup {Led!Nothing}
    BY DEF Led!Init, Led!LightsAssumption
  <2>2. Led!NoLights \in Led!Lights
    BY DEF Led!NoLights, Led!Lights
  <2> QED
    BY <2>1, <2>2 DEF Led!Init, LedInv, LedTypes, BoxesTell, Commanded, LedsLit
<1>2. LedInv /\ [Led!LightsNext]_(Led!lightsVars) => LedInv'
  <2>1. ASSUME LedInv, UNCHANGED Led!lightsVars
        PROVE  LedInv'
    BY <2>1 DEF LedInv, LedTypes, BoxesTell, Commanded, LedsLit, Led!lightsVars, Led!Indication, Led!Bits
  <2> QED
    BY <2>1, WindowKeeps, DriverKeeps, ServerKeeps DEF Led!LightsNext
<1> QED
  BY <1>1, <1>2, PTL DEF Led!LightsSpec

\* The LEDs of the Wiimote tell what its boxes say (qt_gui/wii_driver_prefs.cpp,
\* mac/macwii_driver.c).
THEOREM LightsTell == ASSUME Led!LightsAssumption PROVE Led!LightsSpec => []Led!LightsTell
<1>1. LedInv => Led!LightsTell
  BY DEF LedInv, LedTypes, BoxesTell, Commanded, LedsLit, Led!LightsTell
<1> QED
  BY <1>1, LedInvariance, PTL

------------------------------------------------------------------------------
(***************************************************************************)
(* The variables of each component have their types, for any values of its *)
(* constants.  What its inductive invariant says of them is taken from     *)
(* there; the rest are the flags, the counts and what is only read.        *)
(***************************************************************************)

\* The variables of Mickey have their types: a setup or a range is one there is.
THEOREM MouTypesHold == ASSUME Mou!TrialsAssumption PROVE Mou!MickeySpec => []Mou!TypeOK
<1>1. Mou!Init => Mou!TypeOK
  <2>1. /\ (CHOOSE s \in Setups : TRUE) \in Setups /\ (CHOOSE r \in Ranges : TRUE) \in Ranges
        /\ 0 \in 0 .. MaxTrials
    BY DEF Mou!TrialsAssumption
  <2>2. ASSUME Mou!Init
        PROVE  /\ setup \in Setups /\ oldSetup = setup /\ newSetup = setup /\ sliders = setup
               /\ range \in Ranges /\ prevRange = range /\ guiRange = range
               /\ used = [setup |-> setup, range |-> range]
               /\ mouse = "TRACKING" /\ dialog = "none" /\ calibrating = FALSE /\ asleep = FALSE
               /\ outcome = "none" /\ trials = 0
    BY <2>1, <2>2 DEF Mou!Init
  <2> QED
    BY <2>1, <2>2 DEF Mou!TypeOK, Mou!States
<1>2. Mou!TypeOK /\ [Mou!MickeyNext]_(Mou!mickeyVars) => Mou!TypeOK'
  <2> SUFFICES ASSUME Mou!TypeOK, [Mou!MickeyNext]_(Mou!mickeyVars)
               PROVE  Mou!TypeOK'
    OBVIOUS
  <2> DEFINE Tried == /\ mouse \in Mou!States
                      /\ dialog \in {"none", "CENTER", "CALIBRATE", "CENTER_ONLY", "apply"}
                      /\ calibrating \in BOOLEAN /\ asleep \in BOOLEAN
                      /\ outcome \in {"none", "kept", "reverted"}
             Set == {setup, oldSetup, newSetup, sliders} \subseteq Setups
             Reach == {range, prevRange, guiRange} \subseteq Ranges
  <2> USE DEF Mou!MickeyNext, Mou!mickeyVars, Mou!settingVars, Mou!Toggle, Mou!MoveSlider, Mou!Apply,
              Mou!Keep, Mou!Revert, Mou!Calibrate, Mou!Centred, Mou!HeadMoves, Mou!FinishCalibration,
              Mou!CancelCalibration, Mou!TrySettings, Mou!ChangeState
  <2>1. Tried'
    BY DEF Mou!TypeOK, Mou!States
  <2>2. Set'
    BY DEF Mou!TypeOK
  <2>3. Reach'
    BY DEF Mou!TypeOK
  <2>4. used' = used \/ used' = [setup |-> setup, range |-> range]
    BY Zenon
  <2>5. used' \in [setup : Setups, range : Ranges]
    BY <2>4 DEF Mou!TypeOK
  <2>6. trials' = trials \/ (trials < MaxTrials /\ trials' = trials + 1)
    BY Zenon
  <2>7. trials' \in 0 .. MaxTrials
    BY <2>6 DEF Mou!TypeOK, Mou!TrialsAssumption
  <2> QED
    BY <2>1, <2>2, <2>3, <2>5, <2>7, Zenon DEF Mou!TypeOK
<1> QED
  BY <1>1, <1>2, PTL DEF Mou!MickeySpec

\* The variables of ModelSetup have their types: what is active is a model, and so is what the
\* thread is about to set up the pose with.
THEOREM ModTypesHold == ASSUME Mod!ModelAssumption PROVE Mod!ModelSpec => []Mod!TypeOK
<1> DEFINE Known == /\ DOMAIN models \subseteq Mod!Names /\ active \in DOMAIN models
                    /\ thread = "keys" => section \in DOMAIN models
           Picks == current \in Mod!Names /\ listed \subseteq Mod!Names
           Tunes == tweaker \in Mod!Names \cup {Mod!NoModel}
           Guards == mdlType \in Mod!Types /\ devType \in Mod!Devices /\ warned \in BOOLEAN
           Poses == section \in Mod!Names \cup {Mod!NoModel} /\ pose \in Mod!Model /\ centre \in Mod!Model
           Counts == choices \in 0 .. MaxChanges
           Rest == Known /\ Picks /\ Tunes /\ Guards /\ Poses /\ Counts
<1>1. Mod!Init => Rest
  <2> SUFFICES ASSUME Mod!Init
               PROVE  Rest
    OBVIOUS
  <2>1. /\ models = KeptModels /\ active \in DOMAIN KeptModels /\ models[active] \in Mod!Model
        /\ DOMAIN KeptModels \subseteq Mod!Names
    BY DEF Mod!Init, Mod!ModelAssumption, Mod!Names
  <2>2. Known /\ Picks /\ Tunes /\ Poses /\ Counts
    BY <2>1 DEF Mod!Init, Mod!Tuned, Mod!ModelAssumption
  <2>3. Guards
    BY <2>1 DEF Mod!Init, Mod!Unfit, Mod!Model
  <2> QED
    BY <2>2, <2>3
<1>2. ModInv /\ Rest /\ [Mod!ModelNext]_(Mod!modelVars) => Rest'
  <2> SUFFICES ASSUME ModInv, Rest, [Mod!ModelNext]_(Mod!modelVars)
               PROVE  Rest'
    OBVIOUS
  <2>1. ModTypes
    BY DEF ModInv
  <2>2. choices' = choices \/ (choices < MaxChanges /\ choices' = choices + 1)
    BY Zenon
       DEF Mod!ModelNext, Mod!modelVars, Mod!Select, Mod!Tweak, Mod!Create, Mod!Discard, Mod!Announce,
           Mod!DeviceChosen, Mod!Start, Mod!ReadFlag, Mod!ClearFlag, Mod!ReadSection, Mod!ReadKeys,
           Mod!UpdatePose, Mod!UpdatePoints, Mod!Stop, Mod!Chooses, Mod!gui
  <2>3. Counts'
    BY <2>2 DEF Mod!ModelAssumption
  <2> DEFINE Others == Known /\ Picks /\ Tunes /\ Guards /\ Poses
  <2>4. ASSUME NEW name \in Mod!Names, NEW known, Mod!Activated(name, known), UNCHANGED devType,
               \A n \in DOMAIN known : known[n] \in Mod!Model, DOMAIN known \subseteq Mod!Names,
               active \in DOMAIN known
        PROVE  current' \in Mod!Names /\ active' \in DOMAIN known /\ Tunes' /\ Guards'
    <3>1. CASE name \in DOMAIN known
      <4>1. known[name].type \in Mod!Types
        BY <2>4, <3>1 DEF Mod!Model
      <4>2. /\ current' = name /\ active' = name /\ mdlType' = known[name].type
            /\ warned' = Mod!Unfit(devType, mdlType')
            /\ tweaker' \in {name, Mod!NoModel}
        BY <2>4, <3>1 DEF Mod!Activated
      <4> QED
        BY <2>4, <3>1, <4>1, <4>2 DEF Mod!Unfit
    <3>2. CASE name \notin DOMAIN known
      BY <2>4, <3>2 DEF Mod!Activated
    <3> QED
      BY <3>1, <3>2
  <2>5. ASSUME NEW name \in Mod!Names, Mod!Select(name)
        PROVE  Others'
    <3>1. UNCHANGED <<models, listed, thread, section, pose, centre, devType>> /\ Mod!Activated(name, models)
      BY <2>5 DEF Mod!Select, Mod!tracking
    <3> QED
      BY <2>1, <2>4, <3>1 DEF ModTypes
  <2>6. ASSUME NEW v \in 1 .. 2, Mod!Tweak(v)
        PROVE  Others'
    BY <2>6 DEF Mod!Tweak, Mod!tracking, Mod!window, Mod!guardian
  <2>7. ASSUME NEW t \in {"Clip", "Face"}, Mod!Create(t)
        PROVE  Others'
    <3>1. UNCHANGED <<thread, section, pose, centre, devType>> /\ Mod!ModelCreated(models')
      BY <2>7 DEF Mod!Create, Mod!tracking
    <3>2. /\ DOMAIN models' = DOMAIN models \cup {NewModel}
          /\ \A n \in DOMAIN models' : models'[n] \in Mod!Model
      BY <2>1, <2>7 DEF Mod!Create, Mod!Dumped, Mod!Model, Mod!Types, Mod!ThreePoints, ModTypes
    <3>3. NewModel \in Mod!Names
      BY DEF Mod!Names
    <3>4. listed' = DOMAIN models'
      BY <3>1 DEF Mod!ModelCreated
    <3>5. CASE current \in DOMAIN models'
      BY <3>1, <3>2, <3>3, <3>4, <3>5 DEF Mod!ModelCreated
    <3>6. CASE current \notin DOMAIN models'
      <4>1. Mod!Activated(NewModel, models')
        BY <3>1, <3>6 DEF Mod!ModelCreated
      <4>2. current' \in Mod!Names /\ active' \in DOMAIN models' /\ Tunes' /\ Guards'
        BY <2>4, <3>1, <3>2, <3>3, <4>1
      <4> QED
        BY <3>1, <3>2, <3>3, <3>4, <4>2
    <3> QED
      BY <3>5, <3>6
  <2>8. ASSUME Mod!Discard
        PROVE  Others'
    BY <2>1, <2>8 DEF Mod!Discard, Mod!tracking, Mod!window, Mod!guardian, ModTypes, Mod!Names
  <2>9. ASSUME NEW d \in Mod!Devices, Mod!DeviceChosen(d)
        PROVE  Others'
    BY <2>9 DEF Mod!DeviceChosen, Mod!Unfit, Mod!tracking, Mod!window, Mod!prefs
  <2>10. ASSUME Mod!Announce \/ UNCHANGED Mod!modelVars
         PROVE  Others'
    BY <2>10 DEF Mod!Announce, Mod!modelVars, Mod!tracking, Mod!window, Mod!prefs, Mod!guardian
  <2>11. ASSUME \/ Mod!Start \/ Mod!ReadFlag \/ Mod!ClearFlag \/ Mod!UpdatePose \/ Mod!UpdatePoints
                \/ Mod!Stop
         PROVE  Others'
    <3>1. /\ UNCHANGED <<models, active, current, listed, tweaker, mdlType, devType, warned, section, pose>>
          /\ thread' # "keys" /\ centre' \in {centre, pose}
      BY <2>11
         DEF Mod!Start, Mod!ReadFlag, Mod!ClearFlag, Mod!UpdatePose, Mod!UpdatePoints, Mod!Stop,
             Mod!EndFrame, Mod!Checked, Mod!gui, Mod!prefs, Mod!window, Mod!guardian
    <3> QED
      BY <3>1
  <2>12. ASSUME Mod!ReadSection
         PROVE  Others'
    BY <2>12 DEF Mod!ReadSection, Mod!gui, Mod!prefs, Mod!window, Mod!guardian
  <2>13. ASSUME Mod!ReadKeys
         PROVE  Others'
    <3>1. /\ UNCHANGED <<models, active, current, listed, tweaker, mdlType, devType, warned, section>>
          /\ thread = "keys" /\ thread' # "keys" /\ pose' = models[section] /\ centre' \in {centre, pose'}
      BY <2>13
         DEF Mod!ReadKeys, Mod!PoseInit, Mod!EndFrame, Mod!Checked, Mod!gui, Mod!prefs, Mod!window,
             Mod!guardian
    <3> QED
      BY <2>1, <3>1 DEF ModTypes
  <2> QED
    BY <2>3, <2>5, <2>6, <2>7, <2>8, <2>9, <2>10, <2>11, <2>12, <2>13 DEF Mod!ModelNext
<1>3. ModInv /\ Rest => Mod!TypeOK
  <2> SUFFICES ASSUME ModInv, Rest
               PROVE  Mod!TypeOK
    OBVIOUS
  <2>1. ModTypes
    BY DEF ModInv
  <2>2. models \in [DOMAIN models -> Mod!Model]
    BY <2>1 DEF ModTypes
  <2>3. models \in UNION {[S -> Mod!Model] : S \in SUBSET Mod!Names}
    BY <2>2
  <2>4. active \in Mod!Names /\ kept \in DOMAIN KeptModels
    BY <2>1 DEF ModTypes
  <2> QED
    BY <2>1, <2>3, <2>4, Zenon DEF ModTypes, Mod!TypeOK
<1> QED
  <2> HIDE DEF Rest
  <2> QED
    BY <1>1, <1>2, <1>3, ModInvariance, PTL DEF Mod!ModelSpec

\* A change of a hot key keeps the combinations, and adds one filter at most.
HashTypes ==
  /\ DOMAIN shortcutHash \subseteq Hot!Pairs /\ \A q \in DOMAIN shortcutHash : shortcutHash[q] \in Hot!Ids
  /\ grabbed \subseteq Hot!Pairs \X Hot!Range(Hot!Locks) /\ stale \subseteq Hot!Pairs
  /\ handler \in {"Qt", "mine"}

\* A hot key that is set or taken back adds one filter at most.
LEMMA HashTypesKept ==
  ASSUME HashTypes, Kept, InForce, NEW id \in Hot!Ids, NEW p \in Hot!Pairs \cup {Hot!None},
         IF p = Hot!None THEN Hot!UnsetShortcut(id) ELSE Hot!SetShortCut(id, p)
  PROVE  HashTypes' /\ filters' <= filters + 1
<1>1. Hot!Old(id) \subseteq Hot!Pairs
  BY DEF HashTypes, Hot!Old
<1>2. CASE p = Hot!None
  <2>1. shortcutHash' = Hot!Without(id) /\ grabbed' \subseteq grabbed /\ UNCHANGED <<handler, stale>>
    BY <1>2 DEF Hot!UnsetShortcut
  <2>2. filters' \in {filters, filters - 1}
    BY <1>2 DEF Hot!UnsetShortcut
  <2>3. /\ DOMAIN shortcutHash' \subseteq DOMAIN shortcutHash
        /\ \A q \in DOMAIN shortcutHash' : shortcutHash'[q] = shortcutHash[q]
    BY <2>1, WithoutId
  <2>4. HashTypes'
    BY <2>1, <2>3 DEF HashTypes
  <2> QED
    BY <2>2, <2>4 DEF InForce
<1>3. CASE p # Hot!None
  <2>1. Hot!SetShortCut(id, p) /\ p \in Hot!Pairs
    BY <1>3
  <2>2. Rekeyed(id, IF Hot!Works(id, p) THEN {p} ELSE {})
    BY <2>1, SetRekeys
  <2>3. DOMAIN shortcutHash' \subseteq Hot!Pairs /\ \A q \in DOMAIN shortcutHash' : shortcutHash'[q] \in Hot!Ids
    BY <2>1, <2>2 DEF Rekeyed, HashTypes
  <2>4. Hot!Variants(p) \subseteq Hot!Pairs \X Hot!Range(Hot!Locks)
    BY <2>1 DEF Hot!Variants, Hot!Range
  <2>5. grabbed' \subseteq grabbed \cup Hot!Variants(p)
    <3>1. CASE Hot!Usable(id, p)
      BY <2>1, <3>1, Grabbing DEF Hot!SetShortCut
    <3>2. CASE ~Hot!Usable(id, p)
      BY <2>1, <3>2 DEF Hot!SetShortCut
    <3> QED
      BY <3>1, <3>2
  <2>6. handler' \in {handler, "mine"}
    BY <2>1 DEF Hot!SetShortCut, Hot!GrabKeyX
  <2>7. stale' \subseteq stale \cup Hot!Old(id) /\ filters' \in {filters, filters + 1}
    BY <2>1 DEF Hot!SetShortCut
  <2> QED
    BY <1>1, <2>3, <2>4, <2>5, <2>6, <2>7 DEF HashTypes, InForce
<1> QED
  BY <1>2, <1>3

\* The virtual mouse has three buttons.
PressedTypes ==
  /\ prev_btns \subseteq {1, 2, 4} /\ device \subseteq {1, 2, 4}
  /\ clicker \in Keyboard \cup {"nobody", "SmartNav"}

\* A click is of the three buttons.
LEMMA ClickTypes ==
  ASSUME PressedTypes, NEW btns \in SUBSET {1, 2, 4}, NEW who \in Keyboard \cup {"SmartNav"}, Hot!Click(btns, who)
  PROVE  PressedTypes'
BY DEF PressedTypes, Hot!Click

\* So is what a hot key does.
LEMMA ActivateTypes ==
  ASSUME PressedTypes, NEW id, NEW pressed, NEW k \in Keyboard, Hot!Activate(id, pressed, k)
  PROVE  PressedTypes'
<1>1. Hot!Button(id) \in SUBSET {1, 2, 4}
  BY DEF Hot!Button
<1>2. CASE Hot!Button(id) = {}
  BY <1>2 DEF Hot!Activate, Hot!buttons, PressedTypes
<1>3. CASE Hot!Button(id) # {}
  <2>1. Hot!Click(IF pressed THEN Hot!Button(id) ELSE {}, k)
    BY <1>3 DEF Hot!Activate
  <2> QED
    BY <1>1, <2>1, ClickTypes
<1> QED
  BY <1>2, <1>3

\* The variables of Shortcuts have their types.  A filter is installed for a button that is
\* made, or for a hot key that was asked for.
ShownTypes ==
  /\ \A id \in DOMAIN hotKey : id \in Hot!Ids /\ hotKey[id] \in Hot!Pairs \cup {Hot!None}
  /\ settings \in [Hot!Ids -> Hot!Pairs \cup {Hot!None}]
  /\ dialog \in [id : Hot!Ids \cup {"closed"}, typed : Hot!Pairs \cup {Hot!None}]
  /\ failed \subseteq Hot!Ids

\* A key is down, or none is.
KeysTypes ==
  /\ DOMAIN down \subseteq Keyboard /\ ctrl \in BOOLEAN /\ active \in Keyboard \cup {"none"}
  /\ mouse \in {"none", "ready", "exit"} /\ excused \in BOOLEAN

\* A filter is of a hot key that was made or asked for.
HotCounts ==
  /\ filters <= added + assigns /\ (dialog # Hot!Closed => filters < added + assigns)
  /\ assigns \in 0 .. MaxAssigns /\ strokes \in 0 .. MaxTyped

\* The types of what HotInv leaves out.
HotRest ==
  /\ HashTypes /\ PressedTypes /\ ShownTypes /\ KeysTypes /\ HotCounts
  /\ others \subseteq Hot!Pairs \X Hot!Range(Hot!Locks)

\* A new hot key keeps the types.
LEMMA AddTypes ==
  ASSUME Hot!ShortcutsAssumption, HotInv, HotRest, Hot!AddHotKey
  PROVE  HotRest'
<1>. PICK id, p : id = HotKeys[added + 1] /\ p = settings[id]
  OBVIOUS
<1>1. /\ added < Len(HotKeys) /\ added' = added + 1
      /\ IF p = Hot!None THEN Hot!UnsetShortcut(id) ELSE Hot!SetShortCut(id, p)
      /\ hotKey' = hotKey \/ hotKey' = Hot!Put(hotKey, id, p)
      /\ UNCHANGED <<others, settings, dialog, down, ctrl, active, mouse, prev_btns, device, clicker,
                     excused, failed, assigns, strokes>>
  BY DEF Hot!AddHotKey, Hot!buttons
<1>2. /\ added \in Nat /\ Len(HotKeys) \in Nat /\ DOMAIN HotKeys = 1 .. Len(HotKeys)
      /\ filters \in Nat /\ filters' \in Nat
  <2>1. InForce'
    BY <1>1, AddKeeps DEF HotInv
  <2> QED
    BY <2>1 DEF Hot!ShortcutsAssumption, HotInv, Made, InForce
<1>3. id \in Hot!Ids /\ p \in Hot!Pairs \cup {Hot!None}
  <2>1. id \in Hot!Ids
    BY <1>1, <1>2 DEF Hot!Ids
  <2> QED
    BY <2>1 DEF HotRest, ShownTypes
<1>4. HashTypes' /\ filters' <= filters + 1
  BY <1>1, <1>3, HashTypesKept DEF HotRest, HotInv
<1>5. PressedTypes' /\ KeysTypes' /\ others' \subseteq Hot!Pairs \X Hot!Range(Hot!Locks)
  BY <1>1 DEF HotRest, PressedTypes, KeysTypes
<1>6. ShownTypes'
  <2>1. \A j \in DOMAIN hotKey' : j \in Hot!Ids /\ hotKey'[j] \in Hot!Pairs \cup {Hot!None}
    BY <1>1, <1>3 DEF HotRest, ShownTypes, Hot!Put
  <2> QED
    BY <1>1, <2>1 DEF HotRest, ShownTypes
<1>7. HotCounts'
  <2>1. /\ MaxAssigns \in Nat /\ assigns \in 0 .. MaxAssigns /\ strokes \in 0 .. MaxTyped
        /\ filters <= added + assigns /\ (dialog # Hot!Closed => filters < added + assigns)
    BY DEF Hot!ShortcutsAssumption, HotRest, HotCounts
  <2>2. Hot!Closed' = Hot!Closed
    BY DEF Hot!Closed, Hot!None
  <2>3. added' = added + 1 /\ assigns' = assigns /\ strokes' = strokes /\ filters' <= filters + 1
    BY <1>1, <1>4
  <2>4. assigns \in Nat
    BY <2>1
  <2>5. filters' <= added' + assigns'
    BY <1>2, <2>1, <2>3, <2>4
  <2>6. ASSUME dialog' # Hot!Closed'
        PROVE  filters' < added' + assigns'
    <3>1. filters < added + assigns
      BY <1>1, <2>1, <2>2, <2>6
    <3> QED
      BY <1>2, <2>3, <2>4, <3>1
  <2> QED
    BY <2>1, <2>3, <2>5, <2>6 DEF HotCounts
<1> QED
  BY <1>4, <1>5, <1>6, <1>7 DEF HotRest

\* So does one that the dialog sets.
LEMMA AcceptTypes ==
  ASSUME Hot!ShortcutsAssumption, HotInv, HotRest, Hot!Accept
  PROVE  HotRest'
<1>. PICK id, p : id = dialog.id /\ p = dialog.typed
  OBVIOUS
<1>1. /\ dialog # Hot!Closed /\ dialog' = Hot!Closed
      /\ IF p = Hot!None THEN Hot!UnsetShortcut(id) ELSE Hot!SetShortCut(id, p)
      /\ hotKey' = hotKey \/ hotKey' = [hotKey EXCEPT ![id] = p]
      /\ settings' = settings \/ settings' = [settings EXCEPT ![id] = p]
      /\ failed' \subseteq failed \cup {id}
      /\ UNCHANGED <<others, down, ctrl, active, mouse, added, prev_btns, device, clicker, excused,
                     assigns, strokes>>
  BY DEF Hot!Accept, Hot!buttons
<1>2. added \in Nat /\ filters \in Nat /\ filters' \in Nat
  <2>1. InForce'
    BY <1>1, AcceptKeeps DEF HotInv
  <2> QED
    BY <2>1 DEF HotInv, Made, InForce
<1>3. id \in Hot!Ids /\ p \in Hot!Pairs \cup {Hot!None}
  BY <1>1 DEF HotInv, Made, HotRest, ShownTypes
<1>4. HashTypes' /\ filters' <= filters + 1
  BY <1>1, <1>3, HashTypesKept DEF HotRest, HotInv
<1>5. PressedTypes' /\ KeysTypes' /\ others' \subseteq Hot!Pairs \X Hot!Range(Hot!Locks)
  BY <1>1 DEF HotRest, PressedTypes, KeysTypes
<1>6. ShownTypes'
  <2>1. \A j \in DOMAIN hotKey' : j \in Hot!Ids /\ hotKey'[j] \in Hot!Pairs \cup {Hot!None}
    BY <1>1, <1>3 DEF HotRest, ShownTypes
  <2>2. settings' \in [Hot!Ids -> Hot!Pairs \cup {Hot!None}]
    BY <1>1, <1>3 DEF HotRest, ShownTypes
  <2>3. dialog' \in [id : Hot!Ids \cup {"closed"}, typed : Hot!Pairs \cup {Hot!None}]
    BY <1>1 DEF Hot!Closed
  <2> QED
    BY <1>1, <1>3, <2>1, <2>2, <2>3 DEF HotRest, ShownTypes
<1>7. HotCounts'
  <2>1. /\ MaxAssigns \in Nat /\ assigns \in 0 .. MaxAssigns /\ strokes \in 0 .. MaxTyped
        /\ filters < added + assigns
    BY <1>1 DEF Hot!ShortcutsAssumption, HotRest, HotCounts
  <2>2. dialog' = Hot!Closed'
    BY <1>1 DEF Hot!Closed, Hot!None
  <2>3. added' = added /\ assigns' = assigns /\ strokes' = strokes /\ filters' <= filters + 1
    BY <1>1, <1>4
  <2>4. assigns \in Nat
    BY <2>1
  <2>5. filters' <= added' + assigns'
    BY <1>2, <2>1, <2>3, <2>4
  <2> QED
    BY <2>1, <2>2, <2>3, <2>5 DEF HotCounts
<1> QED
  BY <1>4, <1>5, <1>6, <1>7 DEF HotRest

\* A key goes down or up.
LEMMA KeyTypes ==
  ASSUME Hot!ShortcutsAssumption, HotInv, HotRest, NEW k \in Keyboard, Hot!Press(k) \/ Hot!Release(k)
  PROVE  HotRest'
<1>1. /\ UNCHANGED <<shortcutHash, grabbed, filters, handler, stale, failed, others, hotKey, settings,
                     ctrl, mouse, added, assigns>>
      /\ strokes' = strokes \/ (strokes < MaxTyped /\ strokes' = strokes + 1)
      /\ active' \in {active, k, "none"} /\ DOMAIN down' \subseteq DOMAIN down \cup {k}
  BY DEF Hot!Press, Hot!Release, Hot!xServer, Hot!Put, Hot!Restrict
<1>2. excused' \in BOOLEAN
  BY Zenon DEF Hot!Press, Hot!Release, HotRest, KeysTypes
<1>3. UNCHANGED <<prev_btns, device, clicker>> \/ \E id, pressed : Hot!Activate(id, pressed, k)
  BY DEF Hot!Press, Hot!Release, Hot!buttons
<1>4. PressedTypes'
  BY <1>3, ActivateTypes DEF HotRest, PressedTypes
<1>5. dialog' = dialog \/ (dialog # Hot!Closed /\ dialog' = [dialog EXCEPT !.typed = <<k, ctrl>>])
  BY DEF Hot!Press, Hot!Release, Hot!Typed
<1>6. <<k, ctrl>> \in Hot!Pairs
  BY DEF Hot!Pairs, HotRest, KeysTypes
<1>7. dialog' \in [id : Hot!Ids \cup {"closed"}, typed : Hot!Pairs \cup {Hot!None}]
  BY <1>5, <1>6 DEF HotRest, ShownTypes
<1>8. dialog' # Hot!Closed' => dialog # Hot!Closed
  BY <1>5 DEF Hot!Closed, Hot!None
<1>9. HashTypes' /\ ShownTypes' /\ KeysTypes' /\ others' \subseteq Hot!Pairs \X Hot!Range(Hot!Locks)
  BY <1>1, <1>2, <1>7 DEF HotRest, HashTypes, ShownTypes, KeysTypes
<1>10. HotCounts'
  BY <1>1, <1>8 DEF HotRest, HotCounts, Hot!Closed, Hot!None, HotInv, InForce, Made, Hot!ShortcutsAssumption
<1> QED
  BY <1>4, <1>9, <1>10 DEF HotRest

\* Whatever else happens.
LEMMA OtherTypes ==
  ASSUME Hot!ShortcutsAssumption, HotInv, HotRest,
         \/ Hot!Starts \/ Hot!Cancel \/ Hot!Ctrl \/ UNCHANGED Hot!shortcutVars
         \/ \E id \in Hot!Ids : Hot!Ask(id)
         \/ \E up \in SUBSET {1, 2} : Hot!SmartNavClicks(up)
         \/ \E p \in Hot!Pairs, i \in DOMAIN Hot!Locks : Hot!OtherGrabs(p, Hot!Locks[i])
  PROVE  HotRest'
<1> USE DEF Hot!xServer, Hot!buttons, Hot!shortcutVars
<1>1. /\ UNCHANGED <<shortcutHash, grabbed, filters, handler, stale, failed, hotKey, settings, down, active,
                     added>>
      /\ strokes' = strokes \/ (strokes < MaxTyped /\ strokes' = strokes + 1)
      /\ ctrl' \in {ctrl, ~ctrl} /\ mouse' \in {mouse, "ready", "exit"} /\ excused' \in {excused, FALSE}
  BY DEF Hot!Starts, Hot!Cancel, Hot!Ctrl, Hot!Ask, Hot!SmartNavClicks, Hot!OtherGrabs
<1>2. others' \subseteq Hot!Pairs \X Hot!Range(Hot!Locks)
  <2>1. \/ UNCHANGED others
        \/ \E p \in Hot!Pairs, i \in DOMAIN Hot!Locks : others' = others \cup {<<p, Hot!Locks[i]>>}
    BY DEF Hot!Starts, Hot!Cancel, Hot!Ctrl, Hot!Ask, Hot!SmartNavClicks, Hot!OtherGrabs
  <2> QED
    BY <2>1 DEF HotRest, Hot!Range
<1>3. PressedTypes'
  <2>1. UNCHANGED <<prev_btns, device, clicker>> \/ \E btns \in SUBSET {1, 2, 4} : Hot!Click(btns, "SmartNav")
    BY DEF Hot!Starts, Hot!Cancel, Hot!Ctrl, Hot!Ask, Hot!SmartNavClicks, Hot!OtherGrabs
  <2> QED
    BY <2>1, ClickTypes DEF HotRest, PressedTypes
<1>4. \/ UNCHANGED <<dialog, assigns>>
      \/ dialog' = Hot!Closed /\ UNCHANGED assigns
      \/ /\ dialog = Hot!Closed /\ assigns < MaxAssigns /\ assigns' = assigns + 1
         /\ \E id \in Hot!Ids : dialog' = [id |-> id, typed |-> Hot!None]
  BY DEF Hot!Starts, Hot!Cancel, Hot!Ctrl, Hot!Ask, Hot!SmartNavClicks, Hot!OtherGrabs
<1>5. dialog' \in [id : Hot!Ids \cup {"closed"}, typed : Hot!Pairs \cup {Hot!None}]
  BY <1>4 DEF HotRest, ShownTypes, Hot!Closed
<1>6. HashTypes' /\ ShownTypes' /\ KeysTypes'
  BY <1>1, <1>5 DEF HotRest, HashTypes, ShownTypes, KeysTypes
<1>7. filters \in Nat /\ added \in Nat
  BY DEF HotInv, InForce, Made
<1>8. HotCounts'
  BY <1>1, <1>4, <1>7 DEF HotRest, HotCounts, Hot!Closed, Hot!None, Hot!ShortcutsAssumption
<1> QED
  BY <1>2, <1>3, <1>6, <1>8 DEF HotRest

\* Each variable of the hot keys of mickey keeps to its type (mickey/hotkey.cpp,
\* keyb_x11.cpp).
THEOREM HotTypesHold == ASSUME Hot!ShortcutsAssumption PROVE Hot!ShortcutsSpec => []Hot!TypeOK
<1>1. Hot!Init => HotRest
  <2> SUFFICES ASSUME Hot!Init
               PROVE  HotRest
    OBVIOUS
  <2>1. DOMAIN shortcutHash = {} /\ DOMAIN hotKey = {} /\ DOMAIN down = {}
    BY DEF Hot!Init
  <2>2. settings \in [Hot!Ids -> Hot!Pairs \cup {Hot!None}]
    BY DEF Hot!Init, Hot!ShortcutsAssumption
  <2>3. dialog \in [id : Hot!Ids \cup {"closed"}, typed : Hot!Pairs \cup {Hot!None}]
    BY DEF Hot!Init, Hot!Closed
  <2>4. HotCounts
    BY DEF Hot!Init, HotCounts, Hot!ShortcutsAssumption
  <2> QED
    BY <2>1, <2>2, <2>3, <2>4 DEF Hot!Init, HotRest, HashTypes, PressedTypes, ShownTypes, KeysTypes
<1>2. HotInv /\ HotRest /\ [Hot!ShortcutsNext]_(Hot!shortcutVars) => HotRest'
  BY AddTypes, AcceptTypes, KeyTypes, OtherTypes DEF Hot!ShortcutsNext
<1>3. HotInv /\ HotRest => Hot!TypeOK
  <2> SUFFICES ASSUME HotInv, HotRest
               PROVE  Hot!TypeOK
    OBVIOUS
  <2>1. filters \in Nat /\ added \in 0 .. Len(HotKeys) /\ Len(HotKeys) \in Nat /\ filters <= added + assigns
    BY DEF HotInv, InForce, Made, HotRest, HotCounts, Hot!ShortcutsAssumption
  <2>2. filters \in 0 .. Len(HotKeys) + MaxAssigns
    BY <2>1 DEF HotRest, HotCounts, Hot!ShortcutsAssumption
  <2>3. Hot!Range(shortcutHash) \subseteq Hot!Ids
    BY DEF HotRest, HashTypes, Hot!Range
  <2>4. DOMAIN hotKey \subseteq Hot!Ids /\ Hot!Range(hotKey) \subseteq Hot!Pairs \cup {Hot!None}
    BY DEF HotRest, ShownTypes, Hot!Range
  <2> QED
    BY <2>1, <2>2, <2>3, <2>4, Zenon
       DEF HotRest, HashTypes, PressedTypes, ShownTypes, KeysTypes, HotCounts, Hot!TypeOK
<1> QED
  BY <1>1, <1>2, <1>3, HotInvariance, PTL DEF Hot!ShortcutsSpec

\* The types of what MacInv leaves out.  A timer of the link, a timer of the window, and a link
\* that is being made each stand for a press of the button.
MacCounts ==
  /\ timers \in Nat /\ polls \in Nat /\ pushes \in Nat /\ (held => polls > 0)
  /\ timers + polls <= pushes /\ (state = "CONNECTING" => timers + polls < pushes)

\* All of them.
MacRest ==
  /\ MacCounts
  /\ inquiry \in {"IDLE", "REQUEST_DISCOVERY", "DISCOVERING"}
  /\ device \in BOOLEAN /\ opened \in BOOLEAN /\ indicate \in BOOLEAN
  /\ command \in Mac!Orders /\ old_cmd \in Mac!Orders
  /\ pushes <= MaxPushes /\ commands \in 0 .. MaxCommands /\ losses \in 0 .. MaxLosses

\* What becomes of the timers when the link is opened or closed.
Counted ==
  /\ opened' \in {opened, TRUE, FALSE}
  /\ UNCHANGED Mac!window \/ Mac!WiiDisconnected
  /\ \/ timers' = timers /\ (state' = "CONNECTING" => state = "CONNECTING")
     \/ /\ timers' = timers + 1 /\ state = "CONNECTING" /\ state' = "CONNECTED"
        /\ UNCHANGED Mac!window

\* To ask for the end of the link starts no timer.
LEMMA RequestCounted ==
  ASSUME MacTypes, NEW ch, Mac!DisconnectRequest(ch)
  PROVE  Counted
BY DEF Mac!DisconnectRequest, Mac!Close, Counted, Mac!window, MacTypes

\* A link that is made starts one, and ends the state of connecting.
LEMMA ConnectCounted ==
  ASSUME MacTypes, NEW ch, NEW connected, NEW dev, Mac!Connect(ch, connected, dev)
  PROVE  Counted
<1>1. CASE Mac!DisconnectRequest(ch)
  BY <1>1, RequestCounted
<1>2. CASE UNCHANGED <<state, timers, Mac!window>> /\ opened' \in {opened, TRUE}
  BY <1>2 DEF Counted
<1>3. CASE /\ timers' = timers + 1 /\ state = "CONNECTING" /\ state' = "CONNECTED"
           /\ opened' = TRUE /\ UNCHANGED Mac!window
  BY <1>3 DEF Counted
<1> QED
  BY <1>1, <1>2, <1>3 DEF Mac!Connect

\* The timers keep their bound.
LEMMA CountedTypes ==
  ASSUME MacCounts, opened \in BOOLEAN, indicate \in BOOLEAN, old_cmd \in Mac!Orders, Counted,
         pushes' \in {pushes, pushes + 1}
  PROVE  MacCounts' /\ opened' \in BOOLEAN /\ indicate' \in BOOLEAN /\ old_cmd' \in Mac!Orders
<1>1. /\ timers \in Nat /\ polls \in Nat /\ pushes \in Nat /\ (held => polls > 0)
      /\ timers + polls <= pushes /\ (state = "CONNECTING" => timers + polls < pushes)
  BY DEF MacCounts
<1>2. \/ UNCHANGED <<polls, held, indicate, old_cmd>>
      \/ /\ held' = FALSE /\ polls' = (IF held THEN polls - 1 ELSE polls)
         /\ indicate' = FALSE /\ old_cmd' = "STOP"
  BY DEF Counted, Mac!window, Mac!WiiDisconnected, Mac!Invalidate
<1>3. PICK q \in Nat : pushes' = q /\ pushes <= q
  BY <1>1
<1>4. opened' \in BOOLEAN
  BY DEF Counted
<1>5. indicate' \in BOOLEAN /\ old_cmd' \in Mac!Orders
  BY <1>2 DEF Mac!Orders
<1>6. CASE timers' = timers /\ (state' = "CONNECTING" => state = "CONNECTING")
  <2>1. CASE UNCHANGED <<polls, held>>
    BY <1>1, <1>4, <1>5, <1>6, <1>3, <2>1 DEF MacCounts
  <2>2. CASE held' = FALSE /\ polls' = (IF held THEN polls - 1 ELSE polls)
    <3>1. PICK p \in Nat : polls' = p /\ p <= polls
      BY <1>1, <2>2
    <3>2. PICK t \in Nat : timers' = t /\ t = timers
      BY <1>1, <1>6
    <3>3. t + p <= q /\ (state' = "CONNECTING" => t + p < q)
      BY <1>1, <1>6, <1>3, <3>1, <3>2
    <3> QED
      BY <1>4, <1>5, <1>3, <2>2, <3>1, <3>2, <3>3 DEF MacCounts
  <2> QED
    BY <1>2, <1>4, <1>5, <2>1, <2>2
<1>7. CASE /\ timers' = timers + 1 /\ state = "CONNECTING" /\ state' = "CONNECTED"
           /\ UNCHANGED Mac!window
  <2>1. UNCHANGED <<polls, held>>
    BY <1>7 DEF Mac!window
  <2> QED
    BY <1>1, <1>4, <1>5, <1>7, <1>3, <2>1 DEF MacCounts
<1> QED
  BY <1>6, <1>7 DEF Counted

\* The button of the window keeps the types.
LEMMA PressedTypesKept ==
  ASSUME Mac!MacAssumption, MacInv, MacRest, Mac!ConnectPressed
  PROVE  MacRest'
<1>1. /\ pushes' = pushes + 1 /\ pushes < MaxPushes /\ pushes \in Nat /\ MaxPushes \in Nat
      /\ UNCHANGED <<device, command, commands, losses>>
      /\ inquiry' \in {inquiry, "IDLE", "REQUEST_DISCOVERY"}
  BY DEF Mac!ConnectPressed, Mac!DiscoveryStarts, Mac!MacAssumption, MacRest, MacCounts
<1>2. SUFFICES MacCounts' /\ opened' \in BOOLEAN /\ indicate' \in BOOLEAN /\ old_cmd' \in Mac!Orders
  <2>1. pushes' <= MaxPushes
    BY <1>1
  <2> QED
    BY <1>1, <2>1 DEF MacRest
<1>3. CASE /\ state' \in {state, "CONNECTING"}
           /\ UNCHANGED <<opened, timers, polls, held, indicate, old_cmd>>
  BY <1>1, <1>3 DEF MacRest, MacCounts
<1>4. CASE Mac!DisconnectRequest(channel)
  BY <1>1, <1>4, RequestCounted, CountedTypes DEF MacRest, MacInv
<1>5. CASE /\ Mac!Invalidate /\ UNCHANGED <<indicate, old_cmd, timers>>
           /\ opened' \in {opened, FALSE} /\ (state' = "CONNECTING" => state = "CONNECTING")
  <2>1. PICK p \in Nat : polls' = p /\ p <= polls /\ held' = FALSE
    BY <1>5 DEF Mac!Invalidate, MacRest, MacCounts
  <2>2. /\ timers \in Nat /\ polls \in Nat /\ timers + polls <= pushes
        /\ (state = "CONNECTING" => timers + polls < pushes)
    BY DEF MacRest, MacCounts
  <2>3. timers + p <= pushes + 1 /\ (state' = "CONNECTING" => timers + p < pushes + 1)
    BY <1>1, <1>5, <2>1, <2>2
  <2>4. MacCounts'
    BY <1>1, <1>5, <2>1, <2>2, <2>3 DEF MacCounts
  <2> QED
    BY <1>5, <2>4 DEF MacRest
<1> QED
  BY <1>3, <1>4, <1>5 DEF Mac!ConnectPressed, Mac!Close, Mac!link

\* So do the inquiry and the channels.
LEMMA LinkTypesKept ==
  ASSUME Mac!MacAssumption, MacInv, MacRest,
         \/ Mac!DiscoveryStarted \/ Mac!DiscoveryComplete
         \/ \E c \in Mac!Channels : Mac!OpenComplete(c) \/ Mac!ChannelClosed(c)
  PROVE  MacRest'
<1>1. /\ UNCHANGED <<command, pushes, commands>> /\ inquiry' \in {inquiry, "DISCOVERING", "IDLE"}
      /\ device' \in {device, TRUE, FALSE}
      /\ losses' = losses \/ (losses < MaxLosses /\ losses' = losses + 1)
  BY DEF Mac!DiscoveryStarted, Mac!DiscoveryComplete, Mac!OpenComplete, Mac!ChannelClosed, Mac!bounds
<1>2. UNCHANGED <<state, opened, timers, Mac!window>> \/ Counted
  <2>1. \/ UNCHANGED <<state, opened, timers, Mac!window>>
        \/ \E ch, connected, dev : Mac!Connect(ch, connected, dev)
        \/ \E ch : Mac!DisconnectRequest(ch)
    BY DEF Mac!DiscoveryStarted, Mac!DiscoveryComplete, Mac!OpenComplete, Mac!ChannelClosed, Mac!link
  <2> QED
    BY <2>1, RequestCounted, ConnectCounted DEF MacInv
<1>3. Counted
  BY <1>2 DEF Counted
<1>4. MacCounts' /\ opened' \in BOOLEAN /\ indicate' \in BOOLEAN /\ old_cmd' \in Mac!Orders
  BY <1>1, <1>3, CountedTypes DEF MacRest
<1>5. losses' \in 0 .. MaxLosses
  BY <1>1 DEF MacRest, Mac!MacAssumption
<1> QED
  BY <1>1, <1>4, <1>5 DEF MacRest

\* So do the timers and the orders of the driver.
LEMMA TimersTypesKept ==
  ASSUME Mac!MacAssumption, MacInv, MacRest,
         \/ Mac!InitializeWii \/ Mac!TimerCallback \/ Mac!ReportsAgain
         \/ \E c \in Mac!Orders : Mac!Order(c)
         \/ UNCHANGED Mac!macVars
  PROVE  MacRest'
<1>1. CASE Mac!InitializeWii
  <2>1. /\ timers > 0 /\ timers' = timers - 1 /\ polls' = polls + 1 /\ held' = TRUE /\ indicate' = TRUE
        /\ UNCHANGED <<inquiry, state, device, opened, command, old_cmd, pushes, commands, losses>>
    BY <1>1 DEF Mac!InitializeWii, Mac!WiiConnected, Mac!bounds
  <2>2. MacCounts'
    <3>1. /\ timers \in Nat /\ polls \in Nat /\ pushes \in Nat /\ timers + polls <= pushes
          /\ (state = "CONNECTING" => timers + polls < pushes)
      BY DEF MacRest, MacCounts
    <3>2. PICK t \in Nat, p \in Nat : timers' = t /\ polls' = p /\ t + p = timers + polls /\ p > 0
      BY <2>1, <3>1
    <3> QED
      BY <2>1, <3>1, <3>2 DEF MacCounts
  <2> QED
    BY <2>1, <2>2 DEF MacRest
<1>2. CASE \/ Mac!TimerCallback \/ Mac!ReportsAgain \/ UNCHANGED Mac!macVars
           \/ \E c \in Mac!Orders : Mac!Order(c)
  <2>1. /\ UNCHANGED <<inquiry, state, device, opened, timers, polls, held, pushes, losses>>
        /\ indicate' \in {indicate, TRUE, FALSE} /\ old_cmd' \in {old_cmd, command}
        /\ commands' = commands \/ (commands < MaxCommands /\ commands' = commands + 1)
        /\ command' = command \/ command' \in Mac!Orders
    BY <1>2 DEF Mac!TimerCallback, Mac!ReportsAgain, Mac!Order, Mac!macVars, Mac!window, Mac!link,
                Mac!history, Mac!bounds
  <2>2. MacCounts'
    BY <2>1 DEF MacRest, MacCounts
  <2>3. commands' \in 0 .. MaxCommands
    BY <2>1 DEF MacRest, Mac!MacAssumption
  <2>4. indicate' \in BOOLEAN /\ old_cmd' \in Mac!Orders /\ command' \in Mac!Orders
    BY <2>1 DEF MacRest
  <2> QED
    BY <2>1, <2>2, <2>3, <2>4 DEF MacRest
<1> QED
  BY <1>1, <1>2

\* Each variable of the Wiimote server of macOS keeps to its type
\* (mac/wiimote_server.m).
THEOREM MacTypesHold == ASSUME Mac!MacAssumption PROVE Mac!MacSpec => []Mac!TypeOK
<1>1. Mac!Init => MacRest
  <2> SUFFICES ASSUME Mac!Init
               PROVE  MacRest
    OBVIOUS
  <2>1. MacCounts
    BY DEF Mac!Init, Mac!LinkInit, MacCounts
  <2>2. pushes <= MaxPushes /\ commands \in 0 .. MaxCommands /\ losses \in 0 .. MaxLosses
    BY DEF Mac!Init, Mac!MacAssumption
  <2> QED
    BY <2>1, <2>2 DEF Mac!Init, Mac!LinkInit, MacRest, Mac!Orders
<1>2. MacInv /\ MacRest /\ [Mac!MacNext]_(Mac!macVars) => MacRest'
  BY PressedTypesKept, LinkTypesKept, TimersTypesKept DEF Mac!MacNext
<1>3. MacInv /\ MacRest => Mac!TypeOK
  <2> SUFFICES ASSUME MacInv, MacRest
               PROVE  Mac!TypeOK
    OBVIOUS
  <2>1. timers \in 0 .. MaxPushes /\ polls \in 0 .. MaxPushes /\ pushes \in 0 .. MaxPushes
    BY DEF MacRest, MacCounts, Mac!MacAssumption
  <2> QED
    BY <2>1, Zenon DEF MacInv, MacTypes, MacRest, Links, Mac!TypeOK
<1> QED
  BY <1>1, <1>2, <1>3, MacInvariance, PTL DEF Mac!MacSpec

\* The variables of WiiLights have their types: an indication is one byte, and what the server
\* lights are LEDs.
THEOREM LedTypesHold == ASSUME Led!LightsAssumption PROVE Led!LightsSpec => []Led!TypeOK
<1> DEFINE Bytes == indication \in 0 .. 255 /\ seen \in -1 .. 255
           Lit == leds \subseteq Led!Leds
           Counts == ticks \in 0 .. MaxTicks /\ turns \in 0 .. MaxTurns
           Rest == Bytes /\ Lit /\ Counts
<1>0. 0 \in 0 .. MaxTicks /\ 0 \in 0 .. MaxTurns /\ 0 \in 0 .. 255 /\ -1 \in -1 .. 255
  BY DEF Led!LightsAssumption
<1>1. Led!Init => Rest
  BY <1>0, Zenon DEF Led!Init
<1>2. LedInv /\ Rest /\ LedInv' /\ [Led!LightsNext]_(Led!lightsVars) => Rest'
  <2> SUFFICES ASSUME LedInv, Rest, LedInv', [Led!LightsNext]_(Led!lightsVars)
               PROVE  Rest'
    OBVIOUS
  <2>1. \A l \in Led!Lights : Led!Indication(l) \in 0 .. 255
    <3> SUFFICES ASSUME NEW l \in Led!Lights
                 PROVE  Led!Indication(l) \in 0 .. 255
      OBVIOUS
    <3>1. l.run \in SUBSET Led!Leds /\ l.pause \in SUBSET Led!Leds
      BY DEF Led!Lights
    <3> QED
      BY <3>1, BitsTell DEF Led!Indication
  <2>2. \/ indication' = indication
        \/ indication' = Led!Indication(driver')
    BY Zenon
       DEF Led!LightsNext, Led!lightsVars, Led!Activate, Led!Leave, Led!IndicationChanged, Led!TrackerInit,
           Led!TrackerPause, Led!TrackerResume, Led!Give, Led!TrackerClose, Led!ReadIndication,
           Led!TakeCommand, Led!Tell
  <2>3. driver' \in Led!Lights
    BY DEF LedInv, LedTypes
  <2>4. seen' \in {seen, -1, indication}
    BY Zenon
       DEF Led!LightsNext, Led!lightsVars, Led!Activate, Led!Leave, Led!IndicationChanged, Led!TrackerInit,
           Led!TrackerPause, Led!TrackerResume, Led!Give, Led!TrackerClose, Led!ReadIndication,
           Led!TakeCommand, Led!server
  <2>5. Bytes'
    BY <2>1, <2>2, <2>3, <2>4
  <2>6. \A n \in 0 .. 15 : Led!Shown(n) \subseteq Led!Leds
    <3>1. \A n \in 0 .. 15 : \E on \in SUBSET Led!Leds : Led!Bits(on) = n
      <4> SUFFICES ASSUME NEW n \in 0 .. 15
                   PROVE  \E on \in SUBSET Led!Leds : Led!Bits(on) = n
        OBVIOUS
      <4> DEFINE on == {i \in Led!Leds : \/ i = 1 /\ n % 2 = 1
                                         \/ i = 2 /\ (n \div 2) % 2 = 1
                                         \/ i = 3 /\ (n \div 4) % 2 = 1
                                         \/ i = 4 /\ (n \div 8) % 2 = 1}
      <4>1. Led!Bits(on) = n
        BY DEF Led!Bits, Led!Leds
      <4>2. on \in SUBSET Led!Leds
        OBVIOUS
      <4> QED
        BY <4>1, <4>2
    <3> QED
      BY <3>1 DEF Led!Shown
  <2>7. \/ leds' = leds
        \/ Led!TakeCommand
    BY Zenon
       DEF Led!LightsNext, Led!lightsVars, Led!Activate, Led!Leave, Led!IndicationChanged, Led!TrackerInit,
           Led!TrackerPause, Led!TrackerResume, Led!Give, Led!TrackerClose, Led!ReadIndication,
           Led!server
  <2>8. ASSUME Led!TakeCommand
        PROVE  Lit'
    <3>1. \/ leds' = leds
          \/ leds' = Led!Shown(seen % 16)
          \/ leds' = Led!Shown((seen \div 16) % 16)
      BY <2>8 DEF Led!TakeCommand
    <3>2. seen % 16 \in 0 .. 15 /\ (seen \div 16) % 16 \in 0 .. 15
      OBVIOUS
    <3>3. Led!Shown(seen % 16) \subseteq Led!Leds /\ Led!Shown((seen \div 16) % 16) \subseteq Led!Leds
      BY <2>6, <3>2
    <3> QED
      BY <3>1, <3>3
  <2>9. Lit'
    BY <2>7, <2>8
  <2>10. /\ ticks' = ticks \/ (ticks < MaxTicks /\ ticks' = ticks + 1)
         /\ turns' = turns \/ (turns < MaxTurns /\ turns' = turns + 1)
    BY Zenon
       DEF Led!LightsNext, Led!lightsVars, Led!Activate, Led!Leave, Led!IndicationChanged, Led!TrackerInit,
           Led!TrackerPause, Led!TrackerResume, Led!Give, Led!TrackerClose, Led!ReadIndication,
           Led!TakeCommand, Led!Tell, Led!setup
  <2> QED
    BY <2>5, <2>9, <2>10 DEF Led!LightsAssumption
<1>3. LedInv /\ Rest => Led!TypeOK
  BY DEF LedInv, LedTypes, Led!TypeOK
<1> QED
  <2> HIDE DEF Rest
  <2> QED
    BY <1>1, <1>2, <1>3, LedInvariance, PTL DEF Led!LightsSpec
==============================================================================
