---------------------------- MODULE ModelSetup ----------------------------
(***************************************************************************)
(* The model, the reflectors the user wears: it is chosen, tuned and       *)
(* created in ltr_gui (qt_gui/ltr_model.cpp), which keeps it with the      *)
(* preferences and then sets a flag (pref_global.c) that the thread of the *)
(* device looks at in each frame (tracking.c), to set up the computation   *)
(* of the pose (pose.c) anew and to recenter.  The flag has no lock.  A    *)
(* guardian (qt_gui/guardian.cpp) warns of a model the device is not for.  *)
(*                                                                         *)
(* Of a model there is its type and one number, which a user may tune for  *)
(* models of three points.                                                 *)
(***************************************************************************)
EXTENDS Naturals

CONSTANTS
  KeptModels,  \* the models of the preference file: name |-> [type, dims]
  NewModel,    \* the name of the one the user creates
  MaxChanges   \* bound: what the user does with models

NoModel == ""
ThreePoints == {"Cap", "Clip"}
Types == ThreePoints \cup {"SinglePoint", "Face"}
Devices == {"webcam_ft", "tir"}

VARIABLES
  models,      \* the sections that have a type
  active,      \* Model of Global
  kept,        \* the active model in the file
  current,     \* currentSection
  listed,      \* in ModelSelector
  tweaker,     \* whose model is tuned in modelTweaker
  mdlType,     \* of the guardian
  devType,
  warned,      \* the last check of the guardian showed a warning
  announcing,  \* the window has yet to set model_changed
  model_changed,
  thread,      \* where the device thread is; off
  why,         \* whose call of check_pose it is
  flag,        \* model_changed, as it was read
  section,     \* model_section
  pose,        \* what the pose is computed with
  recenter, init_recenter,
  centre,      \* the model that was in use when the centre was taken
  behind,      \* history: changes were discarded, of which window and thread know nothing
  lost,        \* history: model_changed was set between being read and being cleared
  slipped,     \* history: a change was noticed by the second look of a frame only
  choices

modelVars == <<models, active, kept, current, listed, tweaker, mdlType, devType, warned,
               announcing, model_changed, thread, why, flag, section, pose, recenter,
               init_recenter, centre, behind, lost, slipped, choices>>
prefs == <<models, active, kept>>
window == <<current, listed, tweaker>>
guardian == <<mdlType, devType, warned>>
tracking == <<thread, why, flag, section, pose, recenter, init_recenter, centre, lost, slipped>>

Model == [type : Types, dims : 1 .. 2]
ModelAssumption ==
  /\ KeptModels \in [DOMAIN KeptModels -> Model] /\ NoModel \notin DOMAIN KeptModels
  /\ DOMAIN KeptModels # {} /\ NewModel \notin DOMAIN KeptModels \cup {NoModel} /\ MaxChanges \in Nat

Names == DOMAIN KeptModels \cup {NewModel}
TypeOK ==
  /\ models \in UNION {[S -> Model] : S \in SUBSET Names}
  /\ active \in Names /\ kept \in DOMAIN KeptModels /\ current \in Names /\ listed \subseteq Names
  /\ tweaker \in Names \cup {NoModel} /\ mdlType \in Types /\ devType \in Devices
  /\ warned \in BOOLEAN /\ announcing \in BOOLEAN /\ model_changed \in BOOLEAN
  /\ thread \in {"off", "frame", "check", "clear", "section", "keys", "points"}
  /\ why \in {"init", "change", "points"} /\ flag \in BOOLEAN
  /\ section \in Names \cup {NoModel} /\ pose \in Model /\ centre \in Model
  /\ recenter \in BOOLEAN /\ init_recenter \in BOOLEAN
  /\ behind \in BOOLEAN /\ lost \in BOOLEAN /\ slipped \in BOOLEAN
  /\ choices \in 0 .. MaxChanges

Tuned(name) == IF models[name].type \in ThreePoints THEN name ELSE NoModel

\* checkDeviceNModel
Unfit(device, type) == (device = "webcam_ft") # (type = "Face")

\* ltr_gui has shown the active model (refresh), and no tracking has been started.
Init ==
  /\ models = KeptModels /\ active \in DOMAIN KeptModels /\ kept = active
  /\ current = active /\ listed = DOMAIN KeptModels /\ tweaker = Tuned(active)
  /\ mdlType = models[active].type /\ devType \in Devices /\ warned = Unfit(devType, mdlType)
  /\ announcing = FALSE /\ model_changed = TRUE
  /\ thread = "off" /\ why = "init" /\ flag = FALSE /\ section = NoModel
  /\ pose = models[active] /\ centre = pose /\ recenter = FALSE /\ init_recenter = FALSE
  /\ behind = FALSE /\ lost = FALSE /\ slipped = FALSE /\ choices = 0

------------------------------------------------------------------------------
(* The window *)

Chooses == ~announcing /\ choices < MaxChanges /\ choices' = choices + 1

\* on_ModelSelector_activated, up to the flag; nothing more for a name that is no model
Activated(name, known) ==
  /\ current' = name
  /\ IF name \notin DOMAIN known THEN UNCHANGED <<active, tweaker, mdlType, warned, announcing>>
     ELSE /\ active' = name /\ announcing' = TRUE
          /\ tweaker' = IF known[name].type \in ThreePoints THEN name ELSE NoModel
          /\ mdlType' = known[name].type /\ warned' = Unfit(devType, mdlType')

Select(name) ==
  /\ Chooses /\ name \in listed /\ Activated(name, models)
  /\ UNCHANGED <<models, kept, listed, devType, model_changed, tracking, behind>>

\* CapTweaking, ClipTweaking.  The number is kept in the section whose editor is open.
Tweak(value) ==
  /\ Chooses /\ tweaker # NoModel /\ announcing' = TRUE
  /\ models' = [n \in DOMAIN models |->
                  IF n = tweaker THEN [models[n] EXCEPT !.dims = value] ELSE models[n]]
  /\ UNCHANGED <<active, kept, window, guardian, model_changed, tracking, behind>>

\* dump, of the editor that is open; a face has none
Dumped(type) == [type |-> type, dims |-> 1]

\* ModelCreated: the new model is selected if the one before is not there.
ModelCreated(known) ==
  /\ listed' = DOMAIN known
  /\ IF current \in DOMAIN known
     THEN UNCHANGED <<current, active, tweaker, mdlType, warned, announcing>>
     ELSE Activated(NewModel, known)

\* on_CreateButton_pressed
Create(type) ==
  /\ Chooses /\ NewModel \notin DOMAIN models
  /\ models' = [n \in DOMAIN models \cup {NewModel} |->
                  IF n = NewModel THEN Dumped(type) ELSE models[n]]
  /\ ModelCreated(models')
  /\ UNCHANGED <<kept, devType, model_changed, tracking, behind>>

\* rereadPrefs, which ltr_gui allows when there is no tracking
Discard ==
  /\ Chooses /\ thread = "off"
  /\ models' = KeptModels /\ active' = kept
  /\ behind' = (behind \/ models' # models \/ active' # active)
  /\ UNCHANGED <<kept, window, guardian, announcing, model_changed, tracking>>

\* deviceTypeChanged
DeviceChosen(device) ==
  /\ Chooses /\ devType' = device /\ warned' = Unfit(device, mdlType)
  /\ UNCHANGED <<prefs, window, mdlType, announcing, model_changed, tracking, behind>>

\* announceModelChange
Announce ==
  /\ announcing /\ announcing' = FALSE /\ model_changed' = TRUE
  /\ UNCHANGED <<prefs, window, guardian, tracking, behind, choices>>

gui == <<prefs, window, guardian, announcing, behind, choices>>

------------------------------------------------------------------------------
(* The device thread *)

\* ltr_int_init_tracking, of a start
Start ==
  /\ thread = "off" /\ thread' = "check" /\ why' = "init"
  /\ UNCHANGED <<gui, model_changed, flag, section, pose, recenter, init_recenter, centre, lost,
                 slipped>>

\* What follows the check w: the first frame, or the points of this one
Checked(w) ==
  /\ thread' = IF w = "init" THEN "frame" ELSE "points"
  /\ init_recenter' = (init_recenter \/ w = "init")
  /\ recenter' = IF w = "init" THEN FALSE ELSE recenter \/ w = "change"

\* ltr_int_model_changed(true), in check_pose: the flag is read, and then cleared.
ReadFlag ==
  /\ thread = "check" /\ flag' = model_changed /\ thread' = "clear"
  /\ UNCHANGED <<gui, model_changed, why, section, pose, recenter, init_recenter, centre, lost,
                 slipped>>

\* The end of a frame, whose points may not count: the first that do only ask for a centre.
EndFrame(model) ==
  /\ thread' = "frame"
  /\ \E counts \in BOOLEAN :
       /\ recenter' = IF counts THEN init_recenter ELSE recenter
       /\ init_recenter' = (init_recenter /\ ~counts)
       /\ centre' = IF counts /\ recenter THEN model ELSE centre

ClearFlag ==
  /\ thread = "clear" /\ model_changed' = FALSE
  /\ lost' = (lost \/ (~flag /\ model_changed))
  /\ slipped' = (slipped \/ (flag /\ why = "points"))
  /\ IF flag THEN thread' = "section" /\ UNCHANGED <<recenter, init_recenter, centre>>
     ELSE IF why = "points" THEN EndFrame(pose) ELSE Checked(why) /\ UNCHANGED centre
  /\ UNCHANGED <<gui, why, flag, section, pose>>

\* ltr_int_pose_init
PoseInit(model) == pose' = model

\* ltr_int_get_model_setup
ReadSection ==
  /\ thread = "section" /\ section' = active /\ thread' = "keys"
  /\ UNCHANGED <<gui, model_changed, why, flag, pose, recenter, init_recenter, centre, lost,
                 slipped>>
\* ... with setup_cap and setup_clip
ReadKeys ==
  /\ thread = "keys" /\ PoseInit(models[section])
  /\ IF why = "points" THEN EndFrame(pose') ELSE Checked(why) /\ UNCHANGED centre
  /\ UNCHANGED <<gui, model_changed, why, flag, section, lost, slipped>>

\* ltr_int_update_pose: the first look at the flag
UpdatePose ==
  /\ thread = "frame"
  /\ IF model_changed THEN thread' = "check" /\ why' = "change"
     ELSE thread' = "points" /\ UNCHANGED why
  /\ UNCHANGED <<gui, model_changed, flag, section, pose, recenter, init_recenter, centre, lost,
                 slipped>>

\* update_pose_3pt, or update_pose_1pt, which looks at the flag again
UpdatePoints ==
  /\ thread = "points"
  /\ IF pose.type \in ThreePoints
     THEN EndFrame(pose) /\ UNCHANGED why
     ELSE thread' = "check" /\ why' = "points" /\ UNCHANGED <<recenter, init_recenter, centre>>
  /\ UNCHANGED <<gui, model_changed, flag, section, pose, lost, slipped>>

\* The run loop ends between two frames.
Stop ==
  /\ thread = "frame" /\ thread' = "off"
  /\ UNCHANGED <<gui, model_changed, why, flag, section, pose, recenter, init_recenter, centre,
                 lost, slipped>>

ModelNext ==
  \/ \E n \in Names : Select(n)
  \/ \E v \in 1 .. 2 : Tweak(v)
  \/ \E t \in {"Clip", "Face"} : Create(t)
  \/ Discard \/ Announce
  \/ \E d \in Devices : DeviceChosen(d)
  \/ Start \/ ReadFlag \/ ClearFlag \/ ReadSection \/ ReadKeys
  \/ UpdatePose \/ UpdatePoints \/ Stop

ModelSpec == Init /\ [][ModelNext]_modelVars

------------------------------------------------------------------------------
\* The model the window shows, the one that is tuned there and the one the guardian knows is
\* the active one; when the flag is not set, the pose is computed with that model as it is
\* tuned; and it counts from a centre taken with it.  But for what becomes of discarded
\* changes, of which neither the window nor the thread is told (ltr_gui.cpp:214), a flag set
\* between being read and cleared (pref_global.c:27-34), as each frame of a single point does,
\* and a change noticed by update_pose_1pt, which does not recenter (tracking.c:130).
ModelInUse ==
  /\ ~behind =>
       /\ current = active /\ tweaker = Tuned(active)
       /\ mdlType = models[active].type /\ warned = Unfit(devType, mdlType)
  /\ thread \in {"off", "frame"} /\ ~announcing /\ ~model_changed /\ ~behind /\ ~lost => pose = models[active]
  /\ thread = "frame" /\ ~slipped => recenter \/ init_recenter \/ centre = pose
==============================================================================
