------------------------------- MODULE XPlane -------------------------------
(***************************************************************************)
(* The X-Plane plugin (xlinuxtrack9.c): a callback that the simulator      *)
(* calls in every flight loop moves the head of the pilot in the 3D        *)
(* cockpit, and commands of the user, other plugins and changes of the     *)
(* view come between two calls.  A pose is one number, its displacement    *)
(* and its roll at once; the position of the head is counted from where    *)
(* the simulator puts it.                                                  *)
(***************************************************************************)
EXTENDS Naturals

CONSTANTS MaxDrift,    \* bound: a head further from its seat counts as this far
          MaxCommands  \* bound: commands of the user

PlaneAssumption == MaxDrift \in Nat /\ MaxCommands \in Nat

VARIABLES
  simView,   \* sim/graphics/view/view_type: 1026 is the 3D cockpit
  simHead,   \* sim/graphics/view/pilots_head_x, y, z: 0 is the pilot's seat
  simRoll,   \* sim/graphics/view/field_of_view_roll_deg
  pilotView, \* the PilotView plugin: absent, or its external_enabled
  active_flag, pos_init_flag, freeze, initialized, pv_present,
  head_control_enable, base,  \* the plugin's variables of these names
  currentHead,                \* current_head_x ... current_head_roll
  library,                    \* the linuxtrack library behind the plugin
  left,                       \* history: stopped in another view, with the roll on
  commands                    \* commands the user gave

simulator == <<simView, simHead, simRoll>>
settings == <<pv_present, head_control_enable>>
planeVars == <<simulator, pilotView, active_flag, pos_init_flag, freeze,
               initialized, settings, base, currentHead, library, left, commands>>

Cockpit == "cockpit"
Poses == {0, 1}

TypeOK ==
  /\ simView \in {Cockpit, "other"}
  /\ simHead \in 0 .. MaxDrift /\ simRoll \in Poses
  /\ pilotView \in {"absent", "enabled", "disabled"}
  /\ {active_flag, pos_init_flag, freeze, initialized, pv_present,
      head_control_enable} \subseteq BOOLEAN
  /\ base \in 0 .. MaxDrift
  /\ currentHead \in Poses
  /\ library \in {"unloaded", "stopped", "suspended", "running"}
  /\ left \in BOOLEAN /\ commands \in 0 .. MaxCommands

Init ==
  /\ simView = Cockpit /\ simHead = 0 /\ simRoll = 0
  /\ pilotView \in {"absent", "disabled"}
  /\ head_control_enable = TRUE
  /\ active_flag = FALSE /\ pos_init_flag = FALSE /\ freeze = FALSE
  /\ initialized = FALSE /\ pv_present = FALSE
  /\ base = 0 /\ currentHead = 0
  /\ library = "unloaded" /\ left = FALSE /\ commands = 0

\* The plugin lets go of the head: unreached where the view is not put back.
Leave(unreached) == left' = (simRoll' # 0 /\ (left \/ unreached))

(***************************************************************************)
(* The simulator and its user.                                             *)
(***************************************************************************)

\* XPluginStart: the commands, the datarefs and the callback are registered,
\* and the library is initialised.
XPluginStart ==
  /\ library = "unloaded"
  /\ library' = "stopped" /\ head_control_enable' = TRUE
  /\ UNCHANGED <<simulator, pilotView, active_flag, pos_init_flag, freeze,
                 initialized, pv_present, base, currentHead, left, commands>>

\* XPluginStop; the statics are those of a new plugin when it comes back.
XPluginStop ==
  /\ library # "unloaded"
  /\ library' = "unloaded"
  /\ active_flag' = FALSE /\ pos_init_flag' = FALSE /\ freeze' = FALSE
  /\ initialized' = FALSE /\ pv_present' = FALSE
  /\ base' = 0 /\ currentHead' = 0
  /\ UNCHANGED simulator /\ Leave(TRUE)
  /\ UNCHANGED <<pilotView, head_control_enable, commands>>

ChangeView ==
  /\ simView' \in {Cockpit, "other"} \ {simView}
  /\ UNCHANGED <<simHead, simRoll, pilotView, active_flag, pos_init_flag,
                 freeze, initialized, settings, base, currentHead, library,
                 left, commands>>

\* The library leaves the state STOPPED once a server answers.
TrackingStarts ==
  /\ library = "stopped"
  /\ library' = "running"
  /\ UNCHANGED <<simulator, pilotView, active_flag, pos_init_flag, freeze,
                 initialized, settings, base, currentHead, left, commands>>

\* XPLM_MSG_PLANE_LOADED: the plugin looks for PilotView, and enables it.
PlaneLoaded ==
  /\ library # "unloaded"
  /\ pv_present' = (pilotView # "absent")
  /\ pilotView' = IF pilotView = "absent" THEN "absent" ELSE "enabled"
  /\ UNCHANGED <<simulator, active_flag, pos_init_flag, freeze, initialized,
                 head_control_enable, base, currentHead, library, left, commands>>

(***************************************************************************)
(* The plugin.                                                             *)
(***************************************************************************)

\* Seeded fault: the roll is left as it is.
RevertHead ==
  IF ~pv_present /\ simView = Cockpit
    THEN simHead' = base /\ UNCHANGED simRoll
    ELSE UNCHANGED <<simHead, simRoll>>

\* revertView: the head goes back to the base, in the cockpit only.
RevertView ==
  IF ~pv_present /\ simView = Cockpit
    THEN simHead' = base /\ simRoll' = 0
    ELSE UNCHANGED <<simHead, simRoll>>

\* PV_Enabled_DR is known from the first aircraft with a PilotView on.
TellPilotView(state) ==
  pilotView' = IF pv_present THEN state ELSE pilotView

\* xplm_CommandBegin of one more command.
Command == commands < MaxCommands /\ commands' = commands + 1

\* Command ltr_run while the plugin does not track: activate.
Activate ==
  /\ Command
  /\ library # "unloaded" /\ ~active_flag /\ initialized
  /\ active_flag' = TRUE /\ pos_init_flag' = TRUE /\ freeze' = FALSE
  /\ library' = "running"
  /\ TellPilotView("enabled")
  /\ UNCHANGED <<simulator, initialized, settings, base, currentHead, left>>

\* Command ltr_run while it does: deactivate.
Deactivate ==
  /\ Command
  /\ library # "unloaded" /\ active_flag
  /\ active_flag' = FALSE
  /\ RevertView
  /\ TellPilotView("disabled")
  /\ library' = IF initialized THEN "suspended" ELSE library
  /\ Leave(simView # Cockpit \/ pv_present)
  /\ UNCHANGED <<simView, pos_init_flag, freeze, initialized, settings, base,
                 currentHead>>

\* Command ltr_pause; ltr_recenter is the library's and changes nothing here.
Freeze ==
  /\ Command
  /\ library # "unloaded"
  /\ freeze' = ~freeze
  /\ UNCHANGED <<simulator, pilotView, active_flag, pos_init_flag,
                 initialized, settings, base, currentHead, library, left>>

\* SetHeadCtrlRefCB: another plugin writes linuxtrack/enable_head_control.
SetHeadCtrl(outValue) ==
  /\ library # "unloaded"
  /\ IF head_control_enable /\ ~outValue
       THEN RevertView
       ELSE UNCHANGED <<simHead, simRoll>>
  /\ head_control_enable' = outValue
  /\ Leave(~outValue /\ (simView # Cockpit \/ pv_present))
  /\ UNCHANGED <<simView, pilotView, active_flag, pos_init_flag, freeze,
                 initialized, pv_present, base, currentHead, library, commands>>

\* linuxtrack_get_pose: a paused library gives the last pose again.
GetPose ==
  IF initialized' /\ ~freeze /\ library = "running"
    THEN currentHead' \in Poses
    ELSE UNCHANGED currentHead

\* The head follows the pose in the cockpit, and in the first call after an
\* activation whatever the view is; the roll is cancelled in other views.
MoveHead ==
  IF simView = Cockpit \/ pos_init_flag
    THEN /\ simHead' = IF base' + currentHead' > MaxDrift THEN MaxDrift
                       ELSE base' + currentHead'
         /\ simRoll' = currentHead'
    ELSE simRoll' = 0 /\ UNCHANGED simHead

\* xlinuxtrackCallback.
FlightLoop ==
  /\ library # "unloaded"
  /\ pos_init_flag' = FALSE
  /\ base' = IF pos_init_flag THEN simHead ELSE base
  /\ initialized' = (initialized \/ library # "stopped")
  /\ library' = IF ~initialized /\ initialized' THEN "suspended" ELSE library
  /\ IF active_flag THEN GetPose ELSE UNCHANGED currentHead
  /\ IF active_flag /\ ~pv_present /\ head_control_enable
       THEN MoveHead
       ELSE UNCHANGED <<simHead, simRoll>>
  /\ Leave(FALSE)
  /\ UNCHANGED <<simView, pilotView, active_flag, freeze, settings, commands>>

PlaneNext ==
  \/ XPluginStart \/ XPluginStop \/ ChangeView \/ TrackingStarts
  \/ PlaneLoaded \/ Activate \/ Deactivate \/ Freeze \/ FlightLoop
  \/ \E outValue \in BOOLEAN : SetHeadCtrl(outValue)

\* The simulator calls the callback in every flight loop (the callback asks
\* for that with its return value).
PlaneSpec == Init /\ [][PlaneNext]_planeVars /\ WF_planeVars(FlightLoop)

(***************************************************************************)
(* Properties.                                                             *)
(***************************************************************************)

\* "Make sure to cancel any roll, otherwise bad things start to happening": a view other
\* than the cockpit does not stay rolled (xlinuxtrack9.c:509-511), unless the plugin let
\* go of the head out of reach of revertView, which looks at the view of that moment
\* (:393; the flight loop that would cancel the roll returns early then).
Rolled == library # "unloaded" /\ simView # Cockpit /\ simRoll # 0 /\ ~left
Levelled ==
  \/ simRoll = 0 \/ simView = Cockpit \/ left
  \/ library = "unloaded" \/ pv_present \/ ~head_control_enable
RollIsCancelled == Rolled ~> Levelled
=============================================================================
