--------------------------------- MODULE Mickey --------------------------------
(***************************************************************************)
(* Mickey, the mouse that follows the head (mickey.cpp, transform.cpp):    *)
(* its states, the dialogs that calibrate it and that try new settings,    *)
(* which revert when their time is up, and the settings of the axes and    *)
(* the range of the head each of them sets aside and puts back. A count of *)
(* seconds is left out: a dialog may end at any time. The dialogs are      *)
(* modal: the window can be used when none is shown, hot keys always.      *)
(***************************************************************************)
EXTENDS Integers

CONSTANTS
  Setups,      \* what the sliders can be set to
  Ranges,      \* what the head can be found to reach
  MaxTrials    \* bound: dialogs that are opened

VARIABLES
  mouse,        \* state: TRACKING, STANDBY or CALIBRATING
  dialog,       \* calDlg and its calState, aplDlg, or none
  setup, oldSetup, newSetup,     \* of MickeysAxis
  sliders,      \* of the window: the setup it shows
  range, prevRange,              \* maxVal and prevMaxVal of MickeyTransform
  guiRange,     \* maxVal of the window
  calibrating,  \* of MickeyTransform
  asleep,       \* the last command to the library was to suspend
  used,         \* history: setup and range in use before a trial began
  outcome,      \* history: how the last trial ended
  trials

mickeyVars == <<mouse, dialog, setup, oldSetup, newSetup, sliders, range, prevRange,
                guiRange, calibrating, asleep, used, outcome, trials>>
settingVars == <<setup, oldSetup, newSetup, sliders, range, prevRange, guiRange>>

States == {"TRACKING", "STANDBY", "CALIBRATING"}
TrialsAssumption == Setups # {} /\ Ranges # {} /\ MaxTrials \in Nat

TypeOK ==
  /\ mouse \in States
  /\ dialog \in {"none", "CENTER", "CALIBRATE", "CENTER_ONLY", "apply"}
  /\ {setup, oldSetup, newSetup, sliders} \subseteq Setups
  /\ {range, prevRange, guiRange} \subseteq Ranges
  /\ calibrating \in BOOLEAN /\ asleep \in BOOLEAN
  /\ used \in [setup : Setups, range : Ranges]
  /\ outcome \in {"none", "kept", "reverted"} /\ trials \in 0 .. MaxTrials

\* After the constructor of Mickey
Init ==
  /\ mouse = "TRACKING" /\ dialog = "none"
  /\ setup = CHOOSE s \in Setups : TRUE
  /\ oldSetup = setup /\ newSetup = setup /\ sliders = setup
  /\ range = CHOOSE r \in Ranges : TRUE
  /\ prevRange = range /\ guiRange = range
  /\ calibrating = FALSE /\ asleep = FALSE
  /\ used = [setup |-> setup, range |-> range]
  /\ outcome = "none" /\ trials = 0

\* Mickey::changeState: a calibration is not interrupted by a pause.
ChangeState(new) ==
  /\ mouse' = IF mouse = "CALIBRATING" /\ new = "STANDBY" THEN mouse ELSE new
  /\ asleep' = CASE mouse = "TRACKING" /\ new = "STANDBY" -> TRUE
                 [] mouse = "STANDBY" /\ new # "STANDBY" -> FALSE
                 [] OTHER -> asleep

\* Mickey::hotKey_activated, the one that starts and stops the tracking
Toggle ==
  /\ mouse # "CALIBRATING"
  /\ ChangeState(IF mouse = "TRACKING" THEN "STANDBY" ELSE "TRACKING")
  /\ UNCHANGED <<dialog, settingVars, calibrating, used, outcome, trials>>

\* A slider is moved: MickeysAxis::axisChanged.
MoveSlider ==
  /\ dialog = "none"
  /\ \E s \in Setups \ {sliders} : sliders' = s /\ newSetup' = s
  /\ UNCHANGED <<mouse, dialog, setup, oldSetup, range, prevRange, guiRange, calibrating,
                 asleep, used, outcome, trials>>

\* Mickey::applySettings, with MickeysAxis::applySettings
TrySettings ==
  /\ dialog' = "apply"
  /\ oldSetup' = setup /\ setup' = newSetup
  /\ outcome' = "none"

Apply ==
  /\ dialog = "none" /\ trials < MaxTrials /\ trials' = trials + 1
  /\ TrySettings
  /\ used' = [setup |-> setup, range |-> range]
  /\ UNCHANGED <<mouse, newSetup, sliders, range, prevRange, guiRange, calibrating, asleep>>

\* Seeded fault: the range that was kept is not the one to go back to.
KeepSetup ==
  /\ dialog = "apply" /\ dialog' = "none" /\ outcome' = "kept"
  /\ oldSetup' = setup
  /\ UNCHANGED <<mouse, setup, newSetup, sliders, range, prevRange, guiRange, calibrating,
                 asleep, used, trials>>

\* The button, or the window of the dialog is closed: Mickey::keepSettings.
Keep ==
  /\ dialog = "apply" /\ dialog' = "none" /\ outcome' = "kept"
  /\ oldSetup' = setup /\ prevRange' = range
  /\ UNCHANGED <<mouse, setup, newSetup, sliders, range, guiRange, calibrating, asleep,
                 used, trials>>

\* The button, or the time is up: Mickey::revertSettings. Each slider that is
\* put back changes newSetup, too.
Revert ==
  /\ dialog = "apply" /\ dialog' = "none" /\ outcome' = "reverted"
  /\ range' = prevRange /\ guiRange' = prevRange
  /\ setup' = oldSetup /\ sliders' = oldSetup /\ newSetup' = oldSetup
  /\ UNCHANGED <<mouse, oldSetup, prevRange, calibrating, asleep, used, trials>>

\* Mickey::calibrate and Mickey::recenter
Calibrate ==
  /\ dialog = "none" /\ trials < MaxTrials /\ trials' = trials + 1
  /\ dialog' \in {"CENTER", "CENTER_ONLY"}
  /\ ChangeState("CALIBRATING") /\ outcome' = "none"
  /\ UNCHANGED <<settingVars, calibrating, used>>

\* MickeyCalibration::timeout, when the head was to be centred: the library is
\* asked to recenter, and the range of the head is measured next.
Centred ==
  /\ dialog \in {"CENTER", "CENTER_ONLY"}
  /\ IF dialog = "CENTER_ONLY"
     THEN /\ dialog' = "none" /\ ChangeState("TRACKING")
          /\ UNCHANGED <<calibrating, prevRange, range, used>>
     ELSE /\ dialog' = "CALIBRATE" /\ calibrating' = TRUE
          /\ prevRange' = range
          /\ used' = [setup |-> setup, range |-> range]
          /\ UNCHANGED <<mouse, asleep, range>>
  /\ UNCHANGED <<setup, oldSetup, newSetup, sliders, guiRange, outcome, trials>>

\* MickeyTransform::update, while the range of the head is measured
HeadMoves ==
  /\ calibrating /\ \E r \in Ranges : range' = r
  /\ UNCHANGED <<mouse, dialog, setup, oldSetup, newSetup, sliders, prevRange, guiRange,
                 calibrating, asleep, used, outcome, trials>>

\* The time for it is up: Mickey::finishCalibration, with the trial it starts
FinishCalibration ==
  /\ dialog = "CALIBRATE"
  /\ calibrating' = FALSE /\ guiRange' = range
  /\ ChangeState("TRACKING") /\ TrySettings
  /\ UNCHANGED <<newSetup, sliders, range, prevRange, used, trials>>

\* Cancel, or the window of the dialog is closed: Mickey::cancelCalibration
CancelCalibration ==
  /\ dialog \in {"CENTER", "CENTER_ONLY", "CALIBRATE"} /\ dialog' = "none"
  /\ IF dialog = "CALIBRATE" THEN calibrating' = FALSE /\ range' = guiRange
                             ELSE UNCHANGED <<calibrating, range>>
  /\ ChangeState("TRACKING")
  /\ UNCHANGED <<setup, oldSetup, newSetup, sliders, prevRange, guiRange, used, outcome, trials>>

MickeyNext ==
  \/ Toggle \/ MoveSlider \/ Apply \/ Keep \/ Revert \/ Calibrate \/ Centred
  \/ HeadMoves \/ FinishCalibration \/ CancelCalibration

MickeySpec == Init /\ [][MickeyNext]_mickeyVars

------------------------------------------------------------------------------
\* A trial that is reverted leaves what was in use before it, the setup and the
\* range that a calibration before it changed, whatever was kept, cancelled or
\* reverted earlier: transform.cpp:151-170, 294-309 ("to get back to the previous
\* state", mickey/help/tracking.htm).
RevertRestores ==
  outcome = "reverted" /\ dialog = "none" =>
    /\ [setup |-> setup, range |-> range] = used
    /\ guiRange = range /\ newSetup = sliders

================================================================================
