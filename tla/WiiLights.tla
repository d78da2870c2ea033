----------------------------- MODULE WiiLights -----------------------------
(***************************************************************************)
(* The four LEDs of a Wiimote, which tell whether the tracking runs or is  *)
(* paused.  Which of them do is chosen in a window of ltr_gui              *)
(* (qt_gui/wiimote_prefs.cpp) and kept with the preferences                *)
(* (wii_driver_prefs.c); the driver (macwii_driver.c), which is in the     *)
(* same process but has wii_driver_prefs.c a second time, puts it in the   *)
(* shared memory (com_proc.c), and the server (wii_server/) sets the LEDs  *)
(* when it sees a new command.  The Wiimote stays connected; the commands  *)
(* themselves are in WiiServer.                                            *)
(***************************************************************************)
EXTENDS Integers, FiniteSets

CONSTANTS
  KeptLights,   \* what the preference file may hold
  MaxTicks,     \* bound: boxes that are ticked or cleared
  MaxTurns      \* bound: starts, pauses and resumes of the tracking

Leds == 1 .. 4
NoKey == {0}       \* no key in the section
NoLights == [run |-> {}, pause |-> {}]      \* the static strings, "0000"
Nothing == [run |-> {-1}, pause |-> {-1}]   \* no section, no window

VARIABLES
  lights,      \* the section of the Wiimote: [run, pause], or Nothing
  active,      \* it is the section of the active device
  boxes,       \* of the window, or Nothing
  gui,         \* run_indication and pause_indication of ltr_gui
  driver,      \* those of the driver
  tracker,     \* off, running or paused
  given,       \* the command the driver is about to give, or "none"
  indication,  \* in the shared memory
  cmd,
  seen,        \* the indication the server has read: -1 is none
  old,         \* the last command the server saw
  leds,        \* that are on
  torn,        \* history: the server read the indication before, the command after a change
  unseen,      \* history: a start after a stop the server has not seen
  ticks, turns

lightsVars == <<lights, active, boxes, gui, driver, tracker, given, indication, cmd, seen, old,
                leds, torn, unseen, ticks, turns>>
setup == <<lights, active, boxes, gui, ticks>>
server == <<seen, old, leds, torn>>

Lights == [run : SUBSET Leds, pause : SUBSET Leds]
KeptSections == [run : {NoKey} \cup SUBSET Leds, pause : {NoKey} \cup SUBSET Leds]
LightsAssumption ==
  KeptLights \subseteq KeptSections /\ MaxTicks \in Nat /\ MaxTurns \in Nat

TypeOK ==
  /\ lights \in KeptSections \cup {Nothing}
  /\ active \in BOOLEAN /\ (boxes = Nothing \/ boxes \in Lights)
  /\ gui \in Lights /\ driver \in Lights
  /\ tracker \in {"off", "running", "paused"} /\ given \in {"none", "SLEEP", "WAKEUP"}
  /\ indication \in 0 .. 255 /\ cmd \in {"STOP", "SLEEP", "WAKEUP"}
  /\ seen \in -1 .. 255 /\ old \in {"STOP", "SLEEP", "WAKEUP"} /\ leds \subseteq Leds
  /\ torn \in BOOLEAN /\ unseen \in BOOLEAN
  /\ ticks \in 0 .. MaxTicks /\ turns \in 0 .. MaxTurns

\* get_indication: a bit for each LED, those for running above those for paused
Bits(on) ==
  (IF 1 \in on THEN 1 ELSE 0) + (IF 2 \in on THEN 2 ELSE 0)
  + (IF 3 \in on THEN 4 ELSE 0) + (IF 4 \in on THEN 8 ELSE 0)
Indication(l) == Bits(l.run) * 16 + Bits(l.pause)
\* cwiid_set_led
Shown(bits) == CHOOSE on \in SUBSET Leds : Bits(on) = bits

Init ==
  /\ lights \in KeptLights \cup {Nothing} /\ active \in BOOLEAN
  /\ active => lights # Nothing
  /\ boxes = Nothing /\ gui = NoLights /\ driver = NoLights /\ tracker = "off"
  /\ given = "none" /\ indication = 0 /\ cmd = "STOP" /\ seen = -1 /\ old = "STOP" /\ leds = {}
  /\ torn = FALSE /\ unseen = FALSE /\ ticks = 0 /\ turns = 0

\* ltr_int_wii_init_prefs, of the copy l, which keeps what the section s has no key for
Kept(l, s) == [k \in {"run", "pause"} |-> IF s[k] = NoKey THEN l[k] ELSE s[k]]

------------------------------------------------------------------------------
(* The window *)

\* Activate.  For a section that is made the boxes write what they show once more.
Activate ==
  /\ boxes = Nothing /\ active' = TRUE
  /\ lights' = IF lights = Nothing THEN [run |-> {2}, pause |-> {3}] ELSE lights
  /\ gui' = Kept(gui, lights') /\ boxes' = gui'
  /\ UNCHANGED <<driver, tracker, given, indication, cmd, server, unseen, ticks, turns>>

\* Another device is chosen (device_setup.cpp).
Leave ==
  /\ boxes # Nothing /\ boxes' = Nothing /\ active' = FALSE
  /\ UNCHANGED <<lights, gui, driver, tracker, given, indication, cmd, server, unseen, ticks,
                 turns>>

\* ltr_int_set_run_indication, ltr_int_set_pause_indication
SetIndication(k, on) ==
  gui' = [gui EXCEPT ![k] = on] /\ lights' = [lights EXCEPT ![k] = on]

\* runIndicationChanged, pauseIndicationChanged
IndicationChanged(k, led) ==
  /\ boxes # Nothing /\ ticks < MaxTicks /\ ticks' = ticks + 1
  /\ boxes' = [boxes EXCEPT ![k] = IF led \in @ THEN @ \ {led} ELSE @ \cup {led}]
  /\ SetIndication(k, boxes'[k])
  /\ UNCHANGED <<active, driver, tracker, given, indication, cmd, server, unseen, turns>>

------------------------------------------------------------------------------
(* The driver: the indication and then the command, each under the lock *)

Tell(c) == indication' = Indication(driver') /\ given' = c /\ turns' = turns + 1

\* ltr_int_tracker_init, in a library that was loaded anew
TrackerInit ==
  /\ tracker = "off" /\ active /\ turns < MaxTurns
  /\ driver' = Kept(NoLights, lights) /\ tracker' = "running" /\ Tell("WAKEUP")
  /\ unseen' = (unseen \/ old # "STOP")
  /\ UNCHANGED <<setup, cmd, server>>

\* ltr_int_tracker_pause, ltr_int_tracker_resume
TrackerPause ==
  /\ tracker = "running" /\ given = "none" /\ turns < MaxTurns
  /\ tracker' = "paused" /\ UNCHANGED driver /\ Tell("SLEEP")
  /\ UNCHANGED <<setup, cmd, server, unseen>>
TrackerResume ==
  /\ tracker = "paused" /\ given = "none" /\ turns < MaxTurns
  /\ tracker' = "running" /\ UNCHANGED driver /\ Tell("WAKEUP")
  /\ UNCHANGED <<setup, cmd, server, unseen>>

\* ltr_int_pauseWii, ltr_int_resumeWii
Give ==
  /\ given # "none" /\ cmd' = given /\ given' = "none"
  /\ UNCHANGED <<setup, driver, tracker, indication, server, unseen, turns>>

\* ltr_int_tracker_close
TrackerClose ==
  /\ tracker = "running" /\ given = "none" /\ tracker' = "off" /\ cmd' = "STOP"
  /\ UNCHANGED <<setup, driver, given, indication, server, unseen, turns>>

------------------------------------------------------------------------------
(* The server, which reads the one and then the other *)

ReadIndication ==
  /\ seen = -1 /\ seen' = indication
  /\ UNCHANGED <<setup, driver, tracker, given, indication, cmd, old, leds, torn, unseen, turns>>

\* handle_command, with pause and wakeup.  At a stop the server lets the LEDs run.
TakeCommand ==
  /\ seen # -1 /\ seen' = -1 /\ old' = cmd
  /\ leds' = IF cmd = old \/ cmd = "STOP" THEN leds
             ELSE Shown(IF cmd = "SLEEP" THEN seen % 16 ELSE (seen \div 16) % 16)
  /\ torn' = (torn \/ (cmd # old /\ seen # indication))
  /\ UNCHANGED <<setup, driver, tracker, given, indication, cmd, unseen, turns>>

LightsNext ==
  \/ Activate \/ Leave
  \/ \E k \in {"run", "pause"}, led \in Leds : IndicationChanged(k, led)
  \/ TrackerInit \/ TrackerPause \/ TrackerResume \/ Give \/ TrackerClose
  \/ ReadIndication \/ TakeCommand

LightsSpec == Init /\ [][LightsNext]_lightsVars

------------------------------------------------------------------------------
\* The boxes show what is stored; and when the server has seen the last command the LEDs are
\* those chosen for the state the tracking is in, as the driver read them at its start.  But
\* for a server that reads the indication before and the command after the driver changed
\* them (wii_server.cpp:98-100, macwii_driver.c:48), and a start after a stop that
\* the server did not see: it then takes the new command for the old one.
LightsTell ==
  /\ boxes # Nothing =>
       /\ active /\ gui = boxes
       /\ \A k \in {"run", "pause"} : lights[k] \in {NoKey, boxes[k]}
  /\ given = "none" /\ old = cmd /\ ~torn /\ ~unseen =>
       /\ tracker = "running" => leds = driver.run
       /\ tracker = "paused" => leds = driver.pause
==============================================================================
