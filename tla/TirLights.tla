------------------------------ MODULE TirLights ------------------------------
(***************************************************************************)
(* What the driver of the TrackIR and SmartNav families (tir_hw.c) sends   *)
(* to start, pause and close a camera: video, infrared light, the LEDs     *)
(* that show the status, the threshold.  Packets are sent one by one and   *)
(* nearly all of them unchecked, while ltr_gui changes the settings        *)
(* (tir_driver_prefs.c).  The firmware and the answers of the camera are   *)
(* in TirHardware; here the start-up goes well or not.                     *)
(***************************************************************************)
EXTENDS Integers, Sequences

CONSTANTS
  Families,  \* those of the seven that are looked at
  Levels,    \* values of a setting, as stored and as set
  MaxOps,    \* bound: pauses, resumes, frames, closes and opens
  MaxEvents  \* bound: changes of settings and packets that do not arrive

Defaults == [threshold |-> 140, ir_bright |-> 7, status |-> 1, grayscale |-> 0]
Names == DOMAIN Defaults

VARIABLES
  family,          \* the camera
  cam,             \* what it was told last
  prefs, file,     \* the settings, in the driver and as stored
  ir_on,           \* the light is wanted: the model is not one that glows itself
  last_threshold,
  todo,            \* what is still to be sent
  state,           \* what the camera is when all is sent
  untold,          \* history: what the camera was told last did not arrive
  ops, events

lightVars == <<family, cam, prefs, file, ir_on, last_threshold, todo, state, untold, ops, events>>

AllFamilies == {"tir2", "tir3", "tir4", "tir5", "sn3", "sn4"}
LightsAssumption ==
  /\ Families \subseteq AllFamilies /\ Levels \subseteq Int /\ MaxOps \in Nat /\ MaxEvents \in Nat

TypeOK ==
  /\ family \in Families
  /\ cam.video \in BOOLEAN /\ cam.IR \in BOOLEAN /\ cam.threshold \in 0 .. 255
  /\ cam.red \in BOOLEAN /\ cam.green \in BOOLEAN /\ cam.blue \in BOOLEAN
  /\ cam.light \in Int /\ cam.status \in {"off", "run", "pause"} /\ cam.gray \in BOOLEAN
  /\ prefs \in [Names -> Int] /\ DOMAIN file \subseteq Names
  /\ ir_on \in BOOLEAN /\ last_threshold \in Int
  /\ state \in {"closed", "running", "paused", "failed"}
  /\ untold \subseteq DOMAIN cam
  /\ ops \in 0 .. MaxOps /\ events \in 0 .. MaxEvents

Init ==
  /\ family \in Families
  /\ cam = [video |-> FALSE, IR |-> FALSE, light |-> 0, red |-> FALSE, green |-> FALSE,
            blue |-> FALSE, status |-> "off", threshold |-> 0, gray |-> FALSE]
  /\ prefs = Defaults
  /\ file \in {[n \in {} |-> 0]} \cup {[n \in {"threshold"} |-> v] : v \in Levels}
  /\ ir_on = TRUE /\ last_threshold = -1 /\ todo = <<>> /\ state = "closed"
  /\ untold = {} /\ ops = 0 /\ events = 0

------------------------------------------------------------------------------
(* The packets *)

Set(what, v) == <<what, v>>
Off(led) == Set(led, FALSE)    \* turn_led_off_tir
On(led) == Set(led, TRUE)      \* turn_led_on_tir
Video(on) == Set("video", on)
Camera_stop == Video(FALSE)
Threshold(v) == Set("threshold", v)
If(wanted, packets) == IF wanted THEN packets ELSE <<>>

\* set_status_led_tir: looked up when it is its turn.  Those of the TrackIR 5 are of a
\* packet of their own.
Status(running) == <<"indicate", running>>
Light(ir) == <<"ir_led", ir>>

Indication(running) ==
  CASE family = "tir5" -> <<Set("status", IF running THEN "run" ELSE "pause")>>
    [] family = "sn3" -> <<Set("green", running)>>
    [] OTHER -> IF running THEN <<Off("red"), On("green")>> ELSE <<Off("green"), On("red")>>

\* stop_camera_tir2 ... stop_camera_sn3
StopPackets ==
  CASE family = "tir2" ->
         <<Off("red"), Off("green"), Off("blue"), Off("IR"), Camera_stop, Off("IR")>>
    [] family = "tir3" ->
         <<Video(FALSE), Video(FALSE), Off("IR"), Camera_stop, Off("red"), Off("green"), Off("blue")>>
    [] family = "tir5" ->
         <<Set("status", "off"), Light(FALSE), Video(FALSE), Camera_stop, Set("status", "off"),
           Light(FALSE), Off("IR")>>
    [] family = "sn3" ->
         <<Video(FALSE), Off("green"), Off("IR"), Off("red"), Off("blue"), Camera_stop>>
    [] OTHER ->
         <<Video(FALSE), Off("IR"), Off("red"), Off("green"), Off("blue"), Camera_stop>>

\* start_camera_tir2 ... start_camera_sn3, with what lights
StartPackets(lit) ==
  CASE family = "tir2" -> <<Video(TRUE)>> \o lit \o <<Status(TRUE)>> \o lit
    [] family = "tir3" -> <<Camera_stop>> \o lit \o <<Video(TRUE), Status(TRUE)>>
    [] family = "tir4" -> StopPackets \o <<Video(TRUE)>> \o lit \o <<Status(TRUE)>>
    [] family = "tir5" -> StopPackets \o <<Video(TRUE), Light(ir_on'), Status(TRUE)>>
    [] family = "sn4" -> <<<<"grayscale">>, Video(TRUE)>> \o lit \o <<Status(TRUE)>>
    [] family = "sn3" -> <<Video(TRUE), On("green")>> \o lit \o <<On("blue")>>
Starting == StartPackets(If(ir_on', <<On("IR")>>))

\* init_camera_tir2 ... init_camera_sn3: what goes before the questions to the camera, and
\* after.  The TrackIR 4 and the SmartNav 4 have it reload its configuration, or not.
Silence ==
  IF family = "tir2" THEN <<Off("IR"), Off("red"), Off("green"), Off("blue"), Video(FALSE)>>
  ELSE StopPackets

InitPackets(reload) ==
  CASE family = "tir2" -> <<Threshold(140)>>
    [] family = "tir3" -> <<Threshold(140), Threshold(208)>>
    [] family = "tir4" -> If(reload, <<Threshold(130)>>)
    [] family = "tir5" ->
         <<Light(TRUE), Threshold(150), Light(TRUE), Set("status", "off"), Light(TRUE),
           Threshold(118), Set("status", "off"), Camera_stop, Light(TRUE), Video(TRUE)>>
    [] family = "sn4" -> If(reload, <<Threshold(120)>>)
    [] family = "sn3" -> <<>>

\* close_camera_tir2 ... close_camera_sn4.  The last packet to a TrackIR 5 makes its FPGA
\* start anew (external): what lights then goes out.
ClosePackets ==
  StopPackets \o
    CASE family = "tir2" -> <<Off("red"), Off("green"), Off("blue"), Off("IR")>>
      [] family = "tir3" -> <<Off("red"), Off("green"), Off("blue")>>
      [] family = "tir5" ->
           <<Threshold(150), Light(TRUE), Set("status", "off"), Off("IR"), Set("light", 0)>>
      [] OTHER -> <<>>

\* ltr_int_set_threshold_tir: the setting is an int, its parameter is not.
Limited(v) ==
  LET least == IF family = "tir2" THEN 40 ELSE 30
  IN IF v < 0 \/ v > 253 THEN 253 ELSE IF v < least THEN least ELSE v

\* A packet arrives, or it does not, which nobody notices.
Send(what, v) ==
  \/ cam' = [cam EXCEPT ![what] = v] /\ untold' = untold \ {what} /\ UNCHANGED events
  \/ /\ events < MaxEvents /\ events' = events + 1
     /\ untold' = untold \cup {what} /\ UNCHANGED cam

------------------------------------------------------------------------------
(* The thread of the device *)

NextPacket ==
  LET p == Head(todo)
      rest == Tail(todo)
  IN /\ todo # <<>>
     /\ CASE p[1] = "indicate" ->
               /\ todo' = If(prefs.status = 1, Indication(p[2])) \o rest
               /\ UNCHANGED <<cam, untold, events, last_threshold>>
          [] p[1] = "ir_led" ->
               /\ todo' = rest /\ Send("light", IF p[2] THEN prefs.ir_bright ELSE 0)
               /\ UNCHANGED last_threshold
          [] p[1] = "grayscale" ->
               todo' = rest /\ Send("gray", prefs.grayscale = 1) /\ UNCHANGED last_threshold
          [] p[1] = "frame" ->
               /\ last_threshold' = prefs.threshold /\ UNCHANGED <<cam, untold, events>>
               /\ todo' = If(last_threshold # prefs.threshold,
                             <<Threshold(Limited(prefs.threshold))>>) \o rest
          [] OTHER -> todo' = rest /\ Send(p[1], p[2]) /\ UNCHANGED last_threshold
     /\ UNCHANGED <<family, prefs, file, ir_on, state, ops>>

Begin(packets, next) ==
  /\ todo = <<>> /\ ops < MaxOps /\ ops' = ops + 1
  /\ todo' = packets /\ state' = next
  /\ UNCHANGED <<family, cam, file, untold, events>>

\* ltr_int_tracker_init, ltr_int_tir_init_prefs, ltr_int_open_tir.  When the start-up fails
\* the camera is left as it is, a TrackIR 5 whose firmware is not found with its light on.
Open ==
  /\ state \in {"closed", "failed"} /\ ir_on' \in BOOLEAN
  /\ last_threshold' = -1
  /\ prefs' = [n \in Names |-> IF n \in DOMAIN file THEN file[n] ELSE Defaults[n]]
  /\ \/ \E reload \in BOOLEAN : Begin(Silence \o InitPackets(reload) \o Starting, "running")
     \/ Begin(<<>>, "failed")
     \/ Begin(Silence \o If(family = "tir5", <<Light(TRUE)>>), "failed")

\* ltr_int_tracker_pause, ltr_int_pause_tir
Pause ==
  /\ state = "running" /\ Begin(StopPackets \o <<Status(FALSE)>>, "paused")
  /\ UNCHANGED <<prefs, ir_on, last_threshold>>

\* ltr_int_tracker_resume, ltr_int_resume_tir
Resume ==
  /\ state = "paused" /\ UNCHANGED ir_on /\ Begin(Starting \o <<Status(TRUE)>>, "running")
  /\ UNCHANGED <<prefs, last_threshold>>

\* ltr_int_tracker_get_frame
GetFrame ==
  /\ state = "running" /\ Begin(<<<<"frame">>>>, "running")
  /\ UNCHANGED <<prefs, ir_on, last_threshold>>

\* ltr_int_tracker_close
Close ==
  /\ state \in {"running", "paused"} /\ Begin(ClosePackets, "closed")
  /\ UNCHANGED <<prefs, ir_on, last_threshold>>

------------------------------------------------------------------------------
(* ltr_gui *)

\* The limits of ltr_int_tir_set_threshold and ltr_int_tir_set_ir_brightness
Kept(n, v) ==
  LET low == CASE n = "threshold" -> 30 [] n = "ir_bright" -> 5 [] OTHER -> 0
      high == CASE n = "threshold" -> 253 [] n = "ir_bright" -> 7 [] OTHER -> 1
  IN IF v < low THEN low ELSE IF v > high THEN high ELSE v

SetPref(n, v) ==
  /\ events < MaxEvents /\ events' = events + 1
  /\ prefs' = [prefs EXCEPT ![n] = Kept(n, v)]
  /\ file' = [m \in DOMAIN file \cup {n} |-> IF m = n THEN Kept(n, v) ELSE file[m]]
  /\ UNCHANGED <<family, cam, ir_on, last_threshold, todo, state, untold, ops>>

LightsNext ==
  \/ NextPacket \/ Open \/ Pause \/ Resume \/ GetFrame \/ Close
  \/ \E n \in Names, v \in Levels : SetPref(n, v)

LightsSpec == Init /\ [][LightsNext]_lightVars

------------------------------------------------------------------------------
\* The camera was told, but for a packet that did not arrive.
Told(what, v) == what \notin untold => cam[what] = v

\* When all is sent, a camera that is paused or closed was told to be dark, but for the red
\* LED of a pause.  One that runs was told to send its video, to light as is wanted, and the
\* threshold that was read last, kept within its limits.  A packet that was lost matters
\* until the next one of its kind, whatever else was lost, and no longer:
\* tir_hw.c:373-393, 489-719, 1081-1166 and tir_driver.c:105-111.
CameraObeys ==
  todo = <<>> =>
    /\ state \in {"paused", "closed"} =>
         /\ \A what \in {"video", "IR", "green", "blue"} : Told(what, FALSE)
         /\ Told("light", 0)
    /\ state = "closed" => Told("red", FALSE) /\ Told("status", "off")
    /\ state = "running" => Told("video", TRUE) /\ (family # "tir5" => Told("IR", ir_on))
    /\ state = "running" /\ last_threshold # -1 /\ "threshold" \notin untold =>
         /\ cam.threshold \in 30 .. 253
         /\ last_threshold \in 40 .. 253 => cam.threshold = last_threshold
================================================================================
