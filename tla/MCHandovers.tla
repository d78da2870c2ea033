----------------------------- MODULE MCHandovers -----------------------------
(***************************************************************************)
(* The components in which one party hands data or control over to another *)
(* and which do not otherwise meet: a behaviour of this module is one of   *)
(* one component, the part.  The variables of that component are in the    *)
(* slots, which keeps the states small; the slots it does not need are     *)
(* Unused for ever.                                                        *)
(***************************************************************************)
EXTENDS Integers, FiniteSets, Sequences, TLC

CONSTANTS
  PictureParts, MaxPoints, MaxReports, MaxOrders, MaxLinks,  \* WiiServer
  ImageParts, MaxImages, MaxStarts,                          \* FaceTracker
  noBuffers, Resolutions, MaxShots, MaxRuns,                 \* Buffering
  Children, RingSize, MaxGrabs, MaxTells,                    \* QtCam
  MaxFrames, MaxRequests, MaxInits, LinkSize,                \* Recentering
  Width, Height, MaxBlobs,                                   \* Stripes
  Lines, MaxScans, MaxPauses,                                \* TirPackets
  MaxOpens,                                                  \* TirHardware
  Settings, Odd, MaxCrashes,                                 \* Preferences
  Setups, Ranges, MaxTrials,                                 \* Mickey
  MaxBuffers, MaxExposures,                                  \* Webcam
  MaxPolls,                                                  \* Pipe
  MaxDirs, MaxPresses,                                       \* Extractor
  CameraNames, FourCCs, FrameSizes, MaxChoices,              \* DeviceSetup
  Games, Slaves, MaxEdits,                                   \* Profiles
  MaxDrift, MaxCommands,                                     \* XPlane
  Systems, GameData, GameIds, MaxUses, MaxPoses,             \* WineClient
  Gamers, Instances, Nobody,                                 \* TrackIRWindow
  Keys, Registries, QueueSize, MaxStrokes, MaxClicks,        \* Controller
  Families, Levels, MaxOps, MaxEvents,                       \* TirLights
  Keyboard, Unknown, HotKeys, Assigned,                      \* Shortcuts
  MaxAssigns, MaxTyped, MaxOthers,
  MaxPushes, MaxLosses,                                      \* MacWiimote
  KeptLights, MaxTicks, MaxTurns,                            \* WiiLights
  KeptModels, NewModel, MaxChanges                           \* ModelSetup
VARIABLES
  part,  \* the component this behaviour is of
  slot1, slot2, slot3, slot4, slot5, slot6, slot7, slot8, slot9, slot10,
  slot11, slot12, slot13, slot14, slot15, slot16, slot17, slot18, slot19,
  slot20, slot21, slot22, slot23

vars == <<part, slot1, slot2, slot3, slot4, slot5, slot6, slot7, slot8, slot9,
          slot10, slot11, slot12, slot13, slot14, slot15, slot16, slot17,
          slot18, slot19, slot20, slot21, slot22, slot23>>

(***************************************************************************)
(* The pictures for the image processing: the last line may have any       *)
(* pixels but its last, the one above it any but two; some of these are    *)
(* under an arch, too, and two pictures have a bright pixel at the end of  *)
(* a line.                                                                 *)
(***************************************************************************)
Inner == 0 .. Width - 2
Line(y, xs) == {<<x, y>> : x \in xs}
Arch == Line(0, Inner) \cup Line(1, {0, Width - 2})
Below(xs) == {Line(2, above) \cup Line(3, below) : above \in SUBSET xs, below \in SUBSET Inner}
Pictures ==
  Below(Inner \ {1}) \cup {Arch \cup below : below \in Below({0, 2, Width - 2})}
  \cup {Line(0, {Width - 1}), Arch \cup Line(1, {Width - 1})}
Sizes == {[min |-> 1, max |-> 20], [min |-> 2, max |-> 5]}

\* What an installer leaves: each file once, one of them twice, or the firmware only.
Installations ==
  {[fw |-> 1, data |-> 1, views |-> 1], [fw |-> 1, data |-> 2, views |-> 1],
   [fw |-> 1, data |-> 0, views |-> 0]}

\* The webcams: a camera with two formats, and one without, whose name is longer.
Begins == [c \in CameraNames |-> IF c = "cam" THEN CameraNames ELSE {c}]
Offers ==
  [c \in CameraNames |->
     IF c = "cam" THEN <<[code |-> "YUYV", res |-> <<"s", "l">>], [code |-> "MJPG", res |-> <<"l">>]>>
     ELSE <<>>]
\* A preference file of an older version: a format that is not offered, no resolution.
OldWebcam == [type |-> "Webcam", id |-> "cam"]
Files ==
  {[sections |-> (OldWebcam :> [code |-> "GREY", res |-> "no key"]), input |-> OldWebcam]}

\* The preferences of ltr_gui: new ones, and those of a version with fewer keys.
AxisKeys ==
  [enabled |-> 1, inverted |-> 0, mult |-> 2, llimit |-> 1, rlimit |-> 1, filter |-> 0]
Stored ==
  {[sections |-> (<<"Default">> :> [title |-> "Default", keys |-> k]), align |-> TRUE] :
     k \in {AxisKeys, [llimit |-> 2]}}
\* Exported profiles: one with limits that are equal, one with limits that are not.
Imports ==
  {[name |-> g, common |-> 1, val |-> [AxisKeys EXCEPT !.inverted = 1, !.llimit = l, !.rlimit = 2, !.filter = 1]] :
     g \in Games, l \in 1 .. 2}

\* Wine installations: what is found in LINUXTRACK_LIBS and below the prefix, whether the
\* file with the signatures and the DLL are there.
WineSystems ==
  {[libs |-> <<>>, prefix |-> FALSE, places |-> <<>>, poem |-> TRUE, dll |-> TRUE],
   [libs |-> <<"missing", "old">>, prefix |-> FALSE, places |-> <<>>, poem |-> TRUE, dll |-> TRUE],
   [libs |-> <<>>, prefix |-> TRUE, places |-> <<"missing", "full">>, poem |-> TRUE, dll |-> TRUE],
   [libs |-> <<>>, prefix |-> TRUE, places |-> <<"missing">>, poem |-> FALSE, dll |-> TRUE],
   [libs |-> <<"partial">>, prefix |-> TRUE, places |-> <<"full">>, poem |-> TRUE, dll |-> TRUE],
   [libs |-> <<>>, prefix |-> TRUE, places |-> <<"full">>, poem |-> TRUE, dll |-> FALSE]}
\* A game without a key, and two with keys.
WineGames ==
  ("plain" :> [table |-> <<>>]) @@ ("keyed" :> [table |-> <<1, 2>>])
  @@ ("keyed2" :> [table |-> <<3, 0>>])

\* The hot keys of the Wine controller at first: none, or one for two codes and one more.
WineKeys == {[pause |-> <<>>, recenter |-> <<>>], [pause |-> <<"a">>, recenter |-> <<"a", "b">>]}
\* Those of mickey: both buttons have a key.
MouseButtons == <<"l_mouse", "m_mouse">>
MouseKeys == {<<"a", TRUE>>, <<"b", TRUE>>}

\* The LEDs of a Wiimote in the preferences, one key missing; the models of the preferences.
WiiKept == {[run |-> {1, 4}, pause |-> {0}]}
ModelSections ==
  [cap |-> [type |-> "Cap", dims |-> 1], led |-> [type |-> "SinglePoint", dims |-> 1]]

(***************************************************************************)
(* The components.                                                         *)
(***************************************************************************)

\* Those with proofs are reached through the module with their proofs, whose theorems then
\* are about these slots.
Drv == INSTANCE DriverProofs WITH
  tirModel <- slot1, camera <- slot2, usb <- slot3, pc <- slot4,
  answer <- slot5, devStatus <- slot6, sn4Pipe <- slot7, irOn <- slot8,
  opens <- slot9,
  run <- slot1, status <- slot2, detector <- slot3, image <- slot4,
  untaken <- slot5, seen <- slot6, grabber <- slot7, uncopied <- slot8,
  images <- slot9, starts <- slot10,
  granted <- slot1, streaming <- slot2, queued <- slot3, full <- slot4,
  content <- slot5, written <- slot6, exposures <- slot7, wcStep <- slot8,
  taken <- slot9, bitmap <- slot10, handed <- slot11,
  current <- slot1, writeChecked <- slot2, readChecked <- slot3,
  buffers <- slot4, initBuffers <- slot5, resolution <- slot6, initing <- slot7,
  master <- slot8, target <- slot9, shots <- slot10, runs <- slot11,
  viewer <- slot12, lost <- slot13,
  family <- slot1, scanner <- slot2, transfer <- slot3, packetType <- slot4,
  currentLine <- slot5, collected <- slot6, blobList <- slot7,
  readState <- slot8, newRequest <- slot9, buttons <- slot10, cut <- slot11,
  pauses <- slot12,
  recenter <- slot1, initRecenter <- slot2, modelChanged <- slot3,
  single <- slot4, device <- slot5, centre <- slot6, pose <- slot7,
  poseCount <- slot8, last <- slot9, link <- slot10, comm <- slot11,
  client <- slot12, due <- slot13, requests <- slot14, inits <- slot15,
  plugged <- slot1, file <- slot2, prefs <- slot3, tir <- slot4, combo <- slot5,
  dialog <- slot6, info <- slot7, shown <- slot8, loaded <- slot9,
  behind <- slot10, strayed <- slot11, crashed <- slot12, presses <- slot13,
  cam <- slot4, ir_on <- slot5, last_threshold <- slot6, todo <- slot7,
  state <- slot8, untold <- slot9, ops <- slot10, events <- slot11,
  bright <- slot1, snapshot <- slot2, col <- slot3, row <- slot4, stage <- slot5,
  stripe <- slot6, turn <- slot7, rng <- slot8, stripes <- slot9,
  newStripes <- slot10, vline <- slot11, heap <- slot12, preblobs <- slot13,
  size <- slot14, blobs <- slot15

Dsk == INSTANCE DesktopProofs WITH
  memory <- slot1, changed <- slot2, disk <- slot3, saver <- slot4,
  stored <- slot5, crashes <- slot6,
  mouse <- slot1, dialog <- slot2, setup <- slot3, oldSetup <- slot4,
  newSetup <- slot5, sliders <- slot6, range <- slot7, prevRange <- slot8,
  guiRange <- slot9, calibrating <- slot10, asleep <- slot11, used <- slot12,
  outcome <- slot13, trials <- slot14,
  game <- slot1, shared <- slot2, instance <- slot3, hidden <- slot4,
  handles <- slot5, owner <- slot6, exclusive <- slot7, views <- slot8,
  lost <- slot9,
  plugin <- slot1, shown <- slot2, buttons <- slot3, mfcButtons <- slot4,
  download <- slot5, wine <- slot6, box <- slot7, stage <- slot8,
  contents <- slot9, destPath <- slot10, link <- slot11, thread <- slot12,
  queued <- slot13, twice <- slot14, presses <- slot15,
  models <- slot1, warned <- slot2, kept <- slot3, current <- slot4,
  listed <- slot5, tweaker <- slot6, mdlType <- slot7, devType <- slot8,
  announcing <- slot10, active <- slot11, why <- slot13, flag <- slot14,
  section <- slot15, pose <- slot16, recenter <- slot17,
  init_recenter <- slot18, centre <- slot19, behind <- slot20,
  model_changed <- slot21, slipped <- slot22, choices <- slot23,
  others <- slot3, filters <- slot4, handler <- slot5, hotKey <- slot6,
  settings <- slot7, shortcutHash <- slot8, down <- slot9, ctrl <- slot10,
  grabbed <- slot12, added <- slot13, prev_btns <- slot14, device <- slot15,
  clicker <- slot16, excused <- slot17, stale <- slot18, failed <- slot19,
  assigns <- slot20, strokes <- slot21,
  server_state <- slot1, inquiry <- slot2, state <- slot3, old_cmd <- slot4,
  opened <- slot5, channel <- slot6, connected_channels <- slot7,
  timers <- slot8, irOn <- slot9, mode <- slot10, polls <- slot11,
  held <- slot12, indicate <- slot13, command <- slot14, late <- slot16,
  missed <- slot17, refused <- slot18, pushes <- slot19, commands <- slot20,
  losses <- slot21,
  lights <- slot1, old <- slot2, boxes <- slot3, gui <- slot4, driver <- slot5,
  seen <- slot6, given <- slot7, indication <- slot8, cmd <- slot9,
  tracker <- slot10, leds <- slot12, torn <- slot13, unseen <- slot14,
  ticks <- slot15, turns <- slot16

Prg == INSTANCE ProgramProofs WITH
  program <- slot1, system <- slot2, lib_handle <- slot3, fun <- slot4,
  opened <- slot5, profile <- slot6, cmd <- slot7, counter <- slot8,
  pose <- slot9, crypted <- slot10, table <- slot11, game <- slot12,
  shown <- slot13, lost <- slot14, uses <- slot15,
  pc <- slot1, opts <- slot2, run <- slot3, recenter <- slot4,
  terminate <- slot5, fd <- slot6, polls <- slot7, pending <- slot8,
  lib <- slot9, asked <- slot10,
  runs <- slot1, held <- slot2, kbd_data <- slot3, code <- slot4,
  pause_code <- slot5, recenter_code <- slot6, state <- slot7, paused <- slot8,
  names <- slot9, registry <- slot10, tracking <- slot11, seen <- slot12,
  strokes <- slot13, clicks <- slot14,
  prefs <- slot1, file <- slot2, gui <- slot3, edits <- slot4, align <- slot5,
  slaves <- slot6, behind <- slot7, apart <- slot8,
  command <- slot1, points <- slot3, filled <- slot4,
  driver <- slot5, picture <- slot6, lastVal <- slot7, got <- slot2,
  copied <- slot9, delivered <- slot10, orders <- slot11, overruled <- slot12,
  window <- slot13, signals <- slot14, thread <- slot15, mode <- slot16,
  callback <- slot17, links <- slot18,
  order <- slot1, host <- slot2, tells <- slot3, forked <- slot4,
  camAt <- slot5, oldCmd <- slot6, capturing <- slot7, ring <- slot8,
  writer <- slot9, reader <- slot10, newFlag <- slot11, endFlag <- slot12,
  proc <- slot13, grabs <- slot14, done <- slot15,
  simView <- slot1, simHead <- slot2, simRoll <- slot3, pilotView <- slot4,
  active_flag <- slot5, pos_init_flag <- slot6, freeze <- slot7,
  initialized <- slot8, pv_present <- slot9, head_control_enable <- slot10,
  base <- slot11, currentHead <- slot12, library <- slot13, left <- slot14,
  commands <- slot15

ASSUME WiiAssumption       == Prg!Wii!PointsAssumption
ASSUME BufferingAssumption == Drv!Buf!BuffersAssumption
ASSUME PacketsAssumption   == Drv!Pkt!PacketAssumption
ASSUME QtCamAssumption     == Prg!Cam!RingAssumption
ASSUME StripesAssumption   == Drv!Str!PictureAssumption
ASSUME OpensAssumption     == Drv!Tir!OpensAssumption
ASSUME ImagesAssumption    == Drv!Face!ImagesAssumption
ASSUME StreamAssumption    == Drv!Web!StreamAssumption
ASSUME SettingsAssumption  == Dsk!Prf!SettingsAssumption
ASSUME PollsAssumption     == Prg!Pip!PollsAssumption
ASSUME ExtractorAssumption == Dsk!Ext!ExtractorAssumption
ASSUME DeviceAssumption    == Drv!Dev!DeviceAssumption
ASSUME ProfilesAssumption  == Prg!Pro!ProfilesAssumption
ASSUME ClientAssumption    == Prg!Cli!ClientAssumption
ASSUME KeysAssumption      == Prg!Key!KeysAssumption
ASSUME LightsAssumption    == Drv!Lit!LightsAssumption
ASSUME ShortcutsAssumption == Dsk!Hot!ShortcutsAssumption
ASSUME MacAssumption       == Dsk!Mac!MacAssumption
ASSUME LedsAssumption      == Dsk!Led!LightsAssumption
ASSUME ModelAssumption     == Dsk!Mod!ModelAssumption
ASSUME PlaneAssumption     == Prg!Pln!PlaneAssumption
ASSUME TrialsAssumption    == Dsk!Mou!TrialsAssumption
ASSUME FramesAssumption    == Drv!Rec!FramesAssumption

Unused == "unused"

\* The slots after the first n are not used by the part.
Spare6  == <<slot7, slot8, slot9, slot10, slot11, slot12, slot13, slot14,
              slot15, slot16, slot17, slot18, slot19, slot20, slot21,
              slot22, slot23>>
Spare9  == <<slot10, slot11, slot12, slot13, slot14, slot15, slot16,
              slot17, slot18, slot19, slot20, slot21, slot22, slot23>>
Spare10 == <<slot11, slot12, slot13, slot14, slot15, slot16, slot17,
              slot18, slot19, slot20, slot21, slot22, slot23>>
Spare11 == <<slot12, slot13, slot14, slot15, slot16, slot17, slot18,
              slot19, slot20, slot21, slot22, slot23>>
Spare12 == <<slot13, slot14, slot15, slot16, slot17, slot18, slot19,
              slot20, slot21, slot22, slot23>>
Spare13 == <<slot14, slot15, slot16, slot17, slot18, slot19, slot20,
              slot21, slot22, slot23>>
Spare14 == <<slot15, slot16, slot17, slot18, slot19, slot20, slot21,
              slot22, slot23>>
Spare15 == <<slot16, slot17, slot18, slot19, slot20, slot21, slot22, slot23>>
Spare16 == <<slot17, slot18, slot19, slot20, slot21, slot22, slot23>>
Spare18 == <<slot19, slot20, slot21, slot22, slot23>>
Spare21 == <<slot22, slot23>>

Init ==
  \/ /\ part = "wii" /\ Prg!Wii!Init
     /\ slot19 = Unused /\ slot20 = Unused /\ slot21 = Unused /\ slot22 = Unused
     /\ slot23 = Unused
  \/ /\ part = "face" /\ Drv!Face!Init
     /\ slot11 = Unused /\ slot12 = Unused /\ slot13 = Unused /\ slot14 = Unused
     /\ slot15 = Unused /\ slot16 = Unused /\ slot17 = Unused /\ slot18 = Unused
     /\ slot19 = Unused /\ slot20 = Unused /\ slot21 = Unused /\ slot22 = Unused
     /\ slot23 = Unused
  \/ /\ part = "view" /\ Drv!Buf!Init
     /\ slot14 = Unused /\ slot15 = Unused /\ slot16 = Unused /\ slot17 = Unused
     /\ slot18 = Unused /\ slot19 = Unused /\ slot20 = Unused /\ slot21 = Unused
     /\ slot22 = Unused /\ slot23 = Unused
  \/ /\ part = "qtcam" /\ Prg!Cam!Init
     /\ slot16 = Unused /\ slot17 = Unused /\ slot18 = Unused /\ slot19 = Unused
     /\ slot20 = Unused /\ slot21 = Unused /\ slot22 = Unused /\ slot23 = Unused
  \/ /\ part = "centre" /\ Drv!Rec!Init
     /\ slot16 = Unused /\ slot17 = Unused /\ slot18 = Unused /\ slot19 = Unused
     /\ slot20 = Unused /\ slot21 = Unused /\ slot22 = Unused /\ slot23 = Unused
  \/ /\ part = "stripes" /\ Drv!Str!Init
     /\ slot16 = Unused /\ slot17 = Unused /\ slot18 = Unused /\ slot19 = Unused
     /\ slot20 = Unused /\ slot21 = Unused /\ slot22 = Unused /\ slot23 = Unused
  \/ /\ part = "packets" /\ Drv!Pkt!Init
     /\ slot13 = Unused /\ slot14 = Unused /\ slot15 = Unused /\ slot16 = Unused
     /\ slot17 = Unused /\ slot18 = Unused /\ slot19 = Unused /\ slot20 = Unused
     /\ slot21 = Unused /\ slot22 = Unused /\ slot23 = Unused
  \/ /\ part = "tir" /\ Drv!Tir!Init
     /\ slot10 = Unused /\ slot11 = Unused /\ slot12 = Unused /\ slot13 = Unused
     /\ slot14 = Unused /\ slot15 = Unused /\ slot16 = Unused /\ slot17 = Unused
     /\ slot18 = Unused /\ slot19 = Unused /\ slot20 = Unused /\ slot21 = Unused
     /\ slot22 = Unused /\ slot23 = Unused
  \/ /\ part = "prefs" /\ Dsk!Prf!Init
     /\ slot7 = Unused /\ slot8 = Unused /\ slot9 = Unused /\ slot10 = Unused
     /\ slot11 = Unused /\ slot12 = Unused /\ slot13 = Unused /\ slot14 = Unused
     /\ slot15 = Unused /\ slot16 = Unused /\ slot17 = Unused /\ slot18 = Unused
     /\ slot19 = Unused /\ slot20 = Unused /\ slot21 = Unused /\ slot22 = Unused
     /\ slot23 = Unused
  \/ /\ part = "mickey" /\ Dsk!Mou!Init
     /\ slot15 = Unused /\ slot16 = Unused /\ slot17 = Unused /\ slot18 = Unused
     /\ slot19 = Unused /\ slot20 = Unused /\ slot21 = Unused /\ slot22 = Unused
     /\ slot23 = Unused
  \/ /\ part = "webcam" /\ Drv!Web!WebcamInit
     /\ slot12 = Unused /\ slot13 = Unused /\ slot14 = Unused /\ slot15 = Unused
     /\ slot16 = Unused /\ slot17 = Unused /\ slot18 = Unused /\ slot19 = Unused
     /\ slot20 = Unused /\ slot21 = Unused /\ slot22 = Unused /\ slot23 = Unused
  \/ /\ part = "pipe" /\ Prg!Pip!Init
     /\ slot11 = Unused /\ slot12 = Unused /\ slot13 = Unused /\ slot14 = Unused
     /\ slot15 = Unused /\ slot16 = Unused /\ slot17 = Unused /\ slot18 = Unused
     /\ slot19 = Unused /\ slot20 = Unused /\ slot21 = Unused /\ slot22 = Unused
     /\ slot23 = Unused
  \/ /\ part = "extractor" /\ Dsk!Ext!Init
     /\ slot16 = Unused /\ slot17 = Unused /\ slot18 = Unused /\ slot19 = Unused
     /\ slot20 = Unused /\ slot21 = Unused /\ slot22 = Unused /\ slot23 = Unused
  \/ /\ part = "devices" /\ Drv!Dev!Init
     /\ slot14 = Unused /\ slot15 = Unused /\ slot16 = Unused /\ slot17 = Unused
     /\ slot18 = Unused /\ slot19 = Unused /\ slot20 = Unused /\ slot21 = Unused
     /\ slot22 = Unused /\ slot23 = Unused
  \/ /\ part = "profiles" /\ Prg!Pro!Init
     /\ slot10 = Unused /\ slot11 = Unused /\ slot12 = Unused /\ slot13 = Unused
     /\ slot14 = Unused /\ slot15 = Unused /\ slot16 = Unused /\ slot17 = Unused
     /\ slot18 = Unused /\ slot19 = Unused /\ slot20 = Unused /\ slot21 = Unused
     /\ slot22 = Unused /\ slot23 = Unused
  \/ /\ part = "plane" /\ Prg!Pln!Init
     /\ slot16 = Unused /\ slot17 = Unused /\ slot18 = Unused /\ slot19 = Unused
     /\ slot20 = Unused /\ slot21 = Unused /\ slot22 = Unused /\ slot23 = Unused
  \/ /\ part = "wine" /\ Prg!Cli!Init
     /\ slot16 = Unused /\ slot17 = Unused /\ slot18 = Unused /\ slot19 = Unused
     /\ slot20 = Unused /\ slot21 = Unused /\ slot22 = Unused /\ slot23 = Unused
  \/ /\ part = "window" /\ Dsk!Win!Init
     /\ slot10 = Unused /\ slot11 = Unused /\ slot12 = Unused /\ slot13 = Unused
     /\ slot14 = Unused /\ slot15 = Unused /\ slot16 = Unused /\ slot17 = Unused
     /\ slot18 = Unused /\ slot19 = Unused /\ slot20 = Unused /\ slot21 = Unused
     /\ slot22 = Unused /\ slot23 = Unused
  \/ /\ part = "keys" /\ Prg!Key!Init
     /\ slot15 = Unused /\ slot16 = Unused /\ slot17 = Unused /\ slot18 = Unused
     /\ slot19 = Unused /\ slot20 = Unused /\ slot21 = Unused /\ slot22 = Unused
     /\ slot23 = Unused
  \/ /\ part = "lights" /\ Drv!Lit!Init
     /\ slot12 = Unused /\ slot13 = Unused /\ slot14 = Unused /\ slot15 = Unused
     /\ slot16 = Unused /\ slot17 = Unused /\ slot18 = Unused /\ slot19 = Unused
     /\ slot20 = Unused /\ slot21 = Unused /\ slot22 = Unused /\ slot23 = Unused
  \/ /\ part = "hotkeys" /\ Dsk!Hot!Init
     /\ slot22 = Unused /\ slot23 = Unused
  \/ /\ part = "mac" /\ Dsk!Mac!Init
     /\ slot22 = Unused /\ slot23 = Unused
  \/ /\ part = "leds" /\ Dsk!Led!Init
     /\ slot17 = Unused /\ slot18 = Unused /\ slot19 = Unused /\ slot20 = Unused
     /\ slot21 = Unused /\ slot22 = Unused /\ slot23 = Unused
  \/ /\ part = "model" /\ Dsk!Mod!Init

\* A step of the part p, with the slots that are not its.
Turn(p, Action, spare) == part = p /\ Action /\ UNCHANGED <<part, spare>>

WiiTurn(Action) == Turn("wii", Action, Spare18)
FaceTurn(Action) == Turn("face", Action, Spare10)
BufTurn(Action) == Turn("view", Action, Spare13)
CamTurn(Action) == Turn("qtcam", Action, Spare15)
RecTurn(Action) == Turn("centre", Action, Spare15)
StrTurn(Action) == Turn("stripes", Action, Spare15)
PktTurn(Action) == Turn("packets", Action, Spare12)
TirTurn(Action) == Turn("tir", Action, Spare9)
PrfTurn(Action) == Turn("prefs", Action, Spare6)
MouTurn(Action) == Turn("mickey", Action, Spare14)
WebTurn(Action) == Turn("webcam", Action, Spare11)
PipTurn(Action) == Turn("pipe", Action, Spare10)
ExtTurn(Action) == Turn("extractor", Action, Spare15)
DevTurn(Action) == Turn("devices", Action, Spare13)
ProTurn(Action) == Turn("profiles", Action, Spare9)
PlnTurn(Action) == Turn("plane", Action, Spare15)
CliTurn(Action) == Turn("wine", Action, Spare15)
WinTurn(Action) == Turn("window", Action, Spare9)
KeyTurn(Action) == Turn("keys", Action, Spare14)
LitTurn(Action) == Turn("lights", Action, Spare11)
HotTurn(Action) == Turn("hotkeys", Action, Spare21)
MacTurn(Action) == Turn("mac", Action, Spare21)
LedTurn(Action) == Turn("leds", Action, Spare16)
ModTurn(Action) == Turn("model", Action, <<>>)

Next ==
  \/ WiiTurn(Prg!Wii!WiiNext)
  \/ FaceTurn(Drv!Face!FaceNext)
  \/ BufTurn(Drv!Buf!BufNext)
  \/ CamTurn(Prg!Cam!CamNext)
  \/ RecTurn(Drv!Rec!RecNext)
  \/ StrTurn(Drv!Str!StripeNext)
  \/ PktTurn(Drv!Pkt!PacketNext)
  \/ TirTurn(Drv!Tir!TirNext)
  \/ PrfTurn(Dsk!Prf!PrefNext)
  \/ MouTurn(Dsk!Mou!MickeyNext)
  \/ WebTurn(Drv!Web!WebcamNext)
  \/ PipTurn(Prg!Pip!PipeNext)
  \/ ExtTurn(Dsk!Ext!ExtNext)
  \/ DevTurn(Drv!Dev!DeviceNext)
  \/ ProTurn(Prg!Pro!ProfileNext)
  \/ PlnTurn(Prg!Pln!PlaneNext)
  \/ CliTurn(Prg!Cli!ClientNext)
  \/ WinTurn(Dsk!Win!WindowNext)
  \/ KeyTurn(Prg!Key!KeyNext)
  \/ LitTurn(Drv!Lit!LightsNext)
  \/ HotTurn(Dsk!Hot!ShortcutsNext)
  \/ MacTurn(Dsk!Mac!MacNext)
  \/ LedTurn(Dsk!Led!LightsNext)
  \/ ModTurn(Dsk!Mod!ModelNext)

(***************************************************************************)
(* Fairness: the actions that the parts have to take.  The part never      *)
(* changes, so actions of different parts share a condition.  Of the       *)
(* threads of the same kind some one goes on, which is weaker than that    *)
(* each does, and enough as the bounds let none go on for ever.            *)
(***************************************************************************)
Goes ==
  \/ WiiTurn(Prg!Wii!WindowGoes)
  \/ FaceTurn(Drv!Face!Detector)
  \/ \E c \in 1 .. Children : CamTurn(Prg!Cam!CaptureGoes(c))
  \/ PktTurn(Drv!Pkt!ReaderStep)
  \/ PlnTurn(Prg!Pln!FlightLoop)
  \/ \E i \in Instances : WinTurn(Dsk!Win!InstanceGoes(i))
AlsoGoes ==
  \/ WiiTurn(Prg!Wii!ThreadEnds)
  \/ FaceTurn(Drv!Face!StopWakes \/ Drv!Face!StopJoins)
  \/ \E c \in 1 .. Children : CamTurn(Prg!Cam!ProcessGoes(c))
  \/ PktTurn(Drv!Pkt!NextTurn)

Spec == Init /\ [][Next]_vars /\ WF_vars(Goes) /\ WF_vars(AlsoGoes)

(***************************************************************************)
(* The properties are those of the components.                             *)
(***************************************************************************)

\* The variables of the part have their types.
TypeOK ==
  /\ part = "wii" => Prg!Wii!TypeOK
  /\ part = "face" => Drv!Face!TypeOK
  /\ part = "view" => Drv!Buf!TypeOK
  /\ part = "qtcam" => Prg!Cam!TypeOK
  /\ part = "centre" => Drv!Rec!TypeOK
  /\ part = "stripes" => Drv!Str!TypeOK
  /\ part = "packets" => Drv!Pkt!TypeOK
  /\ part = "tir" => Drv!Tir!TypeOK
  /\ part = "prefs" => Dsk!Prf!TypeOK
  /\ part = "mickey" => Dsk!Mou!TypeOK
  /\ part = "webcam" => Drv!Web!WebcamTypeOK
  /\ part = "pipe" => Prg!Pip!TypeOK
  /\ part = "extractor" => Dsk!Ext!TypeOK
  /\ part = "devices" => Drv!Dev!TypeOK
  /\ part = "profiles" => Prg!Pro!TypeOK
  /\ part = "plane" => Prg!Pln!TypeOK
  /\ part = "wine" => Prg!Cli!TypeOK
  /\ part = "window" => Dsk!Win!TypeOK
  /\ part = "keys" => Prg!Key!TypeOK
  /\ part = "lights" => Drv!Lit!TypeOK
  /\ part = "hotkeys" => Dsk!Hot!TypeOK
  /\ part = "mac" => Dsk!Mac!TypeOK
  /\ part = "leds" => Dsk!Led!TypeOK
  /\ part = "model" => Dsk!Mod!TypeOK

\* What is taken for an image is of one image: the picture of the Wiimote server
\* (com_proc.c, wii_com.c), what the face detector sees (facetrack.cpp), what is shown
\* (qt_gui/buffering.cpp), a frame of a TrackIR (tir_img.c), a converted webcam image
\* (webcam_driver.c).
ImagesAreWhole ==
  /\ part = "wii" => Prg!Wii!PictureIsWhole
  /\ part = "face" => Drv!Face!DetectorSeesOneImage
  /\ part = "view" => Drv!Buf!ShownIsWhole
  /\ part = "packets" => Drv!Pkt!FrameIsOneScan
  /\ part = "webcam" => Drv!Web!ConvertedIsOneExposure

\* A pose that counts is relative to the centre asked for (tracking.c).
CountedPoseIsCentred == part = "centre" => Drv!Rec!CountedPoseIsCentred

\* The blobs are the bright fields of the picture (image_process.c).
BlobsAreFieldsInside == part = "stripes" => Drv!Str!BlobsAreFieldsInside

\* A camera is started with its firmware (tir_hw.c).
StartedWithFirmware == part = "tir" => Drv!Tir!StartedWithFirmware

\* There is always a whole copy of the preferences (pref.cpp).
StoredCopyKept == part = "prefs" => Dsk!Prf!StoredCopyKept

\* A setup that is not kept is undone (mickey/mickey.cpp).
RevertRestores == part = "mickey" => Dsk!Mou!RevertRestores

\* ltr_pipe forgets no signal (ltr_pipe.c).
SignalsKept == part = "pipe" => Prg!Pip!SignalsKept

\* The firmware that is linked is complete (qt_gui/extractor.cpp).
LinkedIsComplete == part = "extractor" => Dsk!Ext!LinkedIsComplete

\* What is set for a device belongs to it (qt_gui/webcam_prefs.cpp).
SettingsBelong == part = "devices" => Drv!Dev!SettingsBelong

\* What is set or shown is what is in force: the hot keys of a game (wine_bridge/controller/rest.c) and of mickey (mickey/keyb_x11.cpp),
\* the LEDs of a TrackIR (tir_hw.c) and of a Wiimote (macwii_driver.c), the window of
\* the Wiimote server of macOS (mac/wiimote_server.m), the model (tracking.c).
ShownIsInForce ==
  /\ part = "keys" => Prg!Key!KeysAgree
  /\ part = "lights" => Drv!Lit!CameraObeys
  /\ part = "hotkeys" => Dsk!Hot!HotkeysWork /\ Dsk!Hot!ButtonsFollow
  /\ part = "mac" => Dsk!Mac!WindowAgrees
  /\ part = "leds" => Dsk!Led!LightsTell
  /\ part = "model" => Dsk!Mod!ModelInUse

\* A game sees the poses of its registration (wine_bridge/client/NPClient_main.c).
GameSeesPose == part = "wine" => Prg!Cli!GameSeesPose

\* No call goes to a function that is not there (linuxtrack.c).
CallsLand == part = "wine" => Prg!Cli!CallsLand

\* One TrackIR.exe serves the games (wine_bridge/views/main.cpp).
OneTrackIR == part = "window" => Dsk!Win!OneTrackIR

\* What ltr_gui shows of a profile is what it stores (axis.c), and a game has it
\* (qt_gui/tracker.cpp).
GamesFollow == part = "profiles" => Prg!Pro!StoredIsShown /\ Prg!Pro!GamesFollow

\* A report of the Wiimote is delivered once, and in order (com_proc.c); the images
\* of a camera program come in order (mac/buffer.c); to look at a device does not
\* change its settings (qt_gui/device_setup.cpp); a profile is imported whole, and
\* setting one changes no other (axis.c, qt_gui/profile_setup.cpp).
StepsKeep ==
  [][/\ part = "wii" => Prg!Wii!DeliversNewer
     /\ part = "qtcam" => Prg!Cam!LaterImage
     /\ part = "devices" => Drv!Dev!LookingKeeps
     /\ part = "profiles" => Prg!Pro!OthersUntouched /\ Prg!Pro!ImportIsWhole]_vars

\* A Wiimote that stays connected reports in the end (wii_server/wiimote.cpp); the
\* camera programs of a webcam that stays closed end (mac/processing.c); with no game
\* left no hidden TrackIR.exe stays (wine_bridge/views/main.cpp).
Settles ==
  <>[](\/ part = "wii" /\ Prg!Wii!Connected
       \/ part = "qtcam" /\ Prg!Cam!Closed
       \/ part = "window" /\ Dsk!Win!NoGames)
  => <>[](\/ part = "wii" /\ Prg!Wii!Reporting
          \/ part = "qtcam" /\ Prg!Cam!NoChildren
          \/ part = "window" /\ Dsk!Win!NoHidden)

\* A stop of the face detection returns (facetrack.cpp); a request to a TrackIR is
\* taken up (tir_img.c); a rolled view is levelled (xlinuxtrack9.c).
Answered ==
  (\/ part = "face" /\ Drv!Face!Stopping
   \/ part = "packets" /\ Drv!Pkt!RequestWaits
   \/ part = "plane" /\ Prg!Pln!Rolled)
  ~> (\/ part = "face" /\ Drv!Face!Stopped
      \/ part = "packets" /\ Drv!Pkt!TakenOrFailed
      \/ part = "plane" /\ Prg!Pln!Levelled)
==============================================================================
