----------------------------- MODULE DeviceSetup -----------------------------
(***************************************************************************)
(* The choice of the tracking device in ltr_gui: device_setup.cpp with the *)
(* dialogs of the devices (webcam_prefs.cpp, webcam_ft_prefs.cpp,          *)
(* tir_prefs.cpp, wiimote_prefs.cpp), the formats a webcam offers          *)
(* (webcam_info.cpp, webcam_driver.c), the settings the drivers keep       *)
(* (wc_driver_prefs.c) and the preferences they are written to.  A dialog  *)
(* writes to the section of the device that is active then, whichever      *)
(* device it was made for.                                                 *)
(*                                                                         *)
(* A section is known by its device, a resolution and its frame rate are   *)
(* one value, and of the other settings only is kept that they are set.    *)
(***************************************************************************)
EXTENDS Integers, Sequences

CONSTANTS
  CameraNames,  \* names of webcams
  FourCCs,      \* of formats
  FrameSizes,
  Begins,       \* which names begin with a name
  Offers,       \* the formats a camera offers, with their resolutions
  Files,        \* preference files to begin with
  MaxChoices    \* bound: what the user does

NoValue == "no key"
Unreadable == ""
Nothing == [type |-> "none", id |-> "none"]
Wiimote == [type |-> "Wiimote", id |-> "Wiimote"]
Tir == [type |-> "Tir", id |-> "Tir"]
Webcam(c) == [type |-> "Webcam", id |-> c]
Face(c) == [type |-> "Webcam-face", id |-> c]
Webcams == {Webcam(c) : c \in CameraNames} \cup {Face(c) : c \in CameraNames}
Devices == {Wiimote, Tir} \cup Webcams

\* WebcamInfo::WebcamInfo, getFourcc: for a camera without formats "YUYV" is shown
\* and its first character meant, with three resolutions of which one is there.
Fallback == <<[code |-> "Y", res |-> <<"160 x 120">>]>>
Offer(c) == IF c \in CameraNames /\ Offers[c] # <<>> THEN Offers[c] ELSE Fallback
Listed(c, f) ==
  IF c \in CameraNames /\ Offers[c] # <<>> THEN Len(Offers[c][f].res) ELSE 3

WebcamSettings ==
  [code : FourCCs \cup {NoValue, Unreadable}, res : FrameSizes \cup {NoValue, Unreadable}]
NoSettings == [code |-> NoValue, res |-> NoValue]

\* Preferences: sections of some devices, and the device that is the input
PrefsOK(p) ==
  /\ DOMAIN p.sections \subseteq Devices
  /\ p \in [sections : [DOMAIN p.sections -> WebcamSettings], input : Devices \cup {Nothing}]

Formats == [code : FourCCs, res : Seq(FrameSizes) \ {<<>>}]

DeviceAssumption ==
  /\ MaxChoices \in Nat /\ NoValue \notin CameraNames
  /\ \A c \in CameraNames :
       /\ c \in Begins[c] /\ Begins[c] \subseteq CameraNames
       /\ Offers[c] \in Seq(Formats)
  /\ Fallback \in Seq(Formats)
  /\ \A f \in Files : PrefsOK(f) /\ f.input \in DOMAIN f.sections \cup {Nothing}

VARIABLES
  prefs,    \* the preferences: sections of devices, and which one is the input
  file,     \* those that are stored
  plugged,  \* webcams that are there
  tir,      \* a TrackIR is there and may be used
  combo,    \* the devices offered
  dialog,   \* the device the dialog is for
  info,     \* the camera whose formats it shows
  shown,    \* the format and the resolution it shows
  loaded,   \* statics of wc_driver_prefs.c
  behind,   \* history: preferences were read again behind the dialog
  strayed,  \* history: the dialog was used then
  crashed,  \* the program has ended in an error
  presses

deviceVars ==
  <<prefs, file, plugged, tir, combo, dialog, info, shown, loaded, behind, strayed,
    crashed, presses>>

TypeOK ==
  /\ PrefsOK(prefs) /\ PrefsOK(file)
  /\ plugged \subseteq CameraNames /\ tir \in BOOLEAN
  /\ combo \subseteq Devices /\ dialog \in combo \cup {Nothing}
  /\ info \in CameraNames \cup {NoValue}
  /\ shown.fmt \in 1 .. Len(Offer(info)) /\ shown.res \in 1 .. Listed(info, shown.fmt)
  /\ loaded \in WebcamSettings
  /\ behind \in BOOLEAN /\ strayed \in BOOLEAN /\ crashed \in BOOLEAN
  /\ presses \in 0 .. MaxChoices

Default == [sections |-> [d \in {Wiimote, Tir} |-> NoSettings], input |-> Nothing]

Init ==
  /\ file \in Files \cup {Default} /\ prefs = file
  /\ plugged \in SUBSET CameraNames /\ tir \in BOOLEAN
  /\ combo = {} /\ dialog = Nothing /\ info = NoValue /\ shown = [fmt |-> 1, res |-> 1]
  /\ loaded = NoSettings
  /\ behind = FALSE /\ strayed = FALSE /\ crashed = FALSE /\ presses = 0

Press == ~crashed /\ presses < MaxChoices /\ presses' = presses + 1

------------------------------------------------------------------------------
(* Formats *)

FirstOr1(S) == IF S = {} THEN 1 ELSE CHOOSE i \in S : \A j \in S : i <= j

\* findFourcc, findRes: the first that fits, or the first
FindCode(c, code) == FirstOr1({f \in DOMAIN Offer(c) : Offer(c)[f].code = code})
FindRes(c, f, res) ==
  FirstOr1({r \in DOMAIN Offer(c)[f].res : Offer(c)[f].res[r] = res})

\* findFmtSpecs
Spec(c, f, r) == [code |-> Offer(c)[f].code, res |-> Offer(c)[f].res[r]]

\* on_WebcamFormats_activated: the resolution is kept when the format has it.
ResFor(c, f, settings) ==
  IF settings.res = Unreadable THEN 1 ELSE FindRes(c, f, settings.res)

\* ltr_int_wc_init_prefs: a resolution that is missing leaves the one from before.
Loaded(settings) ==
  [settings EXCEPT !.res = IF settings.res = NoValue THEN loaded.res ELSE settings.res]

\* is_our_webcam, WebcamInfo::WebcamInfo: the camera is any whose name begins with
\* the one looked for.  If it is gone, what is read is not initialized.
Found(id) == plugged \cap Begins[id]

------------------------------------------------------------------------------
(* The dialogs *)

\* getFirstDeviceSection
HasSection(p, d) == d \in DOMAIN p.sections

\* createSection
Extended(sections, d, fresh) ==
  [e \in DOMAIN sections \cup {d} |-> IF e \in DOMAIN sections THEN sections[e] ELSE fresh]

\* Seeded fault: only a section that is made becomes the input.
ActivatedIfNew(p, d, fresh) ==
  IF HasSection(p, d) THEN p
  ELSE [sections |-> Extended(p.sections, d, fresh), input |-> d]

\* Activate for the device d, with the preferences p: the section of the device is
\* made the input, one that is not there is made.
Activated(p, d, fresh) ==
  [sections |-> Extended(p.sections, d, fresh), input |-> d]

Empty == [code |-> Unreadable, res |-> Unreadable]

\* Seeded fault: what is shown is written, as if the user had chosen it.
ShowsAndWrites(p, d, c) ==
  LET now == Activated(p, d, Empty)
      set == Loaded(now.sections[d])
      f == FindCode(c, set.code)
      r == ResFor(c, f, set)
  IN /\ info' = c /\ shown' = [fmt |-> f, res |-> r]
     /\ prefs' = [now EXCEPT !.sections[d] = Spec(c, f, r)] /\ loaded' = Spec(c, f, r)

\* Activate of a webcam, with the formats of the camera c: of a section that was
\* made, what is shown first is written.
Shows(p, d, c) ==
  LET now == Activated(p, d, Empty)
      new == ~HasSection(p, d)
      set == Loaded(now.sections[d])
      f == FindCode(c, set.code)
      r == ResFor(c, f, set)
  IN /\ info' = c /\ shown' = [fmt |-> f, res |-> r]
     /\ prefs' = IF new THEN [now EXCEPT !.sections[d] = Spec(c, f, r)] ELSE now
     /\ loaded' = IF new THEN Spec(c, f, r) ELSE set

\* WebcamPrefs::Activate
OpenWebcam(p, d) ==
  /\ d \in Webcams
  /\ \/ \E c \in Found(d.id) : Shows(p, d, c) /\ crashed' = FALSE
     \/ Found(d.id) = {} /\ Shows(p, d, NoValue) /\ crashed' \in BOOLEAN

\* WebcamFtPrefs::Activate: a cascade that is not there is replaced, too.
OpenFace(p, d) == d.type = "Webcam-face" /\ OpenWebcam(p, d)

\* TirPrefs::Activate
OpenTir(p, d) ==
  /\ d \in {Tir, Wiimote}
  /\ prefs' = Activated(p, d, NoSettings)
  /\ loaded' = [loaded EXCEPT !.code = NoValue]
  /\ crashed' = FALSE /\ UNCHANGED <<info, shown>>

\* WiimotePrefs::Activate
OpenWiimote(p, d) == d = Wiimote /\ OpenTir(p, d)

\* on_DeviceSelector_activated: the dialog that was there is gone before.
Open(p, d) ==
  /\ dialog' = d /\ behind' = FALSE
  /\ \/ d.type = "Webcam" /\ OpenWebcam(p, d)
     \/ OpenFace(p, d)
     \/ d = Tir /\ OpenTir(p, d)
     \/ OpenWiimote(p, d)

\* on_DeviceSelector_activated
PickDevice ==
  /\ Press /\ \E d \in combo : Open(prefs, d)
  /\ UNCHANGED <<file, plugged, tir, combo, strayed>>

\* ltr_int_enum_webcams: one camera that cannot be opened hides all of them.
Enumerated == {plugged, {}}

\* AddAvailableDevices of the dialogs
WiimotesToAdd == {Wiimote}
TirsToAdd == IF tir THEN {Tir} ELSE {}
WebcamsToAdd(found) == {Webcam(c) : c \in found}
FacesToAdd(found) == {Face(c) : c \in found}

\* getActiveDevice: the device of the preferences is taken when it is there, or the
\* first one, which is the Wiimote.
Preferred(p) == IF p.input \in combo' THEN p.input ELSE Wiimote

\* refresh
Refreshed(p) ==
  \E f \in Enumerated, w \in Enumerated :
    /\ combo' = WiimotesToAdd \cup TirsToAdd \cup FacesToAdd(f) \cup WebcamsToAdd(w)
    /\ Open(p, Preferred(p))

\* DeviceSetup::DeviceSetup, on_RefreshDevices_pressed
Refresh ==
  /\ Press /\ Refreshed(prefs)
  /\ UNCHANGED <<file, plugged, tir, strayed>>

------------------------------------------------------------------------------
(* What is set in a dialog *)

\* It goes to the section that is the input; when there is none the program ends.
Store(settings) ==
  /\ strayed' = (strayed \/ behind)
  /\ IF prefs.input = Nothing
     THEN crashed' = TRUE /\ UNCHANGED <<prefs, loaded>>
     ELSE /\ loaded' = settings /\ crashed' = FALSE
          /\ prefs' = [prefs EXCEPT !.sections[prefs.input] = settings]

\* on_WebcamFormats_activated
SelectFormat ==
  /\ Press /\ dialog \in Webcams
  /\ \E f \in DOMAIN Offer(info) :
       LET r == ResFor(info, f, loaded)
       IN shown' = [fmt |-> f, res |-> r] /\ Store(Spec(info, f, r))
  /\ UNCHANGED <<file, plugged, tir, combo, dialog, info, behind>>

\* on_WebcamResolutions_activated: a resolution that is listed and not there is
\* outside the list.
SelectResolution ==
  /\ Press /\ dialog \in Webcams
  /\ \E r \in 1 .. Listed(info, shown.fmt) :
       /\ shown' = [shown EXCEPT !.res = r]
       /\ IF r \in DOMAIN Offer(info)[shown.fmt].res
          THEN Store(Spec(info, shown.fmt, r))
          ELSE crashed' = TRUE /\ UNCHANGED <<prefs, loaded, strayed>>
  /\ UNCHANGED <<file, plugged, tir, combo, dialog, info, behind>>

\* The other values a dialog has
Tune ==
  /\ Press
  /\ crashed' = (prefs.input = Nothing) /\ strayed' = (strayed \/ behind)
  /\ UNCHANGED <<prefs, file, plugged, tir, combo, dialog, info, shown, loaded, behind>>

TuneWebcam  == dialog.type = "Webcam" /\ Tune       \* threshold, sizes of blobs
TuneFace    == dialog.type = "Webcam-face" /\ Tune  \* cascade, filter, optimization
TuneTir     == dialog.type = "Tir" /\ Tune          \* threshold, blobs, lights
TuneWiimote == dialog.type = "Wiimote" /\ Tune      \* lights

------------------------------------------------------------------------------
(* The preferences as a whole *)

\* on_SaveButton_pressed
Save ==
  /\ Press /\ file' = prefs
  /\ UNCHANGED <<prefs, plugged, tir, combo, dialog, info, shown, loaded, behind, strayed, crashed>>

\* on_DiscardChangesButton_pressed, rereadPrefs: the dialog stays (initialized is
\* never set).
Discard ==
  /\ Press /\ prefs' = file /\ behind' = (file.input # dialog)
  /\ UNCHANGED <<file, plugged, tir, combo, dialog, info, shown, loaded, strayed, crashed>>

\* on_DefaultsButton_pressed
Defaults ==
  /\ Press /\ file' = Default /\ Refreshed(Default)
  /\ UNCHANGED <<plugged, tir, strayed>>

\* read_pref_format: the driver reads what is stored for the input, into the same
\* statics; a format that is missing there leaves a pointer to the freed one.
DriverReads ==
  /\ ~crashed /\ prefs.input \in Webcams
  /\ loaded' = Loaded(prefs.sections[prefs.input])
  /\ crashed' \in {FALSE, loaded'.code = NoValue /\ loaded.code # NoValue}
  /\ UNCHANGED <<prefs, file, plugged, tir, combo, dialog, info, shown, behind, strayed,
                 presses>>

\* The user plugs and unplugs devices.
Plug ==
  /\ Press /\ plugged' \in SUBSET CameraNames /\ tir' \in BOOLEAN
  /\ UNCHANGED <<prefs, file, combo, dialog, info, shown, loaded, behind, strayed, crashed>>

DeviceNext ==
  \/ Refresh \/ PickDevice \/ SelectFormat \/ SelectResolution
  \/ TuneWebcam \/ TuneFace \/ TuneTir \/ TuneWiimote
  \/ Save \/ Discard \/ Defaults \/ DriverReads \/ Plug

DeviceSpec == Init /\ [][DeviceNext]_deviceVars

------------------------------------------------------------------------------
\* What the user sets is set for the device whose dialog is shown, and a format is
\* stored only with a camera that offers it (or came with the file, or is that of a
\* camera that was gone), unless preferences were read again behind the dialog
\* (webcam_prefs.cpp:45-62, wc_driver_prefs.c:166-174, ltr_gui.cpp:215-221).
Offered(d, settings) ==
  \/ settings = Spec(NoValue, 1, 1)
  \/ \E f \in Files : d \in DOMAIN f.sections /\ settings = f.sections[d]
  \/ \E c \in Begins[d.id] : \E f \in DOMAIN Offer(c) : \E r \in DOMAIN Offer(c)[f].res :
       settings = Spec(c, f, r)

SettingsBelong ==
  /\ dialog # Nothing /\ ~behind => prefs.input = dialog
  /\ ~strayed => \A d \in DOMAIN prefs.sections \cap Webcams : Offered(d, prefs.sections[d])

\* To look at a device changes nothing that was set for it (the flag initializing).
LookingKeeps ==
  PickDevice \/ Refresh =>
    \A d \in DOMAIN prefs.sections : prefs'.sections[d] = prefs.sections[d]
================================================================================
