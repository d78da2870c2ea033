---------------------------- MODULE HandoverProofs ----------------------------
(***************************************************************************)
(* What is proved of a component holds of the behaviours of MCHandovers    *)
(* that are of this component, for all values of the constants: the part   *)
(* never changes, its first state is one of the component, and so is each  *)
(* of its steps, in the slots the component is given.                      *)
(***************************************************************************)
EXTENDS MCHandovers, TLAPS

\* A behaviour begins with the first state of its part.
LEMMA InitOfPart ==
  Init =>
    /\ part = "tir" => Drv!Tir!Init
    /\ part = "prefs" => Dsk!Prf!Init
    /\ part = "centre" => Drv!Rec!Init
    /\ part = "devices" => Drv!Dev!Init
    /\ part = "webcam" => Drv!Web!WebcamInit
    /\ part = "packets" => Drv!Pkt!Init
    /\ part = "view" => Drv!Buf!Init
    /\ part = "face" => Drv!Face!Init
    /\ part = "wii" => Prg!Wii!Init
    /\ part = "pipe" => Prg!Pip!Init
    /\ part = "wine" => Prg!Cli!Init
    /\ part = "mickey" => Dsk!Mou!Init
    /\ part = "window" => Dsk!Win!Init
    /\ part = "extractor" => Dsk!Ext!Init
    /\ part = "keys" => Prg!Key!Init
    /\ part = "lights" => Drv!Lit!Init
    /\ part = "hotkeys" => Dsk!Hot!Init
    /\ part = "mac" => Dsk!Mac!Init
    /\ part = "leds" => Dsk!Led!Init
    /\ part = "model" => Dsk!Mod!Init
    /\ part = "profiles" => Prg!Pro!Init
    /\ part = "qtcam" => Prg!Cam!Init
    /\ part = "stripes" => Drv!Str!Init
    /\ part = "plane" => Prg!Pln!Init
BY Zenon DEF Init

\* A behaviour stays with its part, whose steps are those of the component.
LEMMA StepOfPart ==
  [Next]_vars =>
    /\ \A p : part = p => part' = p
    /\ part = "tir" => [Drv!Tir!TirNext]_(Drv!Tir!hwVars)
    /\ part = "prefs" => [Dsk!Prf!PrefNext]_(Dsk!Prf!prefVars)
    /\ part = "centre" => [Drv!Rec!RecNext]_(Drv!Rec!recVars)
    /\ part = "devices" => [Drv!Dev!DeviceNext]_(Drv!Dev!deviceVars)
    /\ part = "webcam" => [Drv!Web!WebcamNext]_(Drv!Web!webcamVars)
    /\ part = "packets" => [Drv!Pkt!PacketNext]_(Drv!Pkt!packetVars)
    /\ part = "view" => [Drv!Buf!BufNext]_(Drv!Buf!bufVars)
    /\ part = "face" => [Drv!Face!FaceNext]_(Drv!Face!faceVars)
    /\ part = "wii" => [Prg!Wii!WiiNext]_(Prg!Wii!wiiVars)
    /\ part = "pipe" => [Prg!Pip!PipeNext]_(Prg!Pip!pipeVars)
    /\ part = "wine" => [Prg!Cli!ClientNext]_(Prg!Cli!clientVars)
    /\ part = "mickey" => [Dsk!Mou!MickeyNext]_(Dsk!Mou!mickeyVars)
    /\ part = "window" => [Dsk!Win!WindowNext]_(Dsk!Win!windowVars)
    /\ part = "extractor" => [Dsk!Ext!ExtNext]_(Dsk!Ext!extVars)
    /\ part = "keys" => [Prg!Key!KeyNext]_(Prg!Key!keyVars)
    /\ part = "lights" => [Drv!Lit!LightsNext]_(Drv!Lit!lightVars)
    /\ part = "hotkeys" => [Dsk!Hot!ShortcutsNext]_(Dsk!Hot!shortcutVars)
    /\ part = "mac" => [Dsk!Mac!MacNext]_(Dsk!Mac!macVars)
    /\ part = "leds" => [Dsk!Led!LightsNext]_(Dsk!Led!lightsVars)
    /\ part = "model" => [Dsk!Mod!ModelNext]_(Dsk!Mod!modelVars)
    /\ part = "profiles" => [Prg!Pro!ProfileNext]_(Prg!Pro!profileVars)
    /\ part = "qtcam" => [Prg!Cam!CamNext]_(Prg!Cam!camVars)
    /\ part = "stripes" => [Drv!Str!StripeNext]_(Drv!Str!stripeVars)
    /\ part = "plane" => [Prg!Pln!PlaneNext]_(Prg!Pln!planeVars)
<1>1. CASE UNCHANGED vars
  <2>1. UNCHANGED <<Drv!Tir!hwVars, Drv!Face!faceVars, Drv!Buf!bufVars, Drv!Pkt!packetVars>>
    BY <1>1 DEF vars, Drv!Tir!hwVars, Drv!Face!faceVars, Drv!Face!grabs, Drv!Buf!bufVars,
                Drv!Pkt!packetVars
  <2>2. UNCHANGED <<Drv!Web!webcamVars, Prg!Wii!wiiVars>>
    BY <1>1 DEF vars, Drv!Web!webcamVars, Drv!Web!kernelVars, Prg!Wii!wiiVars, Prg!Wii!shared,
                Prg!Wii!master, Prg!Wii!server
  <2>3. UNCHANGED <<Dsk!Prf!prefVars, Dsk!Mou!mickeyVars, Dsk!Win!windowVars, Dsk!Ext!extVars>>
    BY <1>1 DEF vars, Dsk!Prf!prefVars, Dsk!Mou!mickeyVars, Dsk!Win!windowVars, Dsk!Ext!extVars
  <2>4. UNCHANGED <<Prg!Pip!pipeVars, Prg!Cli!clientVars, Drv!Rec!recVars, Drv!Dev!deviceVars>>
    BY <1>1 DEF vars, Prg!Pip!pipeVars, Prg!Cli!clientVars, Drv!Rec!recVars, Drv!Dev!deviceVars
  <2>5. UNCHANGED <<Prg!Key!keyVars, Drv!Lit!lightVars, Dsk!Led!lightsVars>>
    BY <1>1 DEF vars, Prg!Key!keyVars, Drv!Lit!lightVars, Dsk!Led!lightsVars
  <2>6. UNCHANGED <<Dsk!Hot!shortcutVars, Dsk!Mac!macVars, Dsk!Mod!modelVars, Prg!Pro!profileVars>>
    BY <1>1 DEF vars, Dsk!Hot!shortcutVars, Dsk!Mac!macVars, Dsk!Mod!modelVars, Prg!Pro!profileVars
  <2>7. UNCHANGED <<Prg!Cam!camVars, Drv!Str!stripeVars, Prg!Pln!planeVars, part>>
    BY <1>1 DEF vars, Prg!Cam!camVars, Prg!Cam!loop, Prg!Cam!passing, Drv!Str!stripeVars,
                Prg!Pln!planeVars, Prg!Pln!simulator, Prg!Pln!settings
  <2> QED
    BY <2>1, <2>2, <2>3, <2>4, <2>5, <2>6, <2>7
<1>2. ASSUME Next
      PROVE  /\ \A p : part = p => part' = p
             /\ part = "tir" => Drv!Tir!TirNext
             /\ part = "prefs" => Dsk!Prf!PrefNext
             /\ part = "centre" => Drv!Rec!RecNext
             /\ part = "devices" => Drv!Dev!DeviceNext
             /\ part = "webcam" => Drv!Web!WebcamNext
             /\ part = "packets" => Drv!Pkt!PacketNext
             /\ part = "view" => Drv!Buf!BufNext
             /\ part = "face" => Drv!Face!FaceNext
             /\ part = "wii" => Prg!Wii!WiiNext
             /\ part = "pipe" => Prg!Pip!PipeNext
             /\ part = "wine" => Prg!Cli!ClientNext
             /\ part = "mickey" => Dsk!Mou!MickeyNext
             /\ part = "window" => Dsk!Win!WindowNext
             /\ part = "extractor" => Dsk!Ext!ExtNext
             /\ part = "keys" => Prg!Key!KeyNext
             /\ part = "lights" => Drv!Lit!LightsNext
             /\ part = "hotkeys" => Dsk!Hot!ShortcutsNext
             /\ part = "mac" => Dsk!Mac!MacNext
             /\ part = "leds" => Dsk!Led!LightsNext
             /\ part = "model" => Dsk!Mod!ModelNext
             /\ part = "profiles" => Prg!Pro!ProfileNext
             /\ part = "qtcam" => Prg!Cam!CamNext
             /\ part = "stripes" => Drv!Str!StripeNext
             /\ part = "plane" => Prg!Pln!PlaneNext
  BY <1>2, Zenon
     DEF Next, Turn, WiiTurn, FaceTurn, BufTurn, CamTurn, RecTurn, StrTurn, PktTurn, TirTurn,
         PrfTurn, MouTurn, WebTurn, PipTurn, ExtTurn, DevTurn, ProTurn, PlnTurn, CliTurn,
         WinTurn, KeyTurn, LitTurn, HotTurn, MacTurn, LedTurn, ModTurn
<1> QED
  BY <1>1, <1>2

\* A TrackIR is started with its firmware (tir_hw.c), for any number of openings, failures
\* and answers left over.
THEOREM StartsWithFirmware == Spec => []StartedWithFirmware
<1> DEFINE Mine == part = "tir"
<1>1. Init => (Mine => Drv!Tir!Init)
  BY InitOfPart
<1>2. [Next]_vars => (Mine => Mine' /\ [Drv!Tir!TirNext]_(Drv!Tir!hwVars)) /\ (~Mine => ~Mine')
  BY StepOfPart
<1>3. Drv!Tir!TirSpec => []Drv!Tir!StartedWithFirmware
  BY OpensAssumption, Drv!RunsWithFirmware
<1>4. StartedWithFirmware <=> (Mine => Drv!Tir!StartedWithFirmware)
  BY DEF StartedWithFirmware
<1> HIDE DEF Mine
<1> QED
  BY <1>1, <1>2, <1>3, <1>4, PTL DEF Spec, Drv!Tir!TirSpec

\* The blobs of a picture are its fields of bright pixels of the size asked for, each once and
\* with the number of its pixels, all while there is room (image_process.c), for any size
\* of the picture and any of its pictures whose last column is dark.
THEOREM BlobsAreTheFields == Spec => []BlobsAreFieldsInside
<1> DEFINE Mine == part = "stripes"
<1>1. Init => (Mine => Drv!Str!Init)
  BY InitOfPart
<1>2. [Next]_vars => (Mine => Mine' /\ [Drv!Str!StripeNext]_(Drv!Str!stripeVars)) /\ (~Mine => ~Mine')
  BY StepOfPart
<1>3. Drv!Str!StripeSpec => []Drv!Str!BlobsAreFieldsInside
  <2>1. Drv!Str!StripeSpec => [](Drv!StrInv /\ Drv!Str!BlobsAreFieldsInside)
    BY StripesAssumption, Drv!StrInvariance
  <2> QED
    BY <2>1, PTL
<1>4. BlobsAreFieldsInside <=> (Mine => Drv!Str!BlobsAreFieldsInside)
  BY DEF BlobsAreFieldsInside
<1> HIDE DEF Mine
<1> QED
  BY <1>1, <1>2, <1>3, <1>4, PTL DEF Spec, Drv!Str!StripeSpec

\* The preferences stored last are whole in a file at every step of a save (pref.cpp), for
\* any settings and any number of crashes.
THEOREM StoredCopySurvives == Spec => []StoredCopyKept
<1> DEFINE Mine == part = "prefs"
<1>1. Init => (Mine => Dsk!Prf!Init)
  BY InitOfPart
<1>2. [Next]_vars => (Mine => Mine' /\ [Dsk!Prf!PrefNext]_(Dsk!Prf!prefVars)) /\ (~Mine => ~Mine')
  BY StepOfPart
<1>3. Dsk!Prf!PrefSpec => []Dsk!Prf!StoredCopyKept
  BY SettingsAssumption, Dsk!StoredCopySurvives
<1>4. StoredCopyKept <=> (Mine => Dsk!Prf!StoredCopyKept)
  BY DEF StoredCopyKept
<1> HIDE DEF Mine
<1> QED
  BY <1>1, <1>2, <1>3, <1>4, PTL DEF Spec, Dsk!Prf!PrefSpec

\* A trial of settings that is reverted leaves those in use before it (mickey.cpp), for any
\* setups, ranges and dialogs.
THEOREM RevertGoesBack == Spec => []RevertRestores
<1> DEFINE Mine == part = "mickey"
<1>1. Init => (Mine => Dsk!Mou!Init)
  BY InitOfPart
<1>2. [Next]_vars => (Mine => Mine' /\ [Dsk!Mou!MickeyNext]_(Dsk!Mou!mickeyVars)) /\ (~Mine => ~Mine')
  BY StepOfPart
<1>3. Dsk!Mou!MickeySpec => []Dsk!Mou!RevertRestores
  BY Dsk!RevertGoesBack
<1>4. RevertRestores <=> (Mine => Dsk!Mou!RevertRestores)
  BY DEF RevertRestores
<1> HIDE DEF Mine
<1> QED
  BY <1>1, <1>2, <1>3, <1>4, PTL DEF Spec, Dsk!Mou!MickeySpec

\* What tir_firmware is linked to has everything that is needed (extractor.cpp), for any
\* installations, directories and presses.
THEOREM LinkedHasAll == Spec => []LinkedIsComplete
<1> DEFINE Mine == part = "extractor"
<1>1. Init => (Mine => Dsk!Ext!Init)
  BY InitOfPart
<1>2. [Next]_vars => (Mine => Mine' /\ [Dsk!Ext!ExtNext]_(Dsk!Ext!extVars)) /\ (~Mine => ~Mine')
  BY StepOfPart
<1>3. Dsk!Ext!ExtSpec => []Dsk!Ext!LinkedIsComplete
  BY ExtractorAssumption, Dsk!LinkedHasAll
<1>4. LinkedIsComplete <=> (Mine => Dsk!Ext!LinkedIsComplete)
  BY DEF LinkedIsComplete
<1> HIDE DEF Mine
<1> QED
  BY <1>1, <1>2, <1>3, <1>4, PTL DEF Spec, Dsk!Ext!ExtSpec

\* One TrackIR.exe has a window, and a game that runs has one that serves it
\* (views/main.cpp), for any number of games and processes.
THEOREM OneTrackIRServes == Spec => []OneTrackIR
<1> DEFINE Mine == part = "window"
<1>1. Init => (Mine => Dsk!Win!Init)
  BY InitOfPart
<1>2. [Next]_vars => (Mine => Mine' /\ [Dsk!Win!WindowNext]_(Dsk!Win!windowVars)) /\ (~Mine => ~Mine')
  BY StepOfPart
<1>3. Dsk!Win!Init /\ [][Dsk!Win!WindowNext]_(Dsk!Win!windowVars) => []Dsk!Win!OneTrackIR
  BY Dsk!OneTrackIRServes
<1>4. OneTrackIR <=> (Mine => Dsk!Win!OneTrackIR)
  BY DEF OneTrackIR
<1> HIDE DEF Mine
<1> QED
  BY <1>1, <1>2, <1>3, <1>4, PTL DEF Spec

\* A program with the loader calls no function that is not there (linuxtrack.c), but for
\* those CallsLand names, for any installations and calls.
THEOREM CallsAreTaken == Spec => []CallsLand
<1> DEFINE Mine == part = "wine"
<1>1. Init => (Mine => Prg!Cli!Init)
  BY InitOfPart
<1>2. [Next]_vars => (Mine => Mine' /\ [Prg!Cli!ClientNext]_(Prg!Cli!clientVars)) /\ (~Mine => ~Mine')
  BY StepOfPart
<1>3. Prg!Cli!ClientSpec => []Prg!Cli!CallsLand
  BY ClientAssumption, Prg!CallsLand
<1>4. CallsLand <=> (Mine => Prg!Cli!CallsLand)
  BY DEF CallsLand
<1> HIDE DEF Mine
<1> QED
  BY <1>1, <1>2, <1>3, <1>4, PTL DEF Spec, Prg!Cli!ClientSpec

\* A game over NPClient reads the poses the library gave, whatever the tables
\* (NPClient_main.c, npifc.c).
THEOREM GamesSeePoses == Spec => []GameSeesPose
<1> DEFINE Mine == part = "wine"
<1>1. Init => (Mine => Prg!Cli!Init)
  BY InitOfPart
<1>2. [Next]_vars => (Mine => Mine' /\ [Prg!Cli!ClientNext]_(Prg!Cli!clientVars)) /\ (~Mine => ~Mine')
  BY StepOfPart
<1>3. Prg!Cli!ClientSpec => []Prg!Cli!GameSeesPose
  BY ClientAssumption, Prg!GameSeesPose
<1>4. GameSeesPose <=> (Mine => Prg!Cli!GameSeesPose)
  BY DEF GameSeesPose
<1> HIDE DEF Mine
<1> QED
  BY <1>1, <1>2, <1>3, <1>4, PTL DEF Spec, Prg!Cli!ClientSpec

\* ltr_pipe forgets no signal (ltr_pipe.c), whenever it comes.
THEOREM SignalsAreKept == Spec => []SignalsKept
<1> DEFINE Mine == part = "pipe"
<1>1. Init => (Mine => Prg!Pip!Init)
  BY InitOfPart
<1>2. [Next]_vars => (Mine => Mine' /\ [Prg!Pip!PipeNext]_(Prg!Pip!pipeVars)) /\ (~Mine => ~Mine')
  BY StepOfPart
<1>3. Prg!Pip!PipeSpec => []Prg!Pip!SignalsKept
  BY Prg!SignalsKept
<1>4. SignalsKept <=> (Mine => Prg!Pip!SignalsKept)
  BY DEF SignalsKept
<1> HIDE DEF Mine
<1> QED
  BY <1>1, <1>2, <1>3, <1>4, PTL DEF Spec, Prg!Pip!PipeSpec

\* The picture of a Wiimote is of one.
LEMMA WiiPictures == Spec => [](part = "wii" => Prg!Wii!PictureIsWhole)
<1> DEFINE Mine == part = "wii"
<1>1. Init => (Mine => Prg!Wii!Init)
  BY InitOfPart
<1>2. [Next]_vars => (Mine => Mine' /\ [Prg!Wii!WiiNext]_(Prg!Wii!wiiVars)) /\ (~Mine => ~Mine')
  BY StepOfPart
<1>3. Prg!Wii!Init /\ [][Prg!Wii!WiiNext]_(Prg!Wii!wiiVars) => []Prg!Wii!PictureIsWhole
  BY Prg!WiimotePictures, WiiAssumption
<1> HIDE DEF Mine
<1>4. Spec => [](Mine => Prg!Wii!PictureIsWhole)
  BY <1>1, <1>2, <1>3, PTL DEF Spec
<1> QED
  BY <1>4 DEF Mine

\* What the face detector sees is of one.
LEMMA FaceImages == Spec => [](part = "face" => Drv!Face!DetectorSeesOneImage)
<1> DEFINE Mine == part = "face"
<1>1. Init => (Mine => Drv!Face!Init)
  BY InitOfPart
<1>2. [Next]_vars => (Mine => Mine' /\ [Drv!Face!FaceNext]_(Drv!Face!faceVars)) /\ (~Mine => ~Mine')
  BY StepOfPart
<1>3. Drv!Face!Init /\ [][Drv!Face!FaceNext]_(Drv!Face!faceVars) => []Drv!Face!DetectorSeesOneImage
  BY Drv!SeesOneImage, ImagesAssumption
<1> HIDE DEF Mine
<1>4. Spec => [](Mine => Drv!Face!DetectorSeesOneImage)
  BY <1>1, <1>2, <1>3, PTL DEF Spec
<1> QED
  BY <1>4 DEF Mine

\* What is shown is of one.
LEMMA ViewImages == Spec => [](part = "view" => Drv!Buf!ShownIsWhole)
<1> DEFINE Mine == part = "view"
<1>1. Init => (Mine => Drv!Buf!Init)
  BY InitOfPart
<1>2. [Next]_vars => (Mine => Mine' /\ [Drv!Buf!BufNext]_(Drv!Buf!bufVars)) /\ (~Mine => ~Mine')
  BY StepOfPart
<1>3. Drv!Buf!Spec => []Drv!Buf!ShownIsWhole
  BY Drv!ShownImages, BufferingAssumption
<1> HIDE DEF Mine
<1>4. Spec => [](Mine => Drv!Buf!ShownIsWhole)
  BY <1>1, <1>2, <1>3, PTL DEF Spec, Drv!Buf!Spec
<1> QED
  BY <1>4 DEF Mine

\* A frame of a TrackIR is of one.
LEMMA PacketFrames == Spec => [](part = "packets" => Drv!Pkt!FrameIsOneScan)
<1> DEFINE Mine == part = "packets"
<1>1. Init => (Mine => Drv!Pkt!Init)
  BY InitOfPart
<1>2. [Next]_vars => (Mine => Mine' /\ [Drv!Pkt!PacketNext]_(Drv!Pkt!packetVars)) /\ (~Mine => ~Mine')
  BY StepOfPart
<1>3. Drv!Pkt!Init /\ [][Drv!Pkt!PacketNext]_(Drv!Pkt!packetVars) => []Drv!Pkt!FrameIsOneScan
  BY Drv!FramesAreScans, PacketsAssumption
<1> HIDE DEF Mine
<1>4. Spec => [](Mine => Drv!Pkt!FrameIsOneScan)
  BY <1>1, <1>2, <1>3, PTL DEF Spec
<1> QED
  BY <1>4 DEF Mine

\* An image of a webcam is of one.
LEMMA WebcamImages == Spec => [](part = "webcam" => Drv!Web!ConvertedIsOneExposure)
<1> DEFINE Mine == part = "webcam"
<1>1. Init => (Mine => Drv!Web!WebcamInit)
  BY InitOfPart
<1>2. [Next]_vars => (Mine => Mine' /\ [Drv!Web!WebcamNext]_(Drv!Web!webcamVars)) /\ (~Mine => ~Mine')
  BY StepOfPart
<1>3. Drv!Web!WebcamSpec => []Drv!Web!ConvertedIsOneExposure
  BY Drv!ImagesAreWholeAndNew, StreamAssumption
<1> HIDE DEF Mine
<1>4. Spec => [](Mine => Drv!Web!ConvertedIsOneExposure)
  BY <1>1, <1>2, <1>3, PTL DEF Spec, Drv!Web!WebcamSpec
<1> QED
  BY <1>4 DEF Mine

\* Whatever is taken for an image is of one image: in the driver of a Wiimote, the face
\* tracker, the view of ltr_gui, a frame of a TrackIR and the webcam.
THEOREM EveryImageIsWhole == Spec => []ImagesAreWhole
<1>1. /\ part = "wii" => Prg!Wii!PictureIsWhole
      /\ part = "face" => Drv!Face!DetectorSeesOneImage
      /\ part = "view" => Drv!Buf!ShownIsWhole
      /\ part = "packets" => Drv!Pkt!FrameIsOneScan
      /\ part = "webcam" => Drv!Web!ConvertedIsOneExposure
      => ImagesAreWhole
  BY DEF ImagesAreWhole
<1> QED
  BY <1>1, WiiPictures, FaceImages, ViewImages, PacketFrames, WebcamImages, PTL

\* The hot keys of a running Wine controller are those of its registry (rest.c).
LEMMA GameKeys == Spec => [](part = "keys" => Prg!Key!KeysAgree)
<1> DEFINE Mine == part = "keys"
<1>1. Init => (Mine => Prg!Key!Init)
  BY InitOfPart
<1>2. [Next]_vars => (Mine => Mine' /\ [Prg!Key!KeyNext]_(Prg!Key!keyVars)) /\ (~Mine => ~Mine')
  BY StepOfPart
<1>3. Prg!Key!KeySpec => []Prg!Key!KeysAgree
  BY Prg!KeysFollow, KeysAssumption
<1> HIDE DEF Mine
<1>4. Spec => [](Mine => Prg!Key!KeysAgree)
  BY <1>1, <1>2, <1>3, PTL DEF Spec, Prg!Key!KeySpec
<1> QED
  BY <1>4 DEF Mine

\* A camera that was told all has the lights that are wanted (tir_hw.c).
LEMMA CameraLights == Spec => [](part = "lights" => Drv!Lit!CameraObeys)
<1> DEFINE Mine == part = "lights"
<1>1. Init => (Mine => Drv!Lit!Init)
  BY InitOfPart
<1>2. [Next]_vars => (Mine => Mine' /\ [Drv!Lit!LightsNext]_(Drv!Lit!lightVars)) /\ (~Mine => ~Mine')
  BY StepOfPart
<1>3. Drv!Lit!LightsSpec => []Drv!Lit!CameraObeys
  BY Drv!CameraFollows, LightsAssumption
<1> HIDE DEF Mine
<1>4. Spec => [](Mine => Drv!Lit!CameraObeys)
  BY <1>1, <1>2, <1>3, PTL DEF Spec, Drv!Lit!LightsSpec
<1> QED
  BY <1>4 DEF Mine

\* The hot keys of mickey are the assigned ones, and its buttons follow them (keyb_x11.cpp).
LEMMA MouseHotKeys == Spec => [](part = "hotkeys" => (Dsk!Hot!HotkeysWork /\ Dsk!Hot!ButtonsFollow))
<1> DEFINE Mine == part = "hotkeys"
<1>1. Init => (Mine => Dsk!Hot!Init)
  BY InitOfPart
<1>2. [Next]_vars => (Mine => Mine' /\ [Dsk!Hot!ShortcutsNext]_(Dsk!Hot!shortcutVars)) /\ (~Mine => ~Mine')
  BY StepOfPart
<1>3. Dsk!Hot!ShortcutsSpec => [](Dsk!Hot!HotkeysWork /\ Dsk!Hot!ButtonsFollow)
  BY Dsk!HotKeysFollow, ShortcutsAssumption
<1> HIDE DEF Mine
<1>4. Spec => [](Mine => (Dsk!Hot!HotkeysWork /\ Dsk!Hot!ButtonsFollow))
  BY <1>1, <1>2, <1>3, PTL DEF Spec, Dsk!Hot!ShortcutsSpec
<1> QED
  BY <1>4 DEF Mine

\* The window of the Wiimote server of macOS shows its state (wiimote_server.m).
LEMMA MacWindow == Spec => [](part = "mac" => Dsk!Mac!WindowAgrees)
<1> DEFINE Mine == part = "mac"
<1>1. Init => (Mine => Dsk!Mac!Init)
  BY InitOfPart
<1>2. [Next]_vars => (Mine => Mine' /\ [Dsk!Mac!MacNext]_(Dsk!Mac!macVars)) /\ (~Mine => ~Mine')
  BY StepOfPart
<1>3. Dsk!Mac!MacSpec => []Dsk!Mac!WindowAgrees
  BY Dsk!WindowIsRight
<1> HIDE DEF Mine
<1>4. Spec => [](Mine => Dsk!Mac!WindowAgrees)
  BY <1>1, <1>2, <1>3, PTL DEF Spec, Dsk!Mac!MacSpec
<1> QED
  BY <1>4 DEF Mine

\* The LEDs of a Wiimote tell the state of the tracking (macwii_driver.c).
LEMMA WiimoteLights == Spec => [](part = "leds" => Dsk!Led!LightsTell)
<1> DEFINE Mine == part = "leds"
<1>1. Init => (Mine => Dsk!Led!Init)
  BY InitOfPart
<1>2. [Next]_vars => (Mine => Mine' /\ [Dsk!Led!LightsNext]_(Dsk!Led!lightsVars)) /\ (~Mine => ~Mine')
  BY StepOfPart
<1>3. Dsk!Led!LightsSpec => []Dsk!Led!LightsTell
  BY Dsk!LightsTell, LedsAssumption
<1> HIDE DEF Mine
<1>4. Spec => [](Mine => Dsk!Led!LightsTell)
  BY <1>1, <1>2, <1>3, PTL DEF Spec, Dsk!Led!LightsSpec
<1> QED
  BY <1>4 DEF Mine

\* The pose is of the model that is set (tracking.c).
LEMMA ModelOfPoses == Spec => [](part = "model" => Dsk!Mod!ModelInUse)
<1> DEFINE Mine == part = "model"
<1>1. Init => (Mine => Dsk!Mod!Init)
  BY InitOfPart
<1>2. [Next]_vars => (Mine => Mine' /\ [Dsk!Mod!ModelNext]_(Dsk!Mod!modelVars)) /\ (~Mine => ~Mine')
  BY StepOfPart
<1>3. Dsk!Mod!ModelSpec => []Dsk!Mod!ModelInUse
  BY Dsk!ModelsAreUsed, ModelAssumption
<1> HIDE DEF Mine
<1>4. Spec => [](Mine => Dsk!Mod!ModelInUse)
  BY <1>1, <1>2, <1>3, PTL DEF Spec, Dsk!Mod!ModelSpec
<1> QED
  BY <1>4 DEF Mine

\* What is set or shown is what is in force: hot keys, lights, the window of the Wiimote
\* server of macOS, the model, for any registries, settings, losses and numbers of steps.
THEOREM ShownIsWhatIsInForce == Spec => []ShownIsInForce
<1>1. /\ part = "keys" => Prg!Key!KeysAgree
      /\ part = "lights" => Drv!Lit!CameraObeys
      /\ part = "hotkeys" => (Dsk!Hot!HotkeysWork /\ Dsk!Hot!ButtonsFollow)
      /\ part = "mac" => Dsk!Mac!WindowAgrees
      /\ part = "leds" => Dsk!Led!LightsTell
      /\ part = "model" => Dsk!Mod!ModelInUse
      => ShownIsInForce
  BY DEF ShownIsInForce
<1> QED
  BY <1>1, GameKeys, CameraLights, MouseHotKeys, MacWindow, WiimoteLights, ModelOfPoses, PTL

\* A pose that counts, at the client or on its way, is relative to a centre that is new enough
\* (tracking.c), for any frames, requests, starts and downlink.
THEOREM CountedPosesAreCentred == Spec => []CountedPoseIsCentred
<1> DEFINE Mine == part = "centre"
<1>1. Init => (Mine => Drv!Rec!Init)
  BY InitOfPart
<1>2. [Next]_vars => (Mine => Mine' /\ [Drv!Rec!RecNext]_(Drv!Rec!recVars)) /\ (~Mine => ~Mine')
  BY StepOfPart
<1>3. Drv!Rec!RecSpec => []Drv!Rec!CountedPoseIsCentred
  BY Drv!PosesAreCentred
<1>4. CountedPoseIsCentred <=> (Mine => Drv!Rec!CountedPoseIsCentred)
  BY DEF CountedPoseIsCentred
<1> HIDE DEF Mine
<1> QED
  BY <1>1, <1>2, <1>3, <1>4, PTL DEF Spec, Drv!Rec!RecSpec

\* What is set for a device belongs to it, unless the preferences were read again behind the
\* dialog (webcam_prefs.cpp), for any cameras, formats and preference files.
THEOREM SettingsStayApart == Spec => []SettingsBelong
<1> DEFINE Mine == part = "devices"
<1>1. Init => (Mine => Drv!Dev!Init)
  BY InitOfPart
<1>2. [Next]_vars => (Mine => Mine' /\ [Drv!Dev!DeviceNext]_(Drv!Dev!deviceVars)) /\ (~Mine => ~Mine')
  BY StepOfPart
<1>3. Drv!Dev!DeviceSpec => []Drv!Dev!SettingsBelong
  BY DeviceAssumption, Drv!SettingsStayApart
<1>4. SettingsBelong <=> (Mine => Drv!Dev!SettingsBelong)
  BY DEF SettingsBelong
<1> HIDE DEF Mine
<1> QED
  BY <1>1, <1>2, <1>3, <1>4, PTL DEF Spec, Drv!Dev!DeviceSpec

\* What ltr_gui shows of a profile is what it stores (axis.c), and a game of the default
\* profile has it (tracker.cpp), for any games, preference files, imports and edits.
THEOREM GamesAreFollowed == Spec => []GamesFollow
<1> DEFINE Mine == part = "profiles"
<1>1. Init => (Mine => Prg!Pro!Init)
  BY InitOfPart
<1>2. [Next]_vars => (Mine => Mine' /\ [Prg!Pro!ProfileNext]_(Prg!Pro!profileVars))
                     /\ (~Mine => ~Mine')
  BY StepOfPart
<1>3. Prg!Pro!ProfileSpec => [](Prg!Pro!StoredIsShown /\ Prg!Pro!GamesFollow)
  BY ProfilesAssumption, Prg!GamesFollowProfiles
<1>4. GamesFollow <=> (Mine => Prg!Pro!StoredIsShown /\ Prg!Pro!GamesFollow)
  BY DEF GamesFollow
<1> HIDE DEF Mine
<1> QED
  BY <1>1, <1>2, <1>3, <1>4, PTL DEF Spec, Prg!Pro!ProfileSpec

\* What may not happen in a step of a component does not: a report of a Wiimote is not
\* delivered twice (com_proc.c), no image comes late (mac/buffer.c), a look at a device
\* changes no settings (device_setup.cpp), setting or importing a profile no other one
\* (axis.c, profile_setup.cpp).
THEOREM NoStepSpoils == Spec => StepsKeep
<1> DEFINE Wm == part = "wii"
           Qc == part = "qtcam"
           Ds == part = "devices"
           Ps == part = "profiles"
           Kept == /\ Wm => Prg!Wii!DeliversNewer
                   /\ Qc => Prg!Cam!LaterImage
                   /\ Ds => Drv!Dev!LookingKeeps
                   /\ Ps => Prg!Pro!OthersUntouched /\ Prg!Pro!ImportIsWhole
<1>1. Init => /\ Wm => Prg!Wii!Init
              /\ Qc => Prg!Cam!Init
              /\ Ds => Drv!Dev!Init
              /\ Ps => Prg!Pro!Init
  BY InitOfPart
<1>2. [Next]_vars => /\ Wm => Wm' /\ [Prg!Wii!WiiNext]_(Prg!Wii!wiiVars)
                     /\ Qc => Qc' /\ [Prg!Cam!CamNext]_(Prg!Cam!camVars)
                     /\ Ds => Ds' /\ [Drv!Dev!DeviceNext]_(Drv!Dev!deviceVars)
                     /\ Ps => Ps' /\ [Prg!Pro!ProfileNext]_(Prg!Pro!profileVars)
  BY StepOfPart
<1>3. [Next]_vars => (~Wm => ~Wm') /\ (~Qc => ~Qc') /\ (~Ds => ~Ds') /\ (~Ps => ~Ps')
  BY StepOfPart
<1>4. Spec => [](Wm => Prg!WiiNumbers)
  <2>1. Prg!Wii!Init /\ [][Prg!Wii!WiiNext]_(Prg!Wii!wiiVars) => []Prg!WiiNumbers
    BY Prg!ReportsComeOnce
  <2> HIDE DEF Wm, Qc, Ds, Ps
  <2> QED
    BY <1>1, <1>2, <1>3, <2>1, PTL DEF Spec
<1>5. Spec => [](Qc => Prg!CamInv)
  <2>1. Prg!Cam!Init /\ [][Prg!Cam!CamNext]_(Prg!Cam!camVars) => []Prg!CamInv
    BY QtCamAssumption, Prg!CamInvariance
  <2> HIDE DEF Wm, Qc, Ds, Ps
  <2> QED
    BY <1>1, <1>2, <1>3, <2>1, PTL DEF Spec
<1>6. Spec => [](Ps => Prg!PInv)
  <2>1. Prg!Pro!ProfileSpec => []Prg!PInv
    BY ProfilesAssumption, Prg!ProInvariance
  <2> HIDE DEF Wm, Qc, Ds, Ps
  <2> QED
    BY <1>1, <1>2, <1>3, <2>1, PTL DEF Spec, Prg!Pro!ProfileSpec
<1>7. Spec => [](Ds => Drv!DevInv)
  <2>1. Drv!Dev!DeviceSpec => []Drv!DevInv
    BY DeviceAssumption, Drv!DevInvariance
  <2> HIDE DEF Wm, Qc, Ds, Ps
  <2> QED
    BY <1>1, <1>2, <1>3, <2>1, PTL DEF Spec, Drv!Dev!DeviceSpec
<1>8. ASSUME [Next]_vars, Wm => Prg!WiiNumbers, Qc => Prg!CamInv, Ps => Prg!PInv, Ds => Drv!DevInv
      PROVE  Kept
  <2>1. Wm => Prg!Wii!DeliversNewer
    BY <1>2, <1>8, Prg!WiiNumbersKeep
  <2>2. Qc => Prg!Cam!LaterImage
    BY <1>2, <1>8, QtCamAssumption, Prg!CamStep
  <2>3. Ds => Drv!Dev!LookingKeeps
    BY <1>8, DeviceAssumption, Drv!LooksKeep
  <2>4. Ps => Prg!Pro!ImportIsWhole
    BY <1>8, ProfilesAssumption, Prg!ImportsAreWhole
  <2>5. ASSUME Ps PROVE Prg!Pro!OthersUntouched
    <3>1. CASE Prg!Pro!ProfileNext
      BY <1>8, <2>5, <3>1, ProfilesAssumption, Prg!OthersAreSpared
    <3>2. CASE UNCHANGED Prg!Pro!profileVars
      BY <3>2 DEF Prg!Pro!OthersUntouched, Prg!Pro!profileVars
    <3> QED
      BY <1>2, <1>8, <2>5, <3>1, <3>2
  <2> QED
    BY <2>1, <2>2, <2>3, <2>4, <2>5
<1>9. Kept => [/\ part = "wii" => Prg!Wii!DeliversNewer
               /\ part = "qtcam" => Prg!Cam!LaterImage
               /\ part = "devices" => Drv!Dev!LookingKeeps
               /\ part = "profiles" => Prg!Pro!OthersUntouched /\ Prg!Pro!ImportIsWhole]_vars
  OBVIOUS
<1> HIDE DEF Wm, Qc, Ds, Ps, Kept
<1> QED
  BY <1>4, <1>5, <1>6, <1>7, <1>8, <1>9, PTL DEF Spec, StepsKeep

\* The types of the variables, one part after the other: each component's theorem of its
\* types, at the slots it has here.
LEMMA WiiTypes == Spec => [](part = "wii" => Prg!Wii!TypeOK)
<1> DEFINE Mine == part = "wii"
<1>1. Init => (Mine => Prg!Wii!Init)
  BY InitOfPart
<1>2. [Next]_vars => (Mine => Mine' /\ [Prg!Wii!WiiNext]_(Prg!Wii!wiiVars)) /\ (~Mine => ~Mine')
  BY StepOfPart
<1>3. Prg!Wii!Init /\ [][Prg!Wii!WiiNext]_(Prg!Wii!wiiVars) => []Prg!Wii!TypeOK
  BY WiiAssumption, Prg!WiiTypeCorrect
<1> HIDE DEF Mine
<1>4. Spec => [](Mine => Prg!Wii!TypeOK)
  BY <1>1, <1>2, <1>3, PTL DEF Spec
<1> QED
  BY <1>4 DEF Mine

\* The face tracker.
LEMMA FaceTypes == Spec => [](part = "face" => Drv!Face!TypeOK)
<1> DEFINE Mine == part = "face"
<1>1. Init => (Mine => Drv!Face!Init)
  BY InitOfPart
<1>2. [Next]_vars => (Mine => Mine' /\ [Drv!Face!FaceNext]_(Drv!Face!faceVars)) /\ (~Mine => ~Mine')
  BY StepOfPart
<1>3. Drv!Face!Init /\ [][Drv!Face!FaceNext]_(Drv!Face!faceVars) => []Drv!Face!TypeOK
  BY ImagesAssumption, Drv!FaceTypes
<1> HIDE DEF Mine
<1>4. Spec => [](Mine => Drv!Face!TypeOK)
  BY <1>1, <1>2, <1>3, PTL DEF Spec
<1> QED
  BY <1>4 DEF Mine

\* The view of the images in ltr_gui.
LEMMA ViewTypes == Spec => [](part = "view" => Drv!Buf!TypeOK)
<1> DEFINE Mine == part = "view"
<1>1. Init => (Mine => Drv!Buf!Init)
  BY InitOfPart
<1>2. [Next]_vars => (Mine => Mine' /\ [Drv!Buf!BufNext]_(Drv!Buf!bufVars)) /\ (~Mine => ~Mine')
  BY StepOfPart
<1>3. Drv!Buf!Spec => []Drv!Buf!TypeOK
  BY BufferingAssumption, Drv!BufTypesHold
<1> HIDE DEF Mine
<1>4. Spec => [](Mine => Drv!Buf!TypeOK)
  BY <1>1, <1>2, <1>3, PTL DEF Spec, Drv!Buf!Spec
<1> QED
  BY <1>4 DEF Mine

\* The camera programs of macOS.
LEMMA QtCamTypes == Spec => [](part = "qtcam" => Prg!Cam!TypeOK)
<1> DEFINE Mine == part = "qtcam"
<1>1. Init => (Mine => Prg!Cam!Init)
  BY InitOfPart
<1>2. [Next]_vars => (Mine => Mine' /\ [Prg!Cam!CamNext]_(Prg!Cam!camVars)) /\ (~Mine => ~Mine')
  BY StepOfPart
<1>3. Prg!Cam!Init /\ [][Prg!Cam!CamNext]_(Prg!Cam!camVars) => []Prg!Cam!TypeOK
  BY QtCamAssumption, Prg!CamTypesHold
<1> HIDE DEF Mine
<1>4. Spec => [](Mine => Prg!Cam!TypeOK)
  BY <1>1, <1>2, <1>3, PTL DEF Spec
<1> QED
  BY <1>4 DEF Mine

\* The recentring.
LEMMA CentreTypes == Spec => [](part = "centre" => Drv!Rec!TypeOK)
<1> DEFINE Mine == part = "centre"
<1>1. Init => (Mine => Drv!Rec!Init)
  BY InitOfPart
<1>2. [Next]_vars => (Mine => Mine' /\ [Drv!Rec!RecNext]_(Drv!Rec!recVars)) /\ (~Mine => ~Mine')
  BY StepOfPart
<1>3. Drv!Rec!RecSpec => []Drv!Rec!TypeOK
  BY FramesAssumption, Drv!RecTypesHold
<1> HIDE DEF Mine
<1>4. Spec => [](Mine => Drv!Rec!TypeOK)
  BY <1>1, <1>2, <1>3, PTL DEF Spec, Drv!Rec!RecSpec
<1> QED
  BY <1>4 DEF Mine

\* The image processing.
LEMMA StripesTypes == Spec => [](part = "stripes" => Drv!Str!TypeOK)
<1> DEFINE Mine == part = "stripes"
<1>1. Init => (Mine => Drv!Str!Init)
  BY InitOfPart
<1>2. [Next]_vars => (Mine => Mine' /\ [Drv!Str!StripeNext]_(Drv!Str!stripeVars)) /\ (~Mine => ~Mine')
  BY StepOfPart
<1>3. Drv!Str!StripeSpec => []Drv!Str!TypeOK
  BY StripesAssumption, Drv!StrTypes
<1> HIDE DEF Mine
<1>4. Spec => [](Mine => Drv!Str!TypeOK)
  BY <1>1, <1>2, <1>3, PTL DEF Spec, Drv!Str!StripeSpec
<1> QED
  BY <1>4 DEF Mine

\* The packets of a TrackIR.
LEMMA PacketTypes == Spec => [](part = "packets" => Drv!Pkt!TypeOK)
<1> DEFINE Mine == part = "packets"
<1>1. Init => (Mine => Drv!Pkt!Init)
  BY InitOfPart
<1>2. [Next]_vars => (Mine => Mine' /\ [Drv!Pkt!PacketNext]_(Drv!Pkt!packetVars)) /\ (~Mine => ~Mine')
  BY StepOfPart
<1>3. Drv!Pkt!Init /\ [][Drv!Pkt!PacketNext]_(Drv!Pkt!packetVars) => []Drv!Pkt!TypeOK
  BY PacketsAssumption, Drv!PktTypesHold
<1> HIDE DEF Mine
<1>4. Spec => [](Mine => Drv!Pkt!TypeOK)
  BY <1>1, <1>2, <1>3, PTL DEF Spec
<1> QED
  BY <1>4 DEF Mine

\* The start of a TrackIR.
LEMMA TirTypes == Spec => [](part = "tir" => Drv!Tir!TypeOK)
<1> DEFINE Mine == part = "tir"
<1>1. Init => (Mine => Drv!Tir!Init)
  BY InitOfPart
<1>2. [Next]_vars => (Mine => Mine' /\ [Drv!Tir!TirNext]_(Drv!Tir!hwVars)) /\ (~Mine => ~Mine')
  BY StepOfPart
<1>3. Drv!Tir!TirSpec => []Drv!Tir!TypeOK
  BY OpensAssumption, Drv!TirTypes
<1> HIDE DEF Mine
<1>4. Spec => [](Mine => Drv!Tir!TypeOK)
  BY <1>1, <1>2, <1>3, PTL DEF Spec, Drv!Tir!TirSpec
<1> QED
  BY <1>4 DEF Mine

\* The preferences.
LEMMA PrefTypes == Spec => [](part = "prefs" => Dsk!Prf!TypeOK)
<1> DEFINE Mine == part = "prefs"
<1>1. Init => (Mine => Dsk!Prf!Init)
  BY InitOfPart
<1>2. [Next]_vars => (Mine => Mine' /\ [Dsk!Prf!PrefNext]_(Dsk!Prf!prefVars)) /\ (~Mine => ~Mine')
  BY StepOfPart
<1>3. Dsk!Prf!PrefSpec => []Dsk!Prf!TypeOK
  BY SettingsAssumption, Dsk!PrefTypes
<1> HIDE DEF Mine
<1>4. Spec => [](Mine => Dsk!Prf!TypeOK)
  BY <1>1, <1>2, <1>3, PTL DEF Spec, Dsk!Prf!PrefSpec
<1> QED
  BY <1>4 DEF Mine

\* The setups of mickey.
LEMMA MickeyTypes == Spec => [](part = "mickey" => Dsk!Mou!TypeOK)
<1> DEFINE Mine == part = "mickey"
<1>1. Init => (Mine => Dsk!Mou!Init)
  BY InitOfPart
<1>2. [Next]_vars => (Mine => Mine' /\ [Dsk!Mou!MickeyNext]_(Dsk!Mou!mickeyVars)) /\ (~Mine => ~Mine')
  BY StepOfPart
<1>3. Dsk!Mou!MickeySpec => []Dsk!Mou!TypeOK
  BY TrialsAssumption, Dsk!MouTypesHold
<1> HIDE DEF Mine
<1>4. Spec => [](Mine => Dsk!Mou!TypeOK)
  BY <1>1, <1>2, <1>3, PTL DEF Spec, Dsk!Mou!MickeySpec
<1> QED
  BY <1>4 DEF Mine

\* The webcam.
LEMMA WebcamTypes == Spec => [](part = "webcam" => Drv!Web!WebcamTypeOK)
<1> DEFINE Mine == part = "webcam"
<1>1. Init => (Mine => Drv!Web!WebcamInit)
  BY InitOfPart
<1>2. [Next]_vars => (Mine => Mine' /\ [Drv!Web!WebcamNext]_(Drv!Web!webcamVars)) /\ (~Mine => ~Mine')
  BY StepOfPart
<1>3. Drv!Web!WebcamSpec => []Drv!Web!WebcamTypeOK
  BY StreamAssumption, Drv!WebTypesHold
<1> HIDE DEF Mine
<1>4. Spec => [](Mine => Drv!Web!WebcamTypeOK)
  BY <1>1, <1>2, <1>3, PTL DEF Spec, Drv!Web!WebcamSpec
<1> QED
  BY <1>4 DEF Mine

\* The signals and formats of ltr_pipe.
LEMMA PipeTypes == Spec => [](part = "pipe" => Prg!Pip!TypeOK)
<1> DEFINE Mine == part = "pipe"
<1>1. Init => (Mine => Prg!Pip!Init)
  BY InitOfPart
<1>2. [Next]_vars => (Mine => Mine' /\ [Prg!Pip!PipeNext]_(Prg!Pip!pipeVars)) /\ (~Mine => ~Mine')
  BY StepOfPart
<1>3. Prg!Pip!PipeSpec => []Prg!Pip!TypeOK
  BY PollsAssumption, Prg!PipTypesHold
<1> HIDE DEF Mine
<1>4. Spec => [](Mine => Prg!Pip!TypeOK)
  BY <1>1, <1>2, <1>3, PTL DEF Spec, Prg!Pip!PipeSpec
<1> QED
  BY <1>4 DEF Mine

\* The extraction of the firmware.
LEMMA ExtractorTypes == Spec => [](part = "extractor" => Dsk!Ext!TypeOK)
<1> DEFINE Mine == part = "extractor"
<1>1. Init => (Mine => Dsk!Ext!Init)
  BY InitOfPart
<1>2. [Next]_vars => (Mine => Mine' /\ [Dsk!Ext!ExtNext]_(Dsk!Ext!extVars)) /\ (~Mine => ~Mine')
  BY StepOfPart
<1>3. Dsk!Ext!ExtSpec => []Dsk!Ext!TypeOK
  <2>1. Dsk!Ext!ExtSpec => []Dsk!ExtInv
    BY ExtractorAssumption, Dsk!ExtInvariance
  <2>2. Dsk!ExtInv => Dsk!Ext!TypeOK
    BY DEF Dsk!ExtInv
  <2> QED
    BY <2>1, <2>2, PTL
<1> HIDE DEF Mine
<1>4. Spec => [](Mine => Dsk!Ext!TypeOK)
  BY <1>1, <1>2, <1>3, PTL DEF Spec, Dsk!Ext!ExtSpec
<1> QED
  BY <1>4 DEF Mine

\* The settings of the devices.
LEMMA DeviceTypes == Spec => [](part = "devices" => Drv!Dev!TypeOK)
<1> DEFINE Mine == part = "devices"
<1>1. Init => (Mine => Drv!Dev!Init)
  BY InitOfPart
<1>2. [Next]_vars => (Mine => Mine' /\ [Drv!Dev!DeviceNext]_(Drv!Dev!deviceVars)) /\ (~Mine => ~Mine')
  BY StepOfPart
<1>3. Drv!Dev!DeviceSpec => []Drv!Dev!TypeOK
  BY DeviceAssumption, Drv!DevTypesHold
<1> HIDE DEF Mine
<1>4. Spec => [](Mine => Drv!Dev!TypeOK)
  BY <1>1, <1>2, <1>3, PTL DEF Spec, Drv!Dev!DeviceSpec
<1> QED
  BY <1>4 DEF Mine

\* The profiles.
LEMMA ProfileTypes == Spec => [](part = "profiles" => Prg!Pro!TypeOK)
<1> DEFINE Mine == part = "profiles"
<1>1. Init => (Mine => Prg!Pro!Init)
  BY InitOfPart
<1>2. [Next]_vars => (Mine => Mine' /\ [Prg!Pro!ProfileNext]_(Prg!Pro!profileVars)) /\ (~Mine => ~Mine')
  BY StepOfPart
<1>3. Prg!Pro!ProfileSpec => []Prg!Pro!TypeOK
  BY ProfilesAssumption, Prg!ProTypesHold
<1> HIDE DEF Mine
<1>4. Spec => [](Mine => Prg!Pro!TypeOK)
  BY <1>1, <1>2, <1>3, PTL DEF Spec, Prg!Pro!ProfileSpec
<1> QED
  BY <1>4 DEF Mine

\* The X-Plane plug-in.
LEMMA PlaneTypes == Spec => [](part = "plane" => Prg!Pln!TypeOK)
<1> DEFINE Mine == part = "plane"
<1>1. Init => (Mine => Prg!Pln!Init)
  BY InitOfPart
<1>2. [Next]_vars => (Mine => Mine' /\ [Prg!Pln!PlaneNext]_(Prg!Pln!planeVars)) /\ (~Mine => ~Mine')
  BY StepOfPart
<1>3. Prg!Pln!Init /\ [][Prg!Pln!PlaneNext]_(Prg!Pln!planeVars) => []Prg!Pln!TypeOK
  BY PlaneAssumption, Prg!PlaneTypesHold
<1> HIDE DEF Mine
<1>4. Spec => [](Mine => Prg!Pln!TypeOK)
  BY <1>1, <1>2, <1>3, PTL DEF Spec
<1> QED
  BY <1>4 DEF Mine

\* The library in a game.
LEMMA WineTypes == Spec => [](part = "wine" => Prg!Cli!TypeOK)
<1> DEFINE Mine == part = "wine"
<1>1. Init => (Mine => Prg!Cli!Init)
  BY InitOfPart
<1>2. [Next]_vars => (Mine => Mine' /\ [Prg!Cli!ClientNext]_(Prg!Cli!clientVars)) /\ (~Mine => ~Mine')
  BY StepOfPart
<1>3. Prg!Cli!ClientSpec => []Prg!Cli!TypeOK
  BY ClientAssumption, Prg!CliTypesHold
<1> HIDE DEF Mine
<1>4. Spec => [](Mine => Prg!Cli!TypeOK)
  BY <1>1, <1>2, <1>3, PTL DEF Spec, Prg!Cli!ClientSpec
<1> QED
  BY <1>4 DEF Mine

\* The window of TrackIR.exe.
LEMMA WindowTypes == Spec => [](part = "window" => Dsk!Win!TypeOK)
<1> DEFINE Mine == part = "window"
<1>1. Init => (Mine => Dsk!Win!Init)
  BY InitOfPart
<1>2. [Next]_vars => (Mine => Mine' /\ [Dsk!Win!WindowNext]_(Dsk!Win!windowVars)) /\ (~Mine => ~Mine')
  BY StepOfPart
<1>3. Dsk!Win!Init /\ [][Dsk!Win!WindowNext]_(Dsk!Win!windowVars) => []Dsk!Win!TypeOK
  <2>1. Dsk!Win!Init /\ [][Dsk!Win!WindowNext]_(Dsk!Win!windowVars) => []Dsk!WinInv
    BY Dsk!WinInvariance
  <2>2. Dsk!WinInv => Dsk!Win!TypeOK
    BY DEF Dsk!WinInv
  <2> QED
    BY <2>1, <2>2, PTL
<1> HIDE DEF Mine
<1>4. Spec => [](Mine => Dsk!Win!TypeOK)
  BY <1>1, <1>2, <1>3, PTL DEF Spec
<1> QED
  BY <1>4 DEF Mine

\* The hot keys of the Wine bridge.
LEMMA KeyTypes == Spec => [](part = "keys" => Prg!Key!TypeOK)
<1> DEFINE Mine == part = "keys"
<1>1. Init => (Mine => Prg!Key!Init)
  BY InitOfPart
<1>2. [Next]_vars => (Mine => Mine' /\ [Prg!Key!KeyNext]_(Prg!Key!keyVars)) /\ (~Mine => ~Mine')
  BY StepOfPart
<1>3. Prg!Key!KeySpec => []Prg!Key!TypeOK
  BY KeysAssumption, Prg!KeyTypesHold
<1> HIDE DEF Mine
<1>4. Spec => [](Mine => Prg!Key!TypeOK)
  BY <1>1, <1>2, <1>3, PTL DEF Spec, Prg!Key!KeySpec
<1> QED
  BY <1>4 DEF Mine

\* The LEDs of a TrackIR.
LEMMA LightTypes == Spec => [](part = "lights" => Drv!Lit!TypeOK)
<1> DEFINE Mine == part = "lights"
<1>1. Init => (Mine => Drv!Lit!Init)
  BY InitOfPart
<1>2. [Next]_vars => (Mine => Mine' /\ [Drv!Lit!LightsNext]_(Drv!Lit!lightVars)) /\ (~Mine => ~Mine')
  BY StepOfPart
<1>3. Drv!Lit!LightsSpec => []Drv!Lit!TypeOK
  BY LightsAssumption, Drv!LitTypesHold
<1> HIDE DEF Mine
<1>4. Spec => [](Mine => Drv!Lit!TypeOK)
  BY <1>1, <1>2, <1>3, PTL DEF Spec, Drv!Lit!LightsSpec
<1> QED
  BY <1>4 DEF Mine

\* The hot keys of mickey.
LEMMA HotKeyTypes == Spec => [](part = "hotkeys" => Dsk!Hot!TypeOK)
<1> DEFINE Mine == part = "hotkeys"
<1>1. Init => (Mine => Dsk!Hot!Init)
  BY InitOfPart
<1>2. [Next]_vars => (Mine => Mine' /\ [Dsk!Hot!ShortcutsNext]_(Dsk!Hot!shortcutVars)) /\ (~Mine => ~Mine')
  BY StepOfPart
<1>3. Dsk!Hot!ShortcutsSpec => []Dsk!Hot!TypeOK
  BY ShortcutsAssumption, Dsk!HotTypesHold
<1> HIDE DEF Mine
<1>4. Spec => [](Mine => Dsk!Hot!TypeOK)
  BY <1>1, <1>2, <1>3, PTL DEF Spec, Dsk!Hot!ShortcutsSpec
<1> QED
  BY <1>4 DEF Mine

\* The Wiimote server of macOS.
LEMMA MacTypes == Spec => [](part = "mac" => Dsk!Mac!TypeOK)
<1> DEFINE Mine == part = "mac"
<1>1. Init => (Mine => Dsk!Mac!Init)
  BY InitOfPart
<1>2. [Next]_vars => (Mine => Mine' /\ [Dsk!Mac!MacNext]_(Dsk!Mac!macVars)) /\ (~Mine => ~Mine')
  BY StepOfPart
<1>3. Dsk!Mac!MacSpec => []Dsk!Mac!TypeOK
  BY MacAssumption, Dsk!MacTypesHold
<1> HIDE DEF Mine
<1>4. Spec => [](Mine => Dsk!Mac!TypeOK)
  BY <1>1, <1>2, <1>3, PTL DEF Spec, Dsk!Mac!MacSpec
<1> QED
  BY <1>4 DEF Mine

\* The LEDs of a Wiimote.
LEMMA LedTypes == Spec => [](part = "leds" => Dsk!Led!TypeOK)
<1> DEFINE Mine == part = "leds"
<1>1. Init => (Mine => Dsk!Led!Init)
  BY InitOfPart
<1>2. [Next]_vars => (Mine => Mine' /\ [Dsk!Led!LightsNext]_(Dsk!Led!lightsVars)) /\ (~Mine => ~Mine')
  BY StepOfPart
<1>3. Dsk!Led!LightsSpec => []Dsk!Led!TypeOK
  BY LedsAssumption, Dsk!LedTypesHold
<1> HIDE DEF Mine
<1>4. Spec => [](Mine => Dsk!Led!TypeOK)
  BY <1>1, <1>2, <1>3, PTL DEF Spec, Dsk!Led!LightsSpec
<1> QED
  BY <1>4 DEF Mine

\* The models.
LEMMA ModelTypes == Spec => [](part = "model" => Dsk!Mod!TypeOK)
<1> DEFINE Mine == part = "model"
<1>1. Init => (Mine => Dsk!Mod!Init)
  BY InitOfPart
<1>2. [Next]_vars => (Mine => Mine' /\ [Dsk!Mod!ModelNext]_(Dsk!Mod!modelVars)) /\ (~Mine => ~Mine')
  BY StepOfPart
<1>3. Dsk!Mod!ModelSpec => []Dsk!Mod!TypeOK
  BY ModelAssumption, Dsk!ModTypesHold
<1> HIDE DEF Mine
<1>4. Spec => [](Mine => Dsk!Mod!TypeOK)
  BY <1>1, <1>2, <1>3, PTL DEF Spec, Dsk!Mod!ModelSpec
<1> QED
  BY <1>4 DEF Mine

\* Each variable keeps to its type in every part: the drivers of the cameras, the server
\* of the Wiimote, the image processing, the preferences, ltr_gui, mickey, ltr_pipe, the
\* X-Plane plug-in and the Wine programs, for all values of their constants.
THEOREM TypesHold == Spec => []TypeOK
<1> DEFINE T1 == /\ part = "wii" => Prg!Wii!TypeOK
                 /\ part = "face" => Drv!Face!TypeOK
                 /\ part = "view" => Drv!Buf!TypeOK
                 /\ part = "qtcam" => Prg!Cam!TypeOK
           T2 == /\ part = "centre" => Drv!Rec!TypeOK
                 /\ part = "stripes" => Drv!Str!TypeOK
                 /\ part = "packets" => Drv!Pkt!TypeOK
                 /\ part = "tir" => Drv!Tir!TypeOK
           T3 == /\ part = "prefs" => Dsk!Prf!TypeOK
                 /\ part = "mickey" => Dsk!Mou!TypeOK
                 /\ part = "webcam" => Drv!Web!WebcamTypeOK
                 /\ part = "pipe" => Prg!Pip!TypeOK
           T4 == /\ part = "extractor" => Dsk!Ext!TypeOK
                 /\ part = "devices" => Drv!Dev!TypeOK
                 /\ part = "profiles" => Prg!Pro!TypeOK
                 /\ part = "plane" => Prg!Pln!TypeOK
           T5 == /\ part = "wine" => Prg!Cli!TypeOK
                 /\ part = "window" => Dsk!Win!TypeOK
                 /\ part = "keys" => Prg!Key!TypeOK
                 /\ part = "lights" => Drv!Lit!TypeOK
           T6 == /\ part = "hotkeys" => Dsk!Hot!TypeOK
                 /\ part = "mac" => Dsk!Mac!TypeOK
                 /\ part = "leds" => Dsk!Led!TypeOK
                 /\ part = "model" => Dsk!Mod!TypeOK
<1>1. Spec => []T1
  BY WiiTypes, FaceTypes, ViewTypes, QtCamTypes, PTL
<1>2. Spec => []T2
  BY CentreTypes, StripesTypes, PacketTypes, TirTypes, PTL
<1>3. Spec => []T3
  BY PrefTypes, MickeyTypes, WebcamTypes, PipeTypes, PTL
<1>4. Spec => []T4
  BY ExtractorTypes, DeviceTypes, ProfileTypes, PlaneTypes, PTL
<1>5. Spec => []T5
  BY WineTypes, WindowTypes, KeyTypes, LightTypes, PTL
<1>6. Spec => []T6
  BY HotKeyTypes, MacTypes, LedTypes, ModelTypes, PTL
<1>7. T1 /\ T2 /\ T3 /\ T4 /\ T5 /\ T6 => TypeOK
  BY DEF TypeOK
<1> HIDE DEF T1, T2, T3, T4, T5, T6
<1> QED
  BY <1>1, <1>2, <1>3, <1>4, <1>5, <1>6, <1>7, PTL

===============================================================================
