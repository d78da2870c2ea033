----------------------------- MODULE DriverProofs -----------------------------
(***************************************************************************)
(* Proofs about the drivers and the way of an image to the blobs: the      *)
(* start-up of a TrackIR (TirHardware), the face tracker (FaceTracker),    *)
(* the webcam (Webcam), the view of ltr_gui (Buffering), the packets of a  *)
(* TrackIR (TirPackets), the blobs of a picture (Stripes), the poses with  *)
(* their centres (Recentering), the choice of a device in ltr_gui          *)
(* (DeviceSetup) and what a TrackIR is told (TirLights), each for any      *)
(* values of its constants.                                                *)
(* They have nothing in common but this module; each has an inductive      *)
(* invariant of its own, and the assumption on its constants is a          *)
(* hypothesis of its theorems.                                             *)
(***************************************************************************)
EXTENDS Integers, Sequences, SequenceTheorems, FiniteSetTheorems, WellFoundedInduction, TLAPS

CONSTANTS
  MaxOpens,                                           \* TirHardware
  ImageParts, MaxImages, MaxStarts,                   \* FaceTracker
  MaxBuffers, MaxExposures,                           \* Webcam
  noBuffers, Resolutions, MaxShots, MaxRuns,          \* Buffering
  Lines, MaxScans, MaxPauses,                         \* TirPackets
  MaxFrames, MaxRequests, MaxInits, LinkSize,         \* Recentering
  CameraNames, FourCCs, FrameSizes, Begins, Offers, Files, MaxChoices, \* DeviceSetup
  Families, Levels, MaxOps, MaxEvents,                \* TirLights
  Width, Height, Pictures, Sizes, MaxBlobs            \* Stripes

VARIABLES
  tirModel, camera, usb, pc, answer, devStatus, sn4Pipe, irOn, opens,
  run, status, detector, image, untaken, seen, grabber, uncopied, images, starts,
  granted, streaming, queued, full, content, written, exposures, wcStep, taken,
  bitmap, handed,
  current, writeChecked, readChecked, buffers, initBuffers, resolution, initing, master,
  target, shots, runs, viewer, lost,
  family, scanner, transfer, packetType, currentLine, collected, blobList, readState,
  newRequest, buttons, cut, pauses,
  recenter, initRecenter, modelChanged, single, device, centre, pose, poseCount, last, link,
  comm, client, due, requests, inits,
  prefs, file, plugged, tir, combo, dialog, info, shown, loaded, behind, strayed, crashed,
  presses,
  cam, ir_on, last_threshold, todo, state, untold, ops, events,
  bright, snapshot, col, row, stage, stripe, turn, rng, stripes, newStripes, vline, heap,
  preblobs, size, blobs

Tir == INSTANCE TirHardware
Face == INSTANCE FaceTracker
Web == INSTANCE Webcam
Buf == INSTANCE Buffering
Pkt == INSTANCE TirPackets
Rec == INSTANCE Recentering
Dev == INSTANCE DeviceSetup
Lit == INSTANCE TirLights
Str == INSTANCE Stripes

------------------------------------------------------------------------------
(***************************************************************************)
(* TirHardware.  The driver decides by a status it may read out of a       *)
(* packet that came long before it asked.  That is harmless: a checksum    *)
(* that is still in the buffer was true when it came (AnswerIsTrue), and   *)
(* only an upload makes it false, which is not begun while the buffer      *)
(* holds the checksum of the file (UploadIsNeeded).                        *)
(***************************************************************************)

\* The models whose firmware is checked after an upload.
Checked == tirModel \in {"tir4", "sn4"}

\* A status says that a firmware is loaded and gives its checksum together.
AnswersAgree ==
  /\ answer.loaded <=> answer.cksum # "none"
  /\ devStatus.loaded <=> devStatus.cksum # "none"
  /\ opens = 0 => answer = Tir!NoStatus /\ pc = "closed"

\* The firmware a status in the buffer names is that of the device.
AnswerIsTrue == Checked => (answer.cksum = "file" => camera.fw = "file")

\* The driver's copy of the status is the one in the buffer where it decides.
UploadIsNeeded ==
  Checked =>
    /\ pc \in {"firmware", "upload", "check"} => devStatus = answer
    /\ pc = "upload" => devStatus.cksum # "file"

\* A camera that runs has its firmware.
Ready == Checked /\ pc \in {"config", "start", "running", "paused"} => camera.fw = "file"

\* The invariant of TirHardware.
TirInv == Tir!TypeOK /\ AnswersAgree /\ AnswerIsTrue /\ UploadIsNeeded /\ Ready

\* The status a device sends agrees with itself and with the device.
LEMMA StatusOfCamera ==
  ASSUME NEW c \in Tir!Cameras
  PROVE  /\ Tir!StatusOf(c) \in Tir!Status
         /\ Tir!StatusOf(c).cksum = c.fw
         /\ Tir!StatusOf(c).loaded <=> c.fw # "none"
<1>1. (c.fw # "none") \in BOOLEAN /\ c.fw \in {"none", "old", "file"} /\ c.cfg \in 0 .. 2
  BY DEF Tir!Cameras
<1> DEFINE l == c.fw # "none"
<1> HIDE DEF l
<1>2. [loaded |-> l, cksum |-> c.fw, cfg |-> c.cfg] \in Tir!Status
  BY <1>1 DEF Tir!Status, l
<1>3. Tir!StatusOf(c).loaded = l /\ Tir!StatusOf(c).cksum = c.fw
  BY DEF Tir!StatusOf, l
<1> QED
  BY <1>2, <1>3 DEF Tir!StatusOf, l

\* What is in the buffer before any answer is no status.
LEMMA NoStatusIsNone ==
  Tir!NoStatus \in Tir!Status /\ Tir!NoStatus.cksum = "none" /\ ~Tir!NoStatus.loaded
BY DEF Tir!NoStatus, Tir!Status

\* Video and light do not touch the firmware.
LEMMA StoppedKeeps ==
  ASSUME NEW c \in Tir!Cameras, NEW d \in Tir!Stopped(c)
  PROVE  d \in Tir!Cameras /\ d.fw = c.fw
<1>1. PICK v \in {FALSE, c.video}, i \in {FALSE, c.ir} : d = [c EXCEPT !.video = v, !.ir = i]
  BY DEF Tir!Stopped
<1>2. v \in BOOLEAN /\ i \in BOOLEAN
  BY DEF Tir!Cameras
<1> QED
  BY <1>1, <1>2 DEF Tir!Cameras

\* The lights leave the firmware in the device alone.
LEMMA LitKeeps ==
  ASSUME NEW c \in Tir!Cameras, NEW d \in Tir!Lit(c)
  PROVE  d \in Tir!Cameras /\ d.fw = c.fw
<1>1. PICK v \in {TRUE, c.video}, i \in {TRUE, c.ir} : d = [c EXCEPT !.video = v, !.ir = i]
  BY DEF Tir!Lit
<1>2. v \in BOOLEAN /\ i \in BOOLEAN
  BY DEF Tir!Cameras
<1> QED
  BY <1>1, <1>2 DEF Tir!Cameras

\* So does the start of the device.
LEMMA StartedKeeps ==
  ASSUME NEW c \in Tir!Cameras, NEW d \in Tir!Started(c)
  PROVE  d \in Tir!Cameras /\ d.fw = c.fw
<1>1. PICK e \in (IF tirModel \in {"tir4", "tir5"} THEN Tir!Stopped(c) ELSE {c}) : d \in Tir!Lit(e)
  BY DEF Tir!Started
<1>2. e \in Tir!Cameras /\ e.fw = c.fw
  BY <1>1, StoppedKeeps
<1> QED
  BY <1>1, <1>2, LitKeeps

\* The exchanges with the device before its firmware is looked at.
LEMMA BeginKeeps ==
  ASSUME Tir!OpensAssumption, TirInv, Tir!PlugIn \/ Tir!Open \/ Tir!Find \/ Tir!Prepare \/ Tir!StopCamera \/ Tir!ReadRom
  PROVE  TirInv'
<1> USE DEF Tir!OpensAssumption, TirInv, AnswersAgree, AnswerIsTrue, UploadIsNeeded, Ready, Checked,
            Tir!TypeOK, Tir!Fail, Tir!Models, Tir!Steps
<1>1. CASE Tir!PlugIn
  <2>1. camera' \in Tir!Cameras
    BY <1>1 DEF Tir!PlugIn, Tir!Cameras
  <2> QED
    BY <1>1, <2>1, NoStatusIsNone DEF Tir!PlugIn
<1>2. CASE Tir!Open
  <2>1. [usb EXCEPT !.context = TRUE] \in [context : BOOLEAN, handle : BOOLEAN, claimed : BOOLEAN]
    OBVIOUS
  <2>2. usb' \in [context : BOOLEAN, handle : BOOLEAN, claimed : BOOLEAN]
    BY <1>2, <2>1 DEF Tir!Open
  <2>3. opens' \in 0 .. MaxOpens /\ opens' # 0
    BY <1>2 DEF Tir!Open
  <2>4. irOn' \in BOOLEAN
    BY <1>2 DEF Tir!Open
  <2> QED
    BY <1>2, <2>2, <2>3, <2>4 DEF Tir!Open
<1>3. CASE Tir!Find
  BY <1>3 DEF Tir!Find
<1>4. CASE Tir!Prepare
  BY <1>4 DEF Tir!Prepare
<1>5. CASE Tir!StopCamera
  BY <1>5, StoppedKeeps DEF Tir!StopCamera
<1>6. CASE Tir!ReadRom
  <2>1. camera' \in Tir!Cameras /\ camera'.fw = camera.fw
    BY <1>6 DEF Tir!ReadRom, Tir!Cameras
  <2> QED
    BY <1>6, <2>1, NoStatusIsNone DEF Tir!ReadRom
<1> QED
  BY <1>1, <1>2, <1>3, <1>4, <1>5, <1>6

\* The status is read, the firmware loaded, sent and checked.
LEMMA FirmwareKeeps ==
  ASSUME Tir!OpensAssumption, TirInv,
         Tir!ReadStatus \/ Tir!LoadFirmware \/ Tir!UploadFirmware \/ Tir!Reread \/ Tir!CheckFirmware \/ Tir!WaitConfig
  PROVE  TirInv'
<1> USE DEF Tir!OpensAssumption, TirInv, AnswersAgree, AnswerIsTrue, UploadIsNeeded, Ready, Checked,
            Tir!TypeOK, Tir!Fail, Tir!Models, Tir!Steps
<1>1. CASE Tir!ReadStatus
  BY <1>1, StatusOfCamera DEF Tir!ReadStatus, Tir!AskStatus
<1>2. CASE Tir!LoadFirmware
  BY <1>2 DEF Tir!LoadFirmware, Tir!NeedsUpload
<1>3. CASE Tir!UploadFirmware
  <2>1. PICK fw \in {"file", "none", camera.fw} :
          camera' = [camera EXCEPT !.fw = fw, !.cfg = IF fw = camera.fw THEN @ ELSE 1]
    BY <1>3 DEF Tir!UploadFirmware
  <2>2. fw \in {"none", "old", "file"}
        /\ (IF fw = camera.fw THEN camera.cfg ELSE 1) \in 0 .. 2
    BY DEF Tir!Cameras
  <2>3. camera' \in Tir!Cameras
    BY <2>1, <2>2 DEF Tir!Cameras
  <2> QED
    BY <1>3, <2>3 DEF Tir!UploadFirmware
<1>4. CASE Tir!Reread
  BY <1>4, StatusOfCamera DEF Tir!Reread, Tir!AskStatus
<1>5. CASE Tir!CheckFirmware
  BY <1>5 DEF Tir!CheckFirmware
<1>6. CASE Tir!WaitConfig
  <2>1. camera' \in Tir!Cameras /\ camera'.fw = camera.fw
    BY <1>6 DEF Tir!WaitConfig, Tir!Cameras
  <2>2. /\ Tir!StatusOf(camera') \in Tir!Status
        /\ Tir!StatusOf(camera').cksum = camera.fw
        /\ Tir!StatusOf(camera').loaded <=> camera.fw # "none"
    BY <2>1, StatusOfCamera
  <2> QED
    BY <1>6, <2>1, <2>2 DEF Tir!WaitConfig
<1> QED
  BY <1>1, <1>2, <1>3, <1>4, <1>5, <1>6

\* The open device is used and closed.
LEMMA UseKeeps ==
  ASSUME Tir!OpensAssumption, TirInv, Tir!StartCamera \/ Tir!Frame \/ Tir!Pause \/ Tir!Resume \/ Tir!Close
  PROVE  TirInv'
<1> USE DEF Tir!OpensAssumption, TirInv, AnswersAgree, AnswerIsTrue, UploadIsNeeded, Ready, Checked,
            Tir!TypeOK, Tir!Models, Tir!Steps
<1>1. CASE Tir!StartCamera
  <2>1. camera' \in Tir!Cameras /\ camera'.fw = camera.fw
    BY <1>1, StartedKeeps DEF Tir!StartCamera
  <2>2. sn4Pipe' \in BOOLEAN
    BY <1>1 DEF Tir!StartCamera
  <2> QED
    BY <1>1, <2>1, <2>2 DEF Tir!StartCamera
<1>2. CASE Tir!Frame
  BY <1>2, NoStatusIsNone DEF Tir!Frame
<1>3. CASE Tir!Pause
  BY <1>3, StoppedKeeps DEF Tir!Pause
<1>4. CASE Tir!Resume
  BY <1>4, StartedKeeps DEF Tir!Resume
<1>5. CASE Tir!Close
  <2>1. PICK c \in Tir!Stopped(camera) :
          camera' \in {c} \cup (IF tirModel = "tir5" THEN {[c EXCEPT !.fw = "none"]} ELSE {})
    BY <1>5 DEF Tir!Close
  <2>2. c \in Tir!Cameras /\ c.fw = camera.fw
    BY StoppedKeeps
  <2>3. camera' \in Tir!Cameras /\ (Checked => camera'.fw = camera.fw)
    BY <2>1, <2>2 DEF Tir!Cameras
  <2> QED
    BY <1>5, <2>3 DEF Tir!Close
<1> QED
  BY <1>1, <1>2, <1>3, <1>4, <1>5

\* What is in the buffer, what the driver knows and what is in the device agree.
THEOREM TirInvariance == ASSUME Tir!OpensAssumption PROVE Tir!TirSpec => []TirInv
<1>1. Tir!Init => TirInv
  <2>1. Tir!Init => /\ camera \in Tir!Cameras
                /\ usb \in [context : BOOLEAN, handle : BOOLEAN, claimed : BOOLEAN]
    BY DEF Tir!Init, Tir!Cameras
  <2>2. Tir!Init => Tir!TypeOK
    <3> SUFFICES ASSUME Tir!Init PROVE Tir!TypeOK
      OBVIOUS
    <3>1. answer \in Tir!Status /\ devStatus \in Tir!Status /\ pc = "closed" /\ opens \in 0 .. MaxOpens
      BY NoStatusIsNone DEF Tir!OpensAssumption, Tir!Init
    <3>2. tirModel \in Tir!Models /\ irOn \in BOOLEAN /\ sn4Pipe \in BOOLEAN
      BY DEF Tir!Init, Tir!Models
    <3> QED
      BY <2>1, <3>1, <3>2 DEF Tir!TypeOK
  <2>3. Tir!Init => AnswersAgree
    BY NoStatusIsNone DEF Tir!Init, AnswersAgree
  <2>4. Tir!Init => AnswerIsTrue /\ UploadIsNeeded /\ Ready
    BY NoStatusIsNone DEF Tir!Init, AnswerIsTrue, UploadIsNeeded, Ready
  <2> QED
    BY <2>2, <2>3, <2>4 DEF TirInv
<1>2. TirInv /\ [Tir!TirNext]_(Tir!hwVars) => TirInv'
  <2>1. TirInv /\ UNCHANGED Tir!hwVars => TirInv'
    BY DEF TirInv, AnswersAgree, AnswerIsTrue, UploadIsNeeded, Ready, Checked, Tir!TypeOK, Tir!hwVars
  <2> QED
    BY <2>1, BeginKeeps, FirmwareKeeps, UseKeeps DEF Tir!TirNext
<1> QED
  BY <1>1, <1>2, PTL DEF Tir!TirSpec

\* Every variable has its type.
THEOREM TirTypes == ASSUME Tir!OpensAssumption PROVE Tir!TirSpec => []Tir!TypeOK
<1>1. TirInv => Tir!TypeOK
  BY DEF TirInv
<1> QED
  BY <1>1, TirInvariance, PTL

\* A TrackIR 4 or SmartNav 4 that runs has the firmware of the file, whichever
\* exchanges failed and whatever old packets a status was read from.
THEOREM RunsWithFirmware == ASSUME Tir!OpensAssumption PROVE Tir!TirSpec => []Tir!StartedWithFirmware
<1>1. TirInv => Tir!StartedWithFirmware
  BY DEF TirInv, Ready, Checked, Tir!StartedWithFirmware
<1> QED
  BY <1>1, TirInvariance, PTL

------------------------------------------------------------------------------
(***************************************************************************)
(* FaceTracker, for images divided in any way, any number of them and any  *)
(* number of starts.  The copy into the image is made without the mutex;   *)
(* what keeps the detector away from it is that the status is DONE for as  *)
(* long as the copy goes on, which takes the thread of the webcam, the     *)
(* status and the detector together (Turns).                               *)
(***************************************************************************)

Whole(i) == \E n \in 1 .. MaxImages : i = [p \in ImageParts |-> n]

\* Whose turn it is, and that a stop ends every turn.
Turns ==
  /\ grabber = "closed" => detector = "none" /\ status = "DONE"
  /\ grabber \in {"idle", "copy", "ready"} => run
  /\ grabber \in {"stop", "join"} => ~run
  /\ grabber \in {"copy", "ready"} => status = "DONE" /\ detector # "detect"
  /\ detector = "detect" /\ grabber = "idle" => status = "PROCESSING"
  /\ detector \in {"delete", "ended"} => ~run

\* The parts of the image that were copied are of the image that came last.
Copying ==
  /\ grabber \in {"copy", "ready"} => images \in 1 .. MaxImages
  /\ grabber = "copy" => \A p \in ImageParts \ uncopied : image[p] = images
  /\ grabber = "ready" => image = [p \in ImageParts |-> images]

\* An image the detector is to take, or reads, is whole.
Handed ==
  /\ status = "READY" /\ run => Whole(image)
  /\ detector = "detect" => Whole(image)

\* What it has read so far is of the image that is there.
Reading ==
  detector = "detect" => \A p \in ImageParts \ untaken : seen[p] = image[p]

\* The invariant of FaceTracker.
FaceInv == Face!TypeOK /\ Turns /\ Copying /\ Handed /\ Reading

\* Every step of the thread of the webcam keeps the invariant.
LEMMA GrabberKeeps == ASSUME Face!ImagesAssumption PROVE FaceInv /\ Face!Grabber => FaceInv'
<1> SUFFICES ASSUME Face!ImagesAssumption, FaceInv, Face!Grabber PROVE FaceInv'
  OBVIOUS
<1> USE DEF Face!ImagesAssumption, FaceInv, Turns, Copying, Handed, Reading, Whole
<1>1. CASE Face!InitFaceDetect
  BY <1>1 DEF Face!InitFaceDetect, Face!TypeOK
<1>2. CASE Face!FaceDetect
  BY <1>2 DEF Face!FaceDetect, Face!TypeOK
<1>3. CASE \E p \in ImageParts : Face!CopyImage(p)
  <2> PICK p \in ImageParts : Face!CopyImage(p)
    BY <1>3
  <2>1. Face!TypeOK'
    BY DEF Face!CopyImage, Face!TypeOK
  <2>2. Turns'
    BY DEF Face!CopyImage, Face!TypeOK
  <2>3. Copying'
    <3>1. \A q \in ImageParts \ uncopied' : image'[q] = images
      BY DEF Face!CopyImage, Face!TypeOK
    <3>2. uncopied' = {} => image' = [q \in ImageParts |-> images]
      BY <3>1, <2>1 DEF Face!TypeOK
    <3> QED
      BY <3>1, <3>2 DEF Face!CopyImage
  <2>4. Handed' /\ Reading'
    BY DEF Face!CopyImage
  <2> QED
    BY <2>1, <2>2, <2>3, <2>4
<1>4. CASE Face!HandOver
  BY <1>4 DEF Face!HandOver, Face!Ready, Face!Broadcast, Face!TypeOK
<1>5. CASE Face!StopFaceDetect
  BY <1>5 DEF Face!StopFaceDetect, Face!TypeOK
<1>6. CASE Face!StopWakes
  BY <1>6 DEF Face!StopWakes, Face!Ready, Face!Broadcast, Face!TypeOK
<1>7. CASE Face!StopJoins
  BY <1>7 DEF Face!StopJoins, Face!TypeOK
<1> QED
  BY <1>1, <1>2, <1>3, <1>4, <1>5, <1>6, <1>7 DEF Face!Grabber

\* Every step of the detector thread keeps the invariant.
LEMMA DetectorKeeps == ASSUME Face!ImagesAssumption PROVE FaceInv /\ Face!Detector => FaceInv'
<1> SUFFICES ASSUME Face!ImagesAssumption, FaceInv, Face!Detector PROVE FaceInv'
  OBVIOUS
<1> USE DEF Face!ImagesAssumption, FaceInv, Turns, Copying, Handed, Reading, Whole, Face!grabs
<1>1. CASE Face!Top
  BY <1>1 DEF Face!Top, Face!TypeOK
<1>2. CASE Face!TakeImage
  BY <1>2 DEF Face!TakeImage, Face!TypeOK
<1>3. CASE \E p \in ImageParts : Face!ReadImage(p)
  <2> PICK p \in ImageParts : Face!ReadImage(p)
    BY <1>3
  <2>1. Face!TypeOK'
    BY DEF Face!ReadImage, Face!TypeOK
  <2>2. Reading'
    BY DEF Face!ReadImage, Face!TypeOK
  <2> QED
    BY <2>1, <2>2 DEF Face!ReadImage
<1>4. CASE Face!DetectDone
  BY <1>4 DEF Face!DetectDone, Face!TypeOK
<1>5. CASE Face!DeleteImage
  BY <1>5 DEF Face!DeleteImage, Face!TypeOK, Face!Freed
<1> QED
  BY <1>1, <1>2, <1>3, <1>4, <1>5 DEF Face!Detector

\* The status, the two threads and the image are always in step.
THEOREM FaceInvariance ==
  ASSUME Face!ImagesAssumption
  PROVE  Face!Init /\ [][Face!FaceNext]_(Face!faceVars) => []FaceInv
<1>1. Face!Init => FaceInv
  BY DEF Face!ImagesAssumption, Face!Init, FaceInv, Face!TypeOK, Turns, Copying, Handed, Reading, Face!Freed
<1>2. FaceInv /\ [Face!FaceNext]_(Face!faceVars) => FaceInv'
  <2>1. FaceInv /\ UNCHANGED Face!faceVars => FaceInv'
    BY DEF FaceInv, Face!TypeOK, Turns, Copying, Handed, Reading, Whole, Face!faceVars, Face!grabs
  <2> QED
    BY <2>1, GrabberKeeps, DetectorKeeps DEF Face!FaceNext
<1> QED
  BY <1>1, <1>2, PTL

\* Every variable has its type.
THEOREM FaceTypes ==
  ASSUME Face!ImagesAssumption
  PROVE  Face!Init /\ [][Face!FaceNext]_(Face!faceVars) => []Face!TypeOK
<1>1. FaceInv => Face!TypeOK
  BY DEF FaceInv
<1> QED
  BY <1>1, FaceInvariance, PTL

\* The detector never looks at an image that is being copied or was freed,
\* although facetrack.cpp:232 reads the status without the mutex.
THEOREM SeesOneImage ==
  ASSUME Face!ImagesAssumption
  PROVE  Face!Init /\ [][Face!FaceNext]_(Face!faceVars) => []Face!DetectorSeesOneImage
<1>1. FaceInv => Face!DetectorSeesOneImage
  <2> SUFFICES ASSUME FaceInv, detector = "detect", untaken = {}
               PROVE  \E n \in 1 .. MaxImages : seen = [p \in ImageParts |-> n]
    BY DEF Face!DetectorSeesOneImage
  <2>1. PICK n \in 1 .. MaxImages : image = [p \in ImageParts |-> n]
    BY DEF FaceInv, Handed, Whole
  <2>2. seen = [p \in ImageParts |-> n]
    BY <2>1 DEF FaceInv, Reading, Face!TypeOK
  <2> QED
    BY <2>2
<1> QED
  BY <1>1, FaceInvariance, PTL

------------------------------------------------------------------------------
(***************************************************************************)
(* Webcam.  A buffer is in one place: queued, full or taken (OnePlace).    *)
(* The exposures that were taken, are full and are being written follow    *)
(* each other in this order (Ascending), which is what keeps an image from *)
(* being older than the one before it and from being written while it is   *)
(* converted.                                                              *)
(***************************************************************************)

Exposures == 0 .. MaxExposures

Steps == {"closed", "idle", "paused", "poll", "dequeue", "convert", "requeue",
          "process", "failed"}

\* The types without the lengths of the two sequences.
Types ==
  /\ granted \in 0 .. MaxBuffers /\ streaming \in BOOLEAN
  /\ queued \in Seq(Web!Indices) /\ full \in Seq(Web!Indices)
  /\ content \in [Web!Indices -> [Web!Halves -> Exposures]]
  /\ written \in SUBSET Web!Halves
  /\ exposures \in Exposures
  /\ wcStep \in Steps
  /\ taken \in 0 .. MaxBuffers
  /\ bitmap \in [Web!Halves -> Exposures]
  /\ handed \in Exposures

HasBuffer == wcStep \in {"convert", "requeue"}

\* No buffer is in two places.
OnePlace ==
  /\ \A i, j \in 1 .. Len(queued) : queued[i] = queued[j] => i = j
  /\ \A i, j \in 1 .. Len(full) : full[i] = full[j] => i = j
  /\ \A i \in 1 .. Len(queued), j \in 1 .. Len(full) : queued[i] # full[j]
  /\ HasBuffer =>
       /\ taken \in Web!Indices
       /\ \A i \in 1 .. Len(queued) : queued[i] # taken
       /\ \A j \in 1 .. Len(full) : full[j] # taken

\* The exposure that is being written is in the first buffer of the queue.
Exposing ==
  written # {} =>
    /\ queued # <<>> /\ written # Web!Halves
    /\ \A h \in written : content[queued[1]][h] = exposures
    /\ exposures > 0

\* The exposure that was completed last, or a later one.
Done == IF written = {} THEN exposures ELSE exposures - 1

Top(b) == content[b]["top"]
OneExposure(b) == content[b]["bottom"] = content[b]["top"]

\* The exposures that are full ascend, after what was handed over.
FullAscend ==
  /\ handed <= Done
  /\ \A i \in 1 .. Len(full) :
       OneExposure(full[i]) /\ handed < Top(full[i]) /\ Top(full[i]) <= Done
  /\ \A i, j \in 1 .. Len(full) : i < j => Top(full[i]) < Top(full[j])

\* The buffer that was taken is older than those, and so is what it becomes.
Converted ==
  /\ wcStep \in {"poll", "dequeue"} => \A h \in Web!Halves : bitmap[h] = 0
  /\ HasBuffer =>
       /\ OneExposure(taken) /\ handed < Top(taken) /\ Top(taken) <= Done
       /\ \A i \in 1 .. Len(full) : Top(taken) < Top(full[i])
  /\ wcStep = "convert" => \A h \in Web!Halves : bitmap[h] \in {0, content[taken][h]}
  /\ wcStep = "requeue" => \A h \in Web!Halves : bitmap[h] = content[taken][h]
  /\ wcStep = "process" =>
       /\ bitmap["bottom"] = bitmap["top"]
       /\ handed < bitmap["top"] /\ bitmap["top"] <= Done
       /\ \A i \in 1 .. Len(full) : bitmap["top"] < Top(full[i])

\* The invariant of Webcam.
WebInv == Types /\ OnePlace /\ Exposing /\ FullAscend /\ Converted

------------------------------------------------------------------------------

\* What the operations on a sequence do to its elements.
LEMMA Elements ==
  ASSUME NEW S, NEW s \in Seq(S)
  PROVE  Len(s) \in Nat /\ (\A i \in 1 .. Len(s) : s[i] \in S) /\ DOMAIN s = 1 .. Len(s)
         /\ (s # <<>> <=> Len(s) > 0)
OBVIOUS

\* A sequence with an element more.
LEMMA Appended ==
  ASSUME NEW S, NEW s \in Seq(S), NEW e \in S, NEW t, t = Append(s, e)
  PROVE  /\ t \in Seq(S) /\ Len(t) = Len(s) + 1 /\ t # <<>>
         /\ \A i \in 1 .. Len(s) : t[i] = s[i]
         /\ t[Len(s) + 1] = e
OBVIOUS

\* A sequence without its first element.
LEMMA Removed ==
  ASSUME NEW S, NEW s \in Seq(S), s # <<>>, NEW t, t = Tail(s)
  PROVE  /\ t \in Seq(S) /\ Len(t) = Len(s) - 1
         /\ \A i \in 1 .. Len(s) - 1 : t[i] = s[i + 1]
         /\ Head(s) = s[1] /\ Head(s) \in S /\ Len(s) > 0
OBVIOUS

\* A sequence with the numbers from 1 to k at its end.
LEMMA Joined ==
  ASSUME NEW k \in Nat, NEW S, 1 .. k \subseteq S, NEW s \in Seq(S),
         NEW t, t = s \o [b \in 1 .. k |-> b]
  PROVE  /\ t \in Seq(S) /\ Len(t) = Len(s) + k
         /\ \A i \in 1 .. Len(s) : t[i] = s[i]
         /\ \A i \in Len(s) + 1 .. Len(s) + k : t[i] = i - Len(s)
<1> DEFINE u == [b \in 1 .. k |-> b]
<1>1. u \in Seq(S) /\ Len(u) = k /\ \A b \in 1 .. k : u[b] = b
  OBVIOUS
<1> HIDE DEF u
<1>2. t = s \o u
  BY DEF u
<1> QED
  BY <1>1, <1>2

\* Half of an exposure is written, the first or the second of it.
LEMMA ExposeKeeps ==
  ASSUME Web!StreamAssumption, WebInv, NEW half \in Web!Halves, Web!Expose(half)
  PROVE  WebInv'
<1> DEFINE number == IF written = {} THEN exposures + 1 ELSE exposures
           buffer == Head(queued)
<1> USE DEF WebInv, Web!StreamAssumption
<1>1. /\ queued # <<>> /\ half \notin written /\ number <= MaxExposures
      /\ exposures' = number
      /\ content' = [content EXCEPT ![buffer][half] = number]
      /\ UNCHANGED <<granted, streaming, wcStep, taken, bitmap, handed>>
  BY DEF Web!Expose
<1>2. buffer = queued[1] /\ buffer \in Web!Indices /\ Len(queued) \in Nat \ {0}
      /\ Len(full) \in Nat
  BY <1>1, Removed, Elements DEF Types
<1>3. number \in Exposures /\ number > 0
  BY <1>1 DEF Types, Exposures, Exposing
<1>4. /\ content' \in [Web!Indices -> [Web!Halves -> Exposures]]
      /\ content'[buffer][half] = number
      /\ \A h \in Web!Halves \ {half} : content'[buffer][h] = content[buffer][h]
      /\ \A b \in Web!Indices \ {buffer} : content'[b] = content[b]
  BY <1>1, <1>2, <1>3 DEF Types
<1>5. \A i \in 1 .. Len(full) : full[i] \in Web!Indices \ {buffer}
  BY <1>2, Elements DEF Types, OnePlace
<1>6. HasBuffer => taken \in Web!Indices \ {buffer}
  BY <1>2 DEF OnePlace
<1> HIDE DEF number, buffer
<1>7. CASE written \cup {half} # Web!Halves
  <2>1. written' = written \cup {half} /\ queued' = queued /\ full' = full
    BY <1>7 DEF Web!Expose, number, buffer
  <2>2. written = {}
    BY <1>1, <1>7 DEF Types, Web!Halves
  <2>3. Done' = Done
    BY <1>1, <2>1, <2>2 DEF Done, number, Types, Exposures
  <2>4. Types' /\ OnePlace' /\ Exposing'
    BY <1>1, <1>2, <1>3, <1>4, <1>7, <2>1, <2>2 DEF Types, OnePlace, HasBuffer, Exposing
  <2>5. FullAscend'
    BY <1>1, <1>4, <1>5, <2>1, <2>3 DEF FullAscend, Top, OneExposure
  <2>6. Converted'
    BY <1>1, <1>4, <1>5, <1>6, <2>1, <2>3 DEF Converted, HasBuffer, Top, OneExposure
  <2> QED
    BY <2>4, <2>5, <2>6
<1>8. CASE written \cup {half} = Web!Halves
  <2>1. written' = {} /\ queued' = Tail(queued) /\ full' = Append(full, buffer)
    BY <1>8 DEF Web!Expose, number, buffer
  <2>2. written # {} /\ number = exposures /\ written = Web!Halves \ {half}
    BY <1>1, <1>8 DEF Types, Web!Halves, number
  <2>3. Done = exposures - 1 /\ Done' = exposures /\ exposures \in Nat
    BY <1>1, <2>1, <2>2 DEF Done, Types, Exposures
  <2>4. /\ queued' \in Seq(Web!Indices) /\ Len(queued') = Len(queued) - 1
        /\ \A i \in 1 .. Len(queued) - 1 : queued'[i] = queued[i + 1]
    BY <1>1, <2>1, Removed DEF Types
  <2>5. /\ full' \in Seq(Web!Indices) /\ Len(full') = Len(full) + 1
        /\ \A i \in 1 .. Len(full) : full'[i] = full[i]
        /\ full'[Len(full) + 1] = buffer
    BY <1>2, <2>1, Appended DEF Types
  <2>6. \A h \in Web!Halves : content'[buffer][h] = exposures
    BY <1>1, <1>2, <1>4, <2>2 DEF Exposing
  <2>7. Types' /\ Exposing'
    <3>1. queued' \in Seq(Web!Indices) /\ full' \in Seq(Web!Indices)
      BY <2>4, <2>5
    <3>2. exposures' \in Exposures /\ written' \in SUBSET Web!Halves
      BY <1>1, <1>3, <2>1
    <3> QED
      BY <1>1, <1>4, <2>1, <3>1, <3>2 DEF Types, Exposing
  <2>8. OnePlace'
    <3>1. \A i \in 1 .. Len(queued') : i + 1 \in 1 .. Len(queued) /\ queued'[i] = queued[i + 1]
      BY <1>2, <2>4
    <3>2. \A i \in 1 .. Len(queued') : queued'[i] # buffer
      <4> SUFFICES ASSUME NEW i \in 1 .. Len(queued'), queued[i + 1] = queued[1]
                   PROVE  FALSE
        BY <1>2, <3>1
      <4>1. 1 \in 1 .. Len(queued) /\ i + 1 \in 1 .. Len(queued) /\ i + 1 # 1
        BY <1>2, <3>1
      <4> QED
        BY <4>1 DEF OnePlace
    <3>3. \A j \in 1 .. Len(full') : j \in 1 .. Len(full) \/ j = Len(full) + 1
      BY <1>2, <2>5
    <3>4. \A i, j \in 1 .. Len(queued') : queued'[i] = queued'[j] => i = j
      <4> SUFFICES ASSUME NEW i \in 1 .. Len(queued'), NEW j \in 1 .. Len(queued'),
                          queued'[i] = queued'[j]
                   PROVE  i = j
        OBVIOUS
      <4>1. i + 1 = j + 1
        BY <3>1 DEF OnePlace
      <4> QED
        BY <4>1
    <3>5. \A i, j \in 1 .. Len(full') : full'[i] = full'[j] => i = j
      <4> SUFFICES ASSUME NEW i \in 1 .. Len(full'), NEW j \in 1 .. Len(full'),
                          full'[i] = full'[j]
                   PROVE  i = j
        OBVIOUS
      <4>1. \A k \in 1 .. Len(full) : full'[k] # full'[Len(full) + 1]
        BY <1>5, <2>5
      <4>2. CASE i \in 1 .. Len(full) /\ j \in 1 .. Len(full)
        BY <2>5, <4>2 DEF OnePlace
      <4> QED
        BY <3>3, <4>1, <4>2
    <3>6. \A i \in 1 .. Len(queued'), j \in 1 .. Len(full') : queued'[i] # full'[j]
      <4> SUFFICES ASSUME NEW i \in 1 .. Len(queued'), NEW j \in 1 .. Len(full')
                   PROVE  queued'[i] # full'[j]
        OBVIOUS
      <4>1. CASE j = Len(full) + 1
        BY <2>5, <3>2, <4>1
      <4>2. CASE j \in 1 .. Len(full)
        BY <2>5, <3>1, <4>2 DEF OnePlace
      <4> QED
        BY <3>3, <4>1, <4>2
    <3>7. ASSUME HasBuffer, NEW i \in 1 .. Len(queued')
          PROVE  queued'[i] # taken
      BY <3>1, <3>7 DEF OnePlace
    <3>8. ASSUME HasBuffer, NEW j \in 1 .. Len(full')
          PROVE  full'[j] # taken
      <4>1. CASE j = Len(full) + 1
        BY <1>6, <2>5, <3>8, <4>1
      <4>2. CASE j \in 1 .. Len(full)
        BY <2>5, <3>8, <4>2 DEF OnePlace
      <4> QED
        BY <3>3, <4>1, <4>2
    <3> QED
      BY <1>1, <1>6, <3>4, <3>5, <3>6, <3>7, <3>8 DEF OnePlace, HasBuffer
  <2>9. FullAscend'
    <3>1. handed' <= Done'
      BY <1>1, <2>3 DEF FullAscend, Types, Exposures
    <3>2. \A j \in 1 .. Len(full) :
            /\ content'[full'[j]]["bottom"] = content'[full'[j]]["top"]
            /\ handed < content'[full'[j]]["top"] /\ content'[full'[j]]["top"] < exposures
      <4>1. \A j \in 1 .. Len(full) : content'[full'[j]] = content[full[j]]
        BY <1>4, <1>5, <2>5
      <4>2. \A j \in 1 .. Len(full) : content[full[j]]["top"] \in Exposures
        BY <1>5 DEF Types, Web!Halves
      <4> QED
        BY <2>3, <4>1, <4>2 DEF FullAscend, Top, OneExposure, Exposures
    <3>3. /\ content'[full'[Len(full) + 1]]["top"] = exposures
          /\ content'[full'[Len(full) + 1]]["bottom"] = exposures
      BY <2>5, <2>6 DEF Web!Halves
    <3>4. handed < exposures
      BY <2>3 DEF FullAscend, Types, Exposures
    <3>5. \A i, j \in 1 .. Len(full) : i < j => content'[full'[i]]["top"] < content'[full'[j]]["top"]
      <4>1. \A j \in 1 .. Len(full) : content'[full'[j]] = content[full[j]]
        BY <1>4, <1>5, <2>5
      <4> QED
        BY <4>1 DEF FullAscend, Top
    <3>6. \A i, j \in 1 .. Len(full') : i < j => content'[full'[i]]["top"] < content'[full'[j]]["top"]
      BY <1>2, <2>5, <3>2, <3>3, <3>5
    <3>7. \A j \in 1 .. Len(full') :
            /\ content'[full'[j]]["bottom"] = content'[full'[j]]["top"]
            /\ handed < content'[full'[j]]["top"] /\ content'[full'[j]]["top"] <= exposures
      <4> SUFFICES ASSUME NEW j \in 1 .. Len(full')
                   PROVE  /\ content'[full'[j]]["bottom"] = content'[full'[j]]["top"]
                          /\ handed < content'[full'[j]]["top"]
                          /\ content'[full'[j]]["top"] <= exposures
        OBVIOUS
      <4>1. CASE j = Len(full) + 1
        BY <2>3, <3>3, <3>4, <4>1 DEF Types, Exposures
      <4>2. CASE j \in 1 .. Len(full)
        <5>1. content'[full'[j]]["top"] \in Exposures
          BY <1>4, <1>5, <2>5, <4>2 DEF Types, Web!Halves
        <5> QED
          BY <2>3, <3>2, <4>2, <5>1 DEF Exposures
      <4> QED
        BY <1>2, <2>5, <4>1, <4>2
    <3> QED
      BY <1>1, <2>3, <3>1, <3>6, <3>7 DEF FullAscend, Top, OneExposure
  <2>10. Converted'
    <3>1. HasBuffer => content'[taken] = content[taken]
      BY <1>4, <1>6
    <3>2. HasBuffer \/ wcStep = "process" => \A j \in 1 .. Len(full) : content'[full'[j]] = content[full[j]]
      BY <1>4, <1>5, <2>5
    <3>3. content'[full'[Len(full) + 1]]["top"] = exposures
      BY <2>5, <2>6 DEF Web!Halves
    <3>4. HasBuffer => content[taken]["top"] \in Exposures
      BY <1>6 DEF Types, Web!Halves
    <3>5. HasBuffer => /\ content'[taken]["bottom"] = content'[taken]["top"]
                       /\ handed < content'[taken]["top"] /\ content'[taken]["top"] <= exposures
                       /\ \A j \in 1 .. Len(full') : content'[taken]["top"] < content'[full'[j]]["top"]
      <4> SUFFICES ASSUME HasBuffer
                   PROVE  /\ content'[taken]["bottom"] = content'[taken]["top"]
                          /\ handed < content'[taken]["top"] /\ content'[taken]["top"] <= exposures
                          /\ \A j \in 1 .. Len(full') : content'[taken]["top"] < content'[full'[j]]["top"]
        OBVIOUS
      <4>1. content[taken]["bottom"] = content[taken]["top"] /\ handed < content[taken]["top"]
            /\ content[taken]["top"] <= exposures - 1
        BY <2>3 DEF Converted, Top, OneExposure
      <4>2. content[taken]["top"] < exposures /\ content[taken]["top"] <= exposures
        BY <2>3, <3>4, <4>1 DEF Exposures
      <4>3. \A j \in 1 .. Len(full') : content'[taken]["top"] < content'[full'[j]]["top"]
        <5> TAKE j \in 1 .. Len(full')
        <5>1. CASE j = Len(full) + 1
          BY <3>1, <3>3, <4>2, <5>1
        <5>2. CASE j \in 1 .. Len(full)
          BY <3>1, <3>2, <5>2 DEF Converted, Top
        <5> QED
          BY <1>2, <2>5, <5>1, <5>2
      <4> QED
        BY <3>1, <4>1, <4>2, <4>3
    <3>6. wcStep = "process" =>
            /\ bitmap["bottom"] = bitmap["top"]
            /\ handed < bitmap["top"] /\ bitmap["top"] <= exposures
            /\ \A j \in 1 .. Len(full') : bitmap["top"] < content'[full'[j]]["top"]
      <4>1. bitmap["top"] \in Exposures
        BY DEF Types, Web!Halves
      <4> QED
        <5> SUFFICES ASSUME wcStep = "process"
                     PROVE  /\ bitmap["bottom"] = bitmap["top"]
                            /\ handed < bitmap["top"] /\ bitmap["top"] <= exposures
                            /\ \A j \in 1 .. Len(full') : bitmap["top"] < content'[full'[j]]["top"]
          OBVIOUS
        <5>1. bitmap["bottom"] = bitmap["top"] /\ handed < bitmap["top"]
              /\ bitmap["top"] <= exposures - 1
          BY <2>3 DEF Converted
        <5>2. bitmap["top"] < exposures /\ bitmap["top"] <= exposures
          BY <2>3, <4>1, <5>1 DEF Exposures
        <5>3. \A j \in 1 .. Len(full') : bitmap["top"] < content'[full'[j]]["top"]
          <6> TAKE j \in 1 .. Len(full')
          <6>1. CASE j = Len(full) + 1
            BY <3>3, <5>2, <6>1
          <6>2. CASE j \in 1 .. Len(full)
            BY <3>2, <6>2 DEF Converted, Top
          <6> QED
            BY <1>2, <2>5, <6>1, <6>2
        <5> QED
          BY <5>1, <5>2, <5>3
    <3> QED
      BY <1>1, <2>3, <3>1, <3>5, <3>6 DEF Converted, HasBuffer, Top, OneExposure
  <2> QED
    BY <2>7, <2>8, <2>9, <2>10
<1> QED
  BY <1>7, <1>8

\* Buffers come back to the driver: nothing is queued or full.
LEMMA StreamOffKeeps ==
  ASSUME Web!StreamAssumption, WebInv, Web!StreamOff, ~HasBuffer', wcStep' \in {"paused", "closed"},
         granted' \in 0 .. MaxBuffers, UNCHANGED <<taken, bitmap, handed>>
  PROVE  WebInv'
<1>1. queued' = <<>> /\ full' = <<>> /\ written' = {} /\ streaming' = FALSE
      /\ content' = content /\ exposures' = exposures
  BY DEF Web!StreamOff
<1>2. Done' = exposures /\ Done <= exposures /\ Done \in Int
  BY <1>1 DEF Done, WebInv, Types, Exposures
<1>3. Types'
  <2>1. <<>> \in Seq(Web!Indices)
    OBVIOUS
  <2>2. wcStep' \in Steps /\ written' \in SUBSET Web!Halves /\ streaming' \in BOOLEAN
    BY <1>1 DEF Steps
  <2> QED
    BY <1>1, <2>1, <2>2 DEF WebInv, Types
<1>4. handed' <= Done'
  BY <1>2 DEF WebInv, FullAscend, Types, Exposures
<1> QED
  BY <1>1, <1>2, <1>3, <1>4 DEF WebInv, OnePlace, Exposing, FullAscend, Converted, HasBuffer

\* Buffers that the kernel has not are queued, some or all of them.
LEMMA QueueKeeps ==
  ASSUME Web!StreamAssumption, WebInv, NEW n \in 0 .. MaxBuffers, NEW all \in BOOLEAN,
         Web!QueueAndStream(n, all), ~HasBuffer', wcStep' = "idle",
         granted' \in 0 .. MaxBuffers, UNCHANGED <<taken, bitmap, handed>>
  PROVE  WebInv'
<1> USE DEF WebInv, Web!StreamAssumption
<1>1. PICK k \in 0 .. n : /\ \A b \in 1 .. k : b \notin Web!Owned
                          /\ queued' = queued \o [b \in 1 .. k |-> b]
                          /\ streaming' \in BOOLEAN
                          /\ UNCHANGED <<full, content, written, exposures>>
  BY DEF Web!QueueAndStream, Types
<1>2. k \in Nat /\ 1 .. k \subseteq Web!Indices
  BY DEF Web!Indices
<1>3. /\ queued' \in Seq(Web!Indices) /\ Len(queued') = Len(queued) + k
      /\ \A i \in 1 .. Len(queued) : queued'[i] = queued[i]
      /\ \A i \in Len(queued) + 1 .. Len(queued) + k : queued'[i] = i - Len(queued)
  BY <1>1, <1>2, Joined DEF Types
<1>4. /\ Len(queued) \in Nat /\ DOMAIN queued = 1 .. Len(queued)
      /\ Len(full) \in Nat /\ DOMAIN full = 1 .. Len(full)
  BY Elements DEF Types
<1>5. \A b \in 1 .. k : /\ \A i \in 1 .. Len(queued) : queued[i] # b
                        /\ \A i \in 1 .. Len(full) : full[i] # b
  BY <1>1, <1>4 DEF Web!Owned
<1>6. \A i \in 1 .. Len(queued') : \/ i \in 1 .. Len(queued)
                                  \/ /\ i \in Len(queued) + 1 .. Len(queued) + k
                                     /\ i - Len(queued) \in 1 .. k
  BY <1>2, <1>3, <1>4
<1>7. OnePlace'
  <2>1. \A i, j \in 1 .. Len(queued') : queued'[i] = queued'[j] => i = j
    <3> SUFFICES ASSUME NEW i \in 1 .. Len(queued'), NEW j \in 1 .. Len(queued'),
                        queued'[i] = queued'[j]
                 PROVE  i = j
      OBVIOUS
    <3>1. CASE i \in 1 .. Len(queued) /\ j \in 1 .. Len(queued)
      BY <1>3, <3>1 DEF OnePlace
    <3>2. CASE i \in 1 .. Len(queued) /\ j \notin 1 .. Len(queued)
      BY <1>3, <1>5, <1>6, <3>2
    <3>3. CASE i \notin 1 .. Len(queued) /\ j \in 1 .. Len(queued)
      BY <1>3, <1>5, <1>6, <3>3
    <3>4. CASE i \notin 1 .. Len(queued) /\ j \notin 1 .. Len(queued)
      <4>1. i - Len(queued) = j - Len(queued)
        BY <1>3, <1>6, <3>4
      <4> QED
        BY <1>3, <1>4, <4>1
    <3> QED
      BY <3>1, <3>2, <3>3, <3>4
  <2>2. \A i \in 1 .. Len(queued'), j \in 1 .. Len(full) : queued'[i] # full[j]
    BY <1>3, <1>5, <1>6 DEF OnePlace
  <2> QED
    BY <1>1, <2>1, <2>2 DEF OnePlace
<1>8. Exposing'
  <2> SUFFICES ASSUME written # {} PROVE Exposing'
    BY <1>1 DEF Exposing
  <2>1. queued # <<>> /\ Len(queued) > 0
    BY Elements DEF Exposing, Types
  <2>2. queued'[1] = queued[1] /\ queued' # <<>>
    BY <1>2, <1>3, <1>4, <2>1, Elements
  <2> QED
    BY <1>1, <2>2 DEF Exposing
<1>9. Types' /\ FullAscend' /\ Converted'
  BY <1>1, <1>3
     DEF Types, Steps, FullAscend, Converted, HasBuffer, Done, Top, OneExposure
<1> QED
  BY <1>7, <1>8, <1>9

\* A frame is waited for, a buffer taken, converted and given back.
LEMMA GetFrameKeeps ==
  ASSUME Web!StreamAssumption, WebInv, Web!GetFrame \/ Web!Poll
  PROVE  WebInv'
<1> USE DEF WebInv, Exposing, FullAscend, Converted, OnePlace, HasBuffer, Done, Top, OneExposure
<1>1. CASE Web!GetFrame
  <2>1. bitmap' \in [Web!Halves -> Exposures] /\ \A h \in Web!Halves : bitmap'[h] = 0
    BY <1>1 DEF Web!GetFrame, Web!Unconverted, Exposures, Web!StreamAssumption
  <2> QED
    BY <1>1, <2>1 DEF Web!GetFrame, Types, Web!kernelVars, Steps
<1>2. CASE Web!Poll
  BY <1>2 DEF Web!Poll, Types, Web!kernelVars, Steps
<1> QED
  BY <1>1, <1>2

\* The driver takes the first full buffer (VIDIOC_DQBUF).
LEMMA DequeueKeeps == ASSUME Web!StreamAssumption, WebInv, Web!Dequeue PROVE WebInv'
<1> USE DEF WebInv
<1>1. CASE wcStep' = "failed" /\ UNCHANGED <<taken, full>>
  BY <1>1 DEF Web!Dequeue, Types, Steps, Exposing, FullAscend, Converted, OnePlace, HasBuffer, Done,
              Top, OneExposure
<1>2. CASE taken' = Head(full) /\ full' = Tail(full) /\ wcStep' = "convert"
  <2>1. /\ full # <<>> /\ wcStep = "dequeue"
        /\ UNCHANGED <<granted, streaming, queued, content, written, exposures, bitmap, handed>>
    BY DEF Web!Dequeue
  <2>2. /\ full' \in Seq(Web!Indices) /\ Len(full') = Len(full) - 1
        /\ \A i \in 1 .. Len(full) - 1 : full'[i] = full[i + 1]
        /\ taken' = full[1] /\ taken' \in Web!Indices /\ Len(full) > 0 /\ Len(full) \in Nat
    BY <1>2, <2>1, Removed, Elements DEF Types
  <2>3. \A i \in 1 .. Len(full') : i + 1 \in 2 .. Len(full) /\ i + 1 \in 1 .. Len(full)
                                /\ full'[i] = full[i + 1]
    BY <2>2
  <2>4. Types' /\ Exposing'
    BY <1>2, <2>1, <2>2 DEF Types, Steps, Exposing, Web!StreamAssumption, Web!Indices
  <2>5. OnePlace'
    <3>1. \A i, j \in 1 .. Len(full') : full'[i] = full'[j] => i = j
      <4> SUFFICES ASSUME NEW i \in 1 .. Len(full'), NEW j \in 1 .. Len(full'),
                          full'[i] = full'[j]
                   PROVE  i = j
        OBVIOUS
      <4>1. i + 1 = j + 1
        BY <2>3 DEF OnePlace
      <4> QED
        BY <2>2, <4>1
    <3>2. \A j \in 1 .. Len(full') : full'[j] # taken'
      <4> TAKE j \in 1 .. Len(full')
      <4>1. full[j + 1] = full[1] => j + 1 = 1
        BY <2>2, <2>3 DEF OnePlace
      <4> QED
        BY <2>2, <2>3, <4>1
    <3>3. \A i \in 1 .. Len(queued) : queued[i] # taken'
      BY <2>2 DEF OnePlace
    <3>4. \A i \in 1 .. Len(queued), j \in 1 .. Len(full') : queued[i] # full'[j]
      BY <2>3 DEF OnePlace
    <3> QED
      BY <2>1, <2>2, <3>1, <3>2, <3>3, <3>4 DEF OnePlace
  <2>6. \A i \in 1 .. Len(full') : Top(taken') < Top(full'[i])
    <3> TAKE i \in 1 .. Len(full')
    <3>1. 1 < i + 1 /\ 1 \in 1 .. Len(full)
      BY <2>2
    <3> QED
      BY <2>2, <2>3, <3>1 DEF FullAscend
  <2>7. OneExposure(taken') /\ handed < Top(taken') /\ Top(taken') <= Done
    BY <2>2 DEF FullAscend
  <2>8. FullAscend'
    <3>1. \A i, j \in 1 .. Len(full') : i < j => i + 1 < j + 1
      BY <2>2
    <3>2. \A i, j \in 1 .. Len(full') : i < j => Top(full'[i]) < Top(full'[j])
      BY <2>3, <3>1 DEF FullAscend
    <3>3. \A i \in 1 .. Len(full') :
            OneExposure(full'[i]) /\ handed < Top(full'[i]) /\ Top(full'[i]) <= Done
      BY <2>3 DEF FullAscend
    <3> QED
      BY <2>1, <3>2, <3>3 DEF FullAscend, Done, Top, OneExposure
  <2>9. Converted'
    BY <1>2, <2>1, <2>6, <2>7 DEF Converted, HasBuffer, Done, Top, OneExposure
  <2> QED
    BY <2>4, <2>5, <2>8, <2>9
<1> QED
  BY <1>1, <1>2 DEF Web!Dequeue

\* Half of the image is converted.
LEMMA ConvertKeeps ==
  ASSUME Web!StreamAssumption, WebInv, NEW half \in Web!Halves, Web!Convert(half)
  PROVE  WebInv'
<1> USE DEF WebInv
<1>1. /\ wcStep = "convert" /\ wcStep' \in {"convert", "requeue"}
      /\ bitmap' = [bitmap EXCEPT ![half] = content[taken][half]]
      /\ wcStep' = "requeue" => \A h \in Web!Halves : bitmap'[h] # 0
      /\ UNCHANGED <<granted, streaming, queued, full, content, written, exposures, taken, handed>>
  BY DEF Web!Convert, Web!kernelVars
<1>2. taken \in Web!Indices /\ content[taken][half] \in Exposures
  BY <1>1 DEF OnePlace, HasBuffer, Types
<1>3. /\ bitmap' \in [Web!Halves -> Exposures]
      /\ \A h \in Web!Halves : bitmap'[h] \in {0, content[taken][h]}
  BY <1>1, <1>2 DEF Types, Converted
<1>4. Types' /\ OnePlace' /\ Exposing' /\ FullAscend'
  BY <1>1, <1>3 DEF Types, Steps, OnePlace, HasBuffer, Exposing, FullAscend, Done, Top, OneExposure
<1>5. Converted'
  BY <1>1, <1>3 DEF Converted, HasBuffer, Done, Top, OneExposure
<1> QED
  BY <1>4, <1>5

\* The buffer goes back to the kernel (VIDIOC_QBUF).
LEMMA RequeueKeeps == ASSUME Web!StreamAssumption, WebInv, Web!Requeue PROVE WebInv'
<1> USE DEF WebInv
<1>1. /\ wcStep = "requeue" /\ wcStep' = "process"
      /\ UNCHANGED <<granted, streaming, full, content, written, exposures, taken, bitmap, handed>>
  BY DEF Web!Requeue
<1>2. taken \in Web!Indices
  BY <1>1 DEF OnePlace, HasBuffer
<1>3. Converted' /\ FullAscend'
  <2>1. bitmap["top"] = content[taken]["top"] /\ bitmap["bottom"] = content[taken]["bottom"]
    BY <1>1 DEF Converted, Web!Halves
  <2> QED
    BY <1>1, <2>1 DEF Converted, FullAscend, HasBuffer, Done, Top, OneExposure
<1>4. CASE queued' = queued
  BY <1>1, <1>3, <1>4 DEF Types, Steps, OnePlace, HasBuffer, Exposing
<1>5. CASE queued' = Append(queued, taken)
  <2>1. /\ queued' \in Seq(Web!Indices) /\ Len(queued') = Len(queued) + 1 /\ queued' # <<>>
        /\ \A i \in 1 .. Len(queued) : queued'[i] = queued[i]
        /\ queued'[Len(queued) + 1] = taken
        /\ Len(queued) \in Nat
    BY <1>2, <1>5, Appended, Elements DEF Types
  <2>2. \A i \in 1 .. Len(queued') : i \in 1 .. Len(queued) \/ i = Len(queued) + 1
    BY <2>1
  <2>3. OnePlace'
    <3>1. \A i \in 1 .. Len(queued) : queued[i] # taken
      BY <1>1 DEF OnePlace, HasBuffer
    <3>2. \A i, j \in 1 .. Len(queued') : queued'[i] = queued'[j] => i = j
      BY <2>1, <2>2, <3>1 DEF OnePlace
    <3>3. \A i \in 1 .. Len(queued'), j \in 1 .. Len(full) : queued'[i] # full[j]
      BY <1>1, <2>1, <2>2 DEF OnePlace, HasBuffer
    <3> QED
      BY <1>1, <3>2, <3>3 DEF OnePlace, HasBuffer
  <2>4. written # {} => queued'[1] = queued[1]
    BY <2>1, Elements DEF Exposing, Types
  <2> QED
    BY <1>1, <1>3, <2>1, <2>3, <2>4 DEF Types, Steps, Exposing
<1> QED
  BY <1>4, <1>5 DEF Web!Requeue

\* The image is handed to the image processing.
LEMMA ProcessKeeps == ASSUME Web!StreamAssumption, WebInv, Web!Process PROVE WebInv'
<1> USE DEF WebInv
<1>1. /\ wcStep = "process" /\ wcStep' = "idle" /\ handed' = bitmap["top"]
      /\ UNCHANGED <<granted, streaming, queued, full, content, written, exposures, taken, bitmap>>
  BY DEF Web!Process, Web!kernelVars
<1>2. handed' \in Exposures
  BY <1>1 DEF Types, Web!Halves
<1>3. Types' /\ OnePlace' /\ Exposing' /\ Converted'
  BY <1>1, <1>2 DEF Types, Steps, OnePlace, HasBuffer, Exposing, Converted
<1>4. FullAscend'
  BY <1>1 DEF FullAscend, Converted, Done, Top, OneExposure
<1> QED
  BY <1>3, <1>4

\* The device is opened, paused, resumed and closed.
LEMMA StreamKeeps ==
  ASSUME Web!StreamAssumption, WebInv, Web!Open \/ Web!PauseStream \/ Web!ResumeStream \/ Web!CloseDevice
  PROVE  WebInv'
<1>1. CASE Web!Open
  <2>1. PICK n \in 1 .. MaxBuffers : granted' = n /\ Web!QueueAndStream(n, TRUE)
    BY <1>1 DEF Web!Open
  <2>2. n \in 0 .. MaxBuffers /\ granted' \in 0 .. MaxBuffers
    BY <2>1 DEF Web!StreamAssumption
  <2> QED
    BY <1>1, <2>1, <2>2, QueueKeeps DEF Web!Open, HasBuffer
<1>2. CASE Web!PauseStream
  <2>1. CASE Web!StreamOff
    BY <1>2, <2>1, StreamOffKeeps DEF Web!PauseStream, HasBuffer, WebInv, Types
  <2>2. CASE UNCHANGED Web!kernelVars
    BY <1>2, <2>2 DEF Web!PauseStream, Web!kernelVars, WebInv, Types, Steps, OnePlace, HasBuffer, Exposing,
                      FullAscend, Converted, Done, Top, OneExposure
  <2> QED
    BY <1>2, <2>1, <2>2 DEF Web!PauseStream
<1>3. CASE Web!ResumeStream
  BY <1>3, QueueKeeps DEF Web!ResumeStream, HasBuffer, WebInv, Types
<1>4. CASE Web!CloseDevice
  <2>1. granted' \in 0 .. MaxBuffers
    BY <1>4 DEF Web!CloseDevice, Web!StreamAssumption
  <2> QED
    BY <1>4, <2>1, StreamOffKeeps DEF Web!CloseDevice, HasBuffer
<1> QED
  BY <1>1, <1>2, <1>3, <1>4

\* A buffer is in one place, and what the buffers hold follows in order.
THEOREM WebInvariance == ASSUME Web!StreamAssumption PROVE Web!WebcamSpec => []WebInv
<1>1. Web!WebcamInit => WebInv
  <2> SUFFICES ASSUME Web!WebcamInit PROVE WebInv
    OBVIOUS
  <2>1. content \in [Web!Indices -> [Web!Halves -> Exposures]] /\ bitmap \in [Web!Halves -> Exposures]
    BY DEF Web!WebcamInit, Web!Unconverted, Exposures, Web!StreamAssumption
  <2>2. Types
    <3>1. queued \in Seq(Web!Indices) /\ full \in Seq(Web!Indices) /\ written \in SUBSET Web!Halves
      BY DEF Web!WebcamInit
    <3>2. granted \in 0 .. MaxBuffers /\ taken \in 0 .. MaxBuffers
          /\ exposures \in Exposures /\ handed \in Exposures
      BY DEF Web!WebcamInit, Exposures, Web!StreamAssumption
    <3>3. streaming \in BOOLEAN /\ wcStep \in Steps
      BY DEF Web!WebcamInit, Steps
    <3> QED
      BY <2>1, <3>1, <3>2, <3>3 DEF Types
  <2>3. OnePlace /\ Exposing /\ FullAscend /\ Converted
    BY DEF Web!WebcamInit, OnePlace, Exposing, FullAscend, Converted, HasBuffer, Done
  <2> QED
    BY <2>2, <2>3 DEF WebInv
<1>2. WebInv /\ [Web!WebcamNext]_(Web!webcamVars) => WebInv'
  <2>1. WebInv /\ UNCHANGED Web!webcamVars => WebInv'
    BY DEF Web!webcamVars, Web!kernelVars, WebInv, Types, Steps, OnePlace, HasBuffer, Exposing, FullAscend,
           Converted, Done, Top, OneExposure
  <2> QED
    BY <2>1, ExposeKeeps, ConvertKeeps, StreamKeeps, GetFrameKeeps, DequeueKeeps, RequeueKeeps,
       ProcessKeeps DEF Web!WebcamNext
<1> QED
  BY <1>1, <1>2, PTL DEF Web!WebcamSpec

\* Whatever is processed is of one exposure, later than the one before: no
\* number of buffers, order of pauses or call that fails lets the camera write
\* a buffer that is being converted (webcam_driver.c:783-800).
THEOREM ImagesAreWholeAndNew ==
  ASSUME Web!StreamAssumption PROVE Web!WebcamSpec => []Web!ConvertedIsOneExposure
<1>1. WebInv => Web!ConvertedIsOneExposure
  BY DEF WebInv, Converted, Web!ConvertedIsOneExposure, Web!Halves
<1> QED
  BY <1>1, WebInvariance, PTL
------------------------------------------------------------------------------
(***************************************************************************)
(* Buffering, for any number of buffers (three or more), of images and of  *)
(* starts.  The image on show cannot be drawn over because writeBuffer     *)
(* takes neither the buffer that is read nor the current one.  That no     *)
(* buffer is freed in use rests on the sizes: from the first resize of a   *)
(* run on all buffers have the size of its images, and nothing is current  *)
(* in a run, drawn into or shown before that - not even when init() runs   *)
(* beside the master thread it should come before.                         *)
(***************************************************************************)

BufTypes ==
  /\ current \in Buf!BufferIds \cup {Buf!None}
  /\ writeChecked \in Buf!BufferIds \cup {Buf!None}
  /\ readChecked \in Buf!BufferIds \cup {Buf!None}
  /\ target \in Buf!BufferIds \cup {Buf!None}
  /\ buffers \in [Buf!BufferIds -> [size : Resolutions \cup {0}, shot : Nat]]
  /\ master \in [at : {"ended", "draw", "resize", "written", "write"}, size : Resolutions \cup {0}]
  /\ resolution \in Resolutions /\ shots \in Nat

Running == master.at # "ended"
Sized == \A b \in Buf!BufferIds : buffers[b].size = resolution

\* When all buffers have the size of the images of the run.
SizesAgree ==
  /\ Running => master.size = resolution
  /\ master.at \in {"draw", "resize"} \/ viewer \in {"init", "start"} => initBuffers \/ Sized
  /\ master.at \in {"written", "write"} \/ target # Buf!None => Sized
  /\ (Running \/ viewer = "start") /\ current # Buf!None => Sized
  /\ viewer = "show" /\ Running => Sized

\* Which buffers differ.
Places ==
  /\ readChecked # Buf!None <=> viewer = "show"
  /\ ~Running => target = Buf!None
  /\ target # Buf!None /\ writeChecked # Buf!None => target = writeChecked
  /\ master.at = "write" /\ target # Buf!None => writeChecked = Buf!None
  /\ master.at = "draw" /\ target # Buf!None => target # current

\* Which buffers hold a complete image.
Complete ==
  /\ current # Buf!None => buffers[current].shot # Buf!Torn
  /\ master.at \in {"resize", "written"} /\ target # Buf!None => buffers[target].shot # Buf!Torn

\* The invariant of Buffering.
BufInv == BufTypes /\ SizesAgree /\ Places /\ Complete /\ Buf!ShownIsWhole

\* Around the end of the buffers.
LEMMA Around ==
  ASSUME Buf!BuffersAssumption, NEW c \in -1 .. noBuffers - 1, NEW i \in 1 .. noBuffers - 1
  PROVE  (c + i) % noBuffers = IF c + i < noBuffers THEN c + i ELSE c + i - noBuffers
BY SMT DEF Buf!BuffersAssumption

\* writeBuffer finds a buffer, which is neither the current one nor on show.
LEMMA NextFreeIsFree ==
  ASSUME Buf!BuffersAssumption, NEW c \in Buf!BufferIds \cup {Buf!None}
  PROVE  /\ Buf!NextFree(c) \in Buf!BufferIds
         /\ Buf!NextFree(c) # c
         /\ Buf!NextFree(c) # readChecked
<1> USE DEF Buf!BuffersAssumption
<1>1. c \in -1 .. noBuffers - 1 /\ 1 \in 1 .. noBuffers - 1 /\ 2 \in 1 .. noBuffers - 1
  BY DEF Buf!BufferIds, Buf!None
<1>2. (c + 1) % noBuffers # (c + 2) % noBuffers
  <2>1. (c + 1) % noBuffers = IF c + 1 < noBuffers THEN c + 1 ELSE c + 1 - noBuffers
    BY <1>1, Around
  <2>2. (c + 2) % noBuffers = IF c + 2 < noBuffers THEN c + 2 ELSE c + 2 - noBuffers
    BY <1>1, Around
  <2> HIDE DEF Buf!BuffersAssumption
  <2>3. (IF c + 1 < noBuffers THEN c + 1 ELSE c + 1 - noBuffers)
          # (IF c + 2 < noBuffers THEN c + 2 ELSE c + 2 - noBuffers)
    BY <1>1 DEF Buf!BuffersAssumption
  <2> QED
    BY <2>1, <2>2, <2>3
<1>3. 1 \in Buf!Free(c) \/ (2 \in Buf!Free(c) /\ 1 \notin Buf!Free(c))
  BY <1>1, <1>2 DEF Buf!Free
<1>4. \E i \in Buf!Free(c) : \A o \in Buf!Free(c) : i <= o
  BY <1>3 DEF Buf!Free
<1> DEFINE k == CHOOSE i \in Buf!Free(c) : \A o \in Buf!Free(c) : i <= o
<1>5. k \in Buf!Free(c)
  BY <1>4
<1>6. Buf!NextFree(c) = (c + k) % noBuffers
  BY DEF Buf!NextFree
<1> HIDE DEF k
<1>7. k \in 1 .. noBuffers - 1 /\ (c + k) % noBuffers # readChecked
  BY <1>5 DEF Buf!Free
<1>8. (c + k) % noBuffers \in Buf!BufferIds /\ (c + k) % noBuffers # c
  <2>1. (c + k) % noBuffers = IF c + k < noBuffers THEN c + k ELSE c + k - noBuffers
    BY <1>1, <1>7, Around
  <2>2. (IF c + k < noBuffers THEN c + k ELSE c + k - noBuffers) \in 0 .. noBuffers - 1 \ {c}
    BY <1>1, <1>7
  <2> QED
    BY <2>1, <2>2 DEF Buf!BufferIds
<1> QED
  BY <1>6, <1>7, <1>8

\* The thread of the windows.
LEMMA ViewerKeeps ==
  ASSUME Buf!BuffersAssumption, BufInv,
         \/ Buf!Start \/ Buf!InitBuffers \/ Buf!StartMaster \/ Buf!ChangeResolution \/ Buf!Stop
         \/ Buf!Stopped \/ Buf!Redraw \/ Buf!Redrawn
  PROVE  BufInv'
<1> USE DEF BufInv
<1>1. CASE Buf!Start
  BY <1>1 DEF Buf!Start, BufTypes, SizesAgree, Sized, Running, Places, Complete, Buf!ShownIsWhole,
              Buf!BufferIds
<1>2. CASE Buf!InitBuffers
  BY <1>2 DEF Buf!InitBuffers, BufTypes, SizesAgree, Sized, Running, Places, Complete,
              Buf!ShownIsWhole, Buf!BufferIds, Buf!None
<1>3. CASE Buf!StartMaster
  <2>1. /\ viewer = "start" /\ viewer' = "idle"
        /\ UNCHANGED <<current, writeChecked, readChecked, buffers, initBuffers, resolution,
                       initing, shots, lost>>
    BY <1>3 DEF Buf!StartMaster
  <2>2. CASE master.at = "ended"
    <3>1. master' = [at |-> "draw", size |-> resolution] /\ target' = Buf!None
      BY <1>3, <2>2 DEF Buf!StartMaster
    <3>2. master'.at = "draw" /\ master'.size = resolution
      BY <3>1
    <3>3. BufTypes'
      BY <2>1, <3>1 DEF BufTypes, Buf!BufferIds
    <3>4. SizesAgree'
      BY <2>1, <3>1, <3>2 DEF SizesAgree, Sized, Running, Buf!BufferIds, Buf!None
    <3> QED
      BY <2>1, <3>1, <3>2, <3>3, <3>4
         DEF Places, Running, Complete, Buf!ShownIsWhole, Buf!None, Buf!Torn
  <2>3. CASE master.at # "ended"
    <3>1. UNCHANGED <<master, target>>
      BY <1>3, <2>3 DEF Buf!StartMaster
    <3> QED
      BY <2>1, <2>3, <3>1 DEF BufTypes, SizesAgree, Sized, Running, Places, Complete,
         Buf!ShownIsWhole, Buf!BufferIds, Buf!None, Buf!Torn
  <2> QED
    BY <2>2, <2>3
<1>4. CASE Buf!ChangeResolution
  BY <1>4 DEF Buf!ChangeResolution, BufTypes, SizesAgree, Sized, Running, Places, Complete,
              Buf!ShownIsWhole, Buf!BufferIds
<1>5. CASE Buf!Stop \/ Buf!Stopped
  <2>1. /\ viewer' \in {"idle", "stop"} /\ viewer \in {"idle", "stop"}
        /\ UNCHANGED <<current, writeChecked, readChecked, buffers, initBuffers, resolution, master,
                       target, shots, lost>>
    BY <1>5 DEF Buf!Stop, Buf!Stopped
  <2> QED
    BY <2>1 DEF BufTypes, SizesAgree, Sized, Running, Places, Complete, Buf!ShownIsWhole, Buf!BufferIds
<1>6. CASE Buf!Redraw
  BY <1>6 DEF Buf!Redraw, BufTypes, SizesAgree, Sized, Running, Places, Complete, Buf!ShownIsWhole,
              Buf!BufferIds
<1>7. CASE Buf!Redrawn
  BY <1>7 DEF Buf!Redrawn, BufTypes, SizesAgree, Sized, Running, Places, Complete, Buf!ShownIsWhole,
              Buf!BufferIds
<1> QED
  BY <1>1, <1>2, <1>3, <1>4, <1>5, <1>6, <1>7

\* The master thread draws into its buffer and has the buffers resized.
LEMMA DrawKeeps ==
  ASSUME Buf!BuffersAssumption, BufInv, Buf!Draw
  PROVE  BufInv'
<1> USE DEF BufInv
<1>1. /\ master.at = "draw" /\ shots' = shots + 1 /\ master' = [master EXCEPT !.at = "resize"]
      /\ UNCHANGED <<current, writeChecked, readChecked, initBuffers, resolution, target, viewer>>
  BY DEF Buf!Draw
<1>2. /\ master'.at = "resize" /\ master'.size = master.size
      /\ master' \in [at : {"ended", "draw", "resize", "written", "write"},
                      size : Resolutions \cup {0}]
  BY <1>1 DEF BufTypes
<1>3. shots + 1 \in Nat /\ shots + 1 # Buf!Torn
  BY DEF BufTypes, Buf!Torn
<1>4. CASE target = Buf!None
  <2>1. UNCHANGED <<buffers, lost>>
    BY <1>4 DEF Buf!Draw
  <2> QED
    BY <1>1, <1>2, <1>3, <1>4, <2>1 DEF BufTypes, SizesAgree, Sized, Running, Places, Complete,
       Buf!ShownIsWhole, Buf!BufferIds
<1>5. CASE target # Buf!None
  <2>1. /\ buffers' = [buffers EXCEPT ![target].shot = shots + 1]
        /\ lost' = (lost \/ buffers[target].size # master.size)
    BY <1>5 DEF Buf!Draw
  <2>2. target \in Buf!BufferIds
    BY <1>5 DEF BufTypes
  <2>3. /\ buffers' \in [Buf!BufferIds -> [size : Resolutions \cup {0}, shot : Nat]]
        /\ \A b \in Buf!BufferIds :
             /\ buffers'[b].size = buffers[b].size
             /\ buffers'[b].shot = IF b = target THEN shots + 1 ELSE buffers[b].shot
    BY <1>3, <2>1, <2>2 DEF BufTypes
  <2>4. ~lost'
    BY <1>1, <1>5, <2>1, <2>2 DEF SizesAgree, Sized, Running, Buf!ShownIsWhole
  <2>5. BufTypes'
    BY <1>1, <1>2, <1>3, <2>3 DEF BufTypes, Buf!BufferIds
  <2>6. SizesAgree'
    BY <1>1, <1>2, <2>3 DEF SizesAgree, Sized, Running, Buf!BufferIds
  <2>7. Complete'
    BY <1>1, <1>2, <1>3, <2>2, <2>3 DEF Complete, BufTypes, Buf!Torn
  <2>8. Places' /\ Buf!ShownIsWhole'
    BY <1>1, <1>2, <1>3, <2>2, <2>3, <2>4
       DEF Places, Running, BufTypes, Buf!ShownIsWhole, Buf!Torn
  <2> QED
    BY <2>5, <2>6, <2>7, <2>8
<1> QED
  BY <1>4, <1>5

\* The buffers of another size are freed.
LEMMA ResizeKeeps ==
  ASSUME Buf!BuffersAssumption, BufInv, Buf!Resize
  PROVE  BufInv'
<1> USE DEF BufInv
<1>1. /\ master.at = "resize" /\ master' = [master EXCEPT !.at = "written"]
      /\ UNCHANGED <<current, writeChecked, readChecked, resolution, target, shots, viewer>>
  BY DEF Buf!Resize
<1>2. /\ master'.at = "written" /\ master'.size = master.size /\ master.size = resolution
      /\ master' \in [at : {"ended", "draw", "resize", "written", "write"},
                      size : Resolutions \cup {0}]
  BY <1>1 DEF BufTypes, SizesAgree, Running
<1>3. buffers' = [b \in Buf!BufferIds |->
        IF initBuffers /\ buffers[b].size # master.size
          THEN [size |-> master.size, shot |-> Buf!Torn] ELSE buffers[b]]
  BY DEF Buf!Resize
<1>4. Sized'
  BY <1>1, <1>2, <1>3 DEF SizesAgree, Sized, Buf!BufferIds
<1>5. buffers' \in [Buf!BufferIds -> [size : Resolutions \cup {0}, shot : Nat]]
  BY <1>2, <1>3 DEF BufTypes, Buf!Torn
<1>6. Sized => \A b \in Buf!BufferIds : buffers'[b] = buffers[b]
  BY <1>2, <1>3 DEF Sized
<1>7. ~lost'
  <2>1. lost' = (lost \/ (/\ readChecked # Buf!None
                          /\ buffers'[readChecked].size # buffers[readChecked].size))
    BY DEF Buf!Resize
  <2>2. readChecked # Buf!None => readChecked \in Buf!BufferIds /\ Sized
    BY <1>1 DEF BufTypes, Places, SizesAgree, Running
  <2> QED
    BY <1>6, <2>1, <2>2 DEF Buf!ShownIsWhole
<1>8. BufTypes'
  BY <1>1, <1>2, <1>5 DEF BufTypes, Buf!BufferIds
<1>9. SizesAgree' /\ Places'
  BY <1>1, <1>2, <1>4 DEF SizesAgree, Places, Running
<1>10. Complete'
  BY <1>1, <1>2, <1>6 DEF Complete, SizesAgree, Running, BufTypes
<1>11. Buf!ShownIsWhole'
  BY <1>1, <1>2, <1>6, <1>7 DEF Buf!ShownIsWhole, SizesAgree, Places, Running, BufTypes
<1> QED
  BY <1>8, <1>9, <1>10, <1>11

\* The image that was drawn becomes the current one, and another buffer is taken.
LEMMA WrittenKeeps ==
  ASSUME Buf!BuffersAssumption, BufInv, Buf!BufferWritten
  PROVE  BufInv'
<1> USE DEF BufInv
<1>1. /\ master.at = "written" /\ master' = [master EXCEPT !.at = "write"]
      /\ UNCHANGED <<readChecked, buffers, initBuffers, resolution, target, shots, viewer, lost>>
  BY DEF Buf!BufferWritten
<1>2. /\ master'.at = "write" /\ master'.size = master.size
      /\ master' \in [at : {"ended", "draw", "resize", "written", "write"},
                      size : Resolutions \cup {0}]
  BY <1>1 DEF BufTypes
<1>3. \/ target # Buf!None /\ writeChecked = target /\ current' = target /\ writeChecked' = Buf!None
      \/ (target = Buf!None \/ writeChecked = Buf!None) /\ UNCHANGED <<current, writeChecked>>
  BY DEF Buf!BufferWritten, Places
<1>4. BufTypes'
  BY <1>1, <1>2, <1>3 DEF BufTypes, Buf!BufferIds
<1>5. SizesAgree'
  BY <1>1, <1>2 DEF SizesAgree, Sized, Running, Buf!BufferIds
<1>6. Places' /\ Complete' /\ Buf!ShownIsWhole'
  BY <1>1, <1>2, <1>3 DEF Places, Running, Complete, Buf!ShownIsWhole
<1> QED
  BY <1>4, <1>5, <1>6

\* Another buffer is wiped and drawn into.
LEMMA WriteKeeps ==
  ASSUME Buf!BuffersAssumption, BufInv, Buf!WriteBuffer
  PROVE  BufInv'
<1> USE DEF BufInv
<1>1. /\ master.at = "write" /\ master' = [master EXCEPT !.at = "draw"]
      /\ UNCHANGED <<current, readChecked, initBuffers, resolution, shots, viewer, lost>>
  BY DEF Buf!WriteBuffer
<1>2. /\ master'.at = "draw" /\ master'.size = master.size
      /\ master' \in [at : {"ended", "draw", "resize", "written", "write"},
                      size : Resolutions \cup {0}]
  BY <1>1 DEF BufTypes
<1>3. CASE writeChecked # Buf!None
  <2>1. target' = Buf!None /\ UNCHANGED <<writeChecked, buffers>>
    BY <1>3 DEF Buf!WriteBuffer
  <2>2. BufTypes' /\ SizesAgree'
    BY <1>1, <1>2, <2>1 DEF BufTypes, SizesAgree, Sized, Running, Buf!BufferIds
  <2> QED
    BY <1>1, <1>2, <2>1, <2>2 DEF Places, Running, Complete, Buf!ShownIsWhole
<1>4. CASE writeChecked = Buf!None
  <2> DEFINE b == Buf!NextFree(current)
  <2>1. writeChecked' = b /\ target' = b /\ buffers' = [buffers EXCEPT ![b].shot = Buf!Torn]
    BY <1>4 DEF Buf!WriteBuffer
  <2>2. b \in Buf!BufferIds /\ b # current /\ b # readChecked
    BY NextFreeIsFree DEF BufTypes
  <2> HIDE DEF b
  <2>3. b # Buf!None
    BY <2>2 DEF Buf!BufferIds, Buf!None
  <2>4. /\ buffers' \in [Buf!BufferIds -> [size : Resolutions \cup {0}, shot : Nat]]
        /\ \A o \in Buf!BufferIds : buffers'[o].size = buffers[o].size
        /\ \A o \in Buf!BufferIds \ {b} : buffers'[o].shot = buffers[o].shot
    BY <2>1, <2>2 DEF BufTypes, Buf!Torn
  <2>5. BufTypes' /\ SizesAgree'
    BY <1>1, <1>2, <2>1, <2>2, <2>4 DEF BufTypes, SizesAgree, Sized, Running, Buf!BufferIds
  <2>6. Places' /\ Complete'
    BY <1>1, <1>2, <2>1, <2>2, <2>4 DEF BufTypes, Places, Running, Complete
  <2>7. Buf!ShownIsWhole'
    BY <1>1, <1>2, <2>1, <2>2, <2>4 DEF BufTypes, Places, Buf!ShownIsWhole
  <2> QED
    BY <2>5, <2>6, <2>7
<1> QED
  BY <1>3, <1>4

\* Nothing is freed or drawn over that is in use, at any size of the runs.
THEOREM BufInvariance ==
  ASSUME Buf!BuffersAssumption PROVE Buf!Spec => []BufInv
<1>1. Buf!Init => BufInv
  <2> SUFFICES ASSUME Buf!Init
               PROVE  BufInv
    OBVIOUS
  <2>1. resolution \in Resolutions
    BY DEF Buf!Init, Buf!BuffersAssumption
  <2>2. BufTypes
    BY <2>1 DEF Buf!Init, BufTypes, Buf!Torn
  <2> QED
    BY <2>2 DEF Buf!Init, BufInv, SizesAgree, Running, Places, Complete, Buf!ShownIsWhole
<1>2. BufInv /\ [Buf!BufNext]_(Buf!bufVars) => BufInv'
  <2>1. BufInv /\ UNCHANGED Buf!bufVars => BufInv'
    BY DEF BufInv, BufTypes, SizesAgree, Sized, Running, Places, Complete, Buf!ShownIsWhole,
           Buf!bufVars, Buf!BufferIds
  <2>2. BufInv /\ Buf!MasterEnds => BufInv'
    <3> SUFFICES ASSUME BufInv, Buf!MasterEnds
                 PROVE  BufInv'
      OBVIOUS
    <3>1. /\ master' = [at |-> "ended", size |-> 0] /\ target' = Buf!None
          /\ UNCHANGED <<current, writeChecked, readChecked, buffers, initBuffers, resolution,
                         shots, viewer, lost>>
          /\ Running
      BY DEF Buf!MasterEnds, Running
    <3>2. BufTypes'
      BY <3>1 DEF BufInv, BufTypes, Buf!BufferIds
    <3> QED
      BY <3>1, <3>2 DEF BufInv, SizesAgree, Sized, Running, Places, Complete, Buf!ShownIsWhole,
                        Buf!BufferIds
  <2> QED
    BY <2>1, <2>2, ViewerKeeps, DrawKeeps, ResizeKeeps, WrittenKeeps, WriteKeeps DEF Buf!BufNext
<1> QED
  BY <1>1, <1>2, PTL DEF Buf!Spec

\* The image on show in ltr_gui is complete, and no buffer is freed or drawn beyond its end
\* while it is in use, for any number of buffers, sizes and starts (buffering.cpp, tracker.cpp).
THEOREM ShownImages ==
  ASSUME Buf!BuffersAssumption PROVE Buf!Spec => []Buf!ShownIsWhole
<1>1. BufInv => Buf!ShownIsWhole
  BY DEF BufInv
<1> QED
  BY <1>1, BufInvariance, PTL
------------------------------------------------------------------------------
(***************************************************************************)
(* TirPackets, for pictures of any size and any number of scans and        *)
(* pauses.  A stripe is added to a frame because it is not above the last  *)
(* one; that it is of the same scan rests on the order of the words the    *)
(* camera sends, wherever they are on their way: each follows the one      *)
(* before, the first one that waits follows the last stripe of the frame,  *)
(* and the camera is where the last one left it - or the scan was cut.     *)
(***************************************************************************)

\* The kinds of packets there are with the device, but for the information.
Kinds == IF family = "words" THEN {"words", "unknown", "short"}
         ELSE {"tir5", "sn4", "gray", "bad", "unknown", "short"}

Packets == [kind : {"info", "unknown", "short", "gray", "bad"} \cup Pkt!PacketFamilies,
            words : Seq(Pkt!Word), btns : 0 .. 3]

Scanners == [scan : Nat, line : 0 .. Lines, on : BOOLEAN]

PktTypes ==
  /\ family \in Pkt!PacketFamilies
  /\ scanner \in Scanners /\ scanner.scan > 0
  /\ transfer \in Seq(Packets)
  /\ currentLine \in 0 .. Lines /\ collected \subseteq Pkt!Word /\ buttons \in 0 .. 3

\* A transfer is a packet, or information that was asked for earlier and a packet.
Transfers ==
  /\ Len(transfer) <= 2
  /\ Len(transfer) = 2 => transfer[1].kind = "info" /\ transfer[1].words = <<>>
  /\ Len(transfer) > 0 => transfer[Len(transfer)].kind \in Kinds

\* What the last packet has.
Contents ==
  Len(transfer) > 0 =>
    LET p == transfer[Len(transfer)]
    IN  /\ p.kind = "words" => Len(p.words) \in 1 .. 2
        /\ p.kind \in {"unknown", "short"} => p.words = <<>>
        /\ p.kind # "words" => \A i, j \in DOMAIN p.words : p.words[i].scan = p.words[j].scan

\* The words that wait to be processed.
Waiting == IF transfer = <<>> THEN <<>> ELSE transfer[Len(transfer)].words

\* The word w can come next after u.
Follows(u, w) ==
  \/ u.line = 0
  \/ w.scan = u.scan /\ (w.line = 0 \/ w.line > u.line)
  \/ w.scan = u.scan + 1 /\ w.line < u.line
  \/ u.scan \in cut /\ u.scan < w.scan

\* The camera has sent nothing since the word u.
At(u) ==
  \/ u.line = 0
  \/ scanner.scan = u.scan /\ scanner.line = u.line
  \/ u.scan \in cut /\ u.scan < scanner.scan

\* The stripe c was added last, and the others are of its scan or of one that was cut.
Latest(c) ==
  /\ c.line = currentLine /\ c.line > 0
  /\ \A d \in collected : d.scan = c.scan \/ (d.scan < c.scan /\ d.scan \in cut)

InOrder ==
  /\ Len(Waiting) > 0 => At(Waiting[Len(Waiting)])
  /\ Len(Waiting) = 2 => Follows(Waiting[1], Waiting[2])
  /\ collected # {} =>
       \E c \in collected :
         Latest(c) /\ IF Waiting = <<>> THEN At(c) ELSE Follows(c, Waiting[1])

\* A pause cuts the scan.
Stopping == readState = "paused" => scanner.scan \in cut \/ scanner.scan > MaxScans

\* The invariant of TirPackets.
PktInv ==
  /\ PktTypes /\ Transfers /\ Contents /\ Stopping /\ Pkt!FrameIsOneScan
  /\ IF family = "words" THEN InOrder ELSE collected = {}

\* Where the camera is after a word.
LEMMA AfterWord ==
  ASSUME Pkt!PacketAssumption, NEW s \in Scanners, s.scan > 0, NEW w \in Pkt!NextWords(s)
  PROVE  /\ w \in [scan : Nat, line : 0 .. Lines] /\ w.scan > 0
         /\ Pkt!After(s, w) \in Scanners /\ Pkt!After(s, w).scan > 0
         /\ w.line # 0 => Pkt!After(s, w).scan = w.scan /\ Pkt!After(s, w).line = w.line
         /\ \/ w.scan = s.scan /\ (w.line = 0 \/ w.line > s.line)
            \/ w.scan = s.scan + 1 /\ w.line < s.line
<1> USE DEF Pkt!PacketAssumption
<1>1. s.scan \in Nat /\ s.line \in 0 .. Lines /\ s.on \in BOOLEAN
  BY DEF Scanners
<1>2. \/ \E l \in {0} \cup (s.line + 1 .. Lines) : w = [scan |-> s.scan, line |-> l]
      \/ \E l \in 1 .. s.line - 1 : w = [scan |-> s.scan + 1, line |-> l]
  BY DEF Pkt!NextWords
<1>3. /\ w \in [scan : Nat, line : 0 .. Lines] /\ w.scan > 0
      /\ \/ w.scan = s.scan /\ (w.line = 0 \/ w.line > s.line)
         \/ w.scan = s.scan + 1 /\ w.line < s.line
  BY <1>1, <1>2
<1>4. w.line = 0 => Pkt!After(s, w) = [scan |-> s.scan + 1, line |-> 0, on |-> s.on]
  BY DEF Pkt!After, Scanners
<1>5. w.line # 0 => Pkt!After(s, w) = [scan |-> w.scan, line |-> w.line, on |-> s.on]
  BY DEF Pkt!After, Scanners
<1>6. w.scan \in Nat /\ w.line \in 0 .. Lines /\ s.scan + 1 \in Nat /\ 0 \in 0 .. Lines
      /\ s.scan + 1 > 0
  BY <1>1, <1>3
<1>7. CASE w.line = 0
  <2>1. Pkt!After(s, w) \in Scanners
    <3>1. [scan |-> s.scan + 1, line |-> 0, on |-> s.on] \in Scanners
      BY <1>1, <1>6, Zenon DEF Scanners
    <3> QED
      BY <1>4, <1>7, <3>1
  <2>2. Pkt!After(s, w).scan > 0
    BY <1>4, <1>6, <1>7
  <2> QED
    BY <1>3, <1>7, <2>1, <2>2
<1>8. CASE w.line # 0
  <2>1. Pkt!After(s, w) \in Scanners
    <3>1. [scan |-> w.scan, line |-> w.line, on |-> s.on] \in Scanners
      BY <1>1, <1>6, Zenon DEF Scanners
    <3> QED
      BY <1>5, <1>8, <3>1
  <2>2. Pkt!After(s, w).scan = w.scan /\ Pkt!After(s, w).line = w.line
    BY <1>5, <1>8
  <2> QED
    BY <1>3, <2>1, <2>2
<1> QED
  BY <1>7, <1>8

\* What a TrackIR 2 or 4 can send.
LEMMA SentWords ==
  ASSUME Pkt!PacketAssumption, family = "words", NEW s \in Pkt!Sent
  PROVE  \E w \in Pkt!NextWords(scanner) :
           \/ s = <<Pkt!Packet("words", <<w>>), Pkt!After(scanner, w)>>
           \/ \E v \in Pkt!NextWords(Pkt!After(scanner, w)) :
                s = <<Pkt!Packet("words", <<w, v>>), Pkt!After(Pkt!After(scanner, w), v)>>
<1>1. Pkt!Sent =
        UNION {{<<Pkt!Packet("words", <<w>>), Pkt!After(scanner, w)>>}
                 \cup {<<Pkt!Packet("words", <<w, v>>), Pkt!After(Pkt!After(scanner, w), v)>> :
                         v \in Pkt!NextWords(Pkt!After(scanner, w))} :
               w \in Pkt!NextWords(scanner)}
  BY DEF Pkt!Sent
<1>2. PICK w \in Pkt!NextWords(scanner) :
        s \in {<<Pkt!Packet("words", <<w>>), Pkt!After(scanner, w)>>}
                \cup {<<Pkt!Packet("words", <<w, v>>), Pkt!After(Pkt!After(scanner, w), v)>> :
                        v \in Pkt!NextWords(Pkt!After(scanner, w))}
  BY <1>1, Zenon
<1> QED
  BY <1>2, Zenon

\* What the others can send: the stripes of a scan.
LEMMA SentScan ==
  ASSUME Pkt!PacketAssumption, PktTypes, family # "words", scanner.scan <= MaxScans,
         NEW s \in Pkt!Sent
  PROVE  /\ s[1] \in Packets /\ s[1].kind \in {"tir5", "sn4", "gray", "bad"}
         /\ \A i, j \in DOMAIN s[1].words : s[1].words[i].scan = s[1].words[j].scan
         /\ s[2] = [scanner EXCEPT !.scan = @ + 1]
<1> DEFINE whole == {<<>>, <<[scan |-> scanner.scan, line |-> 1]>>,
                     <<[scan |-> scanner.scan, line |-> 1],
                       [scan |-> scanner.scan, line |-> Lines]>>}
           scanned == [scanner EXCEPT !.scan = @ + 1]
<1>1. \E k \in {"tir5", "sn4", "gray", "bad"}, ws \in whole, b \in {1, 3, buttons} :
        s = <<[kind |-> k, words |-> ws, btns |-> b], scanned>>
  <2>1. CASE family = "tir5"
    <3>1. Pkt!Sent = {<<Pkt!Packet(k, ws), scanned>> : k \in {"tir5", "gray", "bad"}, ws \in whole}
      BY <2>1 DEF Pkt!Sent
    <3> HIDE DEF whole, scanned
    <3>2. PICK k \in {"tir5", "gray", "bad"}, ws \in whole : s = <<Pkt!Packet(k, ws), scanned>>
      BY <3>1
    <3>3. Pkt!Packet(k, ws) = [kind |-> k, words |-> ws, btns |-> buttons]
      BY DEF Pkt!Packet
    <3>4. k \in {"tir5", "sn4", "gray", "bad"} /\ buttons \in {1, 3, buttons}
      OBVIOUS
    <3> QED
      BY <3>2, <3>3, <3>4, Zenon
  <2>2. CASE family = "sn4"
    <3>1. Pkt!Sent = {<<[Pkt!Packet(k, ws) EXCEPT !.btns = b], scanned>> :
                        k \in {"sn4", "bad"}, ws \in whole, b \in {1, 3}}
      BY <2>2 DEF Pkt!Sent
    <3> HIDE DEF whole, scanned
    <3>2. PICK k \in {"sn4", "bad"}, ws \in whole, b \in {1, 3} :
            s = <<[Pkt!Packet(k, ws) EXCEPT !.btns = b], scanned>>
      BY <3>1
    <3>3. [Pkt!Packet(k, ws) EXCEPT !.btns = b] = [kind |-> k, words |-> ws, btns |-> b]
      BY DEF Pkt!Packet
    <3>4. k \in {"tir5", "sn4", "gray", "bad"} /\ b \in {1, 3, buttons}
      OBVIOUS
    <3> QED
      BY <3>2, <3>3, <3>4, Zenon
  <2> QED
    BY <2>1, <2>2 DEF PktTypes, Pkt!PacketFamilies
<1>2. PICK k \in {"tir5", "sn4", "gray", "bad"}, ws \in whole, b \in {1, 3, buttons} :
        s = <<[kind |-> k, words |-> ws, btns |-> b], scanned>>
  BY <1>1, Zenon
<1>3. scanner.scan \in Pkt!Scans /\ 1 \in 0 .. Lines /\ Lines \in 0 .. Lines
  BY DEF PktTypes, Scanners, Pkt!Scans, Pkt!PacketAssumption
<1>4. ws \in Seq(Pkt!Word)
  <2>1. /\ [scan |-> scanner.scan, line |-> 1] \in Pkt!Word
        /\ [scan |-> scanner.scan, line |-> Lines] \in Pkt!Word
    BY <1>3 DEF Pkt!Word
  <2>2. \A u, v \in Pkt!Word :
        <<>> \in Seq(Pkt!Word) /\ <<u>> \in Seq(Pkt!Word) /\ <<u, v>> \in Seq(Pkt!Word)
    OBVIOUS
  <2> QED
    BY <2>1, <2>2, Zenon
<1>5. \A i, j \in DOMAIN ws : ws[i].scan = ws[j].scan
  OBVIOUS
<1>6. b \in 0 .. 3
  BY DEF PktTypes
<1>7. s[1] = [kind |-> k, words |-> ws, btns |-> b] /\ s[2] = scanned
  BY <1>2
<1> HIDE DEF whole, scanned
<1>8. s[1].kind = k /\ s[1].words = ws
  BY <1>7
<1>9. s[1] \in Packets
  <2>1. k \in {"info", "unknown", "short", "gray", "bad"} \cup Pkt!PacketFamilies
    BY DEF Pkt!PacketFamilies
  <2>2. [kind |-> k, words |-> ws, btns |-> b] \in Packets
    BY <1>4, <1>6, <2>1 DEF Packets
  <2> QED
    BY <1>7, <2>2, Zenon
<1> QED
  BY <1>5, <1>7, <1>8, <1>9 DEF scanned

\* Cuts only grow, and the camera goes on.
LEMMA CutKeeps ==
  ASSUME PktTypes, cut \subseteq cut', UNCHANGED <<transfer, collected, currentLine>>,
         \A u \in Pkt!Word : At(u) => At(u)', InOrder,
         Waiting \in Seq(Pkt!Word)
  PROVE  InOrder'
<1>1. Waiting' = Waiting
  BY DEF Waiting
<1>2. \A u, w \in Pkt!Word : Follows(u, w) => Follows(u, w)'
  BY DEF Follows
<1>3. \A c \in Pkt!Word : Latest(c) => Latest(c)'
  BY DEF Latest
<1>4. collected # {} => \E c \in collected :
        c \in Pkt!Word /\ Latest(c)' /\ IF Waiting = <<>> THEN At(c)' ELSE Follows(c, Waiting[1])'
  <2> SUFFICES ASSUME collected # {}
               PROVE  \E c \in collected :
                        c \in Pkt!Word /\ Latest(c)'
                        /\ IF Waiting = <<>> THEN At(c)' ELSE Follows(c, Waiting[1])'
    OBVIOUS
  <2>1. PICK c \in collected :
          Latest(c) /\ IF Waiting = <<>> THEN At(c) ELSE Follows(c, Waiting[1])
    BY DEF InOrder
  <2>2. c \in Pkt!Word
    BY DEF PktTypes
  <2>3. Waiting # <<>> => Waiting[1] \in Pkt!Word
    OBVIOUS
  <2>4. CASE Waiting = <<>>
    BY <1>3, <2>1, <2>2, <2>4
  <2>5. CASE Waiting # <<>>
    <3>1. Follows(c, Waiting[1])'
      BY <1>1, <2>1, <2>5 DEF Follows
    <3> QED
      BY <1>1, <1>3, <2>1, <2>2, <2>5, <3>1
  <2> QED
    BY <2>4, <2>5
<1>5. Len(Waiting) > 0 => At(Waiting[Len(Waiting)])'
  <2>1. Len(Waiting) > 0 => Waiting[Len(Waiting)] \in Pkt!Word /\ At(Waiting[Len(Waiting)])
    BY DEF InOrder
  <2> QED
    BY <1>1, <2>1 DEF At
<1>6. Len(Waiting) = 2 => Follows(Waiting[1], Waiting[2])'
  <2>1. Len(Waiting) = 2 => Waiting[1] \in Pkt!Word /\ Waiting[2] \in Pkt!Word
                            /\ Follows(Waiting[1], Waiting[2])
    BY DEF InOrder
  <2> QED
    BY <1>1, <2>1 DEF Follows
<1> QED
  BY <1>1, <1>4, <1>5, <1>6 DEF InOrder, Follows, At

\* The words that wait are words.
LEMMA WaitingIsWords == PktTypes => Waiting \in Seq(Pkt!Word)
<1>1. CASE transfer = <<>>
  BY <1>1 DEF Waiting
<1>2. ASSUME PktTypes, transfer # <<>>
      PROVE  Waiting \in Seq(Pkt!Word)
  <2>1. transfer[Len(transfer)] \in Packets
    BY <1>2 DEF PktTypes
  <2> QED
    BY <1>2, <2>1 DEF Waiting, Packets
<1> QED
  BY <1>1, <1>2

\* A transfer that came is a packet, or information and a packet.
LEMMA TransferOf ==
  ASSUME NEW p \in Packets, p.kind \in Kinds, UNCHANGED family, buttons \in 0 .. 3,
         transfer' \in {<<p>>, <<Pkt!Packet("info", <<>>), p>>}
  PROVE  /\ transfer' \in Seq(Packets) /\ Transfers'
         /\ Len(transfer') > 0 /\ transfer'[Len(transfer')] = p /\ Waiting' = p.words
<1> DEFINE i == Pkt!Packet("info", <<>>)
<1>1. i \in Packets /\ i.kind = "info" /\ i.words = <<>>
  <2>1. <<>> \in Seq(Pkt!Word)
    OBVIOUS
  <2> QED
    BY <2>1 DEF Pkt!Packet, Packets
<1>2. transfer' = <<p>> \/ transfer' = <<i, p>>
  OBVIOUS
<1> HIDE DEF i
<1>3. \/ Len(transfer') = 1 /\ transfer'[1] = p
      \/ Len(transfer') = 2 /\ transfer'[1] = i /\ transfer'[2] = p
  BY <1>2
<1>4. transfer' \in Seq(Packets)
  <2>1. \A u, v \in Packets : <<u>> \in Seq(Packets) /\ <<u, v>> \in Seq(Packets)
    OBVIOUS
  <2> QED
    BY <1>1, <1>2, <2>1, Zenon
<1> QED
  BY <1>1, <1>3, <1>4 DEF Transfers, Waiting, Kinds

\* A transfer brings packets with the words the scanner has by then.
LEMMA ReceiveKeeps ==
  ASSUME Pkt!PacketAssumption, PktInv, Pkt!Receive
  PROVE  PktInv'
<1> USE DEF PktInv
<1>1. /\ readState = "packets" /\ transfer = <<>>
      /\ UNCHANGED <<family, currentLine, collected, blobList, buttons, cut>>
  BY DEF Pkt!Receive
<1>2. CASE UNCHANGED <<transfer, scanner>> /\ readState' \in {"request", "failed"}
  <2>1. InOrder => InOrder'
    BY <1>1, <1>2 DEF InOrder, Waiting, At, Follows, Latest
  <2>2. PktTypes' /\ Transfers' /\ Contents' /\ Stopping' /\ Pkt!FrameIsOneScan'
    BY <1>1, <1>2 DEF PktTypes, Scanners, Packets, Pkt!Word, Pkt!Scans, Transfers, Kinds,
                      Contents, Stopping, Pkt!FrameIsOneScan
  <2> QED
    BY <1>1, <2>1, <2>2
<1>3. ASSUME scanner.scan <= MaxScans, NEW s \in Pkt!Sent,
             \A i \in DOMAIN s[1].words : s[1].words[i].scan <= MaxScans,
             transfer' \in {<<s[1]>>, <<Pkt!Packet("info", <<>>), s[1]>>},
             scanner' = s[2], UNCHANGED readState
      PROVE  PktInv'
  <2>1. Stopping' /\ Pkt!FrameIsOneScan'
    BY <1>1, <1>3 DEF Stopping, Pkt!FrameIsOneScan
  <2>2. ASSUME s[1] \in Packets, s[1].kind \in Kinds, s[2] \in Scanners, s[2].scan > 0,
               s[1].kind = "words" => Len(s[1].words) \in 1 .. 2,
               s[1].kind \notin {"unknown", "short"},
               s[1].kind # "words" =>
                 \A i, j \in DOMAIN s[1].words : s[1].words[i].scan = s[1].words[j].scan
        PROVE  PktTypes' /\ Transfers' /\ Contents' /\ (Waiting' = s[1].words)
    <3>1. /\ transfer' \in Seq(Packets) /\ Transfers'
          /\ Len(transfer') > 0 /\ transfer'[Len(transfer')] = s[1] /\ Waiting' = s[1].words
      BY <1>1, <1>3, <2>2, TransferOf DEF PktTypes
    <3>2. PktTypes'
      BY <1>1, <1>3, <2>2, <3>1 DEF PktTypes, Packets, Scanners, Pkt!Word, Pkt!Scans
    <3>3. Contents'
      BY <2>2, <3>1 DEF Contents
    <3> QED
      BY <3>1, <3>2, <3>3
  <2>3. CASE family # "words"
    <3>1. /\ s[1] \in Packets /\ s[1].kind \in {"tir5", "sn4", "gray", "bad"}
          /\ \A i, j \in DOMAIN s[1].words : s[1].words[i].scan = s[1].words[j].scan
          /\ s[2] = [scanner EXCEPT !.scan = @ + 1]
      BY <1>3, <2>3, SentScan
    <3>2. s[2] \in Scanners /\ s[2].scan > 0
      <4>1. scanner.scan \in Nat /\ scanner.line \in 0 .. Lines /\ scanner.on \in BOOLEAN
        BY DEF PktTypes, Scanners
      <4>2. s[2] = [scan |-> scanner.scan + 1, line |-> scanner.line, on |-> scanner.on]
        BY <3>1 DEF PktTypes, Scanners
      <4>3. scanner.scan + 1 \in Nat /\ scanner.scan + 1 > 0
        BY <4>1
      <4>4. [scan |-> scanner.scan + 1, line |-> scanner.line, on |-> scanner.on] \in Scanners
        BY <4>1, <4>3, Zenon DEF Scanners
      <4> QED
        BY <4>2, <4>3, <4>4
    <3>3. PktTypes' /\ Transfers' /\ Contents'
      BY <2>2, <2>3, <3>1, <3>2 DEF Kinds
    <3> QED
      BY <1>1, <2>1, <2>3, <3>3
  <2>4. CASE family = "words"
    <3>1. PICK w \in Pkt!NextWords(scanner) :
            \/ s = <<Pkt!Packet("words", <<w>>), Pkt!After(scanner, w)>>
            \/ \E v \in Pkt!NextWords(Pkt!After(scanner, w)) :
                 s = <<Pkt!Packet("words", <<w, v>>), Pkt!After(Pkt!After(scanner, w), v)>>
      BY <1>3, <2>4, SentWords
    <3> DEFINE a == Pkt!After(scanner, w)
    <3>2. /\ w \in [scan : Nat, line : 0 .. Lines] /\ w.scan > 0
          /\ a \in Scanners /\ a.scan > 0
          /\ w.line # 0 => a.scan = w.scan /\ a.line = w.line
          /\ \/ w.scan = scanner.scan /\ (w.line = 0 \/ w.line > scanner.line)
             \/ w.scan = scanner.scan + 1 /\ w.line < scanner.line
      BY <3>1, AfterWord DEF PktTypes
    <3> HIDE DEF a
    <3>3. ASSUME NEW c \in Pkt!Word, At(c)
          PROVE  Follows(c, w)
      BY <3>2, <3>3 DEF At, Follows, PktTypes, Scanners, Pkt!Word, Pkt!Scans
    <3>4. ASSUME NEW ws \in Seq(Pkt!Word), NEW z \in Scanners, z.scan > 0,
                 s = <<Pkt!Packet("words", ws), z>>,
                 ws[1] = w, Len(ws) \in 1 .. 2,
                 Len(ws) = 2 => Follows(ws[1], ws[2]),
                 ws[Len(ws)].line # 0 => z.scan = ws[Len(ws)].scan /\ z.line = ws[Len(ws)].line
          PROVE  PktInv'
      <4>1. s[1] = [kind |-> "words", words |-> ws, btns |-> buttons] /\ s[2] = z
        BY <3>4 DEF Pkt!Packet
      <4>2. s[1].kind = "words" /\ s[1].words = ws
        BY <4>1
      <4>3. s[1] \in Packets
        BY <4>1 DEF Packets, PktTypes, Pkt!PacketFamilies
      <4>4. PktTypes' /\ Transfers' /\ Contents' /\ Waiting' = ws
        BY <2>2, <2>4, <3>4, <4>1, <4>2, <4>3 DEF Kinds
      <4>5. At(ws[Len(ws)])'
        BY <1>3, <3>4, <4>1, <4>4 DEF At
      <4>6. Len(ws) = 2 => Follows(ws[1], ws[2])'
        BY <1>1, <3>4, <4>4 DEF Follows
      <4>7. collected # {} => \E c \in collected : Latest(c)' /\ Follows(c, w)'
        <5> SUFFICES ASSUME collected # {}
                     PROVE  \E c \in collected : Latest(c)' /\ Follows(c, w)'
          OBVIOUS
        <5>1. PICK c \in collected : Latest(c) /\ At(c)
          BY <1>1, <2>4 DEF InOrder, Waiting
        <5>2. Follows(c, w)
          BY <3>3, <5>1 DEF PktTypes
        <5> QED
          BY <1>1, <5>1, <5>2 DEF Latest, Follows
      <4>8. ws # <<>>
        BY <3>4
      <4>9. InOrder'
        BY <1>1, <3>4, <4>4, <4>5, <4>6, <4>7, <4>8 DEF InOrder, Follows, At
      <4> QED
        BY <1>1, <2>1, <2>4, <4>4, <4>9
    <3>5. CASE s = <<Pkt!Packet("words", <<w>>), a>>
      <4>1. s[1].words = <<w>>
        BY <3>5 DEF Pkt!Packet
      <4>2. w.scan <= MaxScans
        BY <1>3, <4>1
      <4>3. w \in Pkt!Word
        BY <3>2, <4>2 DEF Pkt!Word, Pkt!Scans, Pkt!PacketAssumption
      <4> DEFINE ws == <<w>>
      <4>4. ws \in Seq(Pkt!Word) /\ Len(ws) = 1 /\ ws[1] = w
        BY <4>3
      <4>5. s = <<Pkt!Packet("words", ws), a>>
        BY <3>5
      <4> HIDE DEF ws
      <4> QED
        BY <3>2, <3>4, <4>4, <4>5
    <3>6. ASSUME NEW v \in Pkt!NextWords(a),
                 s = <<Pkt!Packet("words", <<w, v>>), Pkt!After(a, v)>>
          PROVE  PktInv'
      <4> DEFINE z == Pkt!After(a, v)
      <4>1. /\ v \in [scan : Nat, line : 0 .. Lines] /\ v.scan > 0
            /\ z \in Scanners /\ z.scan > 0
            /\ v.line # 0 => z.scan = v.scan /\ z.line = v.line
            /\ \/ v.scan = a.scan /\ (v.line = 0 \/ v.line > a.line)
               \/ v.scan = a.scan + 1 /\ v.line < a.line
        BY <3>2, <3>6, AfterWord
      <4>2. s[1].words = <<w, v>>
        BY <3>6 DEF Pkt!Packet
      <4>3. w.scan <= MaxScans /\ v.scan <= MaxScans
        <5>1. 1 \in DOMAIN s[1].words /\ 2 \in DOMAIN s[1].words
              /\ s[1].words[1] = w /\ s[1].words[2] = v
          BY <4>2
        <5> QED
          BY <1>3, <5>1
      <4>4. w \in Pkt!Word /\ v \in Pkt!Word
        BY <3>2, <4>1, <4>3 DEF Pkt!Word, Pkt!Scans, Pkt!PacketAssumption
      <4>5. Follows(w, v)
        BY <3>2, <4>1 DEF Follows
      <4> DEFINE ws == <<w, v>>
      <4>6. ws \in Seq(Pkt!Word) /\ Len(ws) = 2 /\ ws[1] = w /\ ws[2] = v
        BY <4>4
      <4>7. s = <<Pkt!Packet("words", ws), z>>
        BY <3>6
      <4> HIDE DEF ws, z
      <4> QED
        BY <3>4, <4>1, <4>5, <4>6, <4>7
    <3> QED
      BY <3>1, <3>5, <3>6 DEF a
  <2> QED
    BY <2>3, <2>4
<1> QED
  BY <1>2, <1>3 DEF Pkt!Receive

\* What is left of a sequence of two.
LEMMA TailOfTwo ==
  ASSUME NEW S, NEW s \in Seq(S), Len(s) \in {1, 2}
  PROVE  /\ Head(s) = s[1] /\ s[1] \in S /\ Tail(s) \in Seq(S)
         /\ Len(s) = 1 => Tail(s) = <<>>
         /\ Len(s) = 2 => s[2] \in S /\ Tail(s) = <<s[2]>>
<1> DEFINE t == Tail(s)
<1>1. /\ t \in Seq(S) /\ Len(t) = Len(s) - 1 /\ Head(s) = s[1] /\ s[1] \in S
      /\ \A i \in 1 .. Len(s) - 1 : t[i] = s[i + 1]
  BY Removed
<1> HIDE DEF t
<1>2. ASSUME Len(s) = 1
      PROVE  t = <<>>
  BY <1>1, <1>2, EmptySeq
<1>3. ASSUME Len(s) = 2
      PROVE  s[2] \in S /\ t = <<s[2]>>
  <2>1. s[2] \in S
    BY <1>3
  <2>2. <<s[2]>> \in Seq(S) /\ Len(<<s[2]>>) = 1 /\ <<s[2]>>[1] = s[2]
    BY <2>1
  <2>3. t[1] = s[2] /\ Len(t) = 1
    BY <1>1, <1>3
  <2> QED
    BY <1>1, <2>1, <2>2, <2>3, SeqEqual
<1> QED
  BY <1>1, <1>2, <1>3 DEF t

\* The packet that is looked at.
LEMMA HeadIs ==
  ASSUME PktTypes, Transfers, transfer # <<>>
  PROVE  /\ Head(transfer) = transfer[1] /\ Len(transfer) \in {1, 2}
         /\ Tail(transfer) \in Seq(Packets)
         /\ Len(transfer) = 1 => Head(transfer) = transfer[Len(transfer)] /\ Tail(transfer) = <<>>
         /\ Len(transfer) = 2 => Tail(transfer) = <<transfer[2]>> /\ Head(transfer).kind = "info"
         /\ Head(transfer).kind # "info" => Len(transfer) = 1 /\ Head(transfer).kind \in Kinds
<1>1. transfer \in Seq(Packets) /\ Len(transfer) \in {1, 2}
  <2>1. transfer \in Seq(Packets)
    BY DEF PktTypes
  <2>2. Len(transfer) > 0 /\ Len(transfer) \in Nat
    BY <2>1, Elements
  <2>3. Len(transfer) <= 2
    BY DEF Transfers
  <2>4. \A n \in Nat : n > 0 /\ n <= 2 => n \in {1, 2}
    OBVIOUS
  <2> QED
    BY <2>1, <2>2, <2>3, <2>4
<1>2. /\ Head(transfer) = transfer[1] /\ Tail(transfer) \in Seq(Packets)
      /\ Len(transfer) = 1 => Tail(transfer) = <<>>
      /\ Len(transfer) = 2 => Tail(transfer) = <<transfer[2]>>
  BY <1>1, TailOfTwo
<1> QED
  BY <1>1, <1>2 DEF Transfers

\* Packets without stripes are left out.
LEMMA SkipKeeps ==
  ASSUME PktInv, Pkt!SkipPacket
  PROVE  PktInv'
<1> USE DEF PktInv
<1>1. /\ transfer # <<>> /\ readState' \in {"packets", "request"}
      /\ UNCHANGED <<family, scanner, currentLine, collected, blobList, buttons, cut>>
  BY DEF Pkt!SkipPacket, Pkt!GoOn
<1> DEFINE p == Head(transfer)
<1>2. \/ (p.kind = "info" \/ (family = "tir5" /\ p.kind \in {"gray", "bad"})
           \/ (family = "sn4" /\ p.kind = "bad")) /\ transfer' = Tail(transfer)
      \/ p.kind = "unknown" /\ transfer' = <<>>
      \/ transfer' = transfer
  BY DEF Pkt!SkipPacket, Pkt!GoOn
<1> HIDE DEF p
<1>3. /\ p = transfer[1] /\ Len(transfer) \in {1, 2} /\ Tail(transfer) \in Seq(Packets)
      /\ Len(transfer) = 1 => p = transfer[Len(transfer)] /\ Tail(transfer) = <<>>
      /\ Len(transfer) = 2 => Tail(transfer) = <<transfer[2]>> /\ p.kind = "info"
      /\ p.kind # "info" => Len(transfer) = 1 /\ p.kind \in Kinds
  BY <1>1, HeadIs DEF p
<1>4. Stopping' /\ Pkt!FrameIsOneScan'
  BY <1>1 DEF Stopping, Pkt!FrameIsOneScan
<1>5. ASSUME transfer' \in Seq(Packets), Transfers', Contents',
             family = "words" => Waiting' = Waiting
      PROVE  PktInv'
  <2>1. PktTypes'
    BY <1>1, <1>5 DEF PktTypes, Packets, Scanners, Pkt!Word, Pkt!Scans
  <2>2. family = "words" => InOrder'
    BY <1>1, <1>5 DEF InOrder, At, Follows, Latest
  <2> QED
    BY <1>1, <1>4, <1>5, <2>1, <2>2
<1>6. CASE transfer' = transfer
  BY <1>1, <1>5, <1>6 DEF PktTypes, Transfers, Contents, Waiting, Kinds
<1>7. CASE transfer' = <<>>
  <2>1. Len(transfer') = 0 /\ transfer' \in Seq(Packets)
    BY <1>7
  <2>2. Waiting' = <<>>
    BY <1>7 DEF Waiting
  <2>3. family = "words" => Waiting = <<>>
    <3>1. family = "words" => ((p.kind = "info" /\ transfer' = Tail(transfer)) \/ p.kind = "unknown" \/ transfer' = transfer)
      BY <1>1, <1>2, <1>7
    <3>2. Len(transfer) = 1 => p.kind \in Kinds
      BY <1>3 DEF Transfers
    <3>3. Len(transfer) = 2 => Tail(transfer) # <<>>
      BY <1>3
    <3>4. family = "words" => p.kind = "unknown" /\ Len(transfer) = 1
      BY <1>3, <1>7, <3>1, <3>2, <3>3 DEF Kinds
    <3> QED
      BY <1>1, <1>3, <3>4 DEF Contents, Waiting
  <2> QED
    BY <1>5, <2>1, <2>2, <2>3 DEF Transfers, Contents
<1>8. CASE transfer' = Tail(transfer) /\ Len(transfer) = 2
  <2>1. transfer' = <<transfer[2]>> /\ transfer' \in Seq(Packets)
    BY <1>3, <1>8
  <2>2. Len(transfer') = 1 /\ transfer'[Len(transfer')] = transfer[Len(transfer)]
    BY <1>8, <2>1
  <2>3. Transfers' /\ Contents' /\ Waiting' = Waiting
    BY <1>1, <1>8, <2>1, <2>2 DEF Transfers, Contents, Kinds, Waiting
  <2> QED
    BY <1>5, <2>1, <2>3
<1> QED
  BY <1>2, <1>3, <1>6, <1>7, <1>8

\* A packet with a whole scan makes a frame.
LEMMA ScanKeeps ==
  ASSUME PktInv, Pkt!ProcessScan
  PROVE  PktInv'
<1> USE DEF PktInv
<1> DEFINE p == Head(transfer)
<1>1. /\ transfer # <<>> /\ p.kind \in {"tir5", "sn4"} /\ transfer' = Tail(transfer)
      /\ blobList' = collected \cup {p.words[i] : i \in DOMAIN p.words} /\ collected' = {}
      /\ readState' = "run" /\ buttons' \in {p.btns, buttons}
      /\ UNCHANGED <<family, scanner, currentLine, cut>>
  BY DEF Pkt!ProcessScan, Pkt!HaveFrame
<1> HIDE DEF p
<1>2. Len(transfer) = 1 /\ p = transfer[Len(transfer)] /\ p.kind \in Kinds /\ transfer' = <<>>
  BY <1>1, HeadIs DEF p
<1>3. family # "words" /\ collected = {}
  BY <1>1, <1>2 DEF Kinds
<1>4. p \in Packets
  BY <1>2 DEF PktTypes
<1>5. PktTypes'
  <2>1. buttons' \in 0 .. 3
    BY <1>1, <1>4 DEF PktTypes, Packets
  <2>2. <<>> \in Seq(Packets)
    BY EmptySeq
  <2> QED
    BY <1>1, <1>2, <2>1, <2>2 DEF PktTypes, Packets, Scanners, Pkt!Word, Pkt!Scans
<1>6. Transfers' /\ Contents' /\ Stopping'
  <2>1. Len(transfer') = 0
    BY <1>2
  <2>2. Transfers' /\ Contents'
    BY <2>1 DEF Transfers, Contents
  <2>3. Stopping'
    BY <1>1 DEF Stopping
  <2> QED
    BY <2>2, <2>3
<1>7. Pkt!FrameIsOneScan'
  <2>1. \A i, j \in DOMAIN p.words : p.words[i].scan = p.words[j].scan
    BY <1>1, <1>2 DEF Contents
  <2>2. \A u \in blobList' : \E i \in DOMAIN p.words : u = p.words[i]
    BY <1>1, <1>3
  <2>3. \A i \in DOMAIN p.words : p.words[i].scan \in Int
    <3>1. p.words \in Seq(Pkt!Word)
      BY <1>4 DEF Packets
    <3>2. \A i \in DOMAIN p.words : p.words[i] \in Pkt!Word
      BY <3>1, LenProperties
    <3> QED
      BY <3>2 DEF Pkt!Word, Pkt!Scans
  <2> QED
    BY <2>1, <2>2, <2>3 DEF Pkt!FrameIsOneScan
<1> QED
  BY <1>1, <1>3, <1>5, <1>6, <1>7

\* The end of a scan, a stripe of the next frame, or a stripe of this one.
LEMMA WordKeeps ==
  ASSUME Pkt!PacketAssumption, PktInv, Pkt!ProcessWord
  PROVE  PktInv'
<1> USE DEF PktInv
<1> DEFINE p == Head(transfer)
           w == Head(p.words)
           rest == IF Len(p.words) = 1 THEN Tail(transfer)
                   ELSE <<[p EXCEPT !.words = Tail(@)]>> \o Tail(transfer)
<1>1. /\ transfer # <<>> /\ p.kind = "words" /\ currentLine' = w.line
      /\ \/ /\ w.line = 0 /\ transfer' = rest
            /\ blobList' = collected /\ collected' = {} /\ readState' = "run"
         \/ /\ w.line # 0 /\ w.line < currentLine /\ transfer' = transfer
            /\ blobList' = collected /\ collected' = {} /\ readState' = "run"
         \/ /\ w.line # 0 /\ w.line >= currentLine /\ transfer' = rest
            /\ collected' = collected \cup {w} /\ blobList' = blobList
            /\ readState' \in {"packets", "request"}
      /\ UNCHANGED <<family, scanner, buttons, cut>>
  <2>1. p \in Packets /\ p.kind = "words"
    <3>1. transfer # <<>> /\ transfer \in Seq(Packets)
      BY DEF Pkt!ProcessWord, PktTypes
    <3> QED
      BY <3>1 DEF Pkt!ProcessWord
  <2>2. w \in Pkt!Word
    <3>1. Len(transfer) = 1 /\ p = transfer[Len(transfer)]
      BY <2>1, HeadIs DEF Pkt!ProcessWord
    <3>2. p.words \in Seq(Pkt!Word) /\ Len(p.words) \in 1 .. 2
      BY <2>1, <3>1 DEF Packets, Contents
    <3> HIDE DEF p
    <3> QED
      BY <3>2
  <2>3. w.line \in Int /\ currentLine \in Int
    BY <2>2 DEF Pkt!Word, PktTypes
  <2>4. Pkt!WordOfFrame(w) <=> w.line # 0 /\ w.line >= currentLine
    BY DEF Pkt!WordOfFrame
  <2>5. w.line >= currentLine \/ w.line < currentLine
    BY <2>3
  <2> QED
    BY <2>4, <2>5 DEF Pkt!ProcessWord, Pkt!HaveFrame, Pkt!GoOn
<1> HIDE DEF p, w, rest
<1>2. Len(transfer) = 1 /\ p = transfer[Len(transfer)] /\ Tail(transfer) = <<>>
  BY <1>1, HeadIs DEF p
<1>3. p \in Packets /\ family = "words"
  BY <1>1, <1>2 DEF PktTypes, Transfers, Kinds
<1>4. /\ p.words \in Seq(Pkt!Word) /\ Len(p.words) \in 1 .. 2 /\ Waiting = p.words
      /\ Waiting # <<>>
  BY <1>1, <1>2, <1>3 DEF Packets, Contents, Waiting
<1>5. w = Waiting[1] /\ w \in Pkt!Word
  BY <1>4 DEF w
<1>6. w.line \in 0 .. Lines /\ w.scan \in Nat
  BY <1>5 DEF Pkt!Word, Pkt!Scans
<1>7. At(Waiting[Len(Waiting)]) /\ (Len(Waiting) = 2 => Follows(Waiting[1], Waiting[2]))
  BY <1>3, <1>4 DEF InOrder
<1>8. ASSUME transfer' = rest
      PROVE  /\ transfer' \in Seq(Packets) /\ Transfers' /\ Contents'
             /\ Len(Waiting) = 1 => Waiting' = <<>>
             /\ Len(Waiting) = 2 => Waiting' = <<Waiting[2]>>
  <2>1. CASE Len(Waiting) = 1
    <3>1. transfer' = <<>>
      BY <1>2, <1>4, <1>8, <2>1 DEF rest
    <3> QED
      BY <1>4, <2>1, <3>1 DEF Transfers, Contents, Waiting
  <2>2. CASE Len(Waiting) = 2
    <3> DEFINE q == [p EXCEPT !.words = Tail(@)]
    <3>1. Tail(p.words) = <<Waiting[2]>> /\ Tail(p.words) \in Seq(Pkt!Word)
      BY <1>4, <2>2, TailOfTwo
    <3>2. q \in Packets /\ q.kind = "words" /\ q.words = <<Waiting[2]>>
      BY <1>1, <1>3, <3>1 DEF Packets
    <3> HIDE DEF q
    <3>3. transfer' = <<q>>
      <4>1. rest = <<q>> \o <<>>
        <5>1. Len(p.words) # 1
          BY <1>4, <2>2
        <5> QED
          BY <1>2, <5>1, Zenon DEF rest, q
      <4>2. <<q>> \in Seq(Packets)
        BY <3>2
      <4> QED
        BY <1>8, <4>1, <4>2, ConcatEmptySeq
    <3>4. transfer' \in Seq(Packets) /\ Len(transfer') = 1 /\ transfer'[Len(transfer')] = q
          /\ transfer' # <<>>
      BY <3>2, <3>3
    <3>5. Transfers'
      BY <1>1, <1>3, <3>2, <3>4 DEF Transfers, Kinds
    <3>6. Contents'
      BY <3>2, <3>4 DEF Contents
    <3>7. Waiting' = <<Waiting[2]>>
      BY <3>2, <3>4 DEF Waiting
    <3> QED
      BY <2>2, <3>4, <3>5, <3>6, <3>7
  <2> QED
    BY <1>4, <2>1, <2>2
<1>9. Stopping'
  BY <1>1 DEF Stopping
\* A frame is complete: what was collected is of one scan.
<1>10. ASSUME blobList' = collected
       PROVE  Pkt!FrameIsOneScan'
  <2>1. ASSUME NEW s \in collected, NEW t \in collected, s.scan < t.scan
        PROVE  s.scan \in cut
    <3>1. PICK c \in collected : Latest(c)
      BY <1>3, <2>1 DEF InOrder
    <3>2. s.scan \in Nat /\ t.scan \in Nat /\ c.scan \in Nat
      BY DEF PktTypes, Pkt!Word, Pkt!Scans
    <3> QED
      BY <2>1, <3>1, <3>2 DEF Latest
  <2> QED
    BY <1>1, <1>10, <2>1 DEF Pkt!FrameIsOneScan
<1>11. ASSUME collected' = {}, transfer' = transfer \/ transfer' = rest
       PROVE  InOrder'
  <2>1. CASE transfer' = transfer
    <3>1. Waiting' = Waiting
      BY <2>1 DEF Waiting
    <3> QED
      BY <1>1, <1>7, <1>11, <3>1 DEF InOrder, At, Follows
  <2>2. CASE transfer' = rest
    <3>1. CASE Len(Waiting) = 1
      BY <1>8, <1>11, <2>2, <3>1 DEF InOrder
    <3>2. CASE Len(Waiting) = 2
      <4>1. Waiting' = <<Waiting[2]>> /\ At(Waiting[2])
        BY <1>7, <1>8, <2>2, <3>2
      <4>2. Len(Waiting') = 1 /\ Waiting'[1] = Waiting[2]
        BY <4>1
      <4> QED
        BY <1>1, <1>11, <4>1, <4>2 DEF InOrder, At
    <3> QED
      BY <1>4, <3>1, <3>2
  <2> QED
    BY <1>11, <2>1, <2>2
<1>12. CASE transfer' = transfer
  <2>1. blobList' = collected /\ collected' = {}
    <3>1. rest # transfer
      <4>1. Len(Waiting) \in {1, 2}
        BY <1>4
      <4>2. ASSUME rest = transfer
            PROVE  Waiting' = Waiting
        BY <1>12 DEF Waiting
      <4>3. Len(<<Waiting[2]>>) = 1 /\ Len(<<>>) = 0
        OBVIOUS
      <4> QED
        BY <1>4, <1>8, <1>12, <4>1, <4>2, <4>3
    <3> QED
      BY <1>1, <1>12, <3>1
  <2>2. PktTypes' /\ Transfers' /\ Contents'
    BY <1>1, <1>6, <1>12, <2>1
       DEF PktTypes, Packets, Scanners, Pkt!Word, Pkt!Scans, Transfers, Contents, Kinds
  <2> QED
    BY <1>1, <1>3, <1>9, <1>10, <1>11, <1>12, <2>1, <2>2
<1>13. CASE transfer' = rest /\ blobList' = collected /\ collected' = {}
  <2>1. PktTypes'
    BY <1>1, <1>6, <1>8, <1>13 DEF PktTypes, Packets, Scanners, Pkt!Word, Pkt!Scans
  <2> QED
    BY <1>1, <1>3, <1>8, <1>9, <1>10, <1>11, <1>13, <2>1
\* A stripe is added to the frame.
<1>14. CASE /\ w.line # 0 /\ w.line >= currentLine /\ transfer' = rest
            /\ collected' = collected \cup {w} /\ blobList' = blobList
  <2>1. PktTypes'
    BY <1>1, <1>5, <1>6, <1>8, <1>14 DEF PktTypes, Packets, Scanners, Pkt!Word, Pkt!Scans
  <2>2. \A d \in collected : d.scan = w.scan \/ (d.scan < w.scan /\ d.scan \in cut)
    <3> SUFFICES ASSUME NEW d \in collected
                 PROVE  d.scan = w.scan \/ (d.scan < w.scan /\ d.scan \in cut)
      OBVIOUS
    <3>1. PICK c \in collected : Latest(c) /\ Follows(c, w)
      BY <1>3, <1>4, <1>5 DEF InOrder
    <3>2. c.scan \in Nat /\ d.scan \in Nat /\ c.line \in Nat
      BY DEF PktTypes, Pkt!Word, Pkt!Scans
    <3>3. c.scan = w.scan \/ (c.scan < w.scan /\ c.scan \in cut)
      BY <1>6, <1>14, <3>1, <3>2 DEF Follows, Latest
    <3>4. d.scan = c.scan \/ (d.scan < c.scan /\ d.scan \in cut)
      BY <3>1 DEF Latest
    <3> QED
      BY <1>6, <3>2, <3>3, <3>4
  <2>3. /\ w.line = currentLine' /\ w.line > 0 /\ w \in collected' /\ cut' = cut
        /\ \A d \in collected' : d.scan = w.scan \/ (d.scan < w.scan /\ d.scan \in cut)
    BY <1>1, <1>6, <1>14, <2>2
  <2>4. InOrder'
    <3>1. CASE Len(Waiting) = 1
      <4>1. Waiting' = <<>> /\ Len(Waiting') = 0
        BY <1>8, <1>14, <3>1
      <4>2. At(w)
        BY <1>5, <1>7, <3>1
      <4> QED
        <5> DEFINE c == w
        <5>1. Waiting' = <<>> /\ Len(Waiting') = 0 /\ At(w) /\ UNCHANGED <<scanner, cut>>
          BY <1>1, <4>1, <4>2
        <5> HIDE DEF c
        <5>2. \E d \in collected' :
                /\ d.line = currentLine' /\ d.line > 0
                /\ \A e \in collected' : e.scan = d.scan \/ (e.scan < d.scan /\ e.scan \in cut')
                /\ \/ d.line = 0
                   \/ scanner'.scan = d.scan /\ scanner'.line = d.line
                   \/ d.scan \in cut' /\ d.scan < scanner'.scan
          BY <2>3, <5>1 DEF At
        <5> QED
          BY <5>1, <5>2 DEF InOrder, At, Latest
    <3>2. CASE Len(Waiting) = 2
      <4>1. Waiting' = <<Waiting[2]>> /\ At(Waiting[2]) /\ Follows(w, Waiting[2])
        BY <1>5, <1>7, <1>8, <1>14, <3>2
      <4>2. Len(Waiting') = 1 /\ Waiting'[1] = Waiting[2] /\ Waiting' # <<>>
        BY <4>1
      <4> QED
        <5> DEFINE v == Waiting[2]
        <5>1. /\ Waiting' # <<>> /\ Len(Waiting') = 1 /\ Waiting'[1] = v
              /\ At(v) /\ Follows(w, v) /\ UNCHANGED <<scanner, cut>>
          BY <1>1, <4>1, <4>2
        <5> HIDE DEF v
        <5>2. \E d \in collected' :
                /\ d.line = currentLine' /\ d.line > 0
                /\ \A e \in collected' : e.scan = d.scan \/ (e.scan < d.scan /\ e.scan \in cut')
                /\ \/ d.line = 0
                   \/ v.scan = d.scan /\ (v.line = 0 \/ v.line > d.line)
                   \/ v.scan = d.scan + 1 /\ v.line < d.line
                   \/ d.scan \in cut' /\ d.scan < v.scan
          BY <2>3, <5>1 DEF Follows
        <5> QED
          BY <5>1, <5>2 DEF InOrder, At, Follows, Latest
    <3> QED
      BY <1>4, <3>1, <3>2
  <2>5. Pkt!FrameIsOneScan'
    BY <1>1, <1>14 DEF Pkt!FrameIsOneScan
  <2> QED
    BY <1>1, <1>3, <1>8, <1>9, <1>14, <2>1, <2>4, <2>5
<1> QED
  BY <1>1, <1>12, <1>13, <1>14

\* The loop, the requests and the pauses.
LEMMA LoopKeeps ==
  ASSUME Pkt!PacketAssumption, PktInv,
         Pkt!ReceiveOdd \/ Pkt!LookForRequest \/ Pkt!Request \/ Pkt!NextTurn \/ Pkt!Resume
  PROVE  PktInv'
<1> USE DEF PktInv
<1>1. UNCHANGED <<family, currentLine, collected, blobList, buttons>> /\ cut \subseteq cut'
  BY DEF Pkt!ReceiveOdd, Pkt!LookForRequest, Pkt!Request, Pkt!NextTurn, Pkt!Resume
<1>2. Pkt!FrameIsOneScan'
  BY <1>1 DEF Pkt!FrameIsOneScan
<1>3. CASE Pkt!ReceiveOdd
  <2>1. PICK k \in {"unknown", "short"} : transfer' = <<Pkt!Packet(k, <<>>)>>
    BY <1>3 DEF Pkt!ReceiveOdd
  <2>2. transfer = <<>> /\ UNCHANGED <<scanner, readState, cut>>
    BY <1>3 DEF Pkt!ReceiveOdd
  <2> DEFINE p == Pkt!Packet(k, <<>>)
  <2>3. p.kind = k /\ p.words = <<>> /\ k \in Kinds
    BY DEF Pkt!Packet, Kinds
  <2>4. p \in Packets
    BY EmptySeq DEF Pkt!Packet, Packets, PktTypes
  <2> HIDE DEF p
  <2>5. /\ transfer' \in Seq(Packets) /\ Transfers'
        /\ Len(transfer') > 0 /\ transfer'[Len(transfer')] = p /\ Waiting' = p.words
    BY <1>1, <2>1, <2>3, <2>4, TransferOf DEF PktTypes, p
  <2>6. PktTypes'
    BY <1>1, <2>2, <2>5 DEF PktTypes, Packets, Scanners, Pkt!Word, Pkt!Scans
  <2>7. Contents' /\ Stopping'
    BY <2>2, <2>3, <2>5 DEF Contents, Stopping
  <2>8. InOrder => InOrder'
    BY <1>1, <2>2, <2>3, <2>5 DEF InOrder, Waiting, At, Follows, Latest
  <2> QED
    BY <1>1, <1>2, <2>5, <2>6, <2>7, <2>8
<1>4. ASSUME UNCHANGED transfer, scanner' \in Scanners, scanner'.scan > 0,
             \A u \in Pkt!Word : At(u) => At(u)', Stopping'
      PROVE  PktInv'
  <2>1. PktTypes' /\ Transfers' /\ Contents'
    BY <1>1, <1>4 DEF PktTypes, Packets, Scanners, Pkt!Word, Pkt!Scans, Transfers, Contents, Kinds
  <2>2. InOrder => InOrder'
    BY <1>1, <1>4, CutKeeps, WaitingIsWords
  <2> QED
    BY <1>1, <1>2, <1>4, <2>1, <2>2
<1>5. scanner \in Scanners /\ scanner.scan > 0 /\ scanner.scan \in Nat /\ scanner.line \in 0 .. Lines
      /\ scanner.on \in BOOLEAN
  BY DEF PktTypes, Scanners
<1>6. CASE Pkt!LookForRequest \/ Pkt!Request
  <2>1. UNCHANGED <<transfer, scanner, cut>> /\ (readState' = "paused" => readState = "paused")
    BY <1>6 DEF Pkt!LookForRequest, Pkt!Request
  <2> QED
    BY <1>4, <1>5, <2>1 DEF At, Stopping
<1>7. CASE Pkt!NextTurn
  <2>1. UNCHANGED transfer
        /\ \/ UNCHANGED scanner /\ readState' # "paused"
           \/ scanner' = [scanner EXCEPT !.on = FALSE] /\ cut' = cut \cup ({scanner.scan} \cap Pkt!Scans)
    BY <1>7 DEF Pkt!NextTurn
  <2>2. CASE UNCHANGED scanner /\ readState' # "paused"
    BY <1>1, <1>4, <1>5, <2>1, <2>2 DEF At, Stopping
  <2>3. CASE scanner' = [scanner EXCEPT !.on = FALSE]
             /\ cut' = cut \cup ({scanner.scan} \cap Pkt!Scans)
    <3>1. scanner' = [scan |-> scanner.scan, line |-> scanner.line, on |-> FALSE]
      BY <2>3 DEF PktTypes, Scanners
    <3>2. scanner' \in Scanners
      BY <1>5, <3>1, Zenon DEF Scanners
    <3>3. scanner'.scan = scanner.scan /\ scanner'.line = scanner.line
      BY <3>1
    <3>4. Stopping'
      BY <1>5, <2>3, <3>3 DEF Stopping, Pkt!Scans, Pkt!PacketAssumption
    <3> QED
      BY <1>1, <1>4, <1>5, <2>1, <3>2, <3>3, <3>4 DEF At
  <2> QED
    BY <2>1, <2>2, <2>3
<1>8. CASE Pkt!Resume
  <2> DEFINE n == IF scanner.scan > MaxScans THEN scanner.scan ELSE scanner.scan + 1
  <2>1. /\ UNCHANGED <<transfer, cut>> /\ readState = "paused" /\ readState' = "run"
        /\ scanner' = [scan |-> n, line |-> 0, on |-> TRUE]
    BY <1>8 DEF Pkt!Resume
  <2>2. n \in Nat /\ n > 0 /\ n >= scanner.scan /\ (scanner.scan <= MaxScans => n > scanner.scan)
    BY <1>5 DEF Pkt!PacketAssumption
  <2> HIDE DEF n
  <2>3. scanner' \in Scanners
    <3>1. 0 \in 0 .. Lines
      BY DEF Pkt!PacketAssumption
    <3> QED
      BY <2>1, <2>2, <3>1, Zenon DEF Scanners
  <2>4. scanner'.scan = n
    BY <2>1
  <2>5. ASSUME NEW u \in Pkt!Word, At(u)
        PROVE  At(u)'
    <3>1. u.scan \in Nat /\ u.scan <= MaxScans
      BY <2>5 DEF Pkt!Word, Pkt!Scans, Pkt!PacketAssumption
    <3> QED
      BY <1>5, <2>1, <2>2, <2>4, <2>5, <3>1 DEF At, Stopping, Pkt!PacketAssumption
  <2> QED
    BY <1>4, <2>1, <2>2, <2>3, <2>4, <2>5 DEF Stopping
<1> QED
  BY <1>3, <1>6, <1>7, <1>8

\* Words come in order, wherever they are.
THEOREM PktInvariance ==
  ASSUME Pkt!PacketAssumption PROVE Pkt!Init /\ [][Pkt!PacketNext]_(Pkt!packetVars) => []PktInv
<1>1. Pkt!Init => PktInv
  <2> SUFFICES ASSUME Pkt!Init
               PROVE  PktInv
    OBVIOUS
  <2>1. scanner \in Scanners /\ scanner.scan > 0
    <3>1. 0 \in 0 .. Lines /\ 1 \in Nat
      BY DEF Pkt!PacketAssumption
    <3>2. scanner = [scan |-> 1, line |-> 0, on |-> TRUE]
      BY DEF Pkt!Init
    <3>3. scanner \in Scanners
      BY <3>1, <3>2, Zenon DEF Scanners
    <3> QED
      BY <3>2, <3>3
  <2>2. PktTypes
    BY <2>1, EmptySeq DEF Pkt!Init, PktTypes, Pkt!PacketAssumption
  <2>3. transfer = <<>> /\ Len(transfer) = 0 /\ Waiting = <<>> /\ Len(Waiting) = 0
    BY DEF Pkt!Init, Waiting
  <2> QED
    BY <2>2, <2>3
       DEF Pkt!Init, PktInv, Transfers, Contents, Stopping, InOrder, Pkt!FrameIsOneScan
<1>2. PktInv /\ [Pkt!PacketNext]_(Pkt!packetVars) => PktInv'
  <2>1. PktInv /\ UNCHANGED Pkt!packetVars => PktInv'
    <3> SUFFICES ASSUME PktInv, UNCHANGED Pkt!packetVars
                 PROVE  PktInv'
      OBVIOUS
    <3>1. PktTypes' /\ Transfers' /\ Contents' /\ Stopping' /\ Pkt!FrameIsOneScan'
      BY DEF PktInv, PktTypes, Transfers, Contents, Stopping, Pkt!FrameIsOneScan, Pkt!packetVars,
             Packets, Scanners, Pkt!Word, Pkt!Scans, Kinds
    <3>2. InOrder => InOrder'
      BY DEF InOrder, Waiting, At, Follows, Latest, Pkt!packetVars
    <3> QED
      BY <3>1, <3>2 DEF PktInv, Pkt!packetVars
  <2> QED
    BY <2>1, ReceiveKeeps, SkipKeeps, WordKeeps, ScanKeeps, LoopKeeps DEF Pkt!PacketNext
<1> QED
  BY <1>1, <1>2, PTL

\* The blobs of a frame of a TrackIR or SmartNav are of one scan, or of scans a pause cut,
\* however the stripes are spread over packets, transfers and calls (tir_img.c).
THEOREM FramesAreScans ==
  ASSUME Pkt!PacketAssumption
  PROVE  Pkt!Init /\ [][Pkt!PacketNext]_(Pkt!packetVars) => []Pkt!FrameIsOneScan
<1>1. PktInv => Pkt!FrameIsOneScan
  BY DEF PktInv
<1> QED
  BY <1>1, PktInvariance, PTL
------------------------------------------------------------------------------
(***************************************************************************)
(* Recentering, for any number of frames, requests and starts, and any     *)
(* downlink.  Where the device thread is decides what is known: a centre   *)
(* is newer than it has to be, or the flag says that another one is to be  *)
(* taken.  Between the use of the flag and its reset only the first is of  *)
(* use, and the first pose of a run is not counted, whatever its centre.   *)
(***************************************************************************)

RecPoses == [frame : Nat, centre : Nat, needed : Nat, counter : Nat, base : Nat,
             status : Rec!Statuses]

RecTypes ==
  /\ device \in [at : {"down", "paused", "wait", "pose", "clear", "clear3", "write", "callback"},
                 frame : Nat, base : Nat, needed : Nat]
  /\ centre \in Nat /\ poseCount \in Nat /\ due \in Nat
  /\ pose \in RecPoses /\ last \in RecPoses /\ link \in Seq(RecPoses)
  /\ comm.pose \in RecPoses /\ client.got \in RecPoses

\* The centre is newer than it has to be, or the flag is set.
Asked ==
  /\ due <= device.frame
  /\ device.at \in {"wait", "paused", "pose", "write", "callback"} =>
       initRecenter \/ recenter \/ centre > due
  /\ device.at \in {"clear", "clear3"} => initRecenter \/ centre > due
  /\ device.at \in {"clear", "clear3", "write"} => initRecenter \/ centre > device.needed

\* The first pose of a run does not count; one that counts has its centre.
Counted ==
  /\ device.at # "down" /\ initRecenter => poseCount = device.base
  /\ poseCount > pose.base => pose.centre > pose.needed

\* The invariant of Recentering.
RecInv == RecTypes /\ Asked /\ Counted /\ Rec!CountedPoseIsCentred

\* What is broadcast is the last pose, and one of the downlink if it is not full.
LEMMA BroadcastKeeps ==
  ASSUME RecTypes, Rec!CountedPoseIsCentred, NEW p \in RecPoses, Rec!Centred(p), Rec!Broadcast(p),
         UNCHANGED <<comm, client>>
  PROVE  /\ last' \in RecPoses /\ link' \in Seq(RecPoses)
         /\ comm'.pose \in RecPoses /\ client'.got \in RecPoses
         /\ Rec!CountedPoseIsCentred'
<1>1. last' = p /\ (link' = Append(link, p) \/ link' = link)
  BY DEF Rec!Broadcast
<1>2. link \in Seq(RecPoses) /\ \A i \in 1 .. Len(link) : Rec!Centred(link[i])
  BY DEF RecTypes, Rec!CountedPoseIsCentred
<1>3. link' \in Seq(RecPoses) /\ \A i \in 1 .. Len(link') : Rec!Centred(link'[i])
  <2>1. CASE link' = link
    BY <1>2, <2>1
  <2>2. CASE link' = Append(link, p)
    <3>1. /\ link' \in Seq(RecPoses) /\ Len(link') = Len(link) + 1
          /\ \A i \in 1 .. Len(link) : link'[i] = link[i]
          /\ link'[Len(link) + 1] = p
      BY <1>2, <2>2, Appended
    <3>2. ASSUME NEW i \in 1 .. Len(link')
          PROVE  Rec!Centred(link'[i])
      <4>1. Len(link) \in Nat
        BY <1>2, Elements
      <4>2. i \in 1 .. Len(link) \/ i = Len(link) + 1
        BY <3>1, <4>1
      <4> QED
        BY <1>2, <3>1, <4>2
    <3> QED
      BY <3>1, <3>2
  <2> QED
    BY <1>1, <2>1, <2>2
<1>4. Rec!CountedPoseIsCentred'
  BY <1>1, <1>3 DEF Rec!CountedPoseIsCentred, Rec!Centred
<1> QED
  BY <1>1, <1>3, <1>4 DEF RecTypes

\* The last pose is sent again with another status.
LEMMA AnnounceKeeps ==
  ASSUME RecTypes, Rec!CountedPoseIsCentred, NEW status_ \in Rec!Statuses, Rec!Announce(status_),
         UNCHANGED <<comm, client>>
  PROVE  /\ last' \in RecPoses /\ link' \in Seq(RecPoses)
         /\ comm'.pose \in RecPoses /\ client'.got \in RecPoses
         /\ Rec!CountedPoseIsCentred'
<1> DEFINE p == [last EXCEPT !.status = status_]
<1>1. p \in RecPoses /\ p.counter = last.counter /\ p.base = last.base
      /\ p.centre = last.centre /\ p.needed = last.needed
  BY DEF RecTypes, RecPoses
<1>2. Rec!Broadcast(p)
  BY DEF Rec!Announce
<1> HIDE DEF p
<1>3. Rec!Centred(p)
  BY <1>1 DEF Rec!Centred, Rec!CountedPoseIsCentred
<1> QED
  BY <1>1, <1>2, <1>3, BroadcastKeeps

\* The steps that leave the poses alone.
LEMMA FlagsKeep ==
  ASSUME RecInv, \/ Rec!Recenter \/ Rec!ChangeModel \/ Rec!FrameArrives \/ Rec!NoPose
                 \/ Rec!TakeCentre \/ Rec!ResetRecenter
  PROVE  RecInv'
<1> USE DEF RecInv
<1>1. UNCHANGED <<pose, poseCount, last, link, comm, client, initRecenter>>
  BY DEF Rec!Recenter, Rec!ChangeModel, Rec!FrameArrives, Rec!NoPose, Rec!TakeCentre,
         Rec!ResetRecenter
<1>2. Rec!CountedPoseIsCentred'
  BY <1>1 DEF Rec!CountedPoseIsCentred, Rec!Centred
<1>3. ASSUME device' \in [at : {"down", "paused", "wait", "pose", "clear", "clear3", "write",
                               "callback"}, frame : Nat, base : Nat, needed : Nat],
             centre' \in Nat, due' \in Nat, device'.base = device.base,
             device.at # "down" \/ device'.at = "down"
      PROVE  RecTypes' /\ Counted'
  BY <1>1, <1>3 DEF RecTypes, RecPoses, Rec!Statuses, Counted
<1>4. CASE Rec!Recenter
  <2>1. /\ recenter' = TRUE /\ UNCHANGED <<device, centre>>
        /\ due' = IF device.at \in {"clear", "clear3"} THEN due ELSE device.frame
    BY <1>4 DEF Rec!Recenter
  <2>2. due' \in Nat
    BY <2>1 DEF RecTypes
  <2>3. RecTypes' /\ Counted'
    BY <1>3, <2>1, <2>2 DEF RecTypes
  <2>4. Asked'
    BY <1>1, <2>1 DEF Asked, RecTypes
  <2> QED
    BY <1>2, <2>3, <2>4
<1>5. CASE Rec!ChangeModel
  <2>1. UNCHANGED <<recenter, device, centre, due>>
    BY <1>5 DEF Rec!ChangeModel
  <2>2. RecTypes' /\ Counted'
    BY <1>3, <2>1 DEF RecTypes
  <2> QED
    BY <1>1, <1>2, <2>1, <2>2 DEF Asked
<1>6. CASE Rec!FrameArrives
  <2>1. device.at = "wait" /\ device' = [device EXCEPT !.at = "pose"] /\ UNCHANGED centre
    BY <1>6 DEF Rec!FrameArrives
  <2>2. /\ device' \in [at : {"down", "paused", "wait", "pose", "clear", "clear3", "write",
                              "callback"}, frame : Nat, base : Nat, needed : Nat]
        /\ device'.at = "pose" /\ device'.frame = device.frame /\ device'.base = device.base
    BY <2>1 DEF RecTypes
  <2>3. CASE modelChanged
    <3>1. recenter' /\ due' = device.frame
      BY <1>6, <2>3 DEF Rec!FrameArrives
    <3>2. due' \in Nat /\ due' <= device'.frame
      BY <2>2, <3>1 DEF RecTypes
    <3>3. RecTypes' /\ Counted'
      BY <1>3, <2>1, <2>2, <3>2 DEF RecTypes
    <3>4. Asked'
      BY <2>2, <3>1, <3>2 DEF Asked
    <3> QED
      BY <1>2, <3>3, <3>4
  <2>4. CASE ~modelChanged
    <3>1. due' = due /\ (recenter' <=> recenter)
      BY <1>6, <2>4 DEF Rec!FrameArrives
    <3>2. RecTypes' /\ Counted'
      BY <1>3, <2>1, <2>2, <3>1 DEF RecTypes
    <3>3. Asked'
      BY <1>1, <2>1, <2>2, <3>1 DEF Asked
    <3> QED
      BY <1>2, <3>2, <3>3
  <2> QED
    BY <2>3, <2>4
<1>7. CASE Rec!NoPose
  <2>1. /\ device.at = "pose" /\ device' = [device EXCEPT !.at = "callback"]
        /\ UNCHANGED <<centre, due, recenter>>
    BY <1>7 DEF Rec!NoPose
  <2>2. /\ device' \in [at : {"down", "paused", "wait", "pose", "clear", "clear3", "write",
                              "callback"}, frame : Nat, base : Nat, needed : Nat]
        /\ device'.at = "callback" /\ device'.frame = device.frame /\ device'.base = device.base
    BY <2>1 DEF RecTypes
  <2>3. RecTypes' /\ Counted'
    BY <1>3, <2>1, <2>2 DEF RecTypes
  <2>4. Asked'
    BY <1>1, <2>1, <2>2 DEF Asked
  <2> QED
    BY <1>2, <2>3, <2>4
<1>8. CASE Rec!TakeCentre
  <2> DEFINE f == device.frame + 1
  <2>1. /\ device.at = "pose" /\ UNCHANGED <<due, recenter>>
        /\ recenter => centre' = f
        /\ ~recenter => centre' = centre
        /\ \E a \in {"clear3", "clear", "write"} :
             /\ device' = [device EXCEPT !.frame = f, !.needed = due, !.at = a]
             /\ a = "clear" => recenter
             /\ a = "write" => ~recenter
    BY <1>8 DEF Rec!TakeCentre
  <2>2. PICK a \in {"clear3", "clear", "write"} :
          /\ device' = [device EXCEPT !.frame = f, !.needed = due, !.at = a]
          /\ a = "clear" => recenter
          /\ a = "write" => ~recenter
    BY <2>1
  <2>0. f \in Nat /\ due \in Nat
        /\ a \in {"down", "paused", "wait", "pose", "clear", "clear3", "write", "callback"}
    BY DEF RecTypes
  <2> HIDE DEF f
  <2>3. /\ device' \in [at : {"down", "paused", "wait", "pose", "clear", "clear3", "write",
                              "callback"}, frame : Nat, base : Nat, needed : Nat]
        /\ device'.at = a /\ device'.frame = f /\ device'.base = device.base
        /\ device'.needed = due
    BY <2>0, <2>2 DEF RecTypes
  <2>4. centre' \in Nat /\ f \in Nat
    BY <2>0, <2>1 DEF RecTypes
  <2>5. RecTypes' /\ Counted'
    BY <1>3, <2>1, <2>3, <2>4 DEF RecTypes
  <2>6. initRecenter \/ centre' > due
    BY <2>1 DEF f, Asked, RecTypes
  <2>7. due <= f
    BY DEF f, Asked, RecTypes
  <2>8. Asked'
    BY <1>1, <2>1, <2>3, <2>6, <2>7 DEF Asked
  <2> QED
    BY <1>2, <2>5, <2>8
<1>9. CASE Rec!ResetRecenter
  <2>1. /\ device.at \in {"clear", "clear3"} /\ UNCHANGED <<centre, due>>
        /\ \E a \in {"write", "callback"} : device' = [device EXCEPT !.at = a]
    BY <1>9 DEF Rec!ResetRecenter
  <2>2. /\ device' \in [at : {"down", "paused", "wait", "pose", "clear", "clear3", "write",
                              "callback"}, frame : Nat, base : Nat, needed : Nat]
        /\ device'.at \in {"write", "callback"}
        /\ device'.frame = device.frame /\ device'.base = device.base
        /\ device'.needed = device.needed
    BY <2>1 DEF RecTypes
  <2>3. RecTypes' /\ Counted'
    BY <1>3, <2>1, <2>2 DEF RecTypes
  <2>4. Asked'
    BY <1>1, <2>1, <2>2 DEF Asked
  <2> QED
    BY <1>2, <2>3, <2>4
<1> QED
  BY <1>4, <1>5, <1>6, <1>7, <1>8, <1>9

\* The start of a run, and the state of the loop.
LEMMA RunsKeep ==
  ASSUME RecInv, Rec!Start \/ Rec!ChangeState
  PROVE  RecInv'
<1> USE DEF RecInv
<1>1. UNCHANGED <<comm, client, pose, poseCount, centre>> /\ \E s \in Rec!Statuses : Rec!Announce(s)
  BY DEF Rec!Start, Rec!ChangeState, Rec!Statuses
<1>2. /\ last' \in RecPoses /\ link' \in Seq(RecPoses)
      /\ comm'.pose \in RecPoses /\ client'.got \in RecPoses
      /\ Rec!CountedPoseIsCentred'
  BY <1>1, AnnounceKeeps
<1>3. CASE Rec!Start
  <2>1. /\ device.at = "down" /\ initRecenter' = TRUE /\ due' = device.frame
        /\ device' = [device EXCEPT !.at = "wait", !.base = poseCount]
    BY <1>3 DEF Rec!Start
  <2>2. /\ device' \in [at : {"down", "paused", "wait", "pose", "clear", "clear3", "write",
                              "callback"}, frame : Nat, base : Nat, needed : Nat]
        /\ device'.at = "wait" /\ device'.frame = device.frame /\ device'.base = poseCount
        /\ due' \in Nat
    BY <2>1 DEF RecTypes
  <2>3. RecTypes'
    BY <1>1, <1>2, <2>2 DEF RecTypes, RecPoses, Rec!Statuses
  <2>4. Asked' /\ Counted'
    BY <1>1, <2>1, <2>2 DEF Asked, Counted, RecTypes
  <2> QED
    BY <1>2, <2>3, <2>4
<1>4. CASE Rec!ChangeState
  <2>1. /\ device.at \in {"wait", "paused"} /\ UNCHANGED <<due, recenter, initRecenter>>
        /\ \E a \in {"wait", "paused", "down"} : device' = [device EXCEPT !.at = a]
    BY <1>4 DEF Rec!ChangeState
  <2>2. /\ device' \in [at : {"down", "paused", "wait", "pose", "clear", "clear3", "write",
                              "callback"}, frame : Nat, base : Nat, needed : Nat]
        /\ device'.at \in {"wait", "paused", "down"}
        /\ device'.frame = device.frame /\ device'.base = device.base
    BY <2>1 DEF RecTypes
  <2>3. RecTypes'
    BY <1>1, <1>2, <2>1, <2>2 DEF RecTypes, RecPoses, Rec!Statuses
  <2>4. Asked' /\ Counted'
    BY <1>1, <2>1, <2>2 DEF Asked, Counted
  <2> QED
    BY <1>2, <2>3, <2>4
<1> QED
  BY <1>3, <1>4

\* A pose is written, and broadcast.
LEMMA PoseKeeps ==
  ASSUME RecInv, Rec!WritePose \/ Rec!NewFrame
  PROVE  RecInv'
<1> USE DEF RecInv
<1>1. CASE Rec!WritePose
  <2>1. /\ device.at = "write" /\ device' = [device EXCEPT !.at = "callback"]
        /\ pose' = [pose EXCEPT !.frame = device.frame, !.centre = centre,
                                !.needed = device.needed, !.base = device.base]
        /\ initRecenter' = FALSE
        /\ initRecenter => recenter' = TRUE
        /\ recenter => recenter' = TRUE
        /\ poseCount' = IF initRecenter THEN poseCount ELSE poseCount + 1
        /\ UNCHANGED <<centre, last, link, comm, client, due>>
    BY <1>1 DEF Rec!WritePose
  <2>2. /\ device' \in [at : {"down", "paused", "wait", "pose", "clear", "clear3", "write",
                              "callback"}, frame : Nat, base : Nat, needed : Nat]
        /\ device'.at = "callback" /\ device'.frame = device.frame /\ device'.base = device.base
    BY <2>1 DEF RecTypes
  <2>3. /\ pose' \in RecPoses /\ pose'.base = device.base /\ pose'.centre = centre
        /\ pose'.needed = device.needed
    BY <2>1 DEF RecTypes, RecPoses
  <2>4. poseCount' \in Nat
    BY <2>1 DEF RecTypes
  <2>5. RecTypes'
    BY <2>1, <2>2, <2>3, <2>4 DEF RecTypes, RecPoses, Rec!Statuses
  <2>6. Asked'
    BY <2>1, <2>2 DEF Asked
  <2>7. Counted'
    <3>1. initRecenter => poseCount' = device.base
      BY <2>1 DEF Counted
    <3>2. ~initRecenter => centre > device.needed
      BY <2>1 DEF Asked
    <3> QED
      BY <2>1, <2>2, <2>3, <3>1, <3>2 DEF Counted, RecTypes
  <2>8. Rec!CountedPoseIsCentred'
    BY <2>1 DEF Rec!CountedPoseIsCentred, Rec!Centred
  <2> QED
    BY <2>5, <2>6, <2>7, <2>8
<1>2. CASE Rec!NewFrame
  <2> DEFINE p == [pose EXCEPT !.counter = poseCount, !.status = last.status]
  <2>1. /\ device.at = "callback" /\ device' = [device EXCEPT !.at = "wait"]
        /\ Rec!Broadcast(p) /\ pose' = [pose EXCEPT !.status = last.status]
        /\ UNCHANGED <<centre, poseCount, comm, client, due, recenter, initRecenter>>
    BY <1>2 DEF Rec!NewFrame
  <2>2. /\ device' \in [at : {"down", "paused", "wait", "pose", "clear", "clear3", "write",
                              "callback"}, frame : Nat, base : Nat, needed : Nat]
        /\ device'.at = "wait" /\ device'.frame = device.frame /\ device'.base = device.base
    BY <2>1 DEF RecTypes
  <2>3. /\ pose' \in RecPoses /\ pose'.base = pose.base /\ pose'.centre = pose.centre
        /\ pose'.needed = pose.needed
    BY <2>1 DEF RecTypes, RecPoses
  <2>4. p \in RecPoses /\ p.counter = poseCount /\ p.base = pose.base /\ p.centre = pose.centre
        /\ p.needed = pose.needed
    BY DEF RecTypes, RecPoses
  <2> HIDE DEF p
  <2>5. Rec!Centred(p)
    BY <2>4 DEF Rec!Centred, Counted
  <2>6. /\ last' \in RecPoses /\ link' \in Seq(RecPoses)
        /\ comm'.pose \in RecPoses /\ client'.got \in RecPoses
        /\ Rec!CountedPoseIsCentred'
    BY <2>1, <2>4, <2>5, BroadcastKeeps
  <2>7. RecTypes'
    BY <2>1, <2>2, <2>3, <2>6 DEF RecTypes, RecPoses, Rec!Statuses
  <2>8. Asked' /\ Counted'
    BY <2>1, <2>2, <2>3 DEF Asked, Counted
  <2> QED
    BY <2>6, <2>7, <2>8
<1> QED
  BY <1>1, <1>2

\* The slave takes a pose from the downlink, and the client what the slave has.
LEMMA ClientKeeps ==
  ASSUME RecInv, Rec!ProcessMessage \/ Rec!GetPose
  PROVE  RecInv'
<1> USE DEF RecInv
<1>1. UNCHANGED <<recenter, initRecenter, device, centre, pose, poseCount, last, due>>
  BY DEF Rec!ProcessMessage, Rec!GetPose
<1>2. Asked' /\ Counted'
  BY <1>1 DEF Asked, Counted
<1>3. CASE Rec!ProcessMessage
  <2>1. /\ link # <<>> /\ link' = Tail(link) /\ UNCHANGED client
        /\ comm'.pose \in {Head(link), comm.pose}
    BY <1>3 DEF Rec!ProcessMessage
  <2>2. link \in Seq(RecPoses)
    BY DEF RecTypes
  <2>3. /\ link' \in Seq(RecPoses) /\ Len(link') = Len(link) - 1 /\ Len(link) > 0
        /\ \A i \in 1 .. Len(link) - 1 : link'[i] = link[i + 1]
        /\ Head(link) = link[1] /\ Head(link) \in RecPoses
    BY <2>1, <2>2, Removed
  <2>4. Len(link) \in Nat
    BY <2>2, Elements
  <2>5. RecTypes'
    <3>1. comm'.pose \in RecPoses /\ client'.got \in RecPoses
      BY <2>1, <2>3 DEF RecTypes
    <3>2. /\ device' = device /\ centre' = centre /\ poseCount' = poseCount /\ due' = due
          /\ pose' = pose /\ last' = last /\ RecPoses' = RecPoses
      BY <1>1 DEF RecPoses
    <3> QED
      BY <2>3, <3>1, <3>2 DEF RecTypes
  <2>6. \A i \in 1 .. Len(link) : Rec!Centred(link[i])
    BY DEF Rec!CountedPoseIsCentred
  <2>7. Rec!Centred(comm'.pose)
    BY <2>1, <2>3, <2>4, <2>6 DEF Rec!CountedPoseIsCentred
  <2>8. \A i \in 1 .. Len(link') : Rec!Centred(link'[i])
    <3> SUFFICES ASSUME NEW i \in 1 .. Len(link')
                 PROVE  Rec!Centred(link'[i])
      OBVIOUS
    <3>1. i \in 1 .. Len(link) - 1 /\ i + 1 \in 1 .. Len(link)
      BY <2>3, <2>4
    <3> QED
      BY <2>3, <2>6, <3>1
  <2>9. Rec!CountedPoseIsCentred'
    BY <1>1, <2>1, <2>7, <2>8 DEF Rec!CountedPoseIsCentred, Rec!Centred
  <2> QED
    BY <1>2, <2>5, <2>9
<1>4. CASE Rec!GetPose
  <2>1. client'.got = comm.pose /\ UNCHANGED <<link, comm>>
    BY <1>4 DEF Rec!GetPose
  <2> QED
    BY <1>1, <1>2, <2>1
       DEF RecTypes, RecPoses, Rec!Statuses, Rec!CountedPoseIsCentred, Rec!Centred
<1> QED
  BY <1>3, <1>4

\* A centre is new enough, or another one is to be taken.
THEOREM RecInvariance == Rec!RecSpec => []RecInv
<1>1. Rec!Init => RecInv
  <2> SUFFICES ASSUME Rec!Init
               PROVE  RecInv
    OBVIOUS
  <2>1. Rec!Zero \in RecPoses /\ Rec!Zero.counter = 0 /\ Rec!Zero.base = 0
    BY DEF Rec!Zero, RecPoses, Rec!Statuses
  <2>2. /\ pose = Rec!Zero /\ last = Rec!Zero /\ comm.pose = Rec!Zero /\ client.got = Rec!Zero
        /\ link = <<>> /\ poseCount = 0
    BY DEF Rec!Init
  <2>3. /\ device \in [at : {"down", "paused", "wait", "pose", "clear", "clear3", "write",
                             "callback"}, frame : Nat, base : Nat, needed : Nat]
        /\ device.at = "down" /\ device.frame = 0 /\ centre = 0 /\ due = 0
    BY DEF Rec!Init
  <2>4. link \in Seq(RecPoses) /\ Len(link) = 0
    BY <2>2
  <2>5. RecTypes /\ Asked /\ Counted
    BY <2>1, <2>2, <2>3, <2>4 DEF RecTypes, Asked, Counted
  <2>6. Rec!CountedPoseIsCentred
    BY <2>1, <2>2, <2>4 DEF Rec!CountedPoseIsCentred, Rec!Centred
  <2> QED
    BY <2>5, <2>6 DEF RecInv
<1>2. RecInv /\ [Rec!RecNext]_(Rec!recVars) => RecInv'
  <2>1. RecInv /\ UNCHANGED Rec!recVars => RecInv'
    BY DEF RecInv, RecTypes, RecPoses, Rec!Statuses, Asked, Counted, Rec!recVars,
           Rec!CountedPoseIsCentred, Rec!Centred
  <2> QED
    BY <2>1, FlagsKeep, RunsKeep, PoseKeeps, ClientKeeps DEF Rec!RecNext
<1> QED
  BY <1>1, <1>2, PTL DEF Rec!RecSpec

\* A pose that counts is relative to a centre taken after the start of its run, the last
\* recentering asked for before its frame and the last change of the model it found
\* (tracking.c), for any number of frames, requests and starts.
THEOREM PosesAreCentred == Rec!RecSpec => []Rec!CountedPoseIsCentred
<1>1. RecInv => Rec!CountedPoseIsCentred
  BY DEF RecInv
<1> QED
  BY <1>1, RecInvariance, PTL
------------------------------------------------------------------------------
(***************************************************************************)
(* DeviceSetup, for any cameras, formats and preference files.  A setting  *)
(* that was stored belongs to its section when the dialog shows the input  *)
(* and the formats of a camera its device may be: both are so as long as   *)
(* the preferences are not read again behind it.                           *)
(***************************************************************************)

DevTypes ==
  /\ Dev!PrefsOK(prefs) /\ Dev!PrefsOK(file)
  /\ plugged \subseteq CameraNames
  /\ combo \subseteq Dev!Devices /\ dialog \in Dev!Devices \cup {Dev!Nothing}
  /\ info \in CameraNames \cup {Dev!NoValue}
  /\ shown \in [fmt : Nat, res : Nat] /\ shown.fmt \in DOMAIN Dev!Offer(info)

\* What the sections of webcams hold came from where it may.
AllOffered(p) ==
  \A d \in DOMAIN p.sections \cap Dev!Webcams : Dev!Offered(d, p.sections[d])

\* The formats shown are of a camera the device of the dialog may be.
FormatsAreOf(d, c) == d \in Dev!Webcams => c \in Begins[d.id] \cup {Dev!NoValue}

\* The invariant of DeviceSetup.
DevInv ==
  /\ DevTypes /\ FormatsAreOf(dialog, info)
  /\ dialog # Dev!Nothing /\ ~behind => prefs.input = dialog
  /\ ~strayed => AllOffered(prefs) /\ AllOffered(file)

\* A set of numbers that is not empty has a first one.
LEMMA HasFirst ==
  ASSUME NEW S \in SUBSET Nat, S # {}
  PROVE  Dev!FirstOr1(S) \in S
<1> DEFINE R == OpToRel(<, Nat)
<1>1. \A a, b \in Nat : <<a, b>> \notin R => ~(a < b)
  BY Zenon DEF OpToRel
<1>2. PICK x \in S : \A y \in S : <<y, x>> \notin R
  BY NatLessThanWellFounded, WFMin
<1> HIDE DEF R
<1>3. \A y \in S : ~(y < x)
  BY <1>1, <1>2, Zenon
<1>4. \A y \in S : x <= y
  BY <1>3
<1> QED
  BY <1>4 DEF Dev!FirstOr1

\* The first index of a sequence that fits, or the first one.
LEMMA FirstIndex ==
  ASSUME NEW n \in Nat, n > 0, NEW S \in SUBSET (1 .. n)
  PROVE  Dev!FirstOr1(S) \in 1 .. n
<1>1. CASE S = {}
  BY <1>1 DEF Dev!FirstOr1
<1>2. CASE S # {}
  <2>1. S \in SUBSET Nat
    OBVIOUS
  <2>2. Dev!FirstOr1(S) \in S
    BY <1>2, <2>1, HasFirst
  <2> QED
    BY <2>2
<1> QED
  BY <1>1, <1>2

\* A camera, or none, offers a format with a resolution.
LEMMA OffersOf ==
  ASSUME Dev!DeviceAssumption, NEW c \in CameraNames \cup {Dev!NoValue}
  PROVE  /\ Dev!Offer(c) \in Seq(Dev!Formats) /\ Dev!Offer(c) # <<>>
         /\ c = Dev!NoValue => Dev!Offer(c) = Dev!Fallback
<1>1. c = Dev!NoValue => c \notin CameraNames
  BY DEF Dev!DeviceAssumption
<1>2. Dev!Fallback # <<>> /\ Dev!Fallback \in Seq(Dev!Formats)
  BY DEF Dev!Fallback, Dev!DeviceAssumption
<1>3. c \in CameraNames => Offers[c] \in Seq(Dev!Formats)
  BY DEF Dev!DeviceAssumption
<1> QED
  BY <1>1, <1>2, <1>3 DEF Dev!Offer

\* A sequence of one element.
LEMMA OneElement ==
  ASSUME NEW e
  PROVE  DOMAIN <<e>> = {1} /\ <<e>>[1] = e
<1>1. Len(<<e>>) = 1 /\ <<e>>[1] = e
  OBVIOUS
<1>2. <<e>> \in Seq({e})
  OBVIOUS
<1>3. DOMAIN <<e>> = 1 .. 1
  BY <1>1, <1>2, Elements
<1> QED
  BY <1>1, <1>3

\* What findFourcc and findRes find is in the list.
LEMMA FoundInList ==
  ASSUME Dev!DeviceAssumption, NEW c \in CameraNames \cup {Dev!NoValue}
  PROVE  /\ \A code : Dev!FindCode(c, code) \in DOMAIN Dev!Offer(c)
         /\ \A set : \A f \in DOMAIN Dev!Offer(c) :
              Dev!ResFor(c, f, set) \in DOMAIN Dev!Offer(c)[f].res
         /\ \A f \in DOMAIN Dev!Offer(c) : f \in Nat /\ \A r \in DOMAIN Dev!Offer(c)[f].res :
              r \in Nat /\ Dev!Spec(c, f, r) \in Dev!WebcamSettings
         /\ c = Dev!NoValue =>
              \A f \in DOMAIN Dev!Offer(c) : \A r \in DOMAIN Dev!Offer(c)[f].res :
                Dev!Spec(c, f, r) = Dev!Spec(Dev!NoValue, 1, 1)
<1> DEFINE o == Dev!Offer(c)
<1>1. o \in Seq(Dev!Formats) /\ o # <<>>
  BY OffersOf
<1>2. DOMAIN o = 1 .. Len(o) /\ Len(o) \in Nat /\ Len(o) > 0
  BY <1>1, Elements
<1>3. ASSUME NEW f \in DOMAIN o
      PROVE  /\ f \in Nat /\ o[f].code \in FourCCs /\ o[f].res \in Seq(FrameSizes)
             /\ DOMAIN o[f].res = 1 .. Len(o[f].res) /\ Len(o[f].res) \in Nat
             /\ Len(o[f].res) > 0 /\ \A r \in DOMAIN o[f].res : o[f].res[r] \in FrameSizes
  <2>1. o[f] \in Dev!Formats /\ f \in Nat
    BY <1>1, <1>2, <1>3, Elements
  <2>2. o[f].code \in FourCCs /\ o[f].res \in Seq(FrameSizes) /\ o[f].res # <<>>
    BY <2>1 DEF Dev!Formats
  <2> QED
    BY <2>1, <2>2, Elements
<1>4. ASSUME NEW code
      PROVE  Dev!FindCode(c, code) \in DOMAIN o
  <2>1. {f \in DOMAIN o : o[f].code = code} \in SUBSET (1 .. Len(o))
    BY <1>2
  <2>2. Dev!FirstOr1({f \in DOMAIN o : o[f].code = code}) \in 1 .. Len(o)
    BY <1>2, <2>1, FirstIndex
  <2> QED
    BY <1>2, <2>2 DEF Dev!FindCode
<1>5. ASSUME NEW f \in DOMAIN o, NEW set
      PROVE  Dev!ResFor(c, f, set) \in DOMAIN o[f].res
  <2> DEFINE S == {r \in DOMAIN o[f].res : o[f].res[r] = set.res}
  <2>1. S \in SUBSET (1 .. Len(o[f].res))
    BY <1>3
  <2>2. Dev!FirstOr1(S) \in 1 .. Len(o[f].res)
    BY <1>3, <2>1, FirstIndex
  <2>3. 1 \in 1 .. Len(o[f].res) /\ Dev!FindRes(c, f, set.res) = Dev!FirstOr1(S)
    BY <1>3 DEF Dev!FindRes
  <2> QED
    BY <1>3, <2>2, <2>3 DEF Dev!ResFor
<1>6. ASSUME NEW f \in DOMAIN o, NEW r \in DOMAIN o[f].res
      PROVE  r \in Nat /\ Dev!Spec(c, f, r) \in Dev!WebcamSettings
  BY <1>3 DEF Dev!Spec, Dev!WebcamSettings
<1>7. ASSUME c = Dev!NoValue, NEW f \in DOMAIN o, NEW r \in DOMAIN o[f].res
      PROVE  Dev!Spec(c, f, r) = Dev!Spec(Dev!NoValue, 1, 1)
  <2>1. o = Dev!Fallback
    BY <1>7, OffersOf
  <2>2. /\ DOMAIN Dev!Fallback = {1}
        /\ Dev!Fallback[1].res = <<"160 x 120">> /\ DOMAIN <<"160 x 120">> = {1}
    BY OneElement DEF Dev!Fallback
  <2>3. f = 1 /\ r = 1
    BY <2>1, <2>2
  <2> QED
    BY <1>7, <2>3
<1> QED
  BY <1>3, <1>4, <1>5, <1>6, <1>7

\* A section that is made leaves the others alone; its device is the input.
LEMMA ActivatedHas ==
  ASSUME NEW p, Dev!PrefsOK(p), NEW d \in Dev!Devices, NEW fresh \in Dev!WebcamSettings
  PROVE  LET now == Dev!Activated(p, d, fresh)
         IN  /\ Dev!PrefsOK(now) /\ now.input = d
             /\ DOMAIN now.sections = DOMAIN p.sections \cup {d}
             /\ \A e \in DOMAIN p.sections : now.sections[e] = p.sections[e]
<1> DEFINE now == Dev!Activated(p, d, fresh)
           D == DOMAIN p.sections \cup {d}
<1>1. /\ D \subseteq Dev!Devices /\ p.sections \in [DOMAIN p.sections -> Dev!WebcamSettings]
  BY DEF Dev!PrefsOK
<1>2. now = [sections |-> [e \in D |-> IF e \in DOMAIN p.sections THEN p.sections[e] ELSE fresh],
             input |-> d]
  BY DEF Dev!Activated, Dev!Extended
<1>3. now.sections = [e \in D |-> IF e \in DOMAIN p.sections THEN p.sections[e] ELSE fresh]
      /\ now.input = d /\ now = [sections |-> now.sections, input |-> now.input]
  BY <1>2
<1>4. now.sections \in [D -> Dev!WebcamSettings] /\ DOMAIN now.sections = D
  BY <1>1, <1>3
<1>5. Dev!PrefsOK(now)
  BY <1>1, <1>3, <1>4 DEF Dev!PrefsOK
<1> QED
  BY <1>3, <1>4, <1>5

\* Settings that are stored in a section.
LEMMA StoredHas ==
  ASSUME NEW p, Dev!PrefsOK(p), NEW d, NEW settings \in Dev!WebcamSettings,
         NEW q, q = [p EXCEPT !.sections[d] = settings]
  PROVE  /\ Dev!PrefsOK(q) /\ q.input = p.input
         /\ DOMAIN q.sections = DOMAIN p.sections
         /\ \A e \in DOMAIN p.sections :
              q.sections[e] = IF e = d THEN settings ELSE p.sections[e]
BY DEF Dev!PrefsOK

\* A webcam has its name.
LEMMA WebcamHas ==
  ASSUME NEW d \in Dev!Webcams
  PROVE  d.id \in CameraNames /\ d \in Dev!Devices /\ d # Dev!Nothing
         /\ d \notin {Dev!Tir, Dev!Wiimote}
BY DEF Dev!Webcams, Dev!Webcam, Dev!Face, Dev!Devices, Dev!Nothing, Dev!Tir, Dev!Wiimote

\* The dialog of a webcam shows formats of a camera and writes them to a new section.
LEMMA ShowsKeeps ==
  ASSUME Dev!DeviceAssumption, NEW p, Dev!PrefsOK(p), NEW d \in Dev!Webcams,
         NEW c \in CameraNames \cup {Dev!NoValue}, c \in Begins[d.id] \cup {Dev!NoValue},
         Dev!Shows(p, d, c)
  PROVE  /\ Dev!PrefsOK(prefs') /\ prefs'.input = d /\ info' = c
         /\ shown' \in [fmt : Nat, res : Nat] /\ shown'.fmt \in DOMAIN Dev!Offer(info')
         /\ \A e \in DOMAIN p.sections : prefs'.sections[e] = p.sections[e]
         /\ DOMAIN prefs'.sections = DOMAIN p.sections \cup {d}
         /\ AllOffered(p) => AllOffered(prefs')
<1> DEFINE now == Dev!Activated(p, d, Dev!Empty)
           set == Dev!Loaded(now.sections[d])
           f == Dev!FindCode(c, set.code)
           r == Dev!ResFor(c, f, set)
           v == Dev!Spec(c, f, r)
<1>1. /\ info' = c /\ shown' = [fmt |-> f, res |-> r]
      /\ prefs' = IF d \in DOMAIN p.sections THEN now ELSE [now EXCEPT !.sections[d] = v]
  BY DEF Dev!Shows, Dev!HasSection
<1>2. f \in DOMAIN Dev!Offer(c) /\ r \in DOMAIN Dev!Offer(c)[f].res
  BY FoundInList
<1>3. f \in Nat /\ r \in Nat /\ v \in Dev!WebcamSettings
      /\ (c = Dev!NoValue => v = Dev!Spec(Dev!NoValue, 1, 1))
  BY <1>2, FoundInList
<1>4. Dev!Empty \in Dev!WebcamSettings /\ d \in Dev!Devices
  BY WebcamHas DEF Dev!Empty, Dev!WebcamSettings
<1>5. /\ Dev!PrefsOK(now) /\ now.input = d
      /\ DOMAIN now.sections = DOMAIN p.sections \cup {d}
      /\ \A e \in DOMAIN p.sections : now.sections[e] = p.sections[e]
  BY <1>4, ActivatedHas
<1>6. Dev!Offered(d, v)
  BY <1>2, <1>3 DEF Dev!Offered
<1> HIDE DEF now, set, f, r, v
<1>7. /\ Dev!PrefsOK(prefs') /\ prefs'.input = d
      /\ DOMAIN prefs'.sections = DOMAIN p.sections \cup {d}
      /\ \A e \in DOMAIN p.sections : prefs'.sections[e] = p.sections[e]
      /\ d \notin DOMAIN p.sections => prefs'.sections[d] = v
  <2>1. CASE d \in DOMAIN p.sections
    BY <1>1, <1>5, <2>1
  <2>2. CASE d \notin DOMAIN p.sections
    <3>1. prefs' = [now EXCEPT !.sections[d] = v]
      BY <1>1, <2>2
    <3>2. /\ Dev!PrefsOK(prefs') /\ prefs'.input = now.input
          /\ DOMAIN prefs'.sections = DOMAIN now.sections
          /\ \A e \in DOMAIN now.sections :
               prefs'.sections[e] = IF e = d THEN v ELSE now.sections[e]
      BY <1>3, <1>5, <3>1, StoredHas
    <3> QED
      BY <1>5, <2>2, <3>2
  <2> QED
    BY <2>1, <2>2
<1>8. AllOffered(p) => AllOffered(prefs')
  BY <1>6, <1>7 DEF AllOffered
<1>9. shown' \in [fmt : Nat, res : Nat] /\ shown'.fmt \in DOMAIN Dev!Offer(info')
  BY <1>1, <1>2, <1>3
<1> QED
  BY <1>1, <1>7, <1>8, <1>9

\* A dialog that is opened is for the input, which is its device.
LEMMA OpenKeeps ==
  ASSUME Dev!DeviceAssumption, DevTypes, NEW p, Dev!PrefsOK(p), NEW d \in Dev!Devices,
         Dev!Open(p, d)
  PROVE  /\ Dev!PrefsOK(prefs') /\ prefs'.input = d /\ dialog' = d /\ FormatsAreOf(d, info')
         /\ info' \in CameraNames \cup {Dev!NoValue}
         /\ shown' \in [fmt : Nat, res : Nat] /\ shown'.fmt \in DOMAIN Dev!Offer(info')
         /\ \A e \in DOMAIN p.sections : prefs'.sections[e] = p.sections[e]
         /\ AllOffered(p) => AllOffered(prefs')
<1>1. dialog' = d /\ (Dev!OpenWebcam(p, d) \/ Dev!OpenTir(p, d))
  BY DEF Dev!Open, Dev!OpenFace, Dev!OpenWiimote
<1>2. CASE Dev!OpenWebcam(p, d)
  <2>1. d \in Dev!Webcams
    BY <1>2 DEF Dev!OpenWebcam
  <2>2. Begins[d.id] \subseteq CameraNames
    BY <2>1, WebcamHas DEF Dev!DeviceAssumption
  <2>3. PICK c \in Begins[d.id] \cup {Dev!NoValue} : Dev!Shows(p, d, c)
    BY <1>2 DEF Dev!OpenWebcam, Dev!Found
  <2>4. c \in CameraNames \cup {Dev!NoValue}
    BY <2>2
  <2> QED
    BY <1>1, <2>1, <2>3, <2>4, ShowsKeeps DEF FormatsAreOf
<1>3. CASE Dev!OpenTir(p, d)
  <2>1. /\ d \in {Dev!Tir, Dev!Wiimote} /\ prefs' = Dev!Activated(p, d, Dev!NoSettings)
        /\ UNCHANGED <<info, shown>>
    BY <1>3 DEF Dev!OpenTir
  <2>2. Dev!NoSettings \in Dev!WebcamSettings
    BY DEF Dev!NoSettings, Dev!WebcamSettings
  <2>3. /\ Dev!PrefsOK(prefs') /\ prefs'.input = d
        /\ DOMAIN prefs'.sections = DOMAIN p.sections \cup {d}
        /\ \A e \in DOMAIN p.sections : prefs'.sections[e] = p.sections[e]
    BY <2>1, <2>2, ActivatedHas
  <2>4. d \notin Dev!Webcams
    BY <2>1, WebcamHas
  <2>5. AllOffered(p) => AllOffered(prefs')
    BY <2>3, <2>4 DEF AllOffered
  <2> QED
    BY <1>1, <2>1, <2>3, <2>4, <2>5 DEF FormatsAreOf, DevTypes
<1> QED
  BY <1>1, <1>2, <1>3

\* A webcam is no other device, and neither of the others has formats.
LEMMA DefaultIs ==
  Dev!PrefsOK(Dev!Default) /\ AllOffered(Dev!Default)
<1>1. Dev!NoSettings \in Dev!WebcamSettings
  BY DEF Dev!NoSettings, Dev!WebcamSettings
<1>2. DOMAIN Dev!Default.sections = {Dev!Wiimote, Dev!Tir}
  BY DEF Dev!Default
<1>3. Dev!PrefsOK(Dev!Default)
  BY <1>1, <1>2 DEF Dev!Default, Dev!PrefsOK, Dev!Devices
<1>4. AllOffered(Dev!Default)
  BY <1>2, WebcamHas DEF AllOffered
<1> QED
  BY <1>3, <1>4

\* A device is chosen, the list of them is made anew, or everything is set back.
LEMMA ChoicesKeep ==
  ASSUME Dev!DeviceAssumption, DevInv, Dev!PickDevice \/ Dev!Refresh \/ Dev!Defaults
  PROVE  DevInv'
<1> USE DEF DevInv
<1>1. ASSUME NEW p, Dev!PrefsOK(p), NEW d \in Dev!Devices, Dev!Open(p, d),
             Dev!PrefsOK(file'), combo' \subseteq Dev!Devices,
             UNCHANGED <<plugged, strayed>>,
             ~strayed => AllOffered(p) /\ AllOffered(file')
      PROVE  DevInv'
  <2>1. /\ Dev!PrefsOK(prefs') /\ prefs'.input = d /\ dialog' = d /\ FormatsAreOf(d, info')
        /\ info' \in CameraNames \cup {Dev!NoValue}
        /\ shown' \in [fmt : Nat, res : Nat] /\ shown'.fmt \in DOMAIN Dev!Offer(info')
        /\ AllOffered(p) => AllOffered(prefs')
    BY <1>1, OpenKeeps
  <2>2. DevTypes'
    BY <1>1, <2>1 DEF DevTypes
  <2>3. FormatsAreOf(dialog, info)'
    BY <2>1 DEF FormatsAreOf
  <2>4. (~strayed => AllOffered(prefs) /\ AllOffered(file))'
    BY <1>1, <2>1 DEF AllOffered
  <2> QED
    BY <2>1, <2>2, <2>3, <2>4
<1>2. CASE Dev!PickDevice
  <2>1. PICK d \in combo : Dev!Open(prefs, d)
    BY <1>2 DEF Dev!PickDevice
  <2>2. /\ d \in Dev!Devices /\ Dev!PrefsOK(prefs) /\ Dev!PrefsOK(file')
        /\ combo' \subseteq Dev!Devices /\ UNCHANGED <<plugged, strayed>>
        /\ ~strayed => AllOffered(prefs) /\ AllOffered(file')
    BY <1>2 DEF Dev!PickDevice, DevTypes
  <2> QED
    BY <1>1, <2>1, <2>2
<1>3. ASSUME NEW p, Dev!Refreshed(p)
      PROVE  combo' \subseteq Dev!Devices /\ \E d \in Dev!Devices : Dev!Open(p, d)
  <2>1. PICK f \in Dev!Enumerated, w \in Dev!Enumerated :
          /\ combo' = Dev!WiimotesToAdd \cup Dev!TirsToAdd \cup Dev!FacesToAdd(f)
                        \cup Dev!WebcamsToAdd(w)
          /\ Dev!Open(p, Dev!Preferred(p))
    BY <1>3 DEF Dev!Refreshed
  <2>2. f \subseteq CameraNames /\ w \subseteq CameraNames
    BY DEF Dev!Enumerated, DevTypes
  <2>3. combo' \subseteq Dev!Devices
    BY <2>1, <2>2 DEF Dev!WiimotesToAdd, Dev!TirsToAdd, Dev!FacesToAdd, Dev!WebcamsToAdd,
                      Dev!Devices, Dev!Webcams
  <2>4. Dev!Preferred(p) \in Dev!Devices
    BY <2>3 DEF Dev!Preferred, Dev!Devices
  <2> QED
    BY <2>1, <2>3, <2>4
<1>4. CASE Dev!Refresh
  <2>1. Dev!Refreshed(prefs) /\ UNCHANGED <<file, plugged, strayed>>
    BY <1>4 DEF Dev!Refresh
  <2>2. PICK d \in Dev!Devices : Dev!Open(prefs, d)
    BY <1>3, <2>1
  <2>3. Dev!PrefsOK(prefs) /\ Dev!PrefsOK(file') /\ combo' \subseteq Dev!Devices
        /\ (~strayed => AllOffered(prefs) /\ AllOffered(file'))
    BY <1>3, <2>1 DEF DevTypes
  <2> QED
    BY <1>1, <2>1, <2>2, <2>3
<1>5. CASE Dev!Defaults
  <2>1. Dev!Refreshed(Dev!Default) /\ file' = Dev!Default /\ UNCHANGED <<plugged, strayed>>
    BY <1>5 DEF Dev!Defaults
  <2>2. PICK d \in Dev!Devices : Dev!Open(Dev!Default, d)
    BY <1>3, <2>1
  <2>3. combo' \subseteq Dev!Devices /\ Dev!PrefsOK(file') /\ AllOffered(file')
    BY <1>3, <2>1, DefaultIs
  <2> QED
    BY <1>1, <2>1, <2>2, <2>3, DefaultIs
<1> QED
  BY <1>2, <1>4, <1>5

\* A format or a resolution is chosen.
LEMMA FormatsKeep ==
  ASSUME Dev!DeviceAssumption, DevInv, Dev!SelectFormat \/ Dev!SelectResolution
  PROVE  DevInv'
<1> USE DEF DevInv
<1>1. UNCHANGED <<file, plugged, combo, dialog, info, behind>> /\ dialog \in Dev!Webcams
  BY DEF Dev!SelectFormat, Dev!SelectResolution
<1>2. \/ UNCHANGED <<prefs, strayed>> /\ shown' \in [fmt : Nat, res : Nat] /\ shown'.fmt = shown.fmt
      \/ \E f \in DOMAIN Dev!Offer(info) : \E r \in DOMAIN Dev!Offer(info)[f].res :
           /\ shown' \in [fmt : Nat, res : Nat] /\ shown'.fmt = f
           /\ Dev!Store(Dev!Spec(info, f, r))
  <2>1. CASE Dev!SelectFormat
    <3>1. PICK f \in DOMAIN Dev!Offer(info) :
            /\ shown' = [fmt |-> f, res |-> Dev!ResFor(info, f, loaded)]
            /\ Dev!Store(Dev!Spec(info, f, Dev!ResFor(info, f, loaded)))
      BY <2>1 DEF Dev!SelectFormat
    <3>2. /\ f \in Nat /\ Dev!ResFor(info, f, loaded) \in DOMAIN Dev!Offer(info)[f].res
          /\ Dev!ResFor(info, f, loaded) \in Nat
      BY FoundInList DEF DevTypes
    <3>3. shown' \in [fmt : Nat, res : Nat] /\ shown'.fmt = f
      BY <3>1, <3>2
    <3> QED
      BY <3>1, <3>2, <3>3
  <2>2. CASE Dev!SelectResolution
    <3>1. PICK r \in 1 .. Dev!Listed(info, shown.fmt) :
            /\ shown' = [shown EXCEPT !.res = r]
            /\ IF r \in DOMAIN Dev!Offer(info)[shown.fmt].res
               THEN Dev!Store(Dev!Spec(info, shown.fmt, r))
               ELSE UNCHANGED <<prefs, strayed>>
      BY <2>2 DEF Dev!SelectResolution
    <3>2. r \in Nat
      OBVIOUS
    <3>3. shown' \in [fmt : Nat, res : Nat] /\ shown'.fmt = shown.fmt
      BY <3>1, <3>2 DEF DevTypes
    <3> QED
      BY <3>1, <3>3 DEF DevTypes
  <2> QED
    BY <2>1, <2>2
<1>3. CASE UNCHANGED <<prefs, strayed>> /\ shown' \in [fmt : Nat, res : Nat]
           /\ shown'.fmt = shown.fmt
  BY <1>1, <1>3 DEF DevTypes, FormatsAreOf, AllOffered
<1>4. ASSUME NEW f \in DOMAIN Dev!Offer(info), NEW r \in DOMAIN Dev!Offer(info)[f].res,
             shown' \in [fmt : Nat, res : Nat], shown'.fmt = f,
             Dev!Store(Dev!Spec(info, f, r))
      PROVE  DevInv'
  <2> DEFINE v == Dev!Spec(info, f, r)
  <2>1. v \in Dev!WebcamSettings /\ (info = Dev!NoValue => v = Dev!Spec(Dev!NoValue, 1, 1))
    BY FoundInList DEF DevTypes
  <2>2. Dev!Offered(dialog, v)
    BY <1>1, <2>1 DEF Dev!Offered, FormatsAreOf
  <2>3. /\ ~strayed' => ~strayed /\ ~behind
        /\ prefs' = prefs \/ prefs' = [prefs EXCEPT !.sections[prefs.input] = v]
    BY <1>4 DEF Dev!Store
  <2> HIDE DEF v
  <2>4. /\ Dev!PrefsOK(prefs') /\ prefs'.input = prefs.input
        /\ DOMAIN prefs'.sections = DOMAIN prefs.sections
        /\ \A e \in DOMAIN prefs.sections :
             prefs'.sections[e] \in {prefs.sections[e]} \cup (IF e = prefs.input THEN {v} ELSE {})
    <3>1. CASE prefs' = prefs
      BY <3>1 DEF DevTypes
    <3>2. CASE prefs' = [prefs EXCEPT !.sections[prefs.input] = v]
      <4>0. Dev!PrefsOK(prefs)
        BY DEF DevTypes
      <4>1. /\ Dev!PrefsOK(prefs') /\ prefs'.input = prefs.input
            /\ DOMAIN prefs'.sections = DOMAIN prefs.sections
            /\ \A e \in DOMAIN prefs.sections :
                 prefs'.sections[e] = IF e = prefs.input THEN v ELSE prefs.sections[e]
        BY <2>1, <3>2, <4>0, StoredHas
      <4> QED
        BY <4>1
    <3> QED
      BY <2>3, <3>1, <3>2
  <2>5. DevTypes'
    BY <1>1, <1>4, <2>4 DEF DevTypes
  <2>6. ~strayed' => AllOffered(prefs') /\ AllOffered(file')
    <3> SUFFICES ASSUME ~strayed'
                 PROVE  AllOffered(prefs')
      BY <1>1, <2>3
    <3>1. AllOffered(prefs) /\ prefs.input = dialog
      BY <1>1, <2>3, WebcamHas
    <3> QED
      BY <2>2, <2>4, <3>1 DEF AllOffered
  <2> QED
    BY <1>1, <2>4, <2>5, <2>6 DEF FormatsAreOf, AllOffered
<1> QED
  BY <1>2, <1>3, <1>4

\* The other settings, the preferences as a whole, the driver and the user.
LEMMA OthersKeep ==
  ASSUME DevInv,
         \/ Dev!TuneWebcam \/ Dev!TuneFace \/ Dev!TuneTir \/ Dev!TuneWiimote
         \/ Dev!Save \/ Dev!Discard \/ Dev!DriverReads \/ Dev!Plug
  PROVE  DevInv'
<1> USE DEF DevInv
<1>1. UNCHANGED <<combo, dialog, info, shown>> /\ plugged' \subseteq CameraNames
  BY DEF Dev!TuneWebcam, Dev!TuneFace, Dev!TuneTir, Dev!TuneWiimote, Dev!Tune, Dev!Save,
         Dev!Discard, Dev!DriverReads, Dev!Plug, DevTypes
<1>2. FormatsAreOf(dialog, info)'
  BY <1>1 DEF FormatsAreOf
<1>3. \/ UNCHANGED <<prefs, file, behind>> /\ (~strayed' => ~strayed)
      \/ UNCHANGED <<prefs, behind, strayed>> /\ file' = prefs
      \/ UNCHANGED <<file, strayed>> /\ prefs' = file /\ (~behind' => file.input = dialog)
  BY DEF Dev!TuneWebcam, Dev!TuneFace, Dev!TuneTir, Dev!TuneWiimote, Dev!Tune, Dev!Save,
         Dev!Discard, Dev!DriverReads, Dev!Plug
<1>4. prefs' \in {prefs, file} /\ file' \in {prefs, file}
  BY <1>3
<1>5. DevTypes'
  BY <1>1, <1>4 DEF DevTypes
<1>6. (dialog # Dev!Nothing /\ ~behind => prefs.input = dialog)'
  BY <1>1, <1>3
<1>7. (~strayed => AllOffered(prefs) /\ AllOffered(file))'
  BY <1>3, <1>4 DEF AllOffered
<1> QED
  BY <1>2, <1>5, <1>6, <1>7

\* The dialog, the input and the formats shown belong together.
THEOREM DevInvariance == ASSUME Dev!DeviceAssumption PROVE Dev!DeviceSpec => []DevInv
<1>1. Dev!Init => DevInv
  <2> SUFFICES ASSUME Dev!Init
               PROVE  DevInv
    OBVIOUS
  <2>1. Dev!PrefsOK(file) /\ AllOffered(file)
    <3>1. CASE file = Dev!Default
      BY <3>1, DefaultIs
    <3>2. CASE file \in Files
      BY <3>2 DEF Dev!DeviceAssumption, AllOffered, Dev!Offered
    <3> QED
      BY <3>1, <3>2 DEF Dev!Init
  <2>2. 1 \in DOMAIN Dev!Offer(Dev!NoValue)
    <3>1. Dev!Offer(Dev!NoValue) = Dev!Fallback
      BY OffersOf
    <3> QED
      BY <3>1, OneElement DEF Dev!Fallback
  <2>3. Dev!Nothing \notin Dev!Webcams
    BY WebcamHas
  <2>4. /\ prefs = file /\ plugged \subseteq CameraNames /\ combo = {} /\ dialog = Dev!Nothing
        /\ info = Dev!NoValue /\ shown = [fmt |-> 1, res |-> 1]
    BY DEF Dev!Init
  <2> QED
    BY <2>1, <2>2, <2>3, <2>4 DEF DevInv, DevTypes, FormatsAreOf
<1>2. DevInv /\ [Dev!DeviceNext]_(Dev!deviceVars) => DevInv'
  <2>1. DevInv /\ UNCHANGED Dev!deviceVars => DevInv'
    BY DEF DevInv, DevTypes, FormatsAreOf, AllOffered, Dev!deviceVars
  <2> QED
    BY <2>1, ChoicesKeep, FormatsKeep, OthersKeep DEF Dev!DeviceNext
<1> QED
  BY <1>1, <1>2, PTL DEF Dev!DeviceSpec

\* What is set in a dialog goes to the device it is for, and a format is stored with a camera
\* that offers it, unless the preferences were read again behind the dialog
\* (webcam_prefs.cpp, wc_driver_prefs.c), for any cameras, formats, files and choices.
THEOREM SettingsStayApart ==
  ASSUME Dev!DeviceAssumption PROVE Dev!DeviceSpec => []Dev!SettingsBelong
<1>1. DevInv => Dev!SettingsBelong
  BY DEF DevInv, Dev!SettingsBelong, AllOffered
<1> QED
  BY <1>1, DevInvariance, PTL

\* To look at a device opens it, with what its section says.
LEMMA LooksKeep ==
  ASSUME Dev!DeviceAssumption, DevInv PROVE Dev!LookingKeeps
<1> SUFFICES ASSUME Dev!PickDevice \/ Dev!Refresh
             PROVE  Dev!LookingKeeps
  BY DEF Dev!LookingKeeps
<1>1. \E d \in Dev!Devices : Dev!Open(prefs, d)
  <2>1. CASE Dev!PickDevice
    BY <2>1 DEF Dev!PickDevice, DevInv, DevTypes
  <2>2. CASE Dev!Refresh
    <3>1. PICK f \in Dev!Enumerated, w \in Dev!Enumerated :
            /\ combo' = Dev!WiimotesToAdd \cup Dev!TirsToAdd \cup Dev!FacesToAdd(f)
                          \cup Dev!WebcamsToAdd(w)
            /\ Dev!Open(prefs, Dev!Preferred(prefs))
      BY <2>2 DEF Dev!Refresh, Dev!Refreshed
    <3>2. f \subseteq CameraNames /\ w \subseteq CameraNames
      BY DEF Dev!Enumerated, DevInv, DevTypes
    <3>3. combo' \subseteq Dev!Devices
      BY <3>1, <3>2 DEF Dev!WiimotesToAdd, Dev!TirsToAdd, Dev!FacesToAdd, Dev!WebcamsToAdd,
                        Dev!Devices, Dev!Webcams
    <3> QED
      BY <3>1, <3>3 DEF Dev!Preferred, Dev!Devices
  <2> QED
    BY <2>1, <2>2
<1>2. \A d \in DOMAIN prefs.sections : prefs'.sections[d] = prefs.sections[d]
  BY <1>1, OpenKeeps DEF DevInv, DevTypes
<1> QED
  BY <1>2 DEF Dev!LookingKeeps

\* To look at a device, or for devices, changes nothing that was set.
THEOREM LookingChangesNothing ==
  ASSUME Dev!DeviceAssumption PROVE Dev!DeviceSpec => [][Dev!LookingKeeps]_(Dev!deviceVars)
<1>1. DevInv => Dev!LookingKeeps
  BY LooksKeep
<1> QED
  BY <1>1, DevInvariance, PTL DEF Dev!DeviceSpec
------------------------------------------------------------------------------
(***************************************************************************)
(* TirLights, for any of the families, levels of the settings, operations  *)
(* and lost packets. What counts is what the camera will have been told    *)
(* when all is sent. The packets still to be sent settle an item when one  *)
(* of them tells it and the later ones leave it alone; they are quiet      *)
(* about it when all of them do (Settles, Quiet). What is wanted of each   *)
(* item is settled, or was told and stays (Ends), from the moment an       *)
(* operation has begun (Coming).                                           *)
(***************************************************************************)

\* What a camera is told, and the packets that tell a TrackIR 5, or the others.
Items == {"video", "IR", "light", "red", "green", "blue", "status", "threshold", "gray"}
Wanted == Items \ {"gray"}
Strange == IF family = "tir5" THEN {"red", "green", "blue"} ELSE {"light", "status", "ir_led"}
Messages ==
  ({"video", "IR", "red", "green", "blue", "indicate", "ir_led"} \X BOOLEAN)
  \cup ({"light"} \X Int) \cup ({"threshold"} \X (0 .. 255))
  \cup ({"status"} \X {"run", "pause", "off"}) \cup {<<"frame">>, <<"grayscale">>}
Ours == {p \in Messages : p[1] \notin Strange}

\* What a message says of a LED, of the status, or of the threshold.
LEMMA MessagesAre ==
  /\ \A p \in Messages :
       /\ p[1] \in {"video", "IR", "red", "green", "blue", "indicate", "ir_led"} => p[2] \in BOOLEAN
       /\ p[1] = "light" => p[2] \in Int
       /\ p[1] = "threshold" => p[2] \in 0 .. 255
       /\ p[1] = "status" => p[2] \in {"run", "pause", "off"}
       /\ p[1] \in (Items \ {"gray"}) \cup {"indicate", "ir_led", "frame", "grayscale"}
  /\ \A v \in 0 .. 255 : <<"threshold", v>> \in Messages
  /\ \A v \in Int : <<"light", v>> \in Messages
<1> DEFINE Bits == {"video", "IR", "red", "green", "blue", "indicate", "ir_led"}
<1>1. ASSUME NEW p \in Bits \X BOOLEAN
      PROVE  p[1] \in Bits /\ p[2] \in BOOLEAN
  OBVIOUS
<1>2. ASSUME NEW p \in {"light"} \X Int
      PROVE  p[1] = "light" /\ p[2] \in Int
  OBVIOUS
<1>3. ASSUME NEW p \in {"threshold"} \X (0 .. 255)
      PROVE  p[1] = "threshold" /\ p[2] \in 0 .. 255
  OBVIOUS
<1>4. ASSUME NEW p \in {"status"} \X {"run", "pause", "off"}
      PROVE  p[1] = "status" /\ p[2] \in {"run", "pause", "off"}
  OBVIOUS
<1>5. <<"frame">>[1] = "frame" /\ <<"grayscale">>[1] = "grayscale"
  OBVIOUS
<1>6. \A v \in 0 .. 255 : <<"threshold", v>> \in Messages
  BY DEF Messages
<1>7. \A v \in Int : <<"light", v>> \in Messages
  BY DEF Messages
<1>8. ASSUME NEW p \in Messages
      PROVE  \/ p[1] \in Bits /\ p[2] \in BOOLEAN
             \/ p[1] = "light" /\ p[2] \in Int
             \/ p[1] = "threshold" /\ p[2] \in 0 .. 255
             \/ p[1] = "status" /\ p[2] \in {"run", "pause", "off"}
             \/ p[1] \in {"frame", "grayscale"}
  <2>1. \/ p \in Bits \X BOOLEAN
        \/ p \in {"light"} \X Int
        \/ p \in {"threshold"} \X (0 .. 255)
        \/ p \in {"status"} \X {"run", "pause", "off"}
        \/ p = <<"frame">> \/ p = <<"grayscale">>
    BY Zenon DEF Messages
  <2> QED
    BY <2>1, <1>1, <1>2, <1>3, <1>4, <1>5
<1> QED
  BY <1>6, <1>7, <1>8 DEF Items

\* A packet that leaves an item that has the value v with it, and one that gives it v; the
\* value that is wanted of the light is 0, and of the green LED that it is off.
Keeps(p, what, v) ==
  /\ p[1] = what => p[2] = v
  /\ p[1] = "ir_led" => what # "light" \/ p[2] = FALSE
  /\ p[1] = "indicate" =>
       what \in {"video", "IR", "light", "blue", "threshold"} \/ (what = "green" /\ p[2] = FALSE)
Puts(p, what, v) ==
  \/ p[1] = what /\ p[2] = v
  \/ p[1] = "ir_led" /\ what = "light" /\ p[2] = FALSE

\* All of the packets s leave an item as it is; after them it is v.
Quiet(s, what, v) == \A i \in 1 .. Len(s) : Keeps(s[i], what, v)
Settles(s, what, v) ==
  \E i \in 1 .. Len(s) : Puts(s[i], what, v) /\ \A j \in i + 1 .. Len(s) : Keeps(s[j], what, v)

\* An item is v, or will be when all is sent.
Ends(what, v) == Settles(todo, what, v) \/ (Quiet(todo, what, v) /\ Lit!Told(what, v))

------------------------------------------------------------------------------
(* Sequences of packets *)

\* A sequence of messages joined to another.
LEMMA Concat ==
  ASSUME NEW s \in Seq(Messages), NEW t \in Seq(Messages)
  PROVE  /\ s \o t \in Seq(Messages) /\ Len(s \o t) = Len(s) + Len(t)
         /\ Len(s) \in Nat /\ Len(t) \in Nat
         /\ \A i \in 1 .. Len(s) : (s \o t)[i] = s[i]
         /\ \A i \in 1 .. Len(t) : (s \o t)[i + Len(s)] = t[i]
         /\ \A i \in 1 .. Len(s \o t) :
              (s \o t)[i] = IF i <= Len(s) THEN s[i] ELSE t[i - Len(s)]
BY ConcatProperties, LenProperties

\* Both leave an item alone, so the two together do.
LEMMA QuietBoth ==
  ASSUME NEW s \in Seq(Messages), NEW t \in Seq(Messages), NEW what, NEW v,
         Quiet(s, what, v), Quiet(t, what, v)
  PROVE  Quiet(s \o t, what, v)
<1> SUFFICES ASSUME NEW i \in 1 .. Len(s \o t)
             PROVE  Keeps((s \o t)[i], what, v)
  BY DEF Quiet
<1>1. CASE i <= Len(s)
  BY <1>1, Concat DEF Quiet
<1>2. CASE ~(i <= Len(s))
  <2>1. (s \o t)[i] = t[i - Len(s)] /\ i - Len(s) \in 1 .. Len(t)
    BY <1>2, Concat
  <2> QED
    BY <2>1 DEF Quiet
<1> QED
  BY <1>1, <1>2

\* What comes last settles an item.
LEMMA SettlesLater ==
  ASSUME NEW s \in Seq(Messages), NEW t \in Seq(Messages), NEW what, NEW v, Settles(t, what, v)
  PROVE  Settles(s \o t, what, v)
<1>1. PICK i \in 1 .. Len(t) :
        Puts(t[i], what, v) /\ \A j \in i + 1 .. Len(t) : Keeps(t[j], what, v)
  BY DEF Settles
<1>2. i + Len(s) \in 1 .. Len(s \o t) /\ Puts((s \o t)[i + Len(s)], what, v)
  BY <1>1, Concat
<1>3. ASSUME NEW j \in i + Len(s) + 1 .. Len(s \o t)
      PROVE  Keeps((s \o t)[j], what, v)
  <2>1. (s \o t)[j] = t[j - Len(s)] /\ j - Len(s) \in i + 1 .. Len(t)
    BY Concat
  <2> QED
    BY <1>1, <2>1
<1> QED
  BY <1>2, <1>3 DEF Settles

\* What comes first does, when the rest leaves it alone.
LEMMA SettlesFirst ==
  ASSUME NEW s \in Seq(Messages), NEW t \in Seq(Messages), NEW what, NEW v,
         Settles(s, what, v), Quiet(t, what, v)
  PROVE  Settles(s \o t, what, v)
<1>1. PICK i \in 1 .. Len(s) :
        Puts(s[i], what, v) /\ \A j \in i + 1 .. Len(s) : Keeps(s[j], what, v)
  BY DEF Settles
<1>2. i \in 1 .. Len(s \o t) /\ Puts((s \o t)[i], what, v)
  BY <1>1, Concat
<1>3. ASSUME NEW j \in i + 1 .. Len(s \o t)
      PROVE  Keeps((s \o t)[j], what, v)
  <2>1. CASE j <= Len(s)
    BY <1>1, <2>1, Concat
  <2>2. CASE ~(j <= Len(s))
    <3>1. (s \o t)[j] = t[j - Len(s)] /\ j - Len(s) \in 1 .. Len(t)
      BY <2>2, Concat
    <3> QED
      BY <3>1 DEF Quiet
  <2> QED
    BY <2>1, <2>2
<1> QED
  BY <1>2, <1>3 DEF Settles

\* A sequence that settles an item does it with its first message or with the rest.
LEMMA FirstAndRest ==
  ASSUME NEW s \in Seq(Messages), s # <<>>, NEW what, NEW v
  PROVE  /\ Tail(s) \in Seq(Messages) /\ Head(s) \in Messages
         /\ Quiet(s, what, v) => Keeps(Head(s), what, v) /\ Quiet(Tail(s), what, v)
         /\ Settles(s, what, v) =>
              \/ Settles(Tail(s), what, v)
              \/ Puts(Head(s), what, v) /\ Quiet(Tail(s), what, v)
<1>1. /\ Tail(s) \in Seq(Messages) /\ Head(s) = s[1] /\ Len(s) \in Nat \ {0}
      /\ Len(Tail(s)) = Len(s) - 1 /\ \A i \in 1 .. Len(Tail(s)) : Tail(s)[i] = s[i + 1]
  BY HeadTailProperties, EmptySeq, LenProperties
<1>2. Head(s) \in Messages
  BY <1>1, ElementOfSeq
<1>3. ASSUME Quiet(s, what, v)
      PROVE  Keeps(Head(s), what, v) /\ Quiet(Tail(s), what, v)
  BY <1>1, <1>3 DEF Quiet
<1>4. ASSUME Settles(s, what, v), ~Settles(Tail(s), what, v)
      PROVE  Puts(Head(s), what, v) /\ Quiet(Tail(s), what, v)
  <2>1. PICK i \in 1 .. Len(s) :
          Puts(s[i], what, v) /\ \A j \in i + 1 .. Len(s) : Keeps(s[j], what, v)
    BY <1>4 DEF Settles
  <2>2. CASE i = 1
    BY <1>1, <2>1, <2>2 DEF Quiet
  <2>3. CASE i # 1
    <3>1. i - 1 \in 1 .. Len(Tail(s)) /\ Puts(Tail(s)[i - 1], what, v)
      BY <1>1, <2>1, <2>3
    <3>2. ASSUME NEW j \in (i - 1) + 1 .. Len(Tail(s))
          PROVE  Keeps(Tail(s)[j], what, v)
      BY <1>1, <2>1, <2>3
    <3> QED
      BY <1>4, <3>1, <3>2 DEF Settles
  <2> QED
    BY <2>2, <2>3
<1> QED
  BY <1>1, <1>2, <1>3, <1>4

------------------------------------------------------------------------------
(* Messages that are sent *)

\* A message sets its item, and no other one.
LEMMA Sent ==
  ASSUME NEW w, NEW x, Lit!Send(w, x), DOMAIN cam = Items, NEW what \in Wanted, NEW v,
         w = what => x = v
  PROVE  /\ DOMAIN cam' = Items
         /\ Lit!Told(what, v) => Lit!Told(what, v)'
         /\ w = what => Lit!Told(what, v)'
<1>1. CASE cam' = [cam EXCEPT ![w] = x] /\ untold' = untold \ {w}
  BY <1>1 DEF Lit!Told, Wanted
<1>2. CASE untold' = untold \cup {w} /\ UNCHANGED cam
  BY <1>2 DEF Lit!Told
<1> QED
  BY <1>1, <1>2 DEF Lit!Send

\* What is still to be sent, without its first packet.
LEMMA RestEnds ==
  ASSUME todo \in Seq(Messages), todo # <<>>, todo' = Tail(todo), NEW what, NEW v, Ends(what, v),
         Keeps(Head(todo), what, v) /\ Lit!Told(what, v) => Lit!Told(what, v)',
         Puts(Head(todo), what, v) => Lit!Told(what, v)'
  PROVE  Ends(what, v)'
<1>1. CASE Settles(todo, what, v)
  BY <1>1, FirstAndRest DEF Ends
<1>2. CASE Quiet(todo, what, v) /\ Lit!Told(what, v)
  BY <1>2, FirstAndRest DEF Ends
<1> QED
  BY <1>1, <1>2 DEF Ends

\* The packets of an indication in the place of the first one.
LEMMA InsertedEnds ==
  ASSUME todo \in Seq(Messages), todo # <<>>, NEW s \in Seq(Messages), todo' = s \o Tail(todo),
         UNCHANGED <<cam, untold>>, NEW what, NEW v, Ends(what, v),
         ~Puts(Head(todo), what, v), Keeps(Head(todo), what, v) => Quiet(s, what, v)
  PROVE  Ends(what, v)'
<1>1. Tail(todo) \in Seq(Messages)
  BY FirstAndRest
<1>2. CASE Settles(todo, what, v)
  BY <1>1, <1>2, FirstAndRest, SettlesLater DEF Ends
<1>3. CASE Quiet(todo, what, v) /\ Lit!Told(what, v)
  BY <1>1, <1>3, FirstAndRest, QuietBoth DEF Ends, Lit!Told
<1> QED
  BY <1>2, <1>3 DEF Ends

\* A sequence of one or two.
LEMMA OneOrTwo ==
  ASSUME NEW P, NEW a \in P, NEW b \in P
  PROVE  /\ <<a>> \in Seq(P) /\ \A i \in 1 .. Len(<<a>>) : <<a>>[i] = a
         /\ <<a, b>> \in Seq(P) /\ \A i \in 1 .. Len(<<a, b>>) : <<a, b>>[i] = a \/ <<a, b>>[i] = b
OBVIOUS

Indicating(on) ==
  {<<"status", "run">>, <<"status", "pause">>, <<"red", FALSE>>, <<"red", TRUE>>,
   <<"green", FALSE>>, <<"green", on>>}

\* What shows the state leaves the green LED as it says, or dark.
LEMMA IndicatingIs ==
  ASSUME NEW x, NEW p \in Indicating(x)
  PROVE  /\ p[1] \in {"status", "red", "green"}
         /\ p[1] = "green" => p[2] = FALSE \/ p[2] = x
<1>1. CASE p = <<"status", "run">> \/ p = <<"status", "pause">>
  BY <1>1
<1>2. CASE p = <<"red", FALSE>>
  BY <1>2
<1>3. CASE p = <<"red", TRUE>>
  BY <1>3
<1>4. CASE p = <<"green", FALSE>>
  BY <1>4
<1>5. CASE p = <<"green", x>>
  BY <1>5
<1> QED
  BY <1>1, <1>2, <1>3, <1>4, <1>5 DEF Indicating

\* The indication of a family is of those.
LEMMA IndicationIs ==
  ASSUME family \in Lit!AllFamilies, NEW on \in BOOLEAN
  PROVE  /\ Lit!Indication(on) \in Seq(Ours)
         /\ \A i \in 1 .. Len(Lit!Indication(on)) : Lit!Indication(on)[i] \in Indicating(on)
<1>1. CASE family = "tir5"
  <2>1. PICK p \in Ours : p \in Indicating(on) /\ Lit!Indication(on) = <<p>>
    <3>1. \A w \in {"run", "pause"} : <<"status", w>> \in Ours /\ <<"status", w>> \in Indicating(on)
      BY <1>1 DEF Ours, Messages, Strange, Indicating
    <3> QED
      BY <1>1, <3>1 DEF Lit!Indication, Lit!Set
  <2> QED
    BY <2>1, OneOrTwo
<1>2. CASE family = "sn3"
  <2>1. PICK p \in Ours : p \in Indicating(on) /\ Lit!Indication(on) = <<p>>
    <3>1. <<"green", on>> \in Ours /\ <<"green", on>> \in Indicating(on)
      BY <1>2 DEF Ours, Messages, Strange, Indicating
    <3> QED
      BY <1>2, <3>1 DEF Lit!Indication, Lit!Set
  <2> QED
    BY <2>1, OneOrTwo
<1>3. CASE family \notin {"tir5", "sn3"}
  <2>1. PICK p \in Ours, q \in Ours :
          p \in Indicating(on) /\ q \in Indicating(on) /\ Lit!Indication(on) = <<p, q>>
    <3>1. \A x \in BOOLEAN : <<"red", x>> \in Ours /\ <<"red", x>> \in Indicating(on)
      BY <1>3 DEF Ours, Messages, Strange, Indicating
    <3>2. \A x \in {on, FALSE} : <<"green", x>> \in Ours /\ <<"green", x>> \in Indicating(on)
      BY <1>3 DEF Ours, Messages, Strange, Indicating
    <3>3. CASE on
      <4>1. Lit!Indication(on) = << <<"red", FALSE>>, <<"green", on>> >>
        BY <1>3, <3>3 DEF Lit!Indication, Lit!Set, Lit!On, Lit!Off
      <4> QED
        BY <3>1, <3>2, <4>1
    <3>4. CASE ~on
      <4>1. Lit!Indication(on) = << <<"green", FALSE>>, <<"red", TRUE>> >>
        BY <1>3, <3>4 DEF Lit!Indication, Lit!Set, Lit!On, Lit!Off
      <4> QED
        BY <3>1, <3>2, <4>1
    <3> QED
      BY <3>3, <3>4
  <2> QED
    BY <2>1, OneOrTwo
<1> QED
  BY <1>1, <1>2, <1>3

CamTypes ==
  /\ DOMAIN cam = Items
  /\ \A what \in {"video", "IR", "red", "green", "blue", "gray"} : cam[what] \in BOOLEAN
  /\ cam["light"] \in Int /\ cam["status"] \in {"off", "run", "pause"} /\ cam["threshold"] \in 0 .. 255
LitTypes ==
  /\ family \in Lit!AllFamilies /\ CamTypes /\ untold \subseteq Items /\ todo \in Seq(Ours)
  /\ prefs \in [Lit!Names -> Int] /\ DOMAIN file \subseteq Lit!Names
  /\ (\A n \in DOMAIN file : file[n] \in Int) /\ last_threshold \in Int /\ ir_on \in BOOLEAN
  /\ state \in {"closed", "running", "paused", "failed"}

\* What the camera does not have is off.
Spared ==
  IF family = "tir5" THEN cam["red"] = FALSE /\ cam["green"] = FALSE /\ cam["blue"] = FALSE
  ELSE cam["light"] = 0 /\ cam["status"] = "off"

FrameAlone == \A i \in 1 .. Len(todo) : todo[i][1] = "frame" => Len(todo) = 1

\* Messages that the family knows are messages.
LEMMA OursAreMessages == Ours \subseteq Messages /\ Seq(Ours) \subseteq Seq(Messages)
BY DEF Ours

\* The three kinds of packets: an indication, a frame, and one that is sent.
LEMMA PacketTaken ==
  ASSUME LitTypes, Lit!NextPacket
  PROVE  /\ UNCHANGED <<family, prefs, file, ir_on, state>>
         /\ todo # <<>> /\ todo \in Seq(Messages) /\ Head(todo) \in Ours /\ Tail(todo) \in Seq(Ours)
         /\ \/ /\ Head(todo)[1] = "indicate" /\ UNCHANGED <<cam, untold, last_threshold>>
               /\ todo' = Lit!If(prefs.status = 1, Lit!Indication(Head(todo)[2])) \o Tail(todo)
            \/ /\ Head(todo)[1] = "frame" /\ UNCHANGED <<cam, untold>>
               /\ last_threshold' = prefs.threshold
               /\ todo' = Lit!If(last_threshold # prefs.threshold,
                                 <<Lit!Threshold(Lit!Limited(prefs.threshold))>>) \o Tail(todo)
            \/ /\ Head(todo)[1] \notin {"indicate", "frame"}
               /\ todo' = Tail(todo) /\ UNCHANGED last_threshold
               /\ \E w, x :
                    /\ Lit!Send(w, x)
                    /\ \/ /\ w = Head(todo)[1] /\ x = Head(todo)[2]
                          /\ Head(todo)[1] \notin {"ir_led", "grayscale"}
                       \/ /\ Head(todo)[1] = "ir_led" /\ w = "light" /\ x \in Int
                          /\ Head(todo)[2] = FALSE => x = 0
                       \/ Head(todo)[1] = "grayscale" /\ w = "gray" /\ x \in BOOLEAN
<1>1. UNCHANGED <<family, prefs, file, ir_on, state>> /\ todo # <<>>
  BY DEF Lit!NextPacket
<1>2. todo \in Seq(Messages) /\ Head(todo) \in Ours /\ Tail(todo) \in Seq(Ours)
  BY <1>1, OursAreMessages, HeadTailProperties DEF LitTypes
<1>3. CASE Head(todo)[1] = "indicate"
  BY <1>1, <1>2, <1>3 DEF Lit!NextPacket
<1>4. CASE Head(todo)[1] = "ir_led"
  <2>1. prefs.ir_bright \in Int
    BY DEF LitTypes, Lit!Names, Lit!Defaults
  <2> QED
    BY <1>1, <1>2, <1>4, <2>1 DEF Lit!NextPacket
<1>5. CASE Head(todo)[1] = "grayscale"
  BY <1>1, <1>2, <1>5 DEF Lit!NextPacket
<1>6. CASE Head(todo)[1] = "frame"
  BY <1>1, <1>2, <1>6 DEF Lit!NextPacket
<1>7. CASE Head(todo)[1] \notin {"indicate", "ir_led", "grayscale", "frame"}
  BY <1>1, <1>2, <1>7 DEF Lit!NextPacket
<1> QED
  BY <1>3, <1>4, <1>5, <1>6, <1>7

\* The next message leaves what all of them come to.
LEMMA NextEnds ==
  ASSUME LitTypes, Lit!NextPacket, NEW what \in Wanted, NEW v, Ends(what, v),
         what = "light" => v = 0, what = "green" => v = FALSE,
         what = "threshold" => Head(todo)[1] # "frame"
  PROVE  Ends(what, v)'
<1>0. todo # <<>> /\ todo \in Seq(Messages) /\ Head(todo) \in Ours /\ Tail(todo) \in Seq(Ours)
  BY PacketTaken
<1>1. CASE Head(todo)[1] = "indicate"
  <2>1. Head(todo)[2] \in BOOLEAN
    BY <1>0, <1>1, MessagesAre DEF Ours
  <2>2. PICK s \in Seq(Ours) : /\ todo' = s \o Tail(todo) /\ UNCHANGED <<cam, untold>>
                               /\ \A i \in 1 .. Len(s) : s[i] \in Indicating(Head(todo)[2])
    <3>1. /\ todo' = Lit!If(prefs.status = 1, Lit!Indication(Head(todo)[2])) \o Tail(todo)
          /\ UNCHANGED <<cam, untold>>
      BY <1>1, PacketTaken
    <3>2. CASE prefs.status = 1
      BY <2>1, <3>1, <3>2, IndicationIs DEF Lit!If, LitTypes
    <3>3. CASE prefs.status # 1
      <4>1. /\ <<>> \in Seq(Ours) /\ todo' = <<>> \o Tail(todo)
            /\ \A i \in 1 .. Len(<<>>) : FALSE
        BY <3>1, <3>3, EmptySeq DEF Lit!If
      <4> QED
        BY <3>1, <4>1
    <3> QED
      BY <3>2, <3>3
  <2>3. Keeps(Head(todo), what, v) => Quiet(s, what, v)
    <3> SUFFICES ASSUME Keeps(Head(todo), what, v), NEW i \in 1 .. Len(s)
                 PROVE  Keeps(s[i], what, v)
      BY DEF Quiet
    <3>1. /\ s[i][1] \in {"status", "red", "green"}
          /\ s[i][1] = "green" => s[i][2] = FALSE \/ s[i][2] = Head(todo)[2]
      <4>1. s[i] \in Indicating(Head(todo)[2])
        BY <2>2
      <4> QED
        BY <4>1, IndicatingIs
    <3>2. what \in {"video", "IR", "light", "blue", "threshold"}
          \/ (what = "green" /\ Head(todo)[2] = FALSE)
      BY <1>1 DEF Keeps
    <3> QED
      BY <3>1, <3>2 DEF Keeps
  <2>4. ~Puts(Head(todo), what, v)
    BY <1>1 DEF Puts, Wanted, Items
  <2> QED
    BY <1>0, <2>2, <2>3, <2>4, InsertedEnds, OursAreMessages
<1>2. CASE Head(todo)[1] = "frame"
  <2>1. PICK s \in Seq(Messages) : /\ todo' = s \o Tail(todo) /\ UNCHANGED <<cam, untold>>
                                  /\ \A i \in 1 .. Len(s) : s[i][1] = "threshold"
    <3>1. <<"threshold", Lit!Limited(prefs.threshold)>> \in Messages
      <4>1. prefs.threshold \in Int
        BY DEF LitTypes, Lit!Names, Lit!Defaults
      <4>2. Lit!Limited(prefs.threshold) \in 0 .. 255
        BY <4>1 DEF Lit!Limited
      <4> QED
        BY <4>2, MessagesAre
    <3>2. /\ todo' = Lit!If(last_threshold # prefs.threshold,
                            << <<"threshold", Lit!Limited(prefs.threshold)>> >>) \o Tail(todo)
          /\ UNCHANGED <<cam, untold>>
      BY <1>2, PacketTaken DEF Lit!Threshold, Lit!Set
    <3>3. CASE last_threshold # prefs.threshold
      <4>1. PICK p \in Messages : p[1] = "threshold" /\ todo' = <<p>> \o Tail(todo)
        BY <3>1, <3>2, <3>3 DEF Lit!If
      <4>2. <<p>> \in Seq(Messages) /\ \A i \in 1 .. Len(<<p>>) : <<p>>[i] = p
        BY OneOrTwo
      <4> QED
        BY <3>2, <4>1, <4>2
    <3>4. CASE ~(last_threshold # prefs.threshold)
      <4>1. /\ <<>> \in Seq(Messages) /\ todo' = <<>> \o Tail(todo)
            /\ \A i \in 1 .. Len(<<>>) : FALSE
        BY <3>2, <3>4, EmptySeq DEF Lit!If
      <4> QED
        BY <3>2, <4>1
    <3> QED
      BY <3>3, <3>4
  <2>2. Quiet(s, what, v)
    BY <1>2, <2>1 DEF Keeps, Quiet, Wanted, Items
  <2>3. ~Puts(Head(todo), what, v)
    BY <1>2 DEF Puts, Wanted, Items
  <2> QED
    BY <1>0, <2>1, <2>2, <2>3, InsertedEnds, OursAreMessages
<1>3. CASE Head(todo)[1] \notin {"indicate", "frame"}
  <2>1. PICK w, x : /\ Lit!Send(w, x)
                    /\ \/ /\ w = Head(todo)[1] /\ x = Head(todo)[2]
                          /\ Head(todo)[1] \notin {"ir_led", "grayscale"}
                       \/ Head(todo)[1] = "ir_led" /\ w = "light" /\ (Head(todo)[2] = FALSE => x = 0)
                       \/ Head(todo)[1] = "grayscale" /\ w = "gray"
    BY <1>3, PacketTaken
  <2>2. Keeps(Head(todo), what, v) => (w = what => x = v)
    <3>1. CASE w = Head(todo)[1] /\ x = Head(todo)[2]
      BY <3>1 DEF Keeps
    <3>2. CASE Head(todo)[1] = "ir_led" /\ w = "light" /\ (Head(todo)[2] = FALSE => x = 0)
      BY <3>2 DEF Keeps
    <3>3. CASE w = "gray"
      BY <3>3 DEF Wanted
    <3>4. (w = Head(todo)[1] /\ x = Head(todo)[2])
          \/ (Head(todo)[1] = "ir_led" /\ w = "light" /\ (Head(todo)[2] = FALSE => x = 0))
          \/ w = "gray"
      BY <2>1
    <3> QED
      BY <3>1, <3>2, <3>3, <3>4
  <2>3. Puts(Head(todo), what, v) => w = what /\ x = v
    BY <2>1 DEF Puts, Wanted, Items
  <2>4. DOMAIN cam = Items
    BY DEF LitTypes, CamTypes
  <2>5. Keeps(Head(todo), what, v) /\ Lit!Told(what, v) => Lit!Told(what, v)'
    BY <2>1, <2>2, <2>4, Sent
  <2>6. Puts(Head(todo), what, v) => Lit!Told(what, v)'
    BY <2>1, <2>3, <2>4, Sent
  <2> QED
    BY <1>0, <1>3, <2>5, <2>6, PacketTaken, RestEnds
<1> QED
  BY <1>1, <1>2, <1>3

\* A frame is alone; what it makes the driver send is the threshold, when that has changed.
LEMMA FrameTaken ==
  ASSUME LitTypes, FrameAlone, Lit!NextPacket, Head(todo)[1] = "frame"
  PROVE  /\ UNCHANGED <<cam, untold>> /\ last_threshold' = prefs.threshold
         /\ todo = <<Head(todo)>>
         /\ <<"threshold", Lit!Limited(prefs.threshold)>> \in Ours
         /\ IF last_threshold # prefs.threshold
              THEN todo' = << <<"threshold", Lit!Limited(prefs.threshold)>> >>
              ELSE todo' = <<>>
<1>0. todo # <<>> /\ todo \in Seq(Messages) /\ Tail(todo) \in Seq(Ours)
  BY PacketTaken
<1>1. /\ UNCHANGED <<cam, untold>> /\ last_threshold' = prefs.threshold
      /\ todo' = Lit!If(last_threshold # prefs.threshold,
                        << <<"threshold", Lit!Limited(prefs.threshold)>> >>) \o Tail(todo)
  BY PacketTaken DEF Lit!Threshold, Lit!Set
<1>2. <<"threshold", Lit!Limited(prefs.threshold)>> \in Ours
  <2>1. Lit!Limited(prefs.threshold) \in 0 .. 255
    <3>1. prefs.threshold \in Int
      BY DEF LitTypes, Lit!Names, Lit!Defaults
    <3> QED
      BY <3>1 DEF Lit!Limited
  <2> QED
    BY <2>1, MessagesAre DEF Ours, Strange
<1>3. Tail(todo) = <<>> /\ todo = <<Head(todo)>>
  <2>1. Len(todo) \in Nat \ {0} /\ Head(todo) = todo[1] /\ Len(Tail(todo)) = Len(todo) - 1
    BY <1>0, HeadTailProperties, EmptySeq
  <2>2. Len(todo) = 1 /\ Len(Tail(todo)) = 0
    BY <2>1 DEF FrameAlone
  <2>3. Tail(todo) = <<>>
    BY <1>0, <2>2, EmptySeq
  <2> QED
    BY <1>0, <2>1, <2>2, <2>3
<1>4. CASE last_threshold # prefs.threshold
  <2>1. PICK p \in Ours : /\ p = <<"threshold", Lit!Limited(prefs.threshold)>>
                          /\ todo' = <<p>> \o <<>>
    BY <1>1, <1>2, <1>3, <1>4 DEF Lit!If
  <2>2. <<p>> \o <<>> = <<p>>
    BY OneOrTwo, ConcatEmptySeq
  <2> QED
    BY <1>1, <1>2, <1>3, <1>4, <2>1, <2>2
<1>5. CASE ~(last_threshold # prefs.threshold)
  <2>1. todo' = <<>>
    BY <1>1, <1>3, <1>5, ConcatEmptySeq, EmptySeq DEF Lit!If
  <2> QED
    BY <1>1, <1>2, <1>3, <1>5, <2>1
<1> QED
  BY <1>4, <1>5

\* What is told only goes to what the camera has.
LEMMA NextTypes ==
  ASSUME LitTypes, Spared, FrameAlone, Lit!NextPacket
  PROVE  LitTypes' /\ Spared' /\ FrameAlone'
<1>0. /\ todo # <<>> /\ todo \in Seq(Messages) /\ Head(todo) \in Ours /\ Tail(todo) \in Seq(Ours)
      /\ UNCHANGED <<family, prefs, file, ir_on, state>>
  BY PacketTaken
<1>1. Ours' = Ours
  BY <1>0 DEF Ours, Strange
<1>2. \A i \in 1 .. Len(Tail(todo)) : Tail(todo)[i][1] # "frame"
  <2> SUFFICES ASSUME NEW i \in 1 .. Len(Tail(todo)), Tail(todo)[i][1] = "frame"
               PROVE  FALSE
    OBVIOUS
  <2>1. /\ Len(todo) \in Nat \ {0} /\ Len(Tail(todo)) = Len(todo) - 1 /\ Tail(todo)[i] = todo[i + 1]
    BY <1>0, HeadTailProperties, EmptySeq
  <2>2. i + 1 \in 1 .. Len(todo) /\ Len(todo) # 1
    BY <2>1
  <2> QED
    BY <2>1, <2>2 DEF FrameAlone
<1>3. CASE Head(todo)[1] = "indicate"
  <2>1. Head(todo)[2] \in BOOLEAN
    BY <1>0, <1>3, MessagesAre DEF Ours
  <2>2. /\ todo' = Lit!If(prefs.status = 1, Lit!Indication(Head(todo)[2])) \o Tail(todo)
        /\ UNCHANGED <<cam, untold, last_threshold>>
    BY <1>3, PacketTaken
  <2>3. PICK s \in Seq(Ours) : /\ todo' = s \o Tail(todo)
                               /\ \A i \in 1 .. Len(s) : s[i][1] # "frame"
    <3>1. CASE prefs.status = 1
      <4>1. \A i \in 1 .. Len(Lit!Indication(Head(todo)[2])) :
              Lit!Indication(Head(todo)[2])[i] \in Indicating(Head(todo)[2])
        BY <2>1, IndicationIs DEF LitTypes
      <4>2. \A p \in Indicating(Head(todo)[2]) : p[1] # "frame"
        BY IndicatingIs
      <4> QED
        BY <2>1, <2>2, <3>1, <4>1, <4>2, IndicationIs DEF Lit!If, LitTypes
    <3>2. CASE prefs.status # 1
      <4>1. /\ <<>> \in Seq(Ours) /\ todo' = <<>> \o Tail(todo)
            /\ \A i \in 1 .. Len(<<>>) : FALSE
        BY <2>2, <3>2, EmptySeq DEF Lit!If
      <4> QED
        BY <4>1
    <3> QED
      BY <3>1, <3>2
  <2>4. todo' \in Seq(Ours)
    BY <1>0, <2>3, ConcatProperties
  <2>5. \A i \in 1 .. Len(todo') : todo'[i][1] # "frame"
    <3> SUFFICES ASSUME NEW i \in 1 .. Len(todo')
                 PROVE  todo'[i][1] # "frame"
      OBVIOUS
    <3>1. /\ todo'[i] = IF i <= Len(s) THEN s[i] ELSE Tail(todo)[i - Len(s)]
          /\ Len(todo') = Len(s) + Len(Tail(todo)) /\ Len(s) \in Nat /\ Len(Tail(todo)) \in Nat
      BY <1>0, <2>3, Concat, OursAreMessages
    <3>2. CASE i <= Len(s)
      BY <2>3, <3>1, <3>2
    <3>3. CASE ~(i <= Len(s))
      <4>1. i - Len(s) \in 1 .. Len(Tail(todo))
        BY <3>1, <3>3
      <4> QED
        BY <1>2, <3>1, <3>3, <4>1
    <3> QED
      BY <3>2, <3>3
  <2> QED
    BY <1>0, <1>1, <2>2, <2>4, <2>5 DEF LitTypes, CamTypes, Spared, FrameAlone
<1>4. CASE Head(todo)[1] = "frame"
  <2>1. PICK p \in Ours : /\ p = <<"threshold", Lit!Limited(prefs.threshold)>>
                          /\ UNCHANGED <<cam, untold>> /\ last_threshold' = prefs.threshold
                          /\ todo' = <<>> \/ todo' = <<p>>
    BY <1>4, FrameTaken
  <2>2. prefs.threshold \in Int
    BY DEF LitTypes, Lit!Names, Lit!Defaults
  <2>3. todo' \in Seq(Ours) /\ \A i \in 1 .. Len(todo') : todo'[i][1] # "frame"
    <3>1. p[1] = "threshold"
      BY <2>1
    <3>2. CASE todo' = <<>>
      BY <3>2, EmptySeq
    <3>3. CASE todo' = <<p>>
      BY <3>1, <3>3, OneOrTwo
    <3> QED
      BY <2>1, <3>2, <3>3
  <2> QED
    BY <1>0, <1>1, <2>1, <2>2, <2>3 DEF LitTypes, CamTypes, Spared, FrameAlone
<1>5. CASE Head(todo)[1] \notin {"indicate", "frame"}
  <2>1. /\ todo' = Tail(todo) /\ UNCHANGED last_threshold
        /\ \E w, x :
             /\ Lit!Send(w, x)
             /\ \/ /\ w = Head(todo)[1] /\ x = Head(todo)[2]
                   /\ Head(todo)[1] \notin {"ir_led", "grayscale"}
                \/ Head(todo)[1] = "ir_led" /\ w = "light" /\ x \in Int
                \/ w = "gray" /\ x \in BOOLEAN
    BY <1>5, PacketTaken
  <2>2. PICK w, x : /\ Lit!Send(w, x)
                    /\ \/ /\ w = Head(todo)[1] /\ x = Head(todo)[2]
                          /\ Head(todo)[1] \notin {"ir_led", "grayscale"}
                       \/ Head(todo)[1] = "ir_led" /\ w = "light" /\ x \in Int
                       \/ w = "gray" /\ x \in BOOLEAN
    BY <2>1
  <2>3. w \notin Strange
    BY <1>0, <2>2 DEF Ours, Strange
  <2>6. \/ w \in {"video", "IR", "red", "green", "blue", "gray"} /\ x \in BOOLEAN
        \/ w = "light" /\ x \in Int
        \/ w = "status" /\ x \in {"run", "pause", "off"}
        \/ w = "threshold" /\ x \in 0 .. 255
    <3>1. CASE w = Head(todo)[1] /\ x = Head(todo)[2] /\ w \notin {"ir_led", "grayscale"}
      <4>1. Head(todo) \in Messages /\ Head(todo)[1] \notin {"indicate", "frame"}
        BY <1>0, <1>5 DEF Ours
      <4>2. \/ Head(todo)[1] \in {"video", "IR", "red", "green", "blue"} /\ Head(todo)[2] \in BOOLEAN
            \/ Head(todo)[1] = "light" /\ Head(todo)[2] \in Int
            \/ Head(todo)[1] = "threshold" /\ Head(todo)[2] \in 0 .. 255
            \/ Head(todo)[1] = "status" /\ Head(todo)[2] \in {"run", "pause", "off"}
        <5> DEFINE h == Head(todo)
        <5>1. h \in Messages /\ h[1] \notin {"indicate", "frame", "ir_led", "grayscale"}
          BY <3>1, <4>1
        <5> HIDE DEF h
        <5>2. h[1] \in {"video", "IR", "red", "green", "blue", "light", "threshold", "status"}
          BY <5>1, MessagesAre DEF Items
        <5>3. \/ h[1] \in {"video", "IR", "red", "green", "blue"} /\ h[2] \in BOOLEAN
              \/ h[1] = "light" /\ h[2] \in Int
              \/ h[1] = "threshold" /\ h[2] \in 0 .. 255
              \/ h[1] = "status" /\ h[2] \in {"run", "pause", "off"}
          BY <5>1, <5>2, MessagesAre
        <5> QED
          BY <5>3 DEF h
      <4> QED
        BY <3>1, <4>2
    <3>2. \/ w = Head(todo)[1] /\ x = Head(todo)[2] /\ w \notin {"ir_led", "grayscale"}
          \/ w = "light" /\ x \in Int
          \/ w = "gray" /\ x \in BOOLEAN
      BY <2>2
    <3> QED
      BY <3>1, <3>2
  <2>4. /\ DOMAIN cam' = Items /\ untold' \subseteq Items
        /\ \A y \in Items : y # w => cam'[y] = cam[y]
        /\ cam'[w] = x \/ UNCHANGED cam
    <3>1. w \in Items /\ DOMAIN cam = Items /\ untold \subseteq Items
      BY <2>6 DEF LitTypes, CamTypes, Items
    <3>2. Lit!Send(w, x)
      BY <2>2
    <3> QED
      BY <3>1, <3>2 DEF Lit!Send
  <2>7. CamTypes'
    <3>1. CamTypes
      BY DEF LitTypes
    <3>2. CASE UNCHANGED cam
      BY <3>1, <3>2 DEF CamTypes
    <3>3. CASE w \in {"video", "IR", "red", "green", "blue", "gray"} /\ x \in BOOLEAN /\ cam'[w] = x
      BY <2>4, <3>1, <3>3 DEF CamTypes, Items
    <3>4. CASE w = "light" /\ x \in Int /\ cam'[w] = x
      BY <2>4, <3>1, <3>4 DEF CamTypes, Items
    <3>5. CASE w = "status" /\ x \in {"run", "pause", "off"} /\ cam'[w] = x
      BY <2>4, <3>1, <3>5 DEF CamTypes, Items
    <3>6. CASE w = "threshold" /\ x \in 0 .. 255 /\ cam'[w] = x
      BY <2>4, <3>1, <3>6 DEF CamTypes, Items
    <3> QED
      BY <2>4, <2>6, <3>2, <3>3, <3>4, <3>5, <3>6
  <2>5. Spared'
    BY <1>0, <2>3, <2>4 DEF Spared, Strange, Items
  <2> QED
    BY <1>0, <1>1, <1>2, <2>1, <2>4, <2>5, <2>7 DEF LitTypes, FrameAlone
<1> QED
  BY <1>3, <1>4, <1>5

------------------------------------------------------------------------------
(* The packets of the operations *)

Dark == {"video", "IR", "red", "green", "blue"}
HasDark == IF family = "tir5" THEN {"video", "IR"} ELSE Dark

\* A packet that turns something off.
IsOff(p) ==
  \/ p[1] \in Dark \cup {"ir_led"} /\ p[2] = FALSE
  \/ p[1] = "status" /\ p[2] = "off"
Quieting == {p \in Ours : IsOff(p)}
Has(s, p) == \E i \in 1 .. Len(s) : s[i] = p

\* A message that darkens lights nothing.
LEMMA OffKeeps ==
  ASSUME NEW p, IsOff(p)
  PROVE  /\ \A led \in Dark : Keeps(p, led, FALSE)
         /\ Keeps(p, "light", 0) /\ Keeps(p, "status", "off")
         /\ \A v : Keeps(p, "threshold", v)
<1>1. CASE p[1] \in Dark \cup {"ir_led"} /\ p[2] = FALSE
  BY <1>1 DEF Keeps, Dark
<1>2. CASE p[1] = "status" /\ p[2] = "off"
  BY <1>2 DEF Keeps, Dark
<1> QED
  BY <1>1, <1>2 DEF IsOff

\* Messages that turn things off settle what they turn off.
LEMMA OffSettles ==
  ASSUME NEW s \in Seq(Quieting)
  PROVE  /\ s \in Seq(Ours)
         /\ \A led \in Dark : /\ Quiet(s, led, FALSE)
                              /\ Has(s, Lit!Off(led)) => Settles(s, led, FALSE)
         /\ Has(s, Lit!Light(FALSE)) => Settles(s, "light", 0)
         /\ Has(s, Lit!Set("status", "off")) => Settles(s, "status", "off")
         /\ Quiet(s, "light", 0) /\ Quiet(s, "status", "off")
         /\ \A v : Quiet(s, "threshold", v)
<1>1. s \in Seq(Ours) /\ Len(s) \in Nat /\ \A i \in 1 .. Len(s) : IsOff(s[i])
  <2>1. Seq(Quieting) \subseteq Seq(Ours)
    BY DEF Quieting
  <2>2. \A i \in 1 .. Len(s) : s[i] \in Quieting
    BY ElementOfSeq
  <2> QED
    BY <2>1, <2>2, LenProperties DEF Quieting
<1>2. ASSUME NEW what, NEW v, \A i \in 1 .. Len(s) : Keeps(s[i], what, v), NEW p, Has(s, p),
             Puts(p, what, v)
      PROVE  Settles(s, what, v)
  <2>1. PICK i \in 1 .. Len(s) : s[i] = p
    BY <1>2 DEF Has
  <2> QED
    BY <1>1, <1>2, <2>1 DEF Settles
<1>3. \A led \in Dark : Quiet(s, led, FALSE)
  BY <1>1, OffKeeps DEF Quiet
<1>4. Quiet(s, "light", 0) /\ Quiet(s, "status", "off") /\ \A v : Quiet(s, "threshold", v)
  BY <1>1, OffKeeps DEF Quiet
<1>5. \A led \in Dark : Puts(Lit!Off(led), led, FALSE)
  BY DEF Puts, Lit!Off, Lit!Set
<1>6. Puts(Lit!Light(FALSE), "light", 0)
  BY DEF Puts, Lit!Light
<1>7. Puts(Lit!Set("status", "off"), "status", "off")
  BY DEF Puts, Lit!Set
<1>8. \A led \in Dark : Has(s, Lit!Off(led)) => Settles(s, led, FALSE)
  BY <1>2, <1>3, <1>5 DEF Quiet
<1>9. Has(s, Lit!Light(FALSE)) => Settles(s, "light", 0)
  BY <1>2, <1>4, <1>6 DEF Quiet
<1>10. Has(s, Lit!Set("status", "off")) => Settles(s, "status", "off")
  BY <1>2, <1>4, <1>7 DEF Quiet
<1> QED
  BY <1>1, <1>3, <1>4, <1>8, <1>9, <1>10

\* The messages of a stop darken.
LEMMA OffPackets ==
  /\ \A led \in HasDark : Lit!Off(led) \in Quieting
  /\ Lit!Video(FALSE) = Lit!Off("video") /\ Lit!Camera_stop = Lit!Off("video")
  /\ family = "tir5" => Lit!Light(FALSE) \in Quieting /\ Lit!Set("status", "off") \in Quieting
<1>1. \A led \in HasDark : Lit!Off(led) \in Quieting
  BY DEF HasDark, Dark, Lit!Off, Lit!Set, Quieting, IsOff, Ours, Messages, Strange
<1>2. Lit!Video(FALSE) = Lit!Off("video") /\ Lit!Camera_stop = Lit!Off("video")
  BY DEF Lit!Video, Lit!Camera_stop, Lit!Off, Lit!Set
<1>3. ASSUME family = "tir5"
      PROVE  Lit!Light(FALSE) \in Quieting
  BY <1>3 DEF Lit!Light, Quieting, IsOff, Ours, Messages, Strange
<1>4. ASSUME family = "tir5"
      PROVE  Lit!Set("status", "off") \in Quieting
  BY <1>4 DEF Lit!Set, Quieting, IsOff, Ours, Messages, Strange
<1> QED
  BY <1>1, <1>2, <1>3, <1>4

\* What a sequence that is written out consists of.
LEMMA SixOrSeven ==
  ASSUME NEW P, NEW a \in P, NEW b \in P, NEW c \in P, NEW d \in P, NEW e \in P, NEW f \in P, NEW g \in P
  PROVE  /\ <<a, b, c, d, e, f>> \in Seq(P)
         /\ <<a, b, c, d, e, f, g>> \in Seq(P)
OBVIOUS

\* A stop darkens all LEDs of the family.
LEMMA StopIs ==
  ASSUME family \in Lit!AllFamilies
  PROVE  /\ Lit!StopPackets \in Seq(Quieting)
         /\ \A led \in HasDark : Has(Lit!StopPackets, Lit!Off(led))
         /\ family = "tir5" =>
              Has(Lit!StopPackets, Lit!Light(FALSE)) /\ Has(Lit!StopPackets, Lit!Set("status", "off"))
<1>1. CASE family = "tir2"
  <2> DEFINE s == << Lit!Off("red"), Lit!Off("green"), Lit!Off("blue"), Lit!Off("IR"),
                 Lit!Off("video"), Lit!Off("IR") >>
  <2>1. Lit!StopPackets = s
    BY <1>1, OffPackets DEF Lit!StopPackets
  <2>2. Lit!Off("red") \in Quieting /\ Lit!Off("green") \in Quieting /\ Lit!Off("blue") \in Quieting
        /\ Lit!Off("IR") \in Quieting /\ Lit!Off("video") \in Quieting
    BY <1>1, OffPackets DEF HasDark, Dark
  <2>3. s \in Seq(Quieting)
    BY <2>2, SixOrSeven
  <2>4. Len(s) = 6 /\ s[1] = Lit!Off("red") /\ s[2] = Lit!Off("green")
        /\ s[3] = Lit!Off("blue") /\ s[4] = Lit!Off("IR") /\ s[5] = Lit!Off("video")
        /\ s[6] = Lit!Off("IR")
    OBVIOUS
  <2> HIDE DEF s
  <2>5. \A led \in Dark : Has(s, Lit!Off(led))
    BY <2>4 DEF Has, Dark
  <2> QED
    BY <1>1, <2>1, <2>3, <2>5 DEF HasDark
<1>2. CASE family = "tir3"
  <2> DEFINE s == << Lit!Off("video"), Lit!Off("video"), Lit!Off("IR"), Lit!Off("video"),
                 Lit!Off("red"), Lit!Off("green"), Lit!Off("blue") >>
  <2>1. Lit!StopPackets = s
    BY <1>2, OffPackets DEF Lit!StopPackets
  <2>2. Lit!Off("video") \in Quieting /\ Lit!Off("IR") \in Quieting /\ Lit!Off("red") \in Quieting
        /\ Lit!Off("green") \in Quieting /\ Lit!Off("blue") \in Quieting
    BY <1>2, OffPackets DEF HasDark, Dark
  <2>3. s \in Seq(Quieting)
    BY <2>2, SixOrSeven
  <2>4. Len(s) = 7 /\ s[1] = Lit!Off("video") /\ s[2] = Lit!Off("video")
        /\ s[3] = Lit!Off("IR") /\ s[4] = Lit!Off("video") /\ s[5] = Lit!Off("red")
        /\ s[6] = Lit!Off("green") /\ s[7] = Lit!Off("blue")
    OBVIOUS
  <2> HIDE DEF s
  <2>5. \A led \in Dark : Has(s, Lit!Off(led))
    BY <2>4 DEF Has, Dark
  <2> QED
    BY <1>2, <2>1, <2>3, <2>5 DEF HasDark
<1>3. CASE family = "tir5"
  <2> DEFINE s == << Lit!Set("status", "off"), Lit!Light(FALSE), Lit!Off("video"), Lit!Off("video"),
                 Lit!Set("status", "off"), Lit!Light(FALSE), Lit!Off("IR") >>
  <2>1. Lit!StopPackets = s
    BY <1>3, OffPackets DEF Lit!StopPackets
  <2>2. Lit!Set("status", "off") \in Quieting /\ Lit!Light(FALSE) \in Quieting /\ Lit!Off("video") \in Quieting
        /\ Lit!Off("IR") \in Quieting
    BY <1>3, OffPackets DEF HasDark, Dark
  <2>3. s \in Seq(Quieting)
    BY <2>2, SixOrSeven
  <2>4. Len(s) = 7 /\ s[1] = Lit!Set("status", "off") /\ s[2] = Lit!Light(FALSE)
        /\ s[3] = Lit!Off("video") /\ s[4] = Lit!Off("video") /\ s[5] = Lit!Set("status", "off")
        /\ s[6] = Lit!Light(FALSE) /\ s[7] = Lit!Off("IR")
    OBVIOUS
  <2> HIDE DEF s
  <2>5. \A led \in {"video", "IR"} : Has(s, Lit!Off(led))
    BY <2>4 DEF Has
  <2>6. Has(s, Lit!Light(FALSE))
    <3>1. 2 \in 1 .. Len(s)
      BY <2>4
    <3> QED
      BY <2>4, <3>1, Zenon DEF Has
  <2>7. Has(s, Lit!Set("status", "off"))
    BY <2>4 DEF Has
  <2> QED
    BY <1>3, <2>1, <2>3, <2>5, <2>6, <2>7 DEF HasDark
<1>4. CASE family = "sn3"
  <2> DEFINE s == << Lit!Off("video"), Lit!Off("green"), Lit!Off("IR"), Lit!Off("red"),
                 Lit!Off("blue"), Lit!Off("video") >>
  <2>1. Lit!StopPackets = s
    BY <1>4, OffPackets DEF Lit!StopPackets
  <2>2. Lit!Off("video") \in Quieting /\ Lit!Off("green") \in Quieting /\ Lit!Off("IR") \in Quieting
        /\ Lit!Off("red") \in Quieting /\ Lit!Off("blue") \in Quieting
    BY <1>4, OffPackets DEF HasDark, Dark
  <2>3. s \in Seq(Quieting)
    BY <2>2, SixOrSeven
  <2>4. Len(s) = 6 /\ s[1] = Lit!Off("video") /\ s[2] = Lit!Off("green")
        /\ s[3] = Lit!Off("IR") /\ s[4] = Lit!Off("red") /\ s[5] = Lit!Off("blue")
        /\ s[6] = Lit!Off("video")
    OBVIOUS
  <2> HIDE DEF s
  <2>5. \A led \in Dark : Has(s, Lit!Off(led))
    BY <2>4 DEF Has, Dark
  <2> QED
    BY <1>4, <2>1, <2>3, <2>5 DEF HasDark
<1>5. CASE family \in {"tir4", "sn4"}
  <2> DEFINE s == << Lit!Off("video"), Lit!Off("IR"), Lit!Off("red"), Lit!Off("green"),
                 Lit!Off("blue"), Lit!Off("video") >>
  <2>1. Lit!StopPackets = s
    BY <1>5, OffPackets DEF Lit!StopPackets
  <2>2. Lit!Off("video") \in Quieting /\ Lit!Off("IR") \in Quieting /\ Lit!Off("red") \in Quieting
        /\ Lit!Off("green") \in Quieting /\ Lit!Off("blue") \in Quieting
    BY <1>5, OffPackets DEF HasDark, Dark
  <2>3. s \in Seq(Quieting)
    BY <2>2, SixOrSeven
  <2>4. Len(s) = 6 /\ s[1] = Lit!Off("video") /\ s[2] = Lit!Off("IR")
        /\ s[3] = Lit!Off("red") /\ s[4] = Lit!Off("green") /\ s[5] = Lit!Off("blue")
        /\ s[6] = Lit!Off("video")
    OBVIOUS
  <2> HIDE DEF s
  <2>5. \A led \in Dark : Has(s, Lit!Off(led))
    BY <2>4 DEF Has, Dark
  <2> QED
    BY <1>5, <2>1, <2>3, <2>5 DEF HasDark
<1> QED
  BY <1>1, <1>2, <1>3, <1>4, <1>5 DEF Lit!AllFamilies

\* All packets but a frame; what is sent in several parts.
Plain == {p \in Ours : p[1] # "frame"}

\* Messages without a frame are messages.
LEMMA PlainAreMessages == Seq(Plain) \subseteq Seq(Messages) /\ Seq(Plain) \subseteq Seq(Ours)
BY OursAreMessages DEF Plain

\* Two such sequences joined.
LEMMA LitJoined ==
  ASSUME NEW s \in Seq(Plain), NEW t \in Seq(Plain), NEW what, NEW v
  PROVE  /\ s \o t \in Seq(Plain)
         /\ Quiet(s, what, v) /\ Quiet(t, what, v) => Quiet(s \o t, what, v)
         /\ Settles(t, what, v) => Settles(s \o t, what, v)
         /\ Settles(s, what, v) /\ Quiet(t, what, v) => Settles(s \o t, what, v)
<1>1. s \in Seq(Messages) /\ t \in Seq(Messages)
  BY PlainAreMessages
<1>2. s \o t \in Seq(Plain)
  BY ConcatProperties
<1> QED
  BY <1>1, <1>2, QuietBoth, SettlesFirst, SettlesLater

\* One message alone.
LEMMA OneIs ==
  ASSUME NEW p, NEW what, NEW v
  PROVE  /\ Keeps(p, what, v) => Quiet(<<p>>, what, v)
         /\ Puts(p, what, v) => Settles(<<p>>, what, v)
<1>1. Len(<<p>>) = 1 /\ <<p>>[1] = p
  OBVIOUS
<1>2. 1 .. Len(<<p>>) = {1} /\ 1 + 1 .. Len(<<p>>) = {}
  BY <1>1
<1> QED
  BY <1>1, <1>2 DEF Quiet, Settles

\* No message.
LEMMA NoneIs == <<>> \in Seq(Plain) /\ \A what, v : Quiet(<<>>, what, v)
<1>1. 1 .. Len(<<>>) = {}
  OBVIOUS
<1> QED
  BY <1>1, EmptySeq DEF Quiet

------------------------------------------------------------------------------
(* Stopping and closing *)

\* Messages after which the camera is dark.
Silent(s) ==
  /\ s \in Seq(Plain)
  /\ \A led \in HasDark : Settles(s, led, FALSE)
  /\ family = "tir5" => Settles(s, "light", 0) /\ Settles(s, "status", "off")

\* Messages that darken have no frame.
LEMMA QuietingArePlain == Seq(Quieting) \subseteq Seq(Plain)
<1>1. ASSUME NEW p \in Quieting
      PROVE  p \in Plain
  BY DEF Quieting, Plain, IsOff, Dark
<1> QED
  BY <1>1

\* A stop leaves the camera dark.
LEMMA StopIsSilent ==
  ASSUME family \in Lit!AllFamilies
  PROVE  Silent(Lit!StopPackets)
BY StopIs, OffSettles, QuietingArePlain DEF Silent, HasDark, Dark

\* So does what is sent before the firmware.
LEMMA SilenceIsSilent ==
  ASSUME family \in Lit!AllFamilies
  PROVE  Silent(Lit!Silence)
<1>1. CASE family # "tir2"
  BY <1>1, StopIsSilent DEF Lit!Silence
<1>2. CASE family = "tir2"
  <2> DEFINE s == << Lit!Off("IR"), Lit!Off("red"), Lit!Off("green"), Lit!Off("blue"),
                     Lit!Off("video") >>
  <2>1. Lit!Silence = s
    BY <1>2, OffPackets DEF Lit!Silence
  <2>2. /\ Lit!Off("red") \in Quieting /\ Lit!Off("green") \in Quieting /\ Lit!Off("blue") \in Quieting
        /\ Lit!Off("IR") \in Quieting /\ Lit!Off("video") \in Quieting
    BY <1>2, OffPackets DEF HasDark, Dark
  <2>3. s \in Seq(Quieting)
    BY <2>2
  <2>4. /\ Len(s) = 5 /\ s[1] = Lit!Off("IR") /\ s[2] = Lit!Off("red") /\ s[3] = Lit!Off("green")
        /\ s[4] = Lit!Off("blue") /\ s[5] = Lit!Off("video")
    OBVIOUS
  <2> HIDE DEF s
  <2>5. \A led \in Dark : Has(s, Lit!Off(led))
    BY <2>4 DEF Has, Dark
  <2> QED
    BY <1>2, <2>1, <2>3, <2>5, OffSettles, QuietingArePlain DEF Silent, HasDark
<1> QED
  BY <1>1, <1>2

\* And so does a close.
LEMMA CloseIsSilent ==
  ASSUME family \in Lit!AllFamilies
  PROVE  Silent(Lit!ClosePackets)
<1>1. Silent(Lit!StopPackets) /\ Lit!StopPackets \in Seq(Plain)
  BY StopIsSilent DEF Silent
<1>2. CASE family # "tir5"
  <2>1. PICK s \in Seq(Quieting) : Lit!ClosePackets = Lit!StopPackets \o s
    <3>1. \A led \in Dark : Lit!Off(led) \in Quieting
      BY <1>2, OffPackets DEF HasDark
    <3>2. /\ Lit!Off("red") \in Quieting /\ Lit!Off("green") \in Quieting
          /\ Lit!Off("blue") \in Quieting /\ Lit!Off("IR") \in Quieting
      BY <3>1 DEF Dark
    <3>3. /\ << Lit!Off("red"), Lit!Off("green"), Lit!Off("blue"), Lit!Off("IR") >> \in Seq(Quieting)
          /\ << Lit!Off("red"), Lit!Off("green"), Lit!Off("blue") >> \in Seq(Quieting)
          /\ <<>> \in Seq(Quieting)
      BY <3>2
    <3> QED
      BY <1>2, <3>3 DEF Lit!ClosePackets
  <2>2. s \in Seq(Plain)
    BY QuietingArePlain
  <2>3. ASSUME NEW led \in Dark
        PROVE  Settles(Lit!StopPackets \o s, led, FALSE)
    BY <1>1, <1>2, <2>2, <2>3, LitJoined, OffSettles DEF Silent, HasDark
  <2> QED
    BY <1>1, <1>2, <2>1, <2>2, <2>3, LitJoined DEF Silent, HasDark
<1>3. CASE family = "tir5"
  <2> DEFINE s == << <<"threshold", 150>>, <<"ir_led", TRUE>>, <<"status", "off">>, <<"IR", FALSE>>,
                     <<"light", 0>> >>
  <2>1. Lit!ClosePackets = Lit!StopPackets \o s
    BY <1>3 DEF Lit!ClosePackets, Lit!Threshold, Lit!Light, Lit!Set, Lit!Off
  <2>2. /\ <<"threshold", 150>> \in Plain /\ <<"ir_led", TRUE>> \in Plain
        /\ <<"status", "off">> \in Plain /\ <<"IR", FALSE>> \in Plain /\ <<"light", 0>> \in Plain
    <3>1. <<"threshold", 150>> \in Plain /\ <<"light", 0>> \in Plain
      BY <1>3, MessagesAre DEF Plain, Ours, Strange
    <3>2. <<"ir_led", TRUE>> \in Plain /\ <<"IR", FALSE>> \in Plain
      BY <1>3 DEF Plain, Ours, Messages, Strange
    <3>3. <<"status", "off">> \in Plain
      BY <1>3 DEF Plain, Ours, Messages, Strange
    <3> QED
      BY <3>1, <3>2, <3>3
  <2>3. s \in Seq(Plain)
    BY <2>2
  <2>4. Len(s) = 5 /\ s[1] = <<"threshold", 150>> /\ s[2] = <<"ir_led", TRUE>>
    OBVIOUS
  <2>5. Len(s) = 5 /\ s[1][1] = "threshold" /\ s[2][1] = "ir_led" /\ s[3] = <<"status", "off">>
    BY <2>4
  <2>6. s[4] = <<"IR", FALSE>> /\ s[5] = <<"light", 0>>
    OBVIOUS
  <2> HIDE DEF s
  <2>7. Quiet(s, "video", FALSE)
    BY <2>5, <2>6 DEF Quiet, Keeps
  <2>8. Settles(s, "IR", FALSE)
    <3>1. 4 \in 1 .. Len(s) /\ 4 + 1 .. Len(s) = {5}
      BY <2>5
    <3>2. Puts(s[4], "IR", FALSE)
      BY <2>6 DEF Puts
    <3>3. Keeps(s[5], "IR", FALSE)
      BY <2>6 DEF Keeps
    <3> QED
      BY <3>1, <3>2, <3>3 DEF Settles
  <2>9. Settles(s, "light", 0)
    <3>1. 5 \in 1 .. Len(s) /\ 5 + 1 .. Len(s) = {}
      BY <2>5
    <3> QED
      BY <2>6, <3>1 DEF Settles, Puts
  <2>10. Settles(s, "status", "off")
    <3>1. 3 \in 1 .. Len(s) /\ 3 + 1 .. Len(s) = {4, 5}
      BY <2>5
    <3> QED
      BY <2>5, <2>6, <3>1 DEF Settles, Keeps, Puts
  <2> QED
    BY <1>1, <1>3, <2>1, <2>3, <2>7, <2>8, <2>9, <2>10, LitJoined DEF Silent, HasDark
<1> QED
  BY <1>2, <1>3

\* A pause darkens all but the red LED.
LEMMA PauseIs ==
  ASSUME family \in Lit!AllFamilies
  PROVE  LET s == Lit!StopPackets \o <<Lit!Status(FALSE)>>
         IN /\ s \in Seq(Plain)
            /\ \A led \in HasDark \ {"red"} : Settles(s, led, FALSE)
            /\ family = "tir5" => Settles(s, "light", 0)
            /\ \A v : Quiet(s, "threshold", v)
<1>1. Silent(Lit!StopPackets) /\ Lit!StopPackets \in Seq(Plain)
  BY StopIsSilent DEF Silent
<1>2. \A v : Quiet(Lit!StopPackets, "threshold", v)
  BY StopIs, OffSettles
<1>3. PICK p \in Plain : p = Lit!Status(FALSE)
  BY DEF Lit!Status, Plain, Ours, Messages, Strange
<1>4. <<p>> \in Seq(Plain)
  OBVIOUS
<1>5. ASSUME NEW led \in Dark \ {"red"}
      PROVE  Quiet(<<p>>, led, FALSE)
  BY <1>3, OneIs DEF Lit!Status, Keeps, Dark
<1>6. Quiet(<<p>>, "light", 0) /\ \A v : Quiet(<<p>>, "threshold", v)
  BY <1>3, OneIs DEF Lit!Status, Keeps
<1> QED
  BY <1>1, <1>2, <1>3, <1>4, <1>5, <1>6, LitJoined DEF Silent, HasDark, Dark
------------------------------------------------------------------------------
(* Starting *)

\* Messages that leave the threshold as it is, and the light when it is not wanted; those that
\* leave the video on and the light as it is wanted.
Mild(lit) ==
  {p \in Plain : (\A v : Keeps(p, "threshold", v)) /\ (lit \/ Keeps(p, "IR", FALSE))}
Even(lit) == {p \in Mild(lit) : Keeps(p, "video", TRUE) /\ Keeps(p, "IR", lit)}

\* What is sent for the same state of the IR LEDs.
LEMMA EvenIsMild ==
  ASSUME NEW lit \in BOOLEAN
  PROVE  /\ Seq(Even(lit)) \subseteq Seq(Mild(lit)) /\ Seq(Mild(lit)) \subseteq Seq(Plain)
         /\ \A s \in Seq(Mild(lit)) :
              (\A v : Quiet(s, "threshold", v)) /\ (~lit => Quiet(s, "IR", FALSE))
         /\ \A s \in Seq(Even(lit)) : Quiet(s, "video", TRUE) /\ Quiet(s, "IR", lit)
<1>1. Seq(Even(lit)) \subseteq Seq(Mild(lit)) /\ Seq(Mild(lit)) \subseteq Seq(Plain)
  <2>1. Even(lit) \subseteq Mild(lit) /\ Mild(lit) \subseteq Plain
    BY DEF Even, Mild
  <2> QED
    BY <2>1
<1>2. ASSUME NEW s \in Seq(Mild(lit))
      PROVE  (\A v : Quiet(s, "threshold", v)) /\ (~lit => Quiet(s, "IR", FALSE))
  <2>1. \A i \in 1 .. Len(s) : s[i] \in Mild(lit)
    OBVIOUS
  <2> QED
    BY <2>1 DEF Mild, Quiet
<1>3. ASSUME NEW s \in Seq(Even(lit))
      PROVE  Quiet(s, "video", TRUE) /\ Quiet(s, "IR", lit)
  <2>1. \A i \in 1 .. Len(s) : s[i] \in Even(lit)
    OBVIOUS
  <2> QED
    BY <2>1 DEF Even, Quiet
<1> QED
  BY <1>1, <1>2, <1>3

\* The parts of a start joined.
LEMMA StartJoined ==
  ASSUME NEW lit \in BOOLEAN, NEW s \in Seq(Mild(lit)), NEW t \in Seq(Even(lit))
  PROVE  /\ s \o t \in Seq(Mild(lit))
         /\ Settles(s, "video", TRUE) \/ Settles(t, "video", TRUE) => Settles(s \o t, "video", TRUE)
         /\ lit /\ (Settles(s, "IR", TRUE) \/ Settles(t, "IR", TRUE)) => Settles(s \o t, "IR", TRUE)
<1>1. s \in Seq(Plain) /\ t \in Seq(Plain) /\ t \in Seq(Mild(lit))
  BY EvenIsMild
<1>2. s \o t \in Seq(Mild(lit))
  BY <1>1, ConcatProperties
<1>3. Quiet(t, "video", TRUE) /\ Quiet(t, "IR", lit)
  BY EvenIsMild
<1>4. CASE lit
  <2>1. lit = TRUE
    BY <1>4
  <2> QED
    BY <1>1, <1>2, <1>3, <2>1, LitJoined
<1>5. CASE ~lit
  BY <1>1, <1>2, <1>3, <1>5, LitJoined
<1> QED
  BY <1>4, <1>5

\* The packets that a start-up consists of.
LEMMA StartPieces ==
  ASSUME family \in Lit!AllFamilies, NEW lit \in BOOLEAN
  PROVE  /\ <<"video", TRUE>> \in Even(lit) /\ \A x \in BOOLEAN : <<"indicate", x>> \in Even(lit)
         /\ lit => <<"IR", TRUE>> \in Even(lit)
         /\ <<"video", FALSE>> \in Mild(lit) /\ <<"grayscale">> \in Even(lit)
         /\ family # "tir5" => <<"green", TRUE>> \in Even(lit) /\ <<"blue", TRUE>> \in Even(lit)
         /\ family = "tir5" => <<"ir_led", lit>> \in Even(lit)
         /\ Lit!StopPackets \in Seq(Mild(lit))
<1>1. <<"video", TRUE>> \in Even(lit)
  BY DEF Even, Mild, Keeps, Plain, Ours, Messages, Strange
<1>2. \A x \in BOOLEAN : <<"indicate", x>> \in Even(lit)
  BY DEF Even, Mild, Keeps, Plain, Ours, Messages, Strange
<1>3. ASSUME lit
      PROVE  <<"IR", TRUE>> \in Even(lit)
  <2>1. lit = TRUE
    BY <1>3
  <2>2. <<"IR", TRUE>> \in Plain
    BY DEF Plain, Ours, Messages, Strange
  <2> QED
    BY <2>1, <2>2 DEF Even, Mild, Keeps
<1>4. <<"video", FALSE>> \in Mild(lit)
  BY DEF Mild, Keeps, Plain, Ours, Messages, Strange
<1>5. <<"grayscale">> \in Even(lit)
  <2>1. <<"grayscale">> \in Plain /\ <<"grayscale">>[1] = "grayscale"
    BY DEF Plain, Ours, Messages, Strange
  <2> QED
    BY <2>1 DEF Even, Mild, Keeps
<1>6. ASSUME family # "tir5"
      PROVE  <<"green", TRUE>> \in Even(lit) /\ <<"blue", TRUE>> \in Even(lit)
  BY <1>6 DEF Even, Mild, Keeps, Plain, Ours, Messages, Strange
<1>7. ASSUME family = "tir5"
      PROVE  <<"ir_led", lit>> \in Even(lit)
  BY <1>7 DEF Even, Mild, Keeps, Plain, Ours, Messages, Strange
<1>8. Lit!StopPackets \in Seq(Mild(lit))
  <2>1. \A p \in Quieting : p \in Mild(lit)
    <3>1. \A p \in Quieting : p \in Plain /\ IsOff(p)
      BY DEF Quieting, Plain, IsOff, Dark
    <3> QED
      BY <3>1, OffKeeps DEF Mild, Dark
  <2> QED
    BY <2>1, StopIs
<1> QED
  BY <1>1, <1>2, <1>3, <1>4, <1>5, <1>6, <1>7, <1>8

\* A sequence of one, two or three.
LEMMA UpToThree ==
  ASSUME NEW P
  PROVE  /\ \A a \in P : <<a>> \in Seq(P)
         /\ \A a, b \in P : <<a, b>> \in Seq(P)
         /\ \A a, b, c \in P : <<a, b, c>> \in Seq(P)
OBVIOUS

\* The first of them settles its item.
LEMMA FirstSettles ==
  ASSUME NEW a, NEW b, NEW c, NEW what, NEW v, Puts(a, what, v)
  PROVE  /\ Settles(<<a>>, what, v)
         /\ Keeps(b, what, v) => Settles(<<a, b>>, what, v)
         /\ Keeps(b, what, v) /\ Keeps(c, what, v) => Settles(<<a, b, c>>, what, v)
<1>1. Settles(<<a>>, what, v)
  BY OneIs
<1>2. ASSUME Keeps(b, what, v)
      PROVE  Settles(<<a, b>>, what, v)
  <2>1. Len(<<a, b>>) = 2 /\ <<a, b>>[1] = a /\ <<a, b>>[2] = b
    OBVIOUS
  <2>2. 1 \in 1 .. 2 /\ \A j \in 1 + 1 .. 2 : j = 2
    OBVIOUS
  <2> QED
    BY <1>2, <2>1, <2>2 DEF Settles
<1>3. ASSUME Keeps(b, what, v), Keeps(c, what, v)
      PROVE  Settles(<<a, b, c>>, what, v)
  <2>1. /\ Len(<<a, b, c>>) = 3 /\ <<a, b, c>>[1] = a /\ <<a, b, c>>[2] = b /\ <<a, b, c>>[3] = c
    OBVIOUS
  <2>2. 1 \in 1 .. 3 /\ \A j \in 1 + 1 .. 3 : j = 2 \/ j = 3
    OBVIOUS
  <2> QED
    BY <1>3, <2>1, <2>2 DEF Settles
<1> QED
  BY <1>1, <1>2, <1>3

\* The last of them does.
LEMMA LastSettles ==
  ASSUME NEW a, NEW b, NEW what, NEW v, Puts(b, what, v)
  PROVE  Settles(<<a, b>>, what, v)
<1>1. Len(<<a, b>>) = 2 /\ <<a, b>>[2] = b /\ 2 \in 1 .. 2 /\ 2 + 1 .. 2 = {}
  OBVIOUS
<1> QED
  BY <1>1 DEF Settles

\* A start begins the video, with the IR LEDs when they are wanted.
LEMMA StartIs ==
  ASSUME family \in Lit!AllFamilies, NEW lit \in BOOLEAN, lit = ir_on'
  PROVE  \A s \in {Lit!Starting, Lit!Starting \o <<Lit!Status(TRUE)>>} :
           /\ s \in Seq(Mild(lit)) /\ Settles(s, "video", TRUE)
           /\ family # "tir5" /\ lit => Settles(s, "IR", TRUE)
<1> DEFINE V == <<"video", TRUE>>
           I == <<"indicate", TRUE>>
           Good(s) == /\ s \in Seq(Mild(lit)) /\ Settles(s, "video", TRUE)
                      /\ family # "tir5" /\ lit => Settles(s, "IR", TRUE)
<1>1. PICK l \in Seq(Even(lit)) :
        l = Lit!If(ir_on', <<Lit!On("IR")>>) /\ (lit => Settles(l, "IR", TRUE))
  <2>1. CASE lit
    <3>1. Lit!If(ir_on', <<Lit!On("IR")>>) = << <<"IR", TRUE>> >>
      BY <2>1 DEF Lit!If, Lit!On, Lit!Set
    <3>2. << <<"IR", TRUE>> >> \in Seq(Even(lit))
      BY <2>1, StartPieces, UpToThree
    <3>3. Settles(<< <<"IR", TRUE>> >>, "IR", TRUE)
      BY OneIs DEF Puts
    <3> QED
      BY <3>1, <3>2, <3>3
  <2>2. CASE ~lit
    BY <2>2, EmptySeq DEF Lit!If
  <2> QED
    BY <2>1, <2>2
<1>2. /\ V \in Even(lit) /\ I \in Even(lit) /\ <<V>> \in Seq(Even(lit)) /\ <<I>> \in Seq(Even(lit))
      /\ <<V, I>> \in Seq(Even(lit)) /\ <<V>> \in Seq(Mild(lit))
  <2>1. V \in Even(lit) /\ I \in Even(lit)
    BY StartPieces
  <2> HIDE DEF V, I
  <2> QED
    BY <2>1, UpToThree, EvenIsMild
<1>3. Settles(<<V>>, "video", TRUE) /\ Settles(<<V, I>>, "video", TRUE)
  BY FirstSettles DEF Puts, Keeps
<1>4. Lit!Status(TRUE) = I /\ Lit!Video(TRUE) = V
  BY DEF Lit!Status, Lit!Video, Lit!Set
<1> HIDE DEF V, I
<1>5. Good(Lit!Starting)
  <2>1. CASE family = "tir2"
    <3>1. Lit!Starting = ((<<V>> \o l) \o <<I>>) \o l
      BY <1>1, <1>4, <2>1 DEF Lit!Starting, Lit!StartPackets
    <3>2. Good(<<V>> \o l)
      BY <1>1, <1>2, <1>3, StartJoined
    <3>3. Good((<<V>> \o l) \o <<I>>)
      BY <1>2, <3>2, StartJoined
    <3>4. Good(((<<V>> \o l) \o <<I>>) \o l)
      BY <1>1, <3>3, StartJoined
    <3> QED
      BY <3>1, <3>4
  <2>2. CASE family = "tir3"
    <3>1. Lit!Starting = (<< <<"video", FALSE>> >> \o l) \o <<V, I>>
      BY <1>1, <1>4, <2>2 DEF Lit!Starting, Lit!StartPackets, Lit!Camera_stop, Lit!Video, Lit!Set
    <3>2. << <<"video", FALSE>> >> \in Seq(Mild(lit))
      BY StartPieces, UpToThree
    <3>3. /\ << <<"video", FALSE>> >> \o l \in Seq(Mild(lit))
          /\ lit => Settles(<< <<"video", FALSE>> >> \o l, "IR", TRUE)
      BY <1>1, <3>2, StartJoined
    <3>4. Good((<< <<"video", FALSE>> >> \o l) \o <<V, I>>)
      BY <1>2, <1>3, <3>3, StartJoined
    <3> QED
      BY <3>1, <3>4
  <2>3. CASE family = "tir4"
    <3>1. Lit!Starting = ((Lit!StopPackets \o <<V>>) \o l) \o <<I>>
      BY <1>1, <1>4, <2>3 DEF Lit!Starting, Lit!StartPackets
    <3>2. Lit!StopPackets \in Seq(Mild(lit))
      BY StartPieces
    <3>3. /\ Lit!StopPackets \o <<V>> \in Seq(Mild(lit))
          /\ Settles(Lit!StopPackets \o <<V>>, "video", TRUE)
      BY <1>2, <1>3, <3>2, StartJoined
    <3>4. Good((Lit!StopPackets \o <<V>>) \o l)
      BY <1>1, <3>3, StartJoined
    <3>5. Good(((Lit!StopPackets \o <<V>>) \o l) \o <<I>>)
      BY <1>2, <3>4, StartJoined
    <3> QED
      BY <3>1, <3>5
  <2>4. CASE family = "tir5"
    <3> DEFINE L == <<"ir_led", lit>>
    <3>1. Lit!Starting = Lit!StopPackets \o <<V, L, I>>
      BY <1>4, <2>4 DEF Lit!Starting, Lit!StartPackets, Lit!Light
    <3>2. Lit!StopPackets \in Seq(Mild(lit)) /\ L \in Even(lit)
      BY <2>4, StartPieces
    <3>3. Settles(<<V, L, I>>, "video", TRUE)
      BY FirstSettles DEF Puts, Keeps, V, I
    <3> HIDE DEF L
    <3>4. <<V, L, I>> \in Seq(Even(lit))
      BY <1>2, <3>2, UpToThree
    <3>5. /\ Lit!StopPackets \o <<V, L, I>> \in Seq(Mild(lit))
          /\ Settles(Lit!StopPackets \o <<V, L, I>>, "video", TRUE)
      BY <3>2, <3>3, <3>4, StartJoined
    <3> QED
      BY <2>4, <3>1, <3>5
  <2>5. CASE family = "sn4"
    <3> DEFINE G == <<"grayscale">>
    <3>1. Lit!Starting = (<<G, V>> \o l) \o <<I>>
      BY <1>1, <1>4, <2>5 DEF Lit!Starting, Lit!StartPackets
    <3>2. G \in Even(lit)
      BY StartPieces
    <3> HIDE DEF G
    <3>3. <<G, V>> \in Seq(Mild(lit))
      BY <1>2, <3>2, UpToThree, EvenIsMild
    <3>4. Settles(<<G, V>>, "video", TRUE)
      BY LastSettles DEF Puts, V
    <3>5. Good(<<G, V>> \o l)
      BY <1>1, <3>3, <3>4, StartJoined
    <3>6. Good((<<G, V>> \o l) \o <<I>>)
      BY <1>2, <3>5, StartJoined
    <3> QED
      BY <3>1, <3>6
  <2>6. CASE family = "sn3"
    <3> DEFINE G == <<"green", TRUE>>
               B == <<"blue", TRUE>>
    <3>1. Lit!Starting = (<<V, G>> \o l) \o <<B>>
      BY <1>1, <1>4, <2>6 DEF Lit!Starting, Lit!StartPackets, Lit!On, Lit!Set
    <3>2. G \in Even(lit) /\ B \in Even(lit)
      BY <2>6, StartPieces
    <3>3. Settles(<<V, G>>, "video", TRUE)
      BY FirstSettles DEF Puts, Keeps, V
    <3> HIDE DEF G, B
    <3>4. <<V, G>> \in Seq(Mild(lit)) /\ <<B>> \in Seq(Even(lit))
      BY <1>2, <3>2, UpToThree, EvenIsMild
    <3>5. Good(<<V, G>> \o l)
      BY <1>1, <3>3, <3>4, StartJoined
    <3>6. Good((<<V, G>> \o l) \o <<B>>)
      BY <3>4, <3>5, StartJoined
    <3> QED
      BY <3>1, <3>6
  <2> QED
    BY <2>1, <2>2, <2>3, <2>4, <2>5, <2>6 DEF Lit!AllFamilies
<1>6. Good(Lit!Starting \o <<Lit!Status(TRUE)>>)
  BY <1>2, <1>4, <1>5, StartJoined
<1> QED
  BY <1>5, <1>6

\* What a camera is told before it starts.
LEMMA InitIs ==
  ASSUME family \in Lit!AllFamilies, NEW reload \in BOOLEAN
  PROVE  /\ Lit!InitPackets(reload) \in Seq(Plain)
         /\ family # "tir5" => Quiet(Lit!InitPackets(reload), "IR", FALSE)
<1>1. CASE family = "tir5"
  <2> DEFINE L == <<"ir_led", TRUE>>
             A == <<"threshold", 150>>
             B == <<"threshold", 118>>
             S == <<"status", "off">>
             F == <<"video", FALSE>>
             T == <<"video", TRUE>>
  <2>1. Lit!InitPackets(reload) = <<L, A, L, S, L, B, S, F, L, T>>
    BY <1>1 DEF Lit!InitPackets, Lit!Light, Lit!Threshold, Lit!Set, Lit!Camera_stop, Lit!Video
  <2>2. L \in Plain /\ F \in Plain /\ T \in Plain
    BY <1>1 DEF Plain, Ours, Messages, Strange
  <2>3. A \in Plain /\ B \in Plain
    BY <1>1, MessagesAre DEF Plain, Ours, Strange
  <2>4. S \in Plain
    BY <1>1 DEF Plain, Ours, Messages, Strange
  <2> HIDE DEF L, A, B, S, F, T
  <2> QED
    BY <1>1, <2>1, <2>2, <2>3, <2>4
<1>2. CASE family # "tir5"
  <2> DEFINE Thresholds == {<<"threshold", v>> : v \in 0 .. 255}
  <2>1. \A v \in 0 .. 255 : <<"threshold", v>> \in Thresholds
    OBVIOUS
  <2>2. Lit!InitPackets(reload) \in Seq(Thresholds)
    <3>1. /\ \A a \in Thresholds : <<a>> \in Seq(Thresholds)
          /\ \A a, b \in Thresholds : <<a, b>> \in Seq(Thresholds)
          /\ <<>> \in Seq(Thresholds)
      BY UpToThree, EmptySeq
    <3> HIDE DEF Thresholds
    <3>2. \A v \in 0 .. 255 : << <<"threshold", v>> >> \in Seq(Thresholds)
      BY <2>1, <3>1
    <3>3. << <<"threshold", 140>>, <<"threshold", 208>> >> \in Seq(Thresholds)
      <4> DEFINE a == <<"threshold", 140>>
                 b == <<"threshold", 208>>
      <4>1. a \in Thresholds /\ b \in Thresholds
        BY <2>1
      <4> HIDE DEF a, b
      <4>2. <<a, b>> \in Seq(Thresholds)
        BY <3>1, <4>1
      <4> QED
        BY <4>2 DEF a, b
    <3>4. /\ << <<"threshold", 140>> >> \in Seq(Thresholds) /\ << <<"threshold", 130>> >> \in Seq(Thresholds)
          /\ << <<"threshold", 120>> >> \in Seq(Thresholds)
      BY <3>2
    <3> QED
      BY <1>2, <3>1, <3>3, <3>4 DEF Lit!InitPackets, Lit!Threshold, Lit!Set, Lit!If, Lit!AllFamilies
  <2>3. \A p \in Thresholds : p \in Plain /\ Keeps(p, "IR", FALSE)
    <3>1. \A v \in 0 .. 255 : <<"threshold", v>> \in Messages /\ <<"threshold", v>>[1] = "threshold"
      BY MessagesAre
    <3>2. \A p \in Thresholds : p \in Messages /\ p[1] = "threshold"
      BY <3>1, Zenon
    <3> QED
      BY <1>2, <3>2 DEF Plain, Ours, Strange, Keeps
  <2> HIDE DEF Thresholds
  <2>4. Seq(Thresholds) \subseteq Seq(Plain)
    <3>1. Thresholds \subseteq Plain
      BY <2>3
    <3> QED
      BY <3>1
  <2>5. \A i \in 1 .. Len(Lit!InitPackets(reload)) : Lit!InitPackets(reload)[i] \in Thresholds
    BY <2>2, ElementOfSeq
  <2> QED
    BY <2>2, <2>3, <2>4, <2>5 DEF Quiet
<1> QED
  BY <1>1, <1>2
------------------------------------------------------------------------------
(* The invariant *)

Coming ==
  /\ state \in {"paused", "closed"} =>
       /\ \A led \in HasDark \ {"red"} : Ends(led, FALSE)
       /\ family = "tir5" => Ends("light", 0)
  /\ state = "closed" => IF family = "tir5" THEN Ends("status", "off") ELSE Ends("red", FALSE)
  /\ state = "running" => Ends("video", TRUE) /\ (family # "tir5" => Ends("IR", ir_on))
  /\ state \in {"running", "paused"} /\ last_threshold # -1 =>
       Ends("threshold", Lit!Limited(last_threshold))

LitInv == LitTypes /\ Spared /\ FrameAlone /\ Coming

\* What is to come stays while nothing is sent.
LEMMA NothingComes ==
  ASSUME LitInv, UNCHANGED <<family, cam, ir_on, last_threshold, todo, state, untold>>
  PROVE  Coming'
<1>1. ASSUME NEW what, NEW v, Ends(what, v)
      PROVE  Ends(what, v)'
  BY <1>1 DEF Ends, Lit!Told
<1>2. PICK lit : lit = ir_on
  OBVIOUS
<1>3. PICK least : least = Lit!Limited(last_threshold)
  OBVIOUS
<1>4. HasDark' = HasDark /\ ir_on' = lit /\ Lit!Limited(last_threshold)' = least
  BY <1>2, <1>3 DEF HasDark, Lit!Limited
<1>5. /\ state \in {"paused", "closed"} =>
           /\ \A led \in HasDark \ {"red"} : Ends(led, FALSE)'
           /\ family = "tir5" => Ends("light", 0)'
      /\ state = "closed" =>
           IF family = "tir5" THEN Ends("status", "off")' ELSE Ends("red", FALSE)'
  BY <1>1 DEF LitInv, Coming
<1>6. state = "running" => Ends("video", TRUE)' /\ (family # "tir5" => Ends("IR", lit)')
  BY <1>1, <1>2 DEF LitInv, Coming
<1>7. state \in {"running", "paused"} /\ last_threshold # -1 => Ends("threshold", least)'
  BY <1>1, <1>3 DEF LitInv, Coming
<1> QED
  BY <1>4, <1>5, <1>6, <1>7 DEF Coming

\* What is begun settles an item, or leaves it alone.
LEMMA BeginEnds ==
  ASSUME NEW s, NEW next, Lit!Begin(s, next), NEW what, NEW v,
         Settles(s, what, v) \/ (Quiet(s, what, v) /\ Ends(what, v))
  PROVE  Ends(what, v)'
<1>1. todo = <<>> /\ todo' = s /\ UNCHANGED <<cam, untold>>
  BY DEF Lit!Begin
<1>2. ~Settles(<<>>, what, v)
  <2>1. 1 .. Len(<<>>) = {}
    OBVIOUS
  <2> QED
    BY <2>1 DEF Settles
<1>3. CASE Settles(s, what, v)
  BY <1>1, <1>3 DEF Ends
<1>4. CASE Quiet(s, what, v) /\ Ends(what, v)
  BY <1>1, <1>2, <1>4 DEF Ends, Lit!Told
<1> QED
  BY <1>3, <1>4

\* What is begun is of the types.
LEMMA BeginTypes ==
  ASSUME LitTypes, Spared, NEW s \in Seq(Plain), NEW next \in {"closed", "running", "paused", "failed"},
         Lit!Begin(s, next), prefs' \in [Lit!Names -> Int], last_threshold' \in Int, ir_on' \in BOOLEAN
  PROVE  LitTypes' /\ Spared' /\ FrameAlone'
<1>1. todo' = s /\ state' = next /\ UNCHANGED <<family, cam, file, untold>>
  BY DEF Lit!Begin
<1>2. Ours' = Ours /\ s \in Seq(Ours)
  BY <1>1, PlainAreMessages DEF Ours, Strange
<1>3. \A i \in 1 .. Len(s) : s[i][1] # "frame"
  <2>1. \A i \in 1 .. Len(s) : s[i] \in Plain
    OBVIOUS
  <2> QED
    BY <2>1 DEF Plain
<1> QED
  BY <1>1, <1>2, <1>3 DEF LitTypes, CamTypes, Spared, FrameAlone

\* Each operation of the driver keeps the invariant: the opening,
LEMMA LitOpenKeeps ==
  ASSUME LitInv, Lit!Open
  PROVE  LitInv'
<1>1. /\ family \in Lit!AllFamilies /\ last_threshold' = -1 /\ UNCHANGED family
      /\ prefs' \in [Lit!Names -> Int]
  BY DEF LitInv, LitTypes, Lit!Open, Lit!Begin, Lit!Names, Lit!Defaults
<1>2. PICK lit \in BOOLEAN : lit = ir_on'
  BY DEF Lit!Open
<1>3. Silent(Lit!Silence) /\ Lit!Silence \in Seq(Plain)
  BY <1>1, SilenceIsSilent DEF Silent
<1>4. CASE \E reload \in BOOLEAN :
             Lit!Begin(Lit!Silence \o Lit!InitPackets(reload) \o Lit!Starting, "running")
  <2>1. PICK reload \in BOOLEAN :
          Lit!Begin(Lit!Silence \o Lit!InitPackets(reload) \o Lit!Starting, "running")
    BY <1>4
  <2> DEFINE q == Lit!InitPackets(reload)
             r == Lit!Starting
             t == Lit!Silence \o q
             s == t \o r
  <2>2. q \in Seq(Plain) /\ (family # "tir5" => Quiet(q, "IR", FALSE))
    BY <1>1, InitIs
  <2>3. /\ r \in Seq(Mild(lit)) /\ r \in Seq(Plain) /\ Settles(r, "video", TRUE)
        /\ family # "tir5" /\ lit => Settles(r, "IR", TRUE)
        /\ ~lit => Quiet(r, "IR", FALSE)
    BY <1>1, <1>2, StartIs, EvenIsMild
  <2>4. Lit!Begin(s, "running")
    BY <2>1
  <2> HIDE DEF q, r
  <2>5. t \in Seq(Plain) /\ (family # "tir5" => Settles(t, "IR", FALSE))
    BY <1>1, <1>3, <2>2, LitJoined DEF Silent, HasDark, Dark
  <2> HIDE DEF t
  <2>6. s \in Seq(Plain) /\ Settles(s, "video", TRUE)
    BY <2>3, <2>5, LitJoined
  <2>7. ASSUME family # "tir5"
        PROVE  Settles(s, "IR", lit)
    <3>1. CASE lit
      <4>1. lit = TRUE
        BY <3>1
      <4> QED
        BY <2>3, <2>5, <2>7, <4>1, LitJoined
    <3>2. CASE ~lit
      <4>1. lit = FALSE
        BY <3>2
      <4> QED
        BY <2>3, <2>5, <2>7, <4>1, LitJoined
    <3> QED
      BY <3>1, <3>2
  <2> HIDE DEF s
  <2>8. LitTypes' /\ Spared' /\ FrameAlone'
    BY <1>1, <1>2, <2>4, <2>6, BeginTypes DEF LitInv
  <2>9. Ends("video", TRUE)' /\ (family # "tir5" => Ends("IR", lit)')
    BY <2>4, <2>6, <2>7, BeginEnds
  <2>10. state' = "running"
    BY <2>4 DEF Lit!Begin
  <2> QED
    BY <1>1, <1>2, <2>8, <2>9, <2>10 DEF LitInv, Coming
<1>5. CASE Lit!Begin(<<>>, "failed")
  <2>1. PICK s \in Seq(Plain) : Lit!Begin(s, "failed")
    BY <1>5, NoneIs
  <2>2. LitTypes' /\ Spared' /\ FrameAlone'
    BY <1>1, <1>2, <2>1, BeginTypes DEF LitInv
  <2>3. state' = "failed"
    BY <2>1 DEF Lit!Begin
  <2> QED
    BY <2>2, <2>3 DEF LitInv, Coming
<1>6. CASE Lit!Begin(Lit!Silence \o Lit!If(family = "tir5", <<Lit!Light(TRUE)>>), "failed")
  <2>1. PICK s \in Seq(Plain) : Lit!Begin(s, "failed")
    <3>1. Lit!If(family = "tir5", <<Lit!Light(TRUE)>>) \in Seq(Plain)
      <4>1. CASE family = "tir5"
        <5>1. <<"ir_led", TRUE>> \in Plain
          BY <4>1 DEF Plain, Ours, Messages, Strange
        <5>2. << <<"ir_led", TRUE>> >> \in Seq(Plain)
          BY <5>1, UpToThree
        <5> QED
          BY <4>1, <5>2 DEF Lit!If, Lit!Light
      <4>2. CASE family # "tir5"
        BY <4>2, NoneIs DEF Lit!If
      <4> QED
        BY <4>1, <4>2
    <3>2. Lit!Silence \o Lit!If(family = "tir5", <<Lit!Light(TRUE)>>) \in Seq(Plain)
      BY <1>3, <3>1, ConcatProperties
    <3> QED
      BY <1>6, <3>2
  <2>2. LitTypes' /\ Spared' /\ FrameAlone'
    BY <1>1, <1>2, <2>1, BeginTypes DEF LitInv
  <2>3. state' = "failed"
    BY <2>1 DEF Lit!Begin
  <2> QED
    BY <2>2, <2>3 DEF LitInv, Coming
<1> QED
  BY <1>4, <1>5, <1>6 DEF Lit!Open

\* the pause,
LEMMA PauseKeeps ==
  ASSUME LitInv, Lit!Pause
  PROVE  LitInv'
<1> DEFINE s == Lit!StopPackets \o <<Lit!Status(FALSE)>>
<1>1. /\ family \in Lit!AllFamilies /\ Lit!Begin(s, "paused") /\ state = "running"
      /\ state' = "paused" /\ UNCHANGED <<family, prefs, ir_on, last_threshold>>
  BY DEF LitInv, LitTypes, Lit!Pause, Lit!Begin
<1>2. /\ s \in Seq(Plain) /\ \A led \in HasDark \ {"red"} : Settles(s, led, FALSE)
      /\ family = "tir5" => Settles(s, "light", 0)
      /\ \A v : Quiet(s, "threshold", v)
  BY <1>1, PauseIs
<1> HIDE DEF s
<1>3. LitTypes' /\ Spared' /\ FrameAlone'
  <2>1. prefs' \in [Lit!Names -> Int] /\ last_threshold' \in Int /\ ir_on' \in BOOLEAN
    BY <1>1 DEF LitInv, LitTypes
  <2> QED
    BY <1>1, <1>2, <2>1, BeginTypes DEF LitInv
<1>4. \A led \in HasDark \ {"red"} : Ends(led, FALSE)'
  BY <1>1, <1>2, BeginEnds
<1>5. family = "tir5" => Ends("light", 0)'
  BY <1>1, <1>2, BeginEnds
<1>6. PICK least : least = Lit!Limited(last_threshold)
  OBVIOUS
<1>7. last_threshold # -1 => Ends("threshold", least)'
  <2>1. last_threshold # -1 => Ends("threshold", least)
    BY <1>1, <1>6 DEF LitInv, Coming
  <2> QED
    BY <1>1, <1>2, <2>1, BeginEnds
<1>8. HasDark' = HasDark /\ Lit!Limited(last_threshold)' = least
  BY <1>1, <1>6 DEF HasDark, Lit!Limited
<1> QED
  BY <1>1, <1>3, <1>4, <1>5, <1>7, <1>8 DEF LitInv, Coming

\* the close,
LEMMA CloseKeeps ==
  ASSUME LitInv, Lit!Close
  PROVE  LitInv'
<1>1. /\ family \in Lit!AllFamilies /\ Lit!Begin(Lit!ClosePackets, "closed")
      /\ state' = "closed" /\ UNCHANGED <<family, prefs, ir_on, last_threshold>>
  BY DEF LitInv, LitTypes, Lit!Close, Lit!Begin
<1>2. Silent(Lit!ClosePackets) /\ Lit!ClosePackets \in Seq(Plain)
  BY <1>1, CloseIsSilent DEF Silent
<1>3. LitTypes' /\ Spared' /\ FrameAlone'
  <2>1. prefs' \in [Lit!Names -> Int] /\ last_threshold' \in Int /\ ir_on' \in BOOLEAN
    BY <1>1 DEF LitInv, LitTypes
  <2> QED
    BY <1>1, <1>2, <2>1, BeginTypes DEF LitInv
<1>4. \A led \in HasDark : Ends(led, FALSE)'
  BY <1>1, <1>2, BeginEnds DEF Silent
<1>5. family = "tir5" => Ends("light", 0)' /\ Ends("status", "off")'
  BY <1>1, <1>2, BeginEnds DEF Silent
<1>6. HasDark' = HasDark /\ (family # "tir5" => "red" \in HasDark)
  BY <1>1 DEF HasDark, Dark
<1> QED
  BY <1>1, <1>3, <1>4, <1>5, <1>6 DEF LitInv, Coming

\* the wake-up,
LEMMA ResumeKeeps ==
  ASSUME LitInv, Lit!Resume
  PROVE  LitInv'
<1> DEFINE s == Lit!Starting \o <<Lit!Status(TRUE)>>
<1>1. /\ family \in Lit!AllFamilies /\ Lit!Begin(s, "running") /\ state = "paused"
      /\ state' = "running" /\ UNCHANGED <<family, prefs, ir_on, last_threshold>>
  BY DEF LitInv, LitTypes, Lit!Resume, Lit!Begin
<1>2. PICK lit \in BOOLEAN : lit = ir_on /\ lit = ir_on'
  BY <1>1 DEF LitInv, LitTypes
<1>3. /\ s \in Seq(Mild(lit)) /\ s \in Seq(Plain) /\ Settles(s, "video", TRUE)
      /\ family # "tir5" /\ lit => Settles(s, "IR", TRUE)
      /\ ~lit => Quiet(s, "IR", FALSE)
      /\ \A v : Quiet(s, "threshold", v)
  BY <1>1, <1>2, StartIs, EvenIsMild
<1> HIDE DEF s
<1>4. LitTypes' /\ Spared' /\ FrameAlone'
  <2>1. prefs' \in [Lit!Names -> Int] /\ last_threshold' \in Int /\ ir_on' \in BOOLEAN
    BY <1>1 DEF LitInv, LitTypes
  <2> QED
    BY <1>1, <1>3, <2>1, BeginTypes DEF LitInv
<1>5. Ends("video", TRUE)'
  BY <1>1, <1>3, BeginEnds
<1>6. ASSUME family # "tir5"
      PROVE  Ends("IR", lit)'
  <2>1. CASE lit
    <3>1. lit = TRUE
      BY <2>1
    <3> QED
      BY <1>1, <1>3, <1>6, <3>1, BeginEnds
  <2>2. CASE ~lit
    <3>1. lit = FALSE
      BY <2>2
    <3>2. Ends("IR", FALSE)
      BY <1>1, <1>6 DEF LitInv, Coming, HasDark, Dark
    <3>3. Ends("IR", FALSE)'
      BY <1>1, <1>3, <2>2, <3>2, BeginEnds
    <3> QED
      BY <3>1, <3>3
  <2> QED
    BY <2>1, <2>2
<1>7. PICK least : least = Lit!Limited(last_threshold)
  OBVIOUS
<1>8. last_threshold # -1 => Ends("threshold", least)'
  <2>1. last_threshold # -1 => Ends("threshold", least)
    BY <1>1, <1>7 DEF LitInv, Coming
  <2> QED
    BY <1>1, <1>3, <2>1, BeginEnds
<1>9. Lit!Limited(last_threshold)' = least
  BY <1>1, <1>7 DEF Lit!Limited
<1> QED
  BY <1>1, <1>2, <1>4, <1>5, <1>6, <1>8, <1>9 DEF LitInv, Coming

\* a frame,
LEMMA LitGetFrameKeeps ==
  ASSUME LitInv, Lit!GetFrame
  PROVE  LitInv'
<1> DEFINE p == <<"frame">>
<1>1. /\ Lit!Begin(<<p>>, "running") /\ state = "running" /\ todo' = <<p>>
      /\ state' = "running" /\ UNCHANGED <<family, cam, untold, prefs, file, ir_on, last_threshold>>
  BY DEF Lit!GetFrame, Lit!Begin
<1>2. p \in Ours /\ p[1] = "frame"
  BY DEF Ours, Messages, Strange
<1> HIDE DEF p
<1>3. <<p>> \in Seq(Ours) /\ Len(<<p>>) = 1
  BY <1>2, UpToThree
<1>4. LitTypes' /\ Spared' /\ FrameAlone'
  <2>1. Ours' = Ours
    BY <1>1 DEF Ours, Strange
  <2> QED
    BY <1>1, <1>3, <2>1 DEF LitInv, LitTypes, CamTypes, Spared, FrameAlone
<1>5. \A what \in Items : \A v : Quiet(<<p>>, what, v)
  BY <1>2, OneIs DEF Keeps, Items
<1>6. PICK lit : lit = ir_on
  OBVIOUS
<1>7. PICK least : least = Lit!Limited(last_threshold)
  OBVIOUS
<1>8. /\ Ends("video", TRUE) /\ (family # "tir5" => Ends("IR", lit))
      /\ last_threshold # -1 => Ends("threshold", least)
  BY <1>1, <1>6, <1>7 DEF LitInv, Coming
<1>9. /\ Ends("video", TRUE)' /\ (family # "tir5" => Ends("IR", lit)')
      /\ last_threshold # -1 => Ends("threshold", least)'
  BY <1>1, <1>5, <1>8, BeginEnds DEF Items
<1>10. Lit!Limited(last_threshold)' = least
  BY <1>1, <1>7 DEF Lit!Limited
<1> QED
  BY <1>1, <1>4, <1>6, <1>9, <1>10 DEF LitInv, Coming

\* a changed preference,
LEMMA SetPrefKeeps ==
  ASSUME LitInv, Lit!LightsAssumption, NEW n \in Lit!Names, NEW v \in Levels, Lit!SetPref(n, v)
  PROVE  LitInv'
<1>1. UNCHANGED <<family, cam, ir_on, last_threshold, todo, state, untold>>
  BY DEF Lit!SetPref
<1>2. Lit!Kept(n, v) \in Int
  BY DEF Lit!Kept, Lit!LightsAssumption
<1>3. prefs' \in [Lit!Names -> Int]
  BY <1>2 DEF Lit!SetPref, LitInv, LitTypes
<1>4. DOMAIN file' \subseteq Lit!Names /\ \A m \in DOMAIN file' : file'[m] \in Int
  BY <1>2 DEF Lit!SetPref, LitInv, LitTypes
<1>5. LitTypes' /\ Spared' /\ FrameAlone'
  <2>1. Ours' = Ours
    BY <1>1 DEF Ours, Strange
  <2>2. LitTypes'
    BY <1>1, <1>3, <1>4, <2>1 DEF LitInv, LitTypes, CamTypes
  <2> QED
    BY <1>1, <2>2 DEF LitInv, Spared, FrameAlone
<1>6. Coming'
  BY <1>1, NothingComes
<1> QED
  BY <1>5, <1>6 DEF LitInv

\* and a packet that is sent.
LEMMA NextPacketKeeps ==
  ASSUME LitInv, Lit!NextPacket
  PROVE  LitInv'
<1>1. LitTypes' /\ Spared' /\ FrameAlone'
  BY NextTypes DEF LitInv
<1>2. UNCHANGED <<family, prefs, file, ir_on, state>>
  BY PacketTaken DEF LitInv
<1>3. HasDark' = HasDark /\ HasDark \ {"red"} \subseteq Wanted
  BY <1>2 DEF HasDark, Dark, Wanted, Items
<1>4. PICK lit : lit = ir_on
  OBVIOUS
<1>5. ASSUME NEW what \in Wanted \ {"threshold"}, NEW v, Ends(what, v),
             what = "light" => v = 0, what = "green" => v = FALSE
      PROVE  Ends(what, v)'
  BY <1>5, NextEnds DEF LitInv
<1>6. \A w \in {"video", "IR", "light", "red", "green", "blue", "status"} : w \in Wanted \ {"threshold"}
  BY DEF Wanted, Items
<1>7. state \in {"paused", "closed"} =>
        /\ \A led \in HasDark \ {"red"} : Ends(led, FALSE)'
        /\ family = "tir5" => Ends("light", 0)'
  <2>1. \A led \in HasDark \ {"red"} : led \in Wanted \ {"threshold"} /\ led # "light"
    BY DEF HasDark, Dark, Wanted, Items
  <2> QED
    BY <1>5, <1>6, <2>1 DEF LitInv, Coming
<1>8. state = "closed" => IF family = "tir5" THEN Ends("status", "off")' ELSE Ends("red", FALSE)'
  BY <1>5, <1>6 DEF LitInv, Coming
<1>9. state = "running" => Ends("video", TRUE)' /\ (family # "tir5" => Ends("IR", lit)')
  BY <1>4, <1>5, <1>6 DEF LitInv, Coming
<1>10. PICK least : least = Lit!Limited(last_threshold)'
  OBVIOUS
<1>11. ASSUME state \in {"running", "paused"}, last_threshold' # -1
       PROVE  Ends("threshold", least)'
  <2>1. CASE Head(todo)[1] # "frame"
    <3>1. UNCHANGED last_threshold
      BY <2>1, PacketTaken DEF LitInv
    <3>2. Ends("threshold", least)
      BY <1>2, <1>10, <1>11, <3>1 DEF LitInv, Coming, Lit!Limited
    <3> QED
      BY <2>1, <3>2, NextEnds DEF LitInv, Wanted, Items
  <2>2. CASE Head(todo)[1] = "frame"
    <3>1. /\ UNCHANGED <<cam, untold>> /\ last_threshold' = prefs.threshold
          /\ todo = <<Head(todo)>>
      BY <2>2, FrameTaken DEF LitInv
    <3>2. CASE last_threshold # prefs.threshold
      <4>1. todo' = << <<"threshold", Lit!Limited(prefs.threshold)>> >>
        BY <2>2, <3>2, FrameTaken DEF LitInv
      <4>2. Lit!Limited(prefs.threshold) = least
        BY <1>2, <1>10, <3>1 DEF Lit!Limited
      <4>3. Puts(<<"threshold", least>>, "threshold", least)
        BY DEF Puts
      <4>4. Settles(<< <<"threshold", least>> >>, "threshold", least)
        BY <4>3, OneIs
      <4> QED
        BY <4>1, <4>2, <4>4 DEF Ends
    <3>3. CASE last_threshold = prefs.threshold
      <4>1. todo' = <<>>
        BY <2>2, <3>3, FrameTaken DEF LitInv
      <4>2. Ends("threshold", least)
        BY <1>2, <1>10, <1>11, <3>1, <3>3 DEF LitInv, Coming, Lit!Limited
      <4>3. ~Settles(todo, "threshold", least)
        <5>1. Len(todo) = 1 /\ todo[1] = Head(todo)
          BY <3>1
        <5>2. \A i \in 1 .. Len(todo) : ~Puts(todo[i], "threshold", least)
          BY <2>2, <5>1 DEF Puts
        <5> QED
          BY <5>2 DEF Settles
      <4> QED
        BY <3>1, <4>1, <4>2, <4>3, NoneIs DEF Ends, Lit!Told
    <3> QED
      BY <3>2, <3>3
  <2> QED
    BY <2>1, <2>2
<1> QED
  BY <1>1, <1>2, <1>3, <1>4, <1>7, <1>8, <1>9, <1>10, <1>11 DEF LitInv, Coming

\* What is sent comes to what the state of the driver asks for (tir_hw.c), for any
\* levels and any number of operations.
THEOREM LitInvariance ==
  ASSUME Lit!LightsAssumption
  PROVE  Lit!LightsSpec => []LitInv
<1>1. Lit!Init => LitInv
  <2> SUFFICES ASSUME Lit!Init
               PROVE  LitInv
    OBVIOUS
  <2>1. todo = <<>> /\ state = "closed" /\ untold = {} /\ DOMAIN cam = Items
    BY DEF Lit!Init, Items
  <2>2. /\ cam["video"] = FALSE /\ cam["IR"] = FALSE /\ cam["red"] = FALSE /\ cam["green"] = FALSE
        /\ cam["blue"] = FALSE /\ cam["gray"] = FALSE
    BY DEF Lit!Init
  <2>3. cam["light"] = 0 /\ cam["status"] = "off" /\ cam["threshold"] = 0
    BY DEF Lit!Init
  <2>4. prefs \in [Lit!Names -> Int]
    BY DEF Lit!Init, Lit!Defaults, Lit!Names
  <2>5. DOMAIN file \subseteq Lit!Names /\ \A n \in DOMAIN file : file[n] \in Int
    BY DEF Lit!Init, Lit!Defaults, Lit!Names, Lit!LightsAssumption
  <2>6. family \in Lit!AllFamilies /\ last_threshold \in Int /\ ir_on \in BOOLEAN
    BY DEF Lit!Init, Lit!LightsAssumption
  <2>7. CamTypes
    <3>1. \A what \in {"video", "IR", "red", "green", "blue", "gray"} : cam[what] = FALSE
      BY <2>2
    <3>2. cam["light"] \in Int /\ cam["status"] \in {"off", "run", "pause"} /\ cam["threshold"] \in 0 .. 255
      BY <2>3
    <3>3. \A what \in {"video", "IR", "red", "green", "blue", "gray"} : cam[what] \in BOOLEAN
      BY <3>1, Zenon
    <3> QED
      BY <2>1, <3>2, <3>3, Zenon DEF CamTypes
  <2>8. LitTypes /\ Spared /\ FrameAlone
    BY <2>1, <2>2, <2>3, <2>4, <2>5, <2>6, <2>7, EmptySeq DEF LitTypes, Spared, FrameAlone
  <2>9. \A what, v : cam[what] = v => Ends(what, v)
    BY <2>1, NoneIs DEF Ends, Lit!Told
  <2>10. /\ Ends("video", FALSE) /\ Ends("IR", FALSE) /\ Ends("red", FALSE) /\ Ends("green", FALSE)
        /\ Ends("blue", FALSE) /\ Ends("light", 0) /\ Ends("status", "off")
    BY <2>2, <2>3, <2>9
  <2> QED
    BY <2>1, <2>8, <2>10 DEF LitInv, Coming, HasDark, Dark
<1>2. LitInv /\ [Lit!LightsNext]_(Lit!lightVars) => LitInv'
  <2> SUFFICES ASSUME LitInv, [Lit!LightsNext]_(Lit!lightVars)
               PROVE  LitInv'
    OBVIOUS
  <2>1. CASE UNCHANGED Lit!lightVars
    <3>1. UNCHANGED <<family, cam, prefs, file, ir_on, last_threshold, todo, state, untold>>
      BY <2>1 DEF Lit!lightVars
    <3>2. LitTypes' /\ Spared' /\ FrameAlone'
      <4>1. Ours' = Ours
        BY <3>1 DEF Ours, Strange
      <4>2. LitTypes'
        BY <3>1, <4>1 DEF LitInv, LitTypes, CamTypes
      <4> QED
        BY <3>1, <4>2 DEF LitInv, Spared, FrameAlone
    <3>3. Coming'
      BY <3>1, NothingComes
    <3> QED
      BY <3>2, <3>3 DEF LitInv
  <2> QED
    BY <2>1, LitOpenKeeps, PauseKeeps, CloseKeeps, ResumeKeeps, LitGetFrameKeeps, SetPrefKeeps,
       NextPacketKeeps DEF Lit!LightsNext
<1> QED
  BY <1>1, <1>2, PTL DEF Lit!LightsSpec

\* The LEDs and the threshold of the camera are those of the driver's state and of the
\* preferences once all is sent (tir_hw.c, tir_driver.c).
THEOREM CameraFollows ==
  ASSUME Lit!LightsAssumption
  PROVE  Lit!LightsSpec => []Lit!CameraObeys
<1>1. LitInv => Lit!CameraObeys
  <2> SUFFICES ASSUME LitInv, todo = <<>>
               PROVE  Lit!CameraObeys
    BY DEF Lit!CameraObeys
  <2>1. \A what, v : Ends(what, v) => Lit!Told(what, v)
    <3>1. 1 .. Len(<<>>) = {}
      OBVIOUS
    <3> QED
      BY <3>1 DEF Ends, Settles
  <2>2. family # "tir5" => Lit!Told("light", 0) /\ Lit!Told("status", "off")
    BY DEF LitInv, Spared, Lit!Told
  <2>3. family = "tir5" => Lit!Told("red", FALSE) /\ Lit!Told("green", FALSE) /\ Lit!Told("blue", FALSE)
    BY DEF LitInv, Spared, Lit!Told
  <2>4. ASSUME state \in {"paused", "closed"}
        PROVE  /\ \A what \in {"video", "IR", "green", "blue"} : Lit!Told(what, FALSE)
               /\ Lit!Told("light", 0)
    <3>1. \A led \in HasDark \ {"red"} : Lit!Told(led, FALSE)
      BY <2>1, <2>4 DEF LitInv, Coming
    <3>2. CASE family = "tir5"
      <4>1. Lit!Told("light", 0)
        BY <2>1, <2>4, <3>2 DEF LitInv, Coming
      <4> QED
        BY <2>3, <3>1, <3>2, <4>1 DEF HasDark
    <3>3. CASE family # "tir5"
      BY <2>2, <3>1, <3>3 DEF HasDark, Dark
    <3> QED
      BY <3>2, <3>3
  <2>5. state = "closed" => Lit!Told("red", FALSE) /\ Lit!Told("status", "off")
    BY <2>1, <2>2, <2>3 DEF LitInv, Coming
  <2>6. state = "running" => Lit!Told("video", TRUE) /\ (family # "tir5" => Lit!Told("IR", ir_on))
    BY <2>1 DEF LitInv, Coming
  <2>7. ASSUME state = "running", last_threshold # -1, "threshold" \notin untold
        PROVE  /\ cam.threshold \in 30 .. 253
               /\ last_threshold \in 40 .. 253 => cam.threshold = last_threshold
    <3>1. cam.threshold = Lit!Limited(last_threshold)
      BY <2>1, <2>7 DEF LitInv, Coming, Lit!Told
    <3>2. last_threshold \in Int
      BY DEF LitInv, LitTypes
    <3> QED
      BY <3>1, <3>2 DEF Lit!Limited
  <2> QED
    BY <2>4, <2>5, <2>6, <2>7 DEF Lit!CameraObeys
<1> QED
  BY <1>1, LitInvariance, PTL

------------------------------------------------------------------------------
(***************************************************************************)
(* Stripes.  Two invariants: one about the scan and the lists, for all     *)
(* pictures, from which the types follow; and one about the pixels, for    *)
(* pictures with a dark last column, where what is drawn into the picture  *)
(* lies behind the scan.  The preblobs then are what the fields of the     *)
(* picture have in the part that was scanned, and what they have on the    *)
(* last two lines is in the ranges, where the next stripe looks for it.    *)
(***************************************************************************)

\* A stripe is being added; where the stripes that come next begin at the earliest.
Adding == stage \in {"old", "new", "match"} /\ row < Height
Start == IF stage # "dark" THEN stripe.hstart ELSE IF col < Width THEN col ELSE Width + 1

\* The stripe lies before the scan, on its line, and the ranges are of lines up to it.
InLine ==
  /\ stage = "lit" \/ Adding =>
       /\ stripe.vline = row /\ stripe.hstart <= stripe.hstop /\ stripe.hstop < col
       /\ stripe.points = stripe.hstop - stripe.hstart + (IF stage = "lit" THEN 0 ELSE 1)
  /\ Adding => stripe.hstop + 2 <= col \/ col = Width
  /\ vline <= row
  /\ stage = "lit" => row < Height /\ stripe.hstop + 1 = col
  /\ stage = "match" => row < Height /\ vline = row /\ turn >= 1
  /\ stage \in {"old", "new"} => vline # row /\ turn >= 1
  /\ stage \in {"report", "done"} =>
       row = Height /\ stripes = <<>> /\ newStripes = <<>> /\ size \in Sizes /\ turn >= 1
  /\ stage \in {"old", "new"} /\ row = Height => size \in Sizes

\* Ranges of a line are apart, which leaves room in the array.
Apart ==
  /\ \A i \in DOMAIN newStripes : newStripes[i].x2 >= 2 * (i - 1)
  /\ vline = row => \A i \in DOMAIN newStripes : newStripes[i].x2 + 2 <= Start

\* A new preblob is none of those there are.
Fresh == \A pb \in DOMAIN heap : pb[2] < row \/ (pb[2] = row /\ pb[1] < Start)

PbsOf(ranges) == {ranges[i].pb : i \in DOMAIN ranges}
\* The preblob that the stripe goes to.
Into == IF stage = "match" /\ rng # 0 THEN {stripes[rng].pb} ELSE {}

\* Matched are the preblobs of this line; store_preblobs clears that in the order of the ranges.
MatchedOnLine ==
  /\ stage \in {"dark", "lit", "old", "match"} =>
       \A pb \in DOMAIN heap : heap[pb].matched <=> pb \in PbsOf(newStripes) \cup Into
  /\ stage = "new" =>
       \A pb \in DOMAIN heap :
         heap[pb].matched => \E i \in DOMAIN newStripes : i >= turn /\ newStripes[i].pb = pb
  /\ stage = "match" => rng < turn /\ rng <= Len(stripes)
  /\ Adding /\ stage # "match" => rng = 0

\* No preblob is lost: it is in the list or on one of the two lines, and none is in the list
\* that can grow.
Kept ==
  /\ \A i, j \in DOMAIN preblobs : i # j => preblobs[i] # preblobs[j]
  /\ stage \in {"dark", "lit", "match"} =>
       Str!Listed \cap (PbsOf(stripes) \cup PbsOf(newStripes)) = {}
  /\ stage = "old" =>
       /\ Str!Listed \cap PbsOf(newStripes) = {}
       /\ \A i \in DOMAIN stripes :
            i < turn => stripes[i].pb \in Str!Listed \cup PbsOf(newStripes)
  /\ stage = "new" =>
       /\ PbsOf(stripes) \subseteq Str!Listed \cup PbsOf(newStripes)
       /\ ~Str!All => Str!Listed \cap PbsOf(newStripes) = {}
       /\ Str!All => \A i \in DOMAIN newStripes : i < turn => newStripes[i].pb \in Str!Listed
  /\ DOMAIN heap \subseteq Str!Listed \cup PbsOf(stripes) \cup PbsOf(newStripes)

ListInv == Str!TypeOK /\ InLine /\ Apart /\ Fresh /\ MatchedOnLine /\ Kept

\* The pixels of the picture behind the scan, those of the stripe, those of preblobs.
Passed == {q \in snapshot : q[2] < row \/ (q[2] = row /\ q[1] < col)}
Mine == IF stage = "lit" \/ Adding THEN Str!Own(stripe) ELSE {}
Owned(pb) == heap[pb].pixels
Grown(pb) == Owned(pb) \cup (IF pb \in Into THEN Mine ELSE {})

\* The scan sees the picture of the camera.
SeesPicture ==
  \A q \in Str!Pixels \ Passed :
     q[2] > row \/ (q[2] = row /\ q[1] >= col) => (q \in bright <=> q \in snapshot)

\* There is a dark pixel before a stripe and after it.
Edges ==
  /\ stage = "lit" \/ Adding => <<stripe.hstart - 1, row>> \notin snapshot
  /\ Adding => <<stripe.hstop + 1, row>> \notin snapshot /\ col = stripe.hstop + 2
  /\ stage = "dark" => <<col - 1, row>> \notin snapshot

\* The stripe is one piece, and its pixels are counted.
OnePiece ==
  stage = "lit" \/ Adding =>
    /\ Str!Connected(Mine)
    /\ IsFiniteSet(Mine)
    /\ Cardinality(Mine) = stripe.hstop - stripe.hstart + 1

\* The stripe and the preblobs share what the scan has passed.
Shared ==
  /\ \A q : q \in Passed <=> q \in Mine \/ \E pb \in DOMAIN heap : q \in Owned(pb)
  /\ \A pb \in DOMAIN heap : Owned(pb) \cap Mine = {}

\* Preblobs are pieces of fields, and no two are of the same one, as far as it was seen.
Pieces ==
  /\ \A pb \in DOMAIN heap :
       /\ pb \in Owned(pb)
       /\ Str!Connected(Grown(pb))
       /\ IsFiniteSet(Owned(pb)) /\ heap[pb].points = Cardinality(Owned(pb))
  /\ \A pb, pe \in DOMAIN heap :
       pb # pe => \A p \in Owned(pb), q \in Owned(pe) : ~Str!Near(p, q)

\* What preblobs have on the last two lines is in the ranges, and the ranges have no more.
Covers(ranges, line) ==
  /\ \A pb \in DOMAIN heap, q \in Str!Pixels :
       q \in Owned(pb) /\ q[2] = line =>
         \E i \in DOMAIN ranges : ranges[i].pb = pb /\ ranges[i].x1 <= q[1] /\ q[1] <= ranges[i].x2
  /\ \A i \in DOMAIN ranges :
       /\ ranges[i].x1 <= ranges[i].x2
       /\ \A c \in ranges[i].x1 .. ranges[i].x2 : <<c, line>> \in Owned(ranges[i].pb)
OnLines ==
  stage \notin {"report", "done"} =>
    /\ \A pb \in DOMAIN heap : \A q \in Owned(pb) : q[2] <= vline
    /\ Covers(stripes, vline - 1) /\ Covers(newStripes, vline)

\* The ranges that were looked at and touch the stripe are of one preblob.
Touched ==
  stage = "match" =>
    /\ \A i \in DOMAIN stripes :
         i < turn /\ Str!InRange(stripe, stripes[i]) => rng # 0 /\ stripes[i].pb = stripes[rng].pb
    /\ rng # 0 => Str!InRange(stripe, stripes[rng])

PixelInv ==
  /\ SeesPicture /\ Edges /\ OnePiece /\ Touched /\ OnLines
  /\ stage # "done" => Shared /\ Pieces

\* The blobs are what the list has before the turn, as far as it fits.
BlobOf(pb) == [pixels |-> Owned(pb), points |-> heap[pb].points]
ReportInv ==
  /\ stage \notin {"report", "done"} => blobs = <<>>
  /\ stage = "report" =>
       /\ \A i \in DOMAIN blobs :
            \E j \in DOMAIN preblobs : j < turn /\ blobs[i] = BlobOf(preblobs[j])
       /\ \A i \in DOMAIN blobs : Str!Fits(blobs[i].points)
       /\ \A i, j \in DOMAIN blobs : i # j => blobs[i].pixels # blobs[j].pixels
       /\ \A j \in DOMAIN preblobs :
            j < turn /\ Str!Fits(heap[preblobs[j]].points) =>
              Owned(preblobs[j]) \in Str!Reported \/ Len(blobs) = MaxBlobs

StrInv == ListInv /\ (Str!Inside => PixelInv /\ ReportInv /\ Str!BlobsAreFields)

------------------------------------------------------------------------------
\* What is a number, and within which bounds.
LEMMA StrNumbers ==
  ASSUME Str!PictureAssumption, Str!TypeOK
  PROVE  /\ Width \in Nat \ {0} /\ Height \in Nat \ {0}
         /\ col \in 0 .. Width /\ row \in 0 .. Height /\ vline \in -2 .. Height - 1
         /\ turn \in Nat /\ rng \in Nat /\ stage \in Str!Stages
         /\ stripe.vline \in 0 .. Height - 1 /\ stripe.points \in 0 .. Width
         /\ stripe.hstart \in 0 .. Width - 1 /\ stripe.hstop \in 0 .. Width - 1
BY DEF Str!PictureAssumption, Str!TypeOK, Str!Stripe

\* The ranges and the preblobs they name.
LEMMA StrRanges ==
  ASSUME Str!TypeOK
  PROVE  /\ DOMAIN stripes = 1 .. Len(stripes) /\ Len(stripes) \in Nat
         /\ DOMAIN newStripes = 1 .. Len(newStripes) /\ Len(newStripes) \in Nat
         /\ \A i \in DOMAIN stripes :
              /\ stripes[i] \in Str!RangesOf(DOMAIN heap)
              /\ stripes[i].x1 \in 0 .. Width - 1 /\ stripes[i].x2 \in 0 .. Width - 1
              /\ stripes[i].pb \in DOMAIN heap
         /\ \A i \in DOMAIN newStripes :
              /\ newStripes[i] \in Str!RangesOf(DOMAIN heap)
              /\ newStripes[i].x1 \in 0 .. Width - 1 /\ newStripes[i].x2 \in 0 .. Width - 1
              /\ newStripes[i].pb \in DOMAIN heap
<1>1. stripes \in Seq(Str!RangesOf(DOMAIN heap)) /\ newStripes \in Seq(Str!RangesOf(DOMAIN heap))
  BY DEF Str!TypeOK
<1>2. \A r \in Str!RangesOf(DOMAIN heap) :
         r.x1 \in 0 .. Width - 1 /\ r.x2 \in 0 .. Width - 1 /\ r.pb \in DOMAIN heap
  BY DEF Str!RangesOf
<1> QED
  BY <1>1, <1>2

\* The blobs in the list are in the heap, with pixels of the picture.
LEMMA StrPreblobs ==
  ASSUME Str!TypeOK
  PROVE  /\ DOMAIN preblobs = 1 .. Len(preblobs) /\ Len(preblobs) \in Nat
         /\ \A i \in DOMAIN preblobs : preblobs[i] \in DOMAIN heap
         /\ \A pb \in DOMAIN heap :
              /\ pb[1] \in 0 .. Width - 1 /\ pb[2] \in 0 .. Height - 1 /\ pb = <<pb[1], pb[2]>>
              /\ heap[pb].pixels \subseteq Str!Pixels /\ heap[pb].points \in Nat
              /\ heap[pb].matched \in BOOLEAN
<1>1. preblobs \in Seq(DOMAIN heap) /\ DOMAIN heap \subseteq Str!Pixels
  BY DEF Str!TypeOK
<1>2. heap \in [DOMAIN heap -> [pixels : SUBSET Str!Pixels, points : Nat, matched : BOOLEAN]]
  BY DEF Str!TypeOK
<1>3. \A q \in Str!Pixels : q[1] \in 0 .. Width - 1 /\ q[2] \in 0 .. Height - 1 /\ q = <<q[1], q[2]>>
  BY DEF Str!Pixels
<1>4. \A pb \in DOMAIN heap : heap[pb] \in [pixels : SUBSET Str!Pixels, points : Nat, matched : BOOLEAN]
  BY <1>2
<1> QED
  BY <1>1, <1>3, <1>4

\* The lists are right at first,
LEMMA StrListInit == ASSUME Str!PictureAssumption, Str!Init PROVE ListInv
<1> USE DEF Str!PictureAssumption, Str!Init
<1>1. Str!NoStripe \in Str!Stripe
  BY DEF Str!NoStripe, Str!Stripe
<1>2. snapshot \subseteq Str!Pixels
  OBVIOUS
<1>3. 0 <= Width \div 2 + 1
  OBVIOUS
<1>4. Str!TypeOK
  BY <1>1, <1>2, <1>3 DEF Str!TypeOK, Str!Stages
<1>5. InLine /\ Apart /\ Fresh /\ MatchedOnLine
  BY DEF InLine, Apart, Fresh, MatchedOnLine, Adding
<1>6. Kept
  BY DEF Kept, PbsOf, Str!Listed
<1> QED
  BY <1>4, <1>5, <1>6 DEF ListInv

\* after a bright pixel,
LEMMA StrListLit == ASSUME Str!PictureAssumption, ListInv, Str!Lit PROVE ListInv'
<1> USE DEF Str!lines
<1>1. /\ stage \in {"dark", "lit"} /\ stage' = "lit" /\ row' = row /\ col' = col + 1 /\ vline' = vline
      /\ <<col, row>> \in bright /\ heap' = heap /\ preblobs' = preblobs
      /\ stripes' = stripes /\ newStripes' = newStripes /\ bright' = bright
      /\ snapshot' = snapshot /\ turn' = turn /\ rng' = rng /\ size' = size /\ blobs' = blobs
  BY DEF Str!Lit
<1>2. col \in 0 .. Width - 1 /\ row \in 0 .. Height - 1 /\ Width \in Nat /\ Height \in Nat
  BY <1>1 DEF ListInv, Str!TypeOK, Str!Pixels, Str!PictureAssumption
<1>3. Str!TypeOK /\ InLine
  BY DEF ListInv
<1>4. stage = "lit" => stripe.hstop + 1 = col /\ stripe.hstart <= stripe.hstop /\ stripe.vline = row
                       /\ stripe.points = stripe.hstop - stripe.hstart
  BY <1>3, StrNumbers DEF InLine
<1>5. /\ stripe' \in Str!Stripe /\ stripe'.vline = row /\ stripe'.hstop = col
      /\ stripe'.hstart = (IF stage = "lit" THEN stripe.hstart ELSE col)
      /\ stripe'.hstart <= col /\ stripe'.points = stripe'.hstop - stripe'.hstart
  <2>1. CASE stage = "lit"
    <3>1. stripe' = [stripe EXCEPT !.hstop = col, !.points = @ + 1]
      BY <2>1 DEF Str!Lit
    <3>2. stripe \in Str!Stripe
      BY <1>3 DEF Str!TypeOK
    <3>3. stripe.points \in Nat /\ stripe.hstart \in 0 .. Width - 1 /\ stripe.hstop \in Nat
      BY <1>3, StrNumbers
    <3>4. stripe.points + 1 \in 0 .. Width
      BY <1>2, <1>4, <2>1, <3>3
    <3>5. /\ stripe'.hstop = col /\ stripe'.hstart = stripe.hstart /\ stripe'.vline = stripe.vline
          /\ stripe'.points = stripe.points + 1 /\ stripe' \in Str!Stripe
      BY <1>2, <3>1, <3>2, <3>4 DEF Str!Stripe
    <3> QED
      BY <1>2, <1>4, <2>1, <3>3, <3>5
  <2>2. CASE stage # "lit"
    BY <1>2, <2>2 DEF Str!Lit, Str!Stripe
  <2> QED
    BY <2>1, <2>2
<1>6. Str!TypeOK'
  <2>1. stage' \in Str!Stages /\ col' \in 0 .. Width
    BY <1>1, <1>2 DEF Str!Stages
  <2> QED
    BY <1>1, <1>3, <1>5, <2>1 DEF Str!TypeOK, Str!RangesOf
<1>7. InLine'
  <2>1. stripe'.points = stripe'.hstop - stripe'.hstart + 0
    BY <1>2, <1>5 DEF Str!Stripe
  <2>2. vline <= row
    BY <1>3 DEF InLine
  <2> QED
    BY <1>1, <1>2, <1>5, <2>1, <2>2 DEF InLine, Adding
<1>8. Start' = Start
  BY <1>1, <1>2, <1>5 DEF Start
<1>9. Apart' /\ Fresh'
  BY <1>1, <1>8 DEF ListInv, Apart, Fresh
<1>10. MatchedOnLine' /\ Kept'
  BY <1>1 DEF ListInv, MatchedOnLine, Kept, PbsOf, Into, Str!Listed, Adding
<1> QED
  BY <1>6, <1>7, <1>9, <1>10 DEF ListInv

\* after a dark one,
LEMMA StrListDark == ASSUME Str!PictureAssumption, ListInv, Str!Dark PROVE ListInv'
<1> USE DEF Str!lines
<1>1. /\ stage = "dark" /\ stage' = "dark" /\ vline' = vline /\ row < Height /\ heap' = heap
      /\ preblobs' = preblobs /\ stripes' = stripes /\ newStripes' = newStripes
  BY DEF Str!Dark
<1>2. Str!TypeOK /\ InLine
  BY DEF ListInv
<1>3. /\ col \in 0 .. Width /\ row \in 0 .. Height - 1 /\ col' \in 0 .. Width /\ row' \in 0 .. Height
      /\ \/ col < Width /\ col' = col + 1 /\ row' = row
         \/ col = Width /\ col' = 0 /\ row' = row + 1
  BY <1>1, <1>2, StrNumbers DEF Str!Dark
<1>4. vline \in Int /\ vline <= row /\ Width \in Nat
  BY <1>2, StrNumbers DEF InLine
<1>5. Str!TypeOK'
  BY <1>1, <1>2, <1>3 DEF Str!TypeOK, Str!RangesOf, Str!Dark
<1>6. InLine'
  BY <1>1, <1>3, <1>4 DEF InLine, Adding
<1>7. (row' = row /\ Start' >= Start) \/ row' = row + 1
  BY <1>1, <1>3, <1>4 DEF Start
<1>8. Start \in Int /\ Start' \in Int
  BY <1>1, <1>3, <1>4 DEF Start
<1>9. Apart'
  BY <1>1, <1>2, <1>3, <1>4, <1>7, <1>8, StrRanges DEF ListInv, Apart
<1>10. Fresh'
  BY <1>1, <1>2, <1>3, <1>7, <1>8, StrPreblobs DEF ListInv, Fresh
<1>11. MatchedOnLine' /\ Kept'
  BY <1>1 DEF ListInv, MatchedOnLine, Kept, PbsOf, Into, Str!Listed, Adding
<1> QED
  BY <1>5, <1>6, <1>9, <1>10, <1>11 DEF ListInv

\* at the end of a line,
LEMMA StrListEnds == ASSUME Str!PictureAssumption, ListInv, Str!Ends PROVE ListInv'
<1> USE DEF Str!lines
<1>1. /\ stage = "lit" /\ stage' \in {"match", "old"} /\ vline' = vline /\ row' = row /\ turn' = 1
      /\ (stage' = "match" <=> stripe.vline = vline)
      /\ rng' = 0 /\ stripe' = [stripe EXCEPT !.points = @ + 1]
      /\ col' = IF col < Width THEN col + 1 ELSE col
      /\ heap' = heap /\ preblobs' = preblobs /\ stripes' = stripes /\ newStripes' = newStripes
  BY DEF Str!Ends
<1>2. Str!TypeOK /\ InLine
  BY DEF ListInv
<1>3. /\ stripe.vline = row /\ stripe.hstop + 1 = col /\ row < Height
      /\ stripe.hstart <= stripe.hstop /\ vline <= row
      /\ stripe.points = stripe.hstop - stripe.hstart
  BY <1>1, <1>2, StrNumbers DEF InLine
<1>4. /\ col \in 0 .. Width /\ row \in 0 .. Height - 1 /\ vline \in Int /\ Width \in Nat
      /\ stripe.hstart \in 0 .. Width - 1 /\ stripe.hstop \in 0 .. Width - 1
  BY <1>2, <1>3, StrNumbers
<1>5. /\ col' \in 0 .. Width /\ col' >= col /\ (col' = col + 1 \/ col' = Width)
  BY <1>1, <1>4
<1>6. /\ stripe' \in Str!Stripe /\ stripe'.vline = row /\ stripe'.hstop = stripe.hstop
      /\ stripe'.hstart = stripe.hstart /\ stripe'.points = stripe.hstop - stripe.hstart + 1
  <2>1. stripe \in Str!Stripe
    BY <1>2 DEF Str!TypeOK
  <2>2. stripe.points + 1 \in 0 .. Width
    BY <1>3, <1>4
  <2>3. /\ stripe'.hstop = stripe.hstop /\ stripe'.hstart = stripe.hstart
        /\ stripe'.vline = stripe.vline
        /\ stripe'.points = stripe.points + 1 /\ stripe' \in Str!Stripe
    BY <1>1, <2>1, <2>2 DEF Str!Stripe
  <2> QED
    BY <1>3, <2>3
<1>7. Str!TypeOK'
  <2>1. bright' \subseteq Str!Pixels
    BY <1>2 DEF Str!TypeOK, Str!Ends, Str!Drawn
  <2>2. stage' \in Str!Stages /\ snapshot' = snapshot /\ size' = size /\ blobs' = blobs
    BY <1>1 DEF Str!Stages, Str!Ends
  <2> QED
    BY <1>1, <1>2, <1>4, <1>5, <1>6, <2>1, <2>2 DEF Str!TypeOK, Str!RangesOf
<1>8. InLine'
  BY <1>1, <1>3, <1>4, <1>5, <1>6 DEF InLine, Adding
<1>9. Start' = Start
  BY <1>1, <1>6 DEF Start
<1>10. Apart' /\ Fresh'
  BY <1>1, <1>9 DEF ListInv, Apart, Fresh
<1>11. MatchedOnLine'
  <2>1. rng' < turn' /\ rng' <= Len(stripes')
    BY <1>1, <1>2, StrRanges
  <2>2. Into' = {}
    BY <1>1 DEF Into
  <2>3. \A pb \in DOMAIN heap : heap[pb].matched <=> pb \in PbsOf(newStripes)
    BY <1>1 DEF ListInv, MatchedOnLine, Into
  <2> QED
    BY <1>1, <2>1, <2>2, <2>3 DEF MatchedOnLine, PbsOf
<1>12. Kept'
  <2>1. ~\E i \in DOMAIN stripes : i < turn'
    BY <1>1, <1>2, StrRanges
  <2>2. Str!Listed' = Str!Listed /\ PbsOf(stripes') = PbsOf(stripes)
        /\ PbsOf(newStripes') = PbsOf(newStripes)
    BY <1>1 DEF Str!Listed
  <2>3. Kept
    BY DEF ListInv
  <2>4. /\ \A i, j \in DOMAIN preblobs : i # j => preblobs[i] # preblobs[j]
        /\ Str!Listed \cap (PbsOf(stripes) \cup PbsOf(newStripes)) = {}
        /\ DOMAIN heap \subseteq Str!Listed \cup PbsOf(stripes) \cup PbsOf(newStripes)
    BY <1>1, <2>3 DEF Kept
  <2> QED
    BY <1>1, <2>1, <2>2, <2>4 DEF Kept
<1> QED
  BY <1>7, <1>8, <1>10, <1>11, <1>12 DEF ListInv

\* An element is put at the end of the list, once.
LEMMA StrAddElement ==
  ASSUME Str!TypeOK, Kept, NEW pb \in DOMAIN heap, preblobs' = Str!AddElement(pb)
  PROVE  /\ preblobs' \in Seq(DOMAIN heap)
         /\ Str!Listed' = Str!Listed \cup {pb}
         /\ \A i, j \in DOMAIN preblobs' : i # j => preblobs'[i] # preblobs'[j]
<1>1. preblobs \in Seq(DOMAIN heap) /\ \A i, j \in DOMAIN preblobs : i # j => preblobs[i] # preblobs[j]
  BY DEF Str!TypeOK, Kept
<1>2. CASE pb \in Str!Listed
  <2>1. preblobs' = preblobs
    BY <1>2 DEF Str!AddElement
  <2> QED
    BY <1>1, <1>2, <2>1 DEF Str!Listed
<1>3. CASE pb \notin Str!Listed
  <2>1. preblobs' = Append(preblobs, pb)
    BY <1>3 DEF Str!AddElement
  <2>2. /\ preblobs' \in Seq(DOMAIN heap) /\ DOMAIN preblobs = 1 .. Len(preblobs)
        /\ Len(preblobs) \in Nat
        /\ DOMAIN preblobs' = 1 .. Len(preblobs) + 1
        /\ \A i \in 1 .. Len(preblobs) : preblobs'[i] = preblobs[i]
        /\ preblobs'[Len(preblobs) + 1] = pb
    BY <1>1, <2>1
  <2>3. 1 .. Len(preblobs) + 1 = DOMAIN preblobs \cup {Len(preblobs) + 1}
    BY <2>2
  <2>4. Str!Listed' = Str!Listed \cup {pb}
    BY <2>2, <2>3 DEF Str!Listed
  <2>5. \A i \in DOMAIN preblobs : preblobs[i] # pb
    BY <1>3 DEF Str!Listed
  <2> QED
    BY <1>1, <2>2, <2>3, <2>4, <2>5
<1> QED
  BY <1>2, <1>3

\* Stripes, scan and heap stay the same.
LEMMA StrListStoreOld == ASSUME Str!PictureAssumption, ListInv, Str!StoreOld PROVE ListInv'
<1> USE DEF Str!lines, Str!scanned
<1>1. /\ stage = "old" /\ stage' \in {"old", "new"} /\ row' = row /\ col' = col /\ vline' = vline
      /\ heap' = heap /\ stripes' = stripes /\ newStripes' = newStripes /\ bright' = bright
      /\ snapshot' = snapshot /\ rng' = rng /\ size' = size /\ blobs' = blobs /\ stripe' = stripe
      /\ turn' \in {turn + 1, 1}
  BY DEF Str!StoreOld
<1>2. Str!TypeOK /\ InLine /\ Kept /\ MatchedOnLine
  BY DEF ListInv
<1>3. turn >= 1 /\ turn \in Nat /\ row \in 0 .. Height /\ Height \in Nat
  BY <1>1, <1>2, StrNumbers DEF InLine
<1>4. \A i \in DOMAIN stripes : stripes[i].pb \in DOMAIN heap
  BY <1>2, StrRanges
<1>5. /\ preblobs' \in Seq(DOMAIN heap)
      /\ \A i, j \in DOMAIN preblobs' : i # j => preblobs'[i] # preblobs'[j]
      /\ Str!Listed' = Str!Listed
           \cup (IF turn \in DOMAIN stripes /\ ~heap[stripes[turn].pb].matched
                 THEN {stripes[turn].pb} ELSE {})
  <2>1. CASE turn \in DOMAIN stripes /\ ~heap[stripes[turn].pb].matched
    <3>1. preblobs' = Str!AddElement(stripes[turn].pb)
      BY <2>1 DEF Str!StoreOld
    <3> QED
      BY <1>2, <1>4, <2>1, <3>1, StrAddElement
  <2>2. CASE ~(turn \in DOMAIN stripes /\ ~heap[stripes[turn].pb].matched)
    <3>1. preblobs' = preblobs
      BY <2>2 DEF Str!StoreOld
    <3> QED
      BY <1>2, <2>2, <3>1 DEF Str!TypeOK, Kept, Str!Listed
  <2> QED
    BY <2>1, <2>2
<1>6. Str!TypeOK'
  <2>1. stage' \in Str!Stages /\ turn' \in Nat
    BY <1>1, <1>3 DEF Str!Stages
  <2> QED
    BY <1>1, <1>2, <1>5, <2>1 DEF Str!TypeOK, Str!RangesOf
<1>7. InLine'
  <2>1. turn' >= 1
    BY <1>1, <1>3
  <2>2. stage' # "lit" /\ stage # "lit"
    BY <1>1
  <2>3. Adding' <=> Adding
    BY <1>1 DEF Adding
  <2> QED
    BY <1>1, <1>2, <2>1, <2>2, <2>3 DEF InLine
<1>8. Start' = Start
  BY <1>1 DEF Start
<1>9. Apart' /\ Fresh'
  BY <1>1, <1>8 DEF ListInv, Apart, Fresh
<1>10. /\ Str!Listed \cap PbsOf(newStripes) = {}
       /\ \A i \in DOMAIN stripes :
            i < turn => stripes[i].pb \in Str!Listed \cup PbsOf(newStripes)
       /\ DOMAIN heap \subseteq Str!Listed \cup PbsOf(stripes) \cup PbsOf(newStripes)
  BY <1>1, <1>2 DEF Kept
<1>11. \A pb \in DOMAIN heap : heap[pb].matched <=> pb \in PbsOf(newStripes)
  BY <1>1, <1>2 DEF MatchedOnLine, Into
<1>12. PbsOf(stripes') = PbsOf(stripes) /\ PbsOf(newStripes') = PbsOf(newStripes)
  BY <1>1
<1>13. Str!Listed' \cap PbsOf(newStripes) = {}
  BY <1>4, <1>5, <1>10, <1>11
<1>14. Adding' => rng' = 0
  BY <1>1, <1>2 DEF MatchedOnLine, Adding
<1>15. CASE turn \in DOMAIN stripes
  <2>1. stage' = "old" /\ turn' = turn + 1
    BY <1>15 DEF Str!StoreOld
  <2>2. MatchedOnLine'
    <3>1. Into' = {}
      BY <2>1 DEF Into
    <3> QED
      BY <1>1, <1>11, <1>12, <1>14, <2>1, <3>1 DEF MatchedOnLine
  <2>3. ASSUME NEW i \in DOMAIN stripes, i < turn + 1
        PROVE  stripes[i].pb \in Str!Listed' \cup PbsOf(newStripes)
    <3>1. i < turn \/ i = turn
      BY <1>2, <1>3, <2>3, StrRanges
    <3> QED
      BY <1>4, <1>5, <1>10, <1>11, <1>15, <3>1
  <2>4. Kept'
    BY <1>1, <1>5, <1>10, <1>12, <1>13, <2>1, <2>3 DEF Kept
  <2> QED
    BY <1>6, <1>7, <1>9, <2>2, <2>4 DEF ListInv
<1>16. CASE turn \notin DOMAIN stripes
  <2>1. stage' = "new" /\ turn' = 1
    BY <1>16 DEF Str!StoreOld
  <2>2. \A i \in DOMAIN stripes : i < turn
    BY <1>2, <1>3, <1>16, StrRanges
  <2>3. PbsOf(stripes) \subseteq Str!Listed' \cup PbsOf(newStripes)
    BY <1>5, <1>10, <2>2 DEF PbsOf
  <2>4. \A i \in DOMAIN newStripes : ~(i < 1) /\ i >= 1
    BY <1>2, StrRanges
  <2>5. MatchedOnLine'
    BY <1>1, <1>11, <1>14, <2>1, <2>4 DEF MatchedOnLine, PbsOf
  <2>6. Kept'
    BY <1>1, <1>5, <1>10, <1>12, <1>13, <2>1, <2>3, <2>4 DEF Kept
  <2> QED
    BY <1>6, <1>7, <1>9, <2>5, <2>6 DEF ListInv
<1> QED
  BY <1>15, <1>16

\* with a new blob,
LEMMA StrListStoreNew == ASSUME Str!PictureAssumption, ListInv, Str!StoreNew PROVE ListInv'
<1> USE DEF Str!lines, Str!scanned
<1>1. /\ stage = "new" /\ stage' = "new" /\ row' = row /\ col' = col /\ vline' = vline
      /\ stripes' = stripes /\ newStripes' = newStripes /\ bright' = bright
      /\ snapshot' = snapshot /\ rng' = rng /\ size' = size /\ blobs' = blobs /\ stripe' = stripe
      /\ turn' = turn + 1 /\ turn \in DOMAIN newStripes
  BY DEF Str!StoreNew
<1>2. Str!TypeOK /\ InLine /\ Kept /\ MatchedOnLine
  BY DEF ListInv
<1>3. turn >= 1 /\ turn \in Nat /\ row \in 0 .. Height /\ Height \in Nat
  BY <1>1, <1>2, StrNumbers DEF InLine
<1> DEFINE pb == newStripes[turn].pb
<1>4. pb \in DOMAIN heap /\ pb \in PbsOf(newStripes)
  BY <1>1, <1>2, StrRanges DEF PbsOf
<1>5. heap' = [heap EXCEPT ![pb].matched = FALSE]
  BY DEF Str!StoreNew
<1>6. heap \in [DOMAIN heap -> [pixels : SUBSET Str!Pixels, points : Nat, matched : BOOLEAN]]
  BY <1>2 DEF Str!TypeOK
<1> HIDE DEF pb
<1>7. /\ DOMAIN heap' = DOMAIN heap
      /\ heap' \in [DOMAIN heap -> [pixels : SUBSET Str!Pixels, points : Nat, matched : BOOLEAN]]
      /\ ~heap'[pb].matched
      /\ \A p \in DOMAIN heap : p # pb => heap'[p] = heap[p]
  BY <1>4, <1>5, <1>6
<1>8. /\ preblobs' \in Seq(DOMAIN heap)
      /\ \A i, j \in DOMAIN preblobs' : i # j => preblobs'[i] # preblobs'[j]
      /\ Str!Listed' = Str!Listed \cup (IF Str!All THEN {pb} ELSE {})
  <2>1. CASE Str!All
    <3>1. preblobs' = Str!AddElement(pb)
      BY <2>1 DEF Str!StoreNew, pb
    <3> QED
      BY <1>2, <1>4, <2>1, <3>1, StrAddElement
  <2>2. CASE ~Str!All
    <3>1. preblobs' = preblobs
      BY <2>2 DEF Str!StoreNew
    <3> QED
      BY <1>2, <2>2, <3>1 DEF Str!TypeOK, Kept, Str!Listed
  <2> QED
    BY <2>1, <2>2
<1>9. Str!TypeOK'
  <2>1. heap' \in [DOMAIN heap' -> [pixels : SUBSET Str!Pixels, points : Nat, matched : BOOLEAN]]
    BY <1>7
  <2>2. DOMAIN heap' \subseteq Str!Pixels /\ preblobs' \in Seq(DOMAIN heap')
    BY <1>2, <1>7, <1>8 DEF Str!TypeOK
  <2>3. /\ stripes' \in Seq(Str!RangesOf(DOMAIN heap'))
        /\ newStripes' \in Seq(Str!RangesOf(DOMAIN heap'))
    BY <1>1, <1>2, <1>7 DEF Str!TypeOK
  <2>4. turn' \in Nat
    BY <1>1, <1>3
  <2> QED
    BY <1>1, <1>2, <2>1, <2>2, <2>3, <2>4 DEF Str!TypeOK, Str!RangesOf
<1>10. InLine'
  BY <1>1, <1>2, <1>3 DEF InLine, Adding
<1>11. Start' = Start
  BY <1>1 DEF Start
<1>12. Apart' /\ Fresh'
  BY <1>1, <1>7, <1>11 DEF ListInv, Apart, Fresh
<1>13. MatchedOnLine'
  <2>1. ASSUME NEW p \in DOMAIN heap, heap'[p].matched
        PROVE  \E i \in DOMAIN newStripes : i >= turn + 1 /\ newStripes[i].pb = p
    <3>1. p # pb /\ heap[p].matched
      BY <1>7, <2>1
    <3>2. PICK i \in DOMAIN newStripes : i >= turn /\ newStripes[i].pb = p
      BY <1>1, <1>2, <3>1 DEF MatchedOnLine
    <3>3. i # turn
      BY <3>1, <3>2 DEF pb
    <3>4. i >= turn + 1
      BY <1>2, <1>3, <3>2, <3>3, StrRanges
    <3> QED
      BY <3>2, <3>4
  <2>2. Adding' => rng' = 0
    BY <1>1, <1>2 DEF MatchedOnLine, Adding
  <2> QED
    BY <1>1, <1>7, <2>1, <2>2 DEF MatchedOnLine
<1>14. /\ PbsOf(stripes) \subseteq Str!Listed \cup PbsOf(newStripes)
       /\ ~Str!All => Str!Listed \cap PbsOf(newStripes) = {}
       /\ Str!All => \A i \in DOMAIN newStripes : i < turn => newStripes[i].pb \in Str!Listed
       /\ DOMAIN heap \subseteq Str!Listed \cup PbsOf(stripes) \cup PbsOf(newStripes)
  BY <1>1, <1>2 DEF Kept
<1>15. /\ PbsOf(stripes') = PbsOf(stripes) /\ PbsOf(newStripes') = PbsOf(newStripes)
       /\ Str!All' <=> Str!All
  BY <1>1 DEF Str!All, Str!Over
<1>16. ASSUME Str!All, NEW i \in DOMAIN newStripes, i < turn + 1
       PROVE  newStripes[i].pb \in Str!Listed'
  <2>1. i < turn \/ i = turn
    BY <1>2, <1>3, <1>16, StrRanges
  <2> QED
    BY <1>8, <1>14, <1>16, <2>1 DEF pb
<1>17. Kept'
  BY <1>1, <1>7, <1>8, <1>14, <1>15, <1>16 DEF Kept
<1> QED
  BY <1>9, <1>10, <1>12, <1>13, <1>17 DEF ListInv

\* on the next line,
LEMMA StrListNextLine == ASSUME Str!PictureAssumption, ListInv, Str!NextLine PROVE ListInv'
<1> USE DEF Str!scanned
<1>1. /\ stage = "new" /\ row' = row /\ col' = col /\ heap' = heap /\ preblobs' = preblobs
      /\ bright' = bright /\ snapshot' = snapshot /\ rng' = rng /\ size' = size
      /\ blobs' = blobs /\ stripe' = stripe /\ turn' = 1 /\ turn \notin DOMAIN newStripes
      /\ newStripes' = <<>> /\ stripes' = IF Str!All THEN <<>> ELSE newStripes
      /\ vline' = IF Str!Over THEN -2 ELSE stripe.vline
      /\ stage' = IF Str!Over THEN "report" ELSE "match"
  BY DEF Str!NextLine
<1>2. Str!TypeOK /\ InLine /\ Kept /\ MatchedOnLine
  BY DEF ListInv
<1>3. turn >= 1 /\ turn \in Nat /\ row \in 0 .. Height /\ Height \in Nat /\ vline <= row
      /\ stripe.vline \in 0 .. Height - 1
  BY <1>1, <1>2, StrNumbers DEF InLine
<1>4. ~Str!Over => stripe.vline = row /\ row < Height /\ Adding
  BY <1>1, <1>2, <1>3 DEF InLine, Adding, Str!Over
<1>5. rng = 0 \/ rng # 0
  OBVIOUS
<1>6. Str!TypeOK'
  <2>1. stage' \in Str!Stages /\ vline' \in -2 .. Height - 1
    <3>1. CASE Str!Over
      BY <1>1, <1>3, <3>1 DEF Str!Stages
    <3>2. CASE ~Str!Over
      BY <1>1, <1>3, <3>2 DEF Str!Stages
    <3> QED
      BY <3>1, <3>2
  <2>2. stripes' \in Seq(Str!RangesOf(DOMAIN heap)) /\ newStripes' \in Seq(Str!RangesOf(DOMAIN heap))
    <3>1. newStripes \in Seq(Str!RangesOf(DOMAIN heap))
      BY <1>2 DEF Str!TypeOK
    <3> DEFINE S == Str!RangesOf(DOMAIN heap)
    <3>2. <<>> \in Seq(S)
      OBVIOUS
    <3>3. newStripes' \in Seq(S)
      BY <1>1, <3>2
    <3>4. stripes' \in {<<>>, newStripes}
      BY <1>1
    <3> QED
      BY <3>1, <3>2, <3>3, <3>4
  <2>3. Len(stripes') <= Width \div 2 + 1 /\ Len(newStripes') <= Width \div 2 + 1
    <3>1. Len(newStripes) <= Width \div 2 + 1 /\ Len(newStripes) >= 0 /\ Len(newStripes) \in Int
      BY <1>2, StrRanges DEF Str!TypeOK
    <3>2. 0 <= Width \div 2 + 1
      BY DEF Str!PictureAssumption
    <3> QED
      BY <1>1, <3>1, <3>2
  <2> QED
    BY <1>1, <1>2, <2>1, <2>2, <2>3 DEF Str!TypeOK, Str!RangesOf
<1>7. /\ PbsOf(stripes) \subseteq Str!Listed \cup PbsOf(newStripes)
      /\ ~Str!All => Str!Listed \cap PbsOf(newStripes) = {}
      /\ Str!All => PbsOf(newStripes) \subseteq Str!Listed
      /\ DOMAIN heap \subseteq Str!Listed \cup PbsOf(stripes) \cup PbsOf(newStripes)
      /\ \A i, j \in DOMAIN preblobs : i # j => preblobs[i] # preblobs[j]
  <2>1. \A i \in DOMAIN newStripes : i < turn
    BY <1>1, <1>2, <1>3, StrRanges
  <2> QED
    BY <1>1, <1>2, <2>1 DEF Kept, PbsOf
<1>8. /\ PbsOf(stripes') = (IF Str!All THEN {} ELSE PbsOf(newStripes)) /\ PbsOf(newStripes') = {}
      /\ Str!Listed' = Str!Listed
  BY <1>1 DEF PbsOf, Str!Listed
<1>9. \A pb \in DOMAIN heap : ~heap[pb].matched
  <2>1. \A i \in DOMAIN newStripes : ~(i >= turn)
    BY <1>1, <1>2, <1>3, StrRanges
  <2> QED
    BY <1>1, <1>2, <2>1 DEF MatchedOnLine
<1>10. Kept'
  BY <1>1, <1>7, <1>8 DEF Kept
<1>11. Fresh'
  <2>1. Start' = Start
    BY <1>1 DEF Start
  <2> QED
    BY <1>1, <2>1 DEF ListInv, Fresh
<1>12. Apart'
  BY <1>1 DEF Apart
<1>13. InLine'
  <2>1. CASE Str!Over
    <3>1. size \in Sizes /\ row = Height /\ stripes' = <<>>
      BY <1>1, <1>2, <2>1 DEF InLine, Str!Over, Str!All
    <3> QED
      BY <1>1, <1>3, <2>1, <3>1 DEF InLine, Adding
  <2>2. CASE ~Str!Over
    <3>1. stage' = "match" /\ vline' = row /\ row' < Height /\ Adding'
      BY <1>1, <1>3, <1>4, <2>2 DEF Adding
    <3> QED
      BY <1>1, <1>2, <1>3, <1>4, <2>2, <3>1 DEF InLine
  <2> QED
    BY <2>1, <2>2
<1>14. MatchedOnLine'
  <2>1. CASE Str!Over
    BY <1>1, <2>1 DEF MatchedOnLine, Adding
  <2>2. CASE ~Str!Over
    <3>1. rng' = 0 /\ stage' = "match"
      BY <1>1, <1>2, <1>4, <2>2 DEF MatchedOnLine
    <3>2. Into' = {}
      BY <3>1 DEF Into
    <3>3. rng' < turn' /\ rng' <= Len(stripes')
      BY <1>1, <1>2, <3>1, StrRanges
    <3> QED
      BY <1>1, <1>8, <1>9, <3>1, <3>2, <3>3 DEF MatchedOnLine
  <2> QED
    BY <2>1, <2>2
<1> QED
  BY <1>6, <1>10, <1>11, <1>12, <1>13, <1>14 DEF ListInv

\* Turning the ranges of a merged preblob changes nothing but the preblob.
LEMMA StrTurned ==
  ASSUME Str!TypeOK, NEW r \in {stripes, newStripes}, NEW into \in DOMAIN heap, NEW met, into # met
  PROVE  /\ Len(Str!Turned(r, into, met)) = Len(r)
         /\ DOMAIN Str!Turned(r, into, met) = DOMAIN r
         /\ \A i \in DOMAIN r :
              /\ Str!Turned(r, into, met)[i].x1 = r[i].x1
              /\ Str!Turned(r, into, met)[i].x2 = r[i].x2
              /\ Str!Turned(r, into, met)[i].pb = (IF r[i].pb = met THEN into ELSE r[i].pb)
<1> DEFINE t == Str!Turned(r, into, met)
<1>1. DOMAIN t = DOMAIN r /\ DOMAIN r = 1 .. Len(r) /\ Len(r) \in Nat
  BY StrRanges DEF Str!Turned
<1>2. \A i \in DOMAIN r : t[i] = IF r[i].pb = met THEN [r[i] EXCEPT !.pb = into] ELSE r[i]
  BY DEF Str!Turned
<1>3. Len(t) = Len(r)
  BY <1>1 DEF Str!Turned
<1> HIDE DEF t
<1>4. ASSUME NEW i \in DOMAIN r
      PROVE  /\ t[i].x1 = r[i].x1 /\ t[i].x2 = r[i].x2
             /\ t[i].pb = IF r[i].pb = met THEN into ELSE r[i].pb
  <2>1. r[i] \in Str!RangesOf(DOMAIN heap)
    BY <1>4, StrRanges
  <2>2. CASE r[i].pb = met
    <3>1. t[i] = [r[i] EXCEPT !.pb = into]
      BY <1>2, <1>4, <2>2
    <3> QED
      BY <2>1, <2>2, <3>1 DEF Str!RangesOf
  <2>3. CASE r[i].pb # met
    BY <1>2, <1>4, <2>1, <2>3 DEF Str!RangesOf
  <2> QED
    BY <2>2, <2>3
<1> QED
  BY <1>1, <1>3, <1>4 DEF t

\* Ranges that were of one blob are of the other.
LEMMA StrTurnedPbs ==
  ASSUME Str!TypeOK, NEW r \in {stripes, newStripes}, NEW into \in DOMAIN heap, NEW met, into # met
  PROVE  /\ Str!Turned(r, into, met) \in Seq(Str!RangesOf(DOMAIN heap \ {met}))
         /\ PbsOf(Str!Turned(r, into, met)) =
              (PbsOf(r) \ {met}) \cup (IF met \in PbsOf(r) THEN {into} ELSE {})
<1> DEFINE t == Str!Turned(r, into, met)
           n == Len(r)
           S == Str!RangesOf(DOMAIN heap \ {met})
<1>1. DOMAIN t = DOMAIN r /\ DOMAIN r = 1 .. n /\ n \in Nat /\ Len(t) = n /\ t = [i \in 1 .. n |-> t[i]]
  BY StrRanges DEF Str!Turned
<1>2. \A i \in DOMAIN r : t[i] = IF r[i].pb = met THEN [r[i] EXCEPT !.pb = into] ELSE r[i]
  BY DEF Str!Turned
<1> HIDE DEF t, n, S
<1>3. ASSUME NEW i \in DOMAIN r
      PROVE  t[i] \in S /\ t[i].pb = IF r[i].pb = met THEN into ELSE r[i].pb
  <2>1. r[i] \in Str!RangesOf(DOMAIN heap)
    BY <1>3, StrRanges
  <2>2. CASE r[i].pb = met
    <3>1. t[i] = [r[i] EXCEPT !.pb = into]
      BY <1>2, <1>3, <2>2
    <3> QED
      BY <2>1, <2>2, <3>1 DEF Str!RangesOf, S
  <2>3. CASE r[i].pb # met
    BY <1>2, <1>3, <2>1, <2>3 DEF Str!RangesOf, S
  <2> QED
    BY <2>2, <2>3
<1>4. t \in [1 .. n -> S]
  BY <1>1, <1>3
<1>5. t \in Seq(S)
  BY <1>1, <1>4
<1>6. PbsOf(t) = (PbsOf(r) \ {met}) \cup (IF met \in PbsOf(r) THEN {into} ELSE {})
  <2>1. ASSUME NEW p \in PbsOf(t)
        PROVE  p \in (PbsOf(r) \ {met}) \cup (IF met \in PbsOf(r) THEN {into} ELSE {})
    <3>1. PICK i \in DOMAIN r : p = t[i].pb
      BY <1>1 DEF PbsOf
    <3> QED
      BY <1>3, <3>1 DEF PbsOf
  <2>2. ASSUME NEW p \in (PbsOf(r) \ {met}) \cup (IF met \in PbsOf(r) THEN {into} ELSE {})
        PROVE  p \in PbsOf(t)
    <3>1. PICK i \in DOMAIN r : (r[i].pb = p /\ p # met) \/ (r[i].pb = met /\ p = into)
      BY DEF PbsOf
    <3> QED
      BY <1>1, <1>3, <3>1 DEF PbsOf
  <2> QED
    BY <2>1, <2>2
<1> QED
  BY <1>5, <1>6 DEF t, S

\* What the merging does to the heap.
LEMMA StrMerged ==
  ASSUME Str!TypeOK, NEW into \in DOMAIN heap, NEW met \in DOMAIN heap, into # met,
         heap' = Str!Merged(into, met)
  PROVE  /\ DOMAIN heap' = DOMAIN heap \ {met}
         /\ heap' \in [DOMAIN heap' -> [pixels : SUBSET Str!Pixels, points : Nat, matched : BOOLEAN]]
         /\ \A pb \in DOMAIN heap' : heap'[pb].matched = heap[pb].matched
         /\ \A pb \in DOMAIN heap' : pb # into => heap'[pb] = heap[pb]
         /\ heap'[into].pixels = heap[into].pixels \cup heap[met].pixels
         /\ heap'[into].points = heap[into].points + heap[met].points
<1> DEFINE R == [pixels : SUBSET Str!Pixels, points : Nat, matched : BOOLEAN]
<1>1. heap \in [DOMAIN heap -> R]
  BY DEF Str!TypeOK
<1>2. heap[into] \in R /\ heap[met] \in R
  BY <1>1
<1> DEFINE new == [heap[into] EXCEPT !.pixels = @ \cup heap[met].pixels,
                                     !.points = @ + heap[met].points]
<1>3. /\ new \in R /\ new.matched = heap[into].matched
      /\ new.pixels = heap[into].pixels \cup heap[met].pixels
      /\ new.points = heap[into].points + heap[met].points
  <2>1. /\ heap[into].pixels \cup heap[met].pixels \in SUBSET Str!Pixels
        /\ heap[into].points + heap[met].points \in Nat
    BY <1>2
  <2> QED
    BY <1>2, <2>1
<1>4. /\ DOMAIN heap' = DOMAIN heap \ {met}
      /\ \A pb \in DOMAIN heap \ {met} : heap'[pb] = IF pb = into THEN new ELSE heap[pb]
      /\ heap' = [pb \in DOMAIN heap' |-> heap'[pb]]
  BY DEF Str!Merged
<1> HIDE DEF new, R
<1>5. \A pb \in DOMAIN heap' : heap'[pb] \in R
  BY <1>1, <1>3, <1>4
<1>6. heap' \in [DOMAIN heap' -> R]
  BY <1>4, <1>5
<1> QED
  BY <1>3, <1>4, <1>6 DEF R

\* after a match,
LEMMA StrListMatch == ASSUME Str!PictureAssumption, ListInv, Str!Match PROVE ListInv'
<1> USE DEF Str!scanned
<1>1. /\ stage = "match" /\ stage' = "match" /\ row' = row /\ col' = col /\ vline' = vline
      /\ preblobs' = preblobs /\ bright' = bright /\ snapshot' = snapshot /\ size' = size
      /\ blobs' = blobs /\ stripe' = stripe /\ turn' = turn + 1 /\ turn \in DOMAIN stripes
  BY DEF Str!Match
<1>2. Str!TypeOK /\ InLine /\ Kept /\ MatchedOnLine
  BY DEF ListInv
<1>3. /\ turn >= 1 /\ turn \in Nat /\ rng \in Nat /\ row \in 0 .. Height /\ Height \in Nat
      /\ rng < turn /\ rng <= Len(stripes) /\ turn <= Len(stripes) /\ Len(stripes) \in Nat
      /\ DOMAIN stripes = 1 .. Len(stripes)
  BY <1>1, <1>2, StrNumbers, StrRanges DEF InLine, MatchedOnLine
<1> DEFINE met == stripes[turn].pb
           into == IF rng = 0 THEN met ELSE stripes[rng].pb
<1>4. /\ met \in DOMAIN heap /\ into \in DOMAIN heap
      /\ met \in PbsOf(stripes) /\ into \in PbsOf(stripes)
  <2>1. rng # 0 => rng \in DOMAIN stripes
    BY <1>3
  <2> QED
    BY <1>1, <1>2, <2>1, StrRanges DEF PbsOf
<1>5. InLine'
  BY <1>1, <1>2, <1>3 DEF InLine, Adding
<1>6. Start' = Start
  BY <1>1 DEF Start
<1>7. /\ \A pb \in DOMAIN heap : heap[pb].matched <=> pb \in PbsOf(newStripes) \cup Into
      /\ Str!Listed \cap (PbsOf(stripes) \cup PbsOf(newStripes)) = {}
      /\ \A i, j \in DOMAIN preblobs : i # j => preblobs[i] # preblobs[j]
      /\ DOMAIN heap \subseteq Str!Listed \cup PbsOf(stripes) \cup PbsOf(newStripes)
  BY <1>1, <1>2 DEF MatchedOnLine, Kept
<1>8. /\ stripes \in Seq(Str!RangesOf(DOMAIN heap)) /\ newStripes \in Seq(Str!RangesOf(DOMAIN heap))
      /\ preblobs \in Seq(DOMAIN heap) /\ DOMAIN heap \subseteq Str!Pixels
      /\ heap \in [DOMAIN heap -> [pixels : SUBSET Str!Pixels, points : Nat, matched : BOOLEAN]]
      /\ turn' \in Nat
  BY <1>1, <1>2, <1>3 DEF Str!TypeOK
<1>9. CASE ~Str!InRange(stripe, stripes[turn])
  <2>1. rng' = rng /\ heap' = heap /\ stripes' = stripes /\ newStripes' = newStripes
    BY <1>9 DEF Str!Match
  <2>2. Str!TypeOK'
    BY <1>1, <1>2, <1>8, <2>1 DEF Str!TypeOK, Str!RangesOf
  <2>3. MatchedOnLine'
    <3>1. Into' = Into
      BY <1>1, <2>1 DEF Into
    <3> QED
      BY <1>1, <1>3, <1>7, <2>1, <3>1 DEF MatchedOnLine, PbsOf
  <2>4. Kept' /\ Apart' /\ Fresh'
    BY <1>1, <1>6, <1>7, <2>1 DEF Kept, ListInv, Apart, Fresh, PbsOf, Str!Listed
  <2> QED
    BY <1>5, <2>2, <2>3, <2>4 DEF ListInv
<1>10. CASE Str!InRange(stripe, stripes[turn]) /\ into = met
  <2>1. /\ rng' = (IF rng = 0 THEN turn ELSE rng) /\ heap' = [heap EXCEPT ![met].matched = TRUE]
        /\ stripes' = stripes /\ newStripes' = newStripes
    BY <1>10 DEF Str!Match
  <2>2. rng' \in Nat /\ rng' < turn' /\ rng' <= Len(stripes') /\ Into' = {met}
    BY <1>1, <1>3, <1>10, <2>1 DEF Into
  <2> HIDE DEF met, into
  <2>3. /\ DOMAIN heap' = DOMAIN heap
        /\ heap' \in [DOMAIN heap -> [pixels : SUBSET Str!Pixels, points : Nat, matched : BOOLEAN]]
        /\ heap'[met].matched
        /\ \A p \in DOMAIN heap : p # met => heap'[p] = heap[p]
    BY <1>4, <1>8, <2>1
  <2>4. Str!TypeOK'
    <3>1. heap' \in [DOMAIN heap' -> [pixels : SUBSET Str!Pixels, points : Nat, matched : BOOLEAN]]
      BY <2>3
    <3>2. /\ DOMAIN heap' \subseteq Str!Pixels /\ preblobs' \in Seq(DOMAIN heap')
          /\ stripes' \in Seq(Str!RangesOf(DOMAIN heap'))
          /\ newStripes' \in Seq(Str!RangesOf(DOMAIN heap'))
      BY <1>1, <1>8, <2>1, <2>3
    <3> QED
      BY <1>1, <1>2, <1>8, <2>1, <2>2, <3>1, <3>2 DEF Str!TypeOK, Str!RangesOf
  <2>5. Into \subseteq {met}
    BY <1>1, <1>10 DEF Into, into
  <2>6. MatchedOnLine'
    BY <1>1, <1>7, <2>1, <2>2, <2>3, <2>5 DEF MatchedOnLine, PbsOf
  <2>7. Kept' /\ Apart' /\ Fresh'
    BY <1>1, <1>6, <1>7, <2>1, <2>3 DEF Kept, ListInv, Apart, Fresh, PbsOf, Str!Listed
  <2> QED
    BY <1>5, <2>4, <2>6, <2>7 DEF ListInv
<1>11. CASE Str!InRange(stripe, stripes[turn]) /\ into # met
  <2>1. /\ rng' = rng /\ heap' = Str!Merged(into, met)
        /\ stripes' = Str!Turned(stripes, into, met)
        /\ newStripes' = Str!Turned(newStripes, into, met)
    BY <1>11 DEF Str!Match
  <2>2. rng # 0 /\ Into = {into} /\ stripes[rng].pb = into /\ rng \in DOMAIN stripes
    BY <1>1, <1>3, <1>11 DEF Into
  <2> HIDE DEF met, into
  <2>3. /\ DOMAIN heap' = DOMAIN heap \ {met}
        /\ heap' \in [DOMAIN heap' -> [pixels : SUBSET Str!Pixels, points : Nat, matched : BOOLEAN]]
        /\ \A pb \in DOMAIN heap' : heap'[pb].matched = heap[pb].matched
    BY <1>2, <1>4, <1>11, <2>1, StrMerged
  <2>12. /\ into \in DOMAIN heap /\ into # met /\ Str!TypeOK
        /\ stripes \in Seq(Str!RangesOf(DOMAIN heap))
        /\ newStripes \in Seq(Str!RangesOf(DOMAIN heap))
    BY <1>2, <1>4, <1>8, <1>11
  <2>4. /\ stripes' \in Seq(Str!RangesOf(DOMAIN heap \ {met})) /\ Len(stripes') = Len(stripes)
        /\ DOMAIN stripes' = DOMAIN stripes
        /\ \A i \in DOMAIN stripes : stripes'[i].x2 = stripes[i].x2
        /\ \A i \in DOMAIN stripes :
             stripes'[i].pb = (IF stripes[i].pb = met THEN into ELSE stripes[i].pb)
        /\ PbsOf(stripes') = PbsOf(stripes) \ {met}
    <3> DEFINE t == Str!Turned(stripes, into, met)
    <3>1. /\ t \in Seq(Str!RangesOf(DOMAIN heap \ {met})) /\ Len(t) = Len(stripes)
          /\ DOMAIN t = DOMAIN stripes
          /\ \A i \in DOMAIN stripes :
               /\ t[i].x1 = stripes[i].x1
               /\ t[i].x2 = stripes[i].x2
               /\ t[i].pb = (IF stripes[i].pb = met THEN into ELSE stripes[i].pb)
          /\ PbsOf(t) = (PbsOf(stripes) \ {met}) \cup (IF met \in PbsOf(stripes) THEN {into} ELSE {})
      <4>1. /\ t \in Seq(Str!RangesOf(DOMAIN heap \ {met}))
            /\ PbsOf(t) = (PbsOf(stripes) \ {met}) \cup (IF met \in PbsOf(stripes) THEN {into} ELSE {})
        BY <2>12, StrTurnedPbs
      <4>2. /\ Len(t) = Len(stripes) /\ DOMAIN t = DOMAIN stripes
            /\ \A i \in DOMAIN stripes :
                 /\ t[i].x1 = stripes[i].x1
                 /\ t[i].x2 = stripes[i].x2
                 /\ t[i].pb = (IF stripes[i].pb = met THEN into ELSE stripes[i].pb)
        BY <2>12, StrTurned
      <4> QED
        BY <4>1, <4>2
    <3> HIDE DEF t
    <3>2. stripes' = t
      BY <2>1 DEF t
    <3>3. PbsOf(t) = PbsOf(stripes) \ {met}
      BY <1>4, <1>11, <3>1
    <3> QED
      BY <3>1, <3>2, <3>3
  <2>5. /\ newStripes' \in Seq(Str!RangesOf(DOMAIN heap \ {met}))
        /\ Len(newStripes') = Len(newStripes) /\ DOMAIN newStripes' = DOMAIN newStripes
        /\ \A i \in DOMAIN newStripes : newStripes'[i].x2 = newStripes[i].x2
        /\ PbsOf(newStripes') = (PbsOf(newStripes) \ {met})
                                  \cup (IF met \in PbsOf(newStripes) THEN {into} ELSE {})
    <3> DEFINE t == Str!Turned(newStripes, into, met)
    <3>1. /\ t \in Seq(Str!RangesOf(DOMAIN heap \ {met})) /\ Len(t) = Len(newStripes)
          /\ DOMAIN t = DOMAIN newStripes
          /\ \A i \in DOMAIN newStripes :
               /\ t[i].x1 = newStripes[i].x1
               /\ t[i].x2 = newStripes[i].x2
               /\ t[i].pb = (IF newStripes[i].pb = met THEN into ELSE newStripes[i].pb)
          /\ PbsOf(t) = (PbsOf(newStripes) \ {met})
                          \cup (IF met \in PbsOf(newStripes) THEN {into} ELSE {})
      <4>1. /\ t \in Seq(Str!RangesOf(DOMAIN heap \ {met}))
            /\ PbsOf(t) = (PbsOf(newStripes) \ {met}) \cup (IF met \in PbsOf(newStripes) THEN {into} ELSE {})
        BY <2>12, StrTurnedPbs
      <4>2. /\ Len(t) = Len(newStripes) /\ DOMAIN t = DOMAIN newStripes
            /\ \A i \in DOMAIN newStripes :
                 /\ t[i].x1 = newStripes[i].x1
                 /\ t[i].x2 = newStripes[i].x2
                 /\ t[i].pb = (IF newStripes[i].pb = met THEN into ELSE newStripes[i].pb)
        BY <2>12, StrTurned
      <4> QED
        BY <4>1, <4>2
    <3> HIDE DEF t
    <3>2. newStripes' = t
      BY <2>1 DEF t
    <3> QED
      BY <3>1, <3>2
  <2>6. Into' = {into}
    BY <1>1, <1>11, <2>1, <2>2, <2>4 DEF Into
  <2>7. Str!TypeOK'
    <3>1. preblobs' \in Seq(DOMAIN heap')
      <4>1. \A i \in DOMAIN preblobs : preblobs[i] \in DOMAIN heap'
        BY <1>2, <1>4, <1>7, <2>3, StrPreblobs DEF Str!Listed
      <4> QED
        BY <1>1, <1>8, <4>1
    <3>2. /\ DOMAIN heap' \subseteq Str!Pixels
          /\ stripes' \in Seq(Str!RangesOf(DOMAIN heap'))
          /\ newStripes' \in Seq(Str!RangesOf(DOMAIN heap'))
          /\ Len(stripes') <= Width \div 2 + 1 /\ Len(newStripes') <= Width \div 2 + 1
      BY <1>2, <1>8, <2>3, <2>4, <2>5 DEF Str!TypeOK
    <3> QED
      BY <1>1, <1>2, <1>8, <2>1, <2>3, <3>1, <3>2 DEF Str!TypeOK, Str!RangesOf
  <2>8. MatchedOnLine'
    <3>1. rng' < turn' /\ rng' <= Len(stripes')
      BY <1>1, <1>3, <2>1, <2>4
    <3> QED
      BY <1>1, <1>7, <2>2, <2>3, <2>5, <2>6, <3>1 DEF MatchedOnLine
  <2>9. Kept'
    <3>1. Str!Listed' = Str!Listed
      BY <1>1 DEF Str!Listed
    <3>2. Str!Listed \cap (PbsOf(stripes') \cup PbsOf(newStripes')) = {}
      BY <1>4, <1>7, <2>4, <2>5
    <3>3. DOMAIN heap' \subseteq Str!Listed \cup PbsOf(stripes') \cup PbsOf(newStripes')
      BY <1>7, <2>3, <2>4, <2>5
    <3> QED
      BY <1>1, <1>7, <3>1, <3>2, <3>3 DEF Kept
  <2>10. Apart'
    BY <1>1, <1>6, <2>5 DEF ListInv, Apart
  <2>11. Fresh'
    BY <1>1, <1>6, <2>3 DEF ListInv, Fresh
  <2> QED
    BY <1>5, <2>7, <2>8, <2>9, <2>10, <2>11 DEF ListInv
<1> QED
  BY <1>9, <1>10, <1>11

\* A new range goes to the end of the line.
LEMMA StrAppended ==
  ASSUME NEW S, NEW r \in Seq(S), NEW e \in S, NEW q, q = Append(r, e)
  PROVE  /\ q \in Seq(S) /\ Len(q) = Len(r) + 1 /\ Len(r) \in Nat
         /\ DOMAIN r = 1 .. Len(r) /\ DOMAIN q = 1 .. Len(r) + 1
         /\ \A i \in 1 .. Len(r) : q[i] = r[i]
         /\ q[Len(r) + 1] = e
OBVIOUS

\* The preblob of the stripe, the heap and the ranges of the line after it was added.
LEMMA StrPlaced ==
  ASSUME Str!PictureAssumption, ListInv, Str!Place
  PROVE  \E pb : LET new == [x1 |-> stripe.hstart, x2 |-> stripe.hstop, pb |-> pb] IN
         /\ rng = 0 => pb = <<stripe.hstart, row>> /\ pb \notin DOMAIN heap /\ Into = {}
         /\ rng # 0 => pb = stripes[rng].pb /\ pb \in DOMAIN heap /\ Into = {pb}
                       /\ pb \in PbsOf(stripes)
         /\ DOMAIN heap' = DOMAIN heap \cup {pb} /\ DOMAIN heap' \subseteq Str!Pixels
         /\ heap' \in [DOMAIN heap' -> [pixels : SUBSET Str!Pixels, points : Nat, matched : BOOLEAN]]
         /\ \A p \in DOMAIN heap : p # pb => heap'[p] = heap[p]
         /\ heap'[pb].matched
         /\ heap'[pb].pixels = Str!Own(stripe) \cup (IF rng = 0 THEN {} ELSE heap[pb].pixels)
         /\ heap'[pb].points = stripe.points + (IF rng = 0 THEN 0 ELSE heap[pb].points)
         /\ newStripes' = Append(newStripes, new)
         /\ new \in Str!RangesOf(DOMAIN heap')
<1> DEFINE id == <<stripe.hstart, stripe.vline>>
           pb == IF rng = 0 THEN id ELSE stripes[rng].pb
           new == [x1 |-> stripe.hstart, x2 |-> stripe.hstop, pb |-> pb]
           R == [pixels : SUBSET Str!Pixels, points : Nat, matched : BOOLEAN]
           fresh == [pixels |-> Str!Own(stripe), points |-> stripe.points, matched |-> TRUE]
<1>1. /\ stage = "match" /\ newStripes' = Append(newStripes, new)
      /\ heap' =
           IF rng = 0
           THEN [p \in DOMAIN heap \cup {id} |-> IF p = id THEN fresh ELSE heap[p]]
           ELSE [heap EXCEPT ![pb].pixels = @ \cup Str!Own(stripe), ![pb].points = @ + stripe.points]
  BY DEF Str!Place
<1>2. Str!TypeOK /\ InLine /\ Kept /\ MatchedOnLine /\ Fresh
  BY DEF ListInv
<1>3. /\ row \in 0 .. Height - 1 /\ col \in 0 .. Width /\ stripe.vline = row
      /\ stripe.hstart \in 0 .. Width - 1 /\ stripe.hstop \in 0 .. Width - 1
      /\ stripe.hstart <= stripe.hstop /\ stripe.points \in Nat /\ rng <= Len(stripes)
      /\ rng \in Nat /\ Width \in Nat /\ Height \in Nat
  BY <1>1, <1>2, StrNumbers DEF InLine, MatchedOnLine, Adding
<1>4. Str!Own(stripe) \subseteq Str!Pixels
  <2>1. \A c \in stripe.hstart .. stripe.hstop : c \in 0 .. Width - 1
    BY <1>3
  <2> QED
    BY <1>3, <2>1 DEF Str!Own, Str!Pixels
<1>5. id \in Str!Pixels
  BY <1>3 DEF Str!Pixels
<1>6. heap \in [DOMAIN heap -> R] /\ DOMAIN heap \subseteq Str!Pixels
  BY <1>2 DEF Str!TypeOK
<1>7. fresh \in R
  BY <1>3, <1>4
<1>8. id \notin DOMAIN heap
  <2>1. Start = stripe.hstart
    BY <1>1 DEF Start
  <2>2. ASSUME id \in DOMAIN heap PROVE FALSE
    <3>1. id[2] < row \/ (id[2] = row /\ id[1] < stripe.hstart)
      BY <1>2, <2>1, <2>2 DEF Fresh
    <3>2. id[2] = row /\ id[1] = stripe.hstart
      BY <1>3
    <3> QED
      BY <1>3, <3>1, <3>2
  <2> QED
    BY <2>2
<1>9. CASE rng = 0
  <2>1. pb = id /\ pb = <<stripe.hstart, row>> /\ Into = {}
    BY <1>3, <1>9 DEF Into
  <2>2. heap' = [p \in DOMAIN heap \cup {id} |-> IF p = id THEN fresh ELSE heap[p]]
    BY <1>1, <1>9
  <2>3. fresh.matched /\ fresh.pixels = Str!Own(stripe) /\ fresh.points = stripe.points + 0
    BY <1>3
  <2> HIDE DEF R, fresh, id
  <2>4. /\ DOMAIN heap' = DOMAIN heap \cup {id} /\ heap' \in [DOMAIN heap' -> R]
        /\ \A p \in DOMAIN heap : p # id => heap'[p] = heap[p]
        /\ heap'[id] = fresh
    BY <1>6, <1>7, <1>8, <2>2
  <2>5. new \in Str!RangesOf(DOMAIN heap')
    BY <1>3, <2>1, <2>4 DEF Str!RangesOf
  <2>6. DOMAIN heap' \subseteq Str!Pixels
    BY <1>5, <1>6, <2>4
  <2> HIDE DEF new
  <2>7. WITNESS pb
  <2> QED
    BY <1>1, <1>8, <1>9, <2>1, <2>3, <2>4, <2>5, <2>6 DEF R, new
<1>10. CASE rng # 0
  <2>1. pb = stripes[rng].pb /\ Into = {pb} /\ pb \in DOMAIN heap /\ pb \in PbsOf(stripes)
    <3>1. rng \in DOMAIN stripes
      BY <1>2, <1>3, <1>10, StrRanges
    <3> QED
      BY <1>1, <1>2, <1>10, <3>1, StrRanges DEF Into, PbsOf
  <2>2. heap' = [heap EXCEPT ![pb].pixels = @ \cup Str!Own(stripe), ![pb].points = @ + stripe.points]
    BY <1>1, <1>10
  <2>3. heap[pb].matched
    BY <1>1, <1>2, <2>1 DEF MatchedOnLine
  <2> HIDE DEF pb
  <2>4. heap[pb] \in R /\ heap[pb].points \in Nat
    BY <1>6, <2>1
  <2>5. /\ DOMAIN heap' = DOMAIN heap
        /\ \A p \in DOMAIN heap : p # pb => heap'[p] = heap[p]
        /\ heap'[pb].matched /\ heap'[pb] \in R
        /\ heap'[pb].pixels = heap[pb].pixels \cup Str!Own(stripe)
        /\ heap'[pb].points = heap[pb].points + stripe.points
    <3> DEFINE grown == [heap[pb] EXCEPT !.pixels = @ \cup Str!Own(stripe),
                                         !.points = @ + stripe.points]
    <3>1. heap' = [heap EXCEPT ![pb] = grown]
      BY <1>6, <2>1, <2>2, <2>4
    <3>2. /\ heap[pb].pixels \cup Str!Own(stripe) \in SUBSET Str!Pixels
          /\ heap[pb].points + stripe.points \in Nat
      BY <1>3, <1>4, <2>4
    <3>3. /\ grown \in R /\ grown.matched
          /\ grown.pixels = heap[pb].pixels \cup Str!Own(stripe)
          /\ grown.points = heap[pb].points + stripe.points
      BY <2>3, <2>4, <3>2
    <3> HIDE DEF grown, R
    <3> QED
      BY <1>6, <2>1, <3>1, <3>3
  <2>6. heap' \in [DOMAIN heap' -> R]
    BY <1>6, <2>1, <2>2, <2>5
  <2>7. new \in Str!RangesOf(DOMAIN heap')
    BY <1>3, <2>1, <2>5 DEF Str!RangesOf
  <2>8. DOMAIN heap' = DOMAIN heap \cup {pb}
    BY <2>1, <2>5
  <2>9. heap'[pb].pixels = Str!Own(stripe) \cup heap[pb].pixels
        /\ heap'[pb].points = stripe.points + heap[pb].points
    BY <1>3, <2>4, <2>5
  <2> HIDE DEF R, new
  <2>10. WITNESS pb
  <2> QED
    BY <1>1, <1>6, <1>10, <2>1, <2>5, <2>6, <2>7, <2>8, <2>9 DEF R, new
<1> QED
  BY <1>9, <1>10

\* There is room for one more range on the line, since ranges are apart.
LEMMA StrListPlace == ASSUME Str!PictureAssumption, ListInv, Str!Place PROVE ListInv'
<1> USE DEF Str!scanned
<1>1. /\ stage = "match" /\ stage' = "dark" /\ row' = row /\ col' = col /\ vline' = vline
      /\ preblobs' = preblobs /\ bright' = bright /\ snapshot' = snapshot /\ size' = size
      /\ blobs' = blobs /\ stripe' = stripe /\ turn' = turn /\ rng' = rng /\ stripes' = stripes
  BY DEF Str!Place
<1>2. Str!TypeOK /\ InLine /\ Kept /\ MatchedOnLine /\ Apart /\ Fresh
  BY DEF ListInv
<1>3. /\ row \in 0 .. Height - 1 /\ col \in 0 .. Width /\ stripe.vline = row /\ vline = row
      /\ stripe.hstart \in 0 .. Width - 1 /\ stripe.hstop \in 0 .. Width - 1
      /\ stripe.hstart <= stripe.hstop /\ stripe.hstop < col
      /\ (stripe.hstop + 2 <= col \/ col = Width)
      /\ Width \in Nat /\ Height \in Nat /\ turn >= 1 /\ row < Height
  BY <1>1, <1>2, StrNumbers DEF InLine, Adding
<1>4. PICK pb :
         /\ rng = 0 => pb = <<stripe.hstart, row>> /\ pb \notin DOMAIN heap /\ Into = {}
         /\ rng # 0 => pb = stripes[rng].pb /\ pb \in DOMAIN heap /\ Into = {pb}
                       /\ pb \in PbsOf(stripes)
         /\ DOMAIN heap' = DOMAIN heap \cup {pb} /\ DOMAIN heap' \subseteq Str!Pixels
         /\ heap' \in [DOMAIN heap' -> [pixels : SUBSET Str!Pixels, points : Nat, matched : BOOLEAN]]
         /\ \A p \in DOMAIN heap : p # pb => heap'[p] = heap[p]
         /\ heap'[pb].matched
         /\ newStripes' = Append(newStripes, [x1 |-> stripe.hstart, x2 |-> stripe.hstop, pb |-> pb])
         /\ [x1 |-> stripe.hstart, x2 |-> stripe.hstop, pb |-> pb] \in Str!RangesOf(DOMAIN heap')
  BY StrPlaced
<1> DEFINE n == Len(newStripes)
           new == [x1 |-> stripe.hstart, x2 |-> stripe.hstop, pb |-> pb]
<1>5. /\ newStripes \in Seq(Str!RangesOf(DOMAIN heap)) /\ stripes \in Seq(Str!RangesOf(DOMAIN heap))
      /\ preblobs \in Seq(DOMAIN heap)
  BY <1>2 DEF Str!TypeOK
<1>6. /\ Str!RangesOf(DOMAIN heap) \subseteq Str!RangesOf(DOMAIN heap')
      /\ DOMAIN heap \subseteq DOMAIN heap'
  BY <1>4 DEF Str!RangesOf
<1>7. new.x2 = stripe.hstop /\ new.pb = pb
  OBVIOUS
<1>8. /\ newStripes' \in Seq(Str!RangesOf(DOMAIN heap')) /\ Len(newStripes') = n + 1 /\ n \in Nat
      /\ DOMAIN newStripes = 1 .. n /\ DOMAIN newStripes' = 1 .. n + 1
      /\ \A i \in 1 .. n : newStripes'[i] = newStripes[i]
      /\ newStripes'[n + 1] = new
  <2>1. newStripes \in Seq(Str!RangesOf(DOMAIN heap'))
    BY <1>5, <1>6
  <2> QED
    BY <1>4, <2>1, StrAppended
<1>9. PbsOf(newStripes') = PbsOf(newStripes) \cup {pb}
  BY <1>7, <1>8 DEF PbsOf
<1> HIDE DEF new
<1>10. \A i \in 1 .. n : newStripes[i].x2 \in Int /\ newStripes[i].x2 + 2 <= stripe.hstart
                         /\ newStripes[i].x2 >= 2 * (i - 1)
  <2>1. Start = stripe.hstart
    BY <1>1 DEF Start
  <2> QED
    BY <1>2, <1>3, <1>8, <2>1, StrRanges DEF Apart
<1>11. stripe.hstart >= 2 * n
  <2>1. CASE n = 0
    BY <1>3, <2>1
  <2>2. CASE n # 0
    <3>1. n \in 1 .. n
      BY <1>8, <2>2
    <3> QED
      BY <1>3, <1>8, <1>10, <3>1
  <2> QED
    BY <2>1, <2>2
<1>12. n + 1 <= Width \div 2 + 1
  <2>1. 2 * n <= Width
    BY <1>3, <1>8, <1>11
  <2> QED
    BY <1>3, <1>8, <2>1
<1>13. Str!TypeOK'
  <2>1. preblobs' \in Seq(DOMAIN heap') /\ stripes' \in Seq(Str!RangesOf(DOMAIN heap'))
    BY <1>1, <1>5, <1>6
  <2>2. stage' \in Str!Stages /\ Len(newStripes') <= Width \div 2 + 1
    BY <1>1, <1>8, <1>12 DEF Str!Stages
  <2> QED
    BY <1>1, <1>2, <1>4, <1>8, <2>1, <2>2 DEF Str!TypeOK
<1>14. InLine'
  BY <1>1, <1>3 DEF InLine, Adding
<1>15. Start' \in Int /\ Start' >= stripe.hstop + 2 /\ Start' > stripe.hstart
  BY <1>1, <1>3 DEF Start
<1>16. Apart'
  <2>1. ASSUME NEW i \in 1 .. n + 1
        PROVE  newStripes'[i].x2 >= 2 * (i - 1) /\ newStripes'[i].x2 + 2 <= Start'
    <3>1. CASE i \in 1 .. n
      BY <1>3, <1>8, <1>10, <1>15, <3>1
    <3>2. CASE i = n + 1
      BY <1>3, <1>7, <1>8, <1>11, <1>15, <3>2 DEF new
    <3> QED
      BY <1>8, <3>1, <3>2
  <2> QED
    BY <1>8, <2>1 DEF Apart
<1>17. Fresh'
  <2>1. Start = stripe.hstart
    BY <1>1 DEF Start
  <2>2. ASSUME NEW p \in DOMAIN heap'
        PROVE  p[2] < row \/ (p[2] = row /\ p[1] < Start')
    <3>1. CASE p \in DOMAIN heap
      <4>1. p[1] \in 0 .. Width - 1
        BY <1>2, <3>1, StrPreblobs
      <4> QED
        BY <1>2, <1>3, <1>15, <2>1, <3>1, <4>1 DEF Fresh
    <3>2. CASE p \notin DOMAIN heap
      <4>1. p = <<stripe.hstart, row>>
        BY <1>4, <2>2, <3>2
      <4> QED
        BY <1>3, <1>15, <4>1
    <3> QED
      BY <3>1, <3>2
  <2> QED
    BY <1>1, <2>2 DEF Fresh
<1>18. MatchedOnLine'
  <2>1. \A p \in DOMAIN heap : heap[p].matched <=> p \in PbsOf(newStripes) \cup Into
    BY <1>1, <1>2 DEF MatchedOnLine
  <2>2. Into' = {}
    BY <1>1 DEF Into
  <2>3. PbsOf(newStripes) \subseteq DOMAIN heap
    BY <1>2, StrRanges DEF PbsOf
  <2>4. ASSUME NEW p \in DOMAIN heap'
        PROVE  heap'[p].matched <=> p \in PbsOf(newStripes')
    BY <1>4, <1>9, <2>1, <2>3
  <2> QED
    BY <1>1, <2>2, <2>4 DEF MatchedOnLine, Adding
<1>19. Kept'
  <2>1. /\ \A i, j \in DOMAIN preblobs : i # j => preblobs[i] # preblobs[j]
        /\ Str!Listed \cap (PbsOf(stripes) \cup PbsOf(newStripes)) = {}
        /\ DOMAIN heap \subseteq Str!Listed \cup PbsOf(stripes) \cup PbsOf(newStripes)
    BY <1>1, <1>2 DEF Kept
  <2>2. Str!Listed \subseteq DOMAIN heap /\ Str!Listed' = Str!Listed
    BY <1>1, <1>2, StrPreblobs DEF Str!Listed
  <2>3. pb \notin Str!Listed
    BY <1>4, <2>1, <2>2
  <2> QED
    BY <1>1, <1>4, <1>9, <2>1, <2>2, <2>3 DEF Kept
<1> QED
  BY <1>13, <1>14, <1>16, <1>17, <1>18, <1>19 DEF ListInv

\* after the last line,
LEMMA StrListStripesToBlobs ==
  ASSUME Str!PictureAssumption, ListInv, Str!StripesToBlobs PROVE ListInv'
<1> USE DEF Str!scanned, Str!lines
<1>1. /\ stage = "dark" /\ stage' = "old" /\ row' = row /\ col' = col /\ vline' = vline
      /\ preblobs' = preblobs /\ bright' = bright /\ snapshot' = snapshot /\ size' \in Sizes
      /\ blobs' = blobs /\ stripe' = stripe /\ turn' = 1 /\ rng' = rng /\ stripes' = stripes
      /\ newStripes' = newStripes /\ heap' = heap /\ row = Height
  BY DEF Str!StripesToBlobs, Str!Over
<1>2. Str!TypeOK /\ InLine /\ Kept /\ MatchedOnLine /\ Apart /\ Fresh
  BY DEF ListInv
<1>3. vline \in -2 .. Height - 1 /\ Height \in Nat /\ stage' \in Str!Stages
  BY <1>1, <1>2, StrNumbers DEF Str!Stages
<1>4. Str!TypeOK'
  BY <1>1, <1>2, <1>3 DEF Str!TypeOK, Str!RangesOf
<1>5. InLine'
  BY <1>1, <1>2, <1>3 DEF InLine, Adding
<1>6. Apart'
  <2>1. vline # row
    BY <1>1, <1>3
  <2> QED
    BY <1>1, <1>2, <2>1 DEF Apart
<1>7. Fresh'
  BY <1>1, <1>2, <1>3, StrPreblobs DEF Fresh
<1>8. MatchedOnLine'
  <2>1. Into' = {} /\ Into = {}
    BY <1>1 DEF Into
  <2> QED
    BY <1>1, <1>2, <1>3, <2>1 DEF MatchedOnLine, PbsOf, Adding
<1>9. Kept'
  <2>1. ~\E i \in DOMAIN stripes : i < 1
    BY <1>2, StrRanges
  <2>2. Str!Listed' = Str!Listed /\ PbsOf(stripes') = PbsOf(stripes)
        /\ PbsOf(newStripes') = PbsOf(newStripes)
    BY <1>1 DEF Str!Listed
  <2>4. /\ \A i, j \in DOMAIN preblobs : i # j => preblobs[i] # preblobs[j]
        /\ Str!Listed \cap (PbsOf(stripes) \cup PbsOf(newStripes)) = {}
        /\ DOMAIN heap \subseteq Str!Listed \cup PbsOf(stripes) \cup PbsOf(newStripes)
    BY <1>1, <1>2 DEF Kept
  <2> QED
    BY <1>1, <2>1, <2>2, <2>4 DEF Kept
<1> QED
  BY <1>4, <1>5, <1>6, <1>7, <1>8, <1>9 DEF ListInv

\* with a blob that is told,
LEMMA StrListReport == ASSUME Str!PictureAssumption, ListInv, Str!Report PROVE ListInv'
<1> USE DEF Str!scanned, Str!lines
<1>1. /\ stage = "report" /\ stage' = stage /\ row' = row /\ col' = col /\ vline' = vline
      /\ preblobs' = preblobs /\ bright' = bright /\ snapshot' = snapshot /\ size' = size
      /\ stripe' = stripe /\ turn' = turn + 1 /\ rng' = rng /\ stripes' = stripes
      /\ newStripes' = newStripes /\ heap' = heap /\ turn \in DOMAIN preblobs
  BY DEF Str!Report
<1>2. Str!TypeOK /\ InLine /\ Kept /\ MatchedOnLine /\ Apart /\ Fresh
  BY DEF ListInv
<1>3. turn \in Nat /\ turn >= 1 /\ row = Height
  BY <1>1, <1>2, StrNumbers DEF InLine
<1>4. blobs' \in Seq([pixels : SUBSET Str!Pixels, points : Nat]) /\ Len(blobs') <= MaxBlobs
  <2> DEFINE S == [pixels : SUBSET Str!Pixels, points : Nat]
             pb == heap[preblobs[turn]]
             e == [pixels |-> pb.pixels, points |-> pb.points]
  <2>1. blobs \in Seq(S) /\ Len(blobs) <= MaxBlobs /\ MaxBlobs \in Nat
    BY <1>2 DEF Str!TypeOK, Str!PictureAssumption
  <2>2. e \in S
    BY <1>1, <1>2, StrPreblobs
  <2>3. blobs' = blobs \/ (Len(blobs) < MaxBlobs /\ blobs' = Append(blobs, e))
    BY DEF Str!Report
  <2> HIDE DEF S, e
  <2>4. blobs' \in Seq(S) /\ Len(blobs') <= MaxBlobs
    <3>1. CASE blobs' = blobs
      BY <2>1, <3>1
    <3>2. CASE Len(blobs) < MaxBlobs /\ blobs' = Append(blobs, e)
      <4>1. blobs' \in Seq(S) /\ Len(blobs') = Len(blobs) + 1 /\ Len(blobs) \in Nat
        BY <2>1, <2>2, <3>2, StrAppended
      <4> QED
        BY <2>1, <3>2, <4>1
    <3> QED
      BY <2>3, <3>1, <3>2
  <2> QED
    BY <2>4 DEF S
<1>5. Str!TypeOK'
  <2>1. turn' \in Nat
    BY <1>1, <1>3
  <2> QED
    BY <1>1, <1>2, <1>4, <2>1 DEF Str!TypeOK, Str!RangesOf
<1>6. InLine'
  BY <1>1, <1>2, <1>3 DEF InLine, Adding
<1>7. Start' = Start
  BY <1>1 DEF Start
<1>8. Apart' /\ Fresh' /\ MatchedOnLine' /\ Kept'
  BY <1>1, <1>2, <1>7 DEF Apart, Fresh, MatchedOnLine, Kept, PbsOf, Into, Str!Listed, Adding, Str!All
<1> QED
  BY <1>5, <1>6, <1>8 DEF ListInv

\* and with one that is freed.
LEMMA StrListFree == ASSUME Str!PictureAssumption, ListInv, Str!Free PROVE ListInv'
<1> USE DEF Str!scanned
<1>1. /\ stage = "report" /\ stage' = "done" /\ row' = row /\ col' = col /\ vline' = vline
      /\ preblobs' = <<>> /\ bright' = bright /\ snapshot' = snapshot /\ size' = size
      /\ blobs' = blobs /\ stripe' = stripe /\ turn' = turn /\ rng' = rng /\ stripes' = stripes
      /\ newStripes' = newStripes /\ heap' = <<>>
  BY DEF Str!Free
<1>2. Str!TypeOK /\ InLine /\ stripes = <<>> /\ newStripes = <<>>
  BY <1>1 DEF ListInv, InLine
<1>3. DOMAIN heap' = {} /\ heap' \in [DOMAIN heap' -> [pixels : SUBSET Str!Pixels, points : Nat, matched : BOOLEAN]]
  BY <1>1
<1>4. preblobs' \in Seq(DOMAIN heap') /\ stage' \in Str!Stages
  BY <1>1 DEF Str!Stages
<1>5. stripes' \in Seq(Str!RangesOf(DOMAIN heap')) /\ newStripes' \in Seq(Str!RangesOf(DOMAIN heap'))
  BY <1>1, <1>2
<1>6. Str!TypeOK'
  BY <1>1, <1>2, <1>3, <1>4, <1>5 DEF Str!TypeOK
<1>7. InLine'
  BY <1>1, <1>2 DEF InLine, Adding
<1>8. Apart' /\ Fresh' /\ MatchedOnLine' /\ Kept'
  BY <1>1, <1>2, <1>3 DEF Apart, Fresh, MatchedOnLine, Kept, PbsOf, Str!Listed, Adding
<1> QED
  BY <1>6, <1>7, <1>8 DEF ListInv

\* Every step keeps the lists.
LEMMA StrListStep == ASSUME Str!PictureAssumption, ListInv, [Str!StripeNext]_(Str!stripeVars) PROVE ListInv'
<1>1. CASE UNCHANGED Str!stripeVars
  <2> USE <1>1 DEF Str!stripeVars, ListInv
  <2>1. Str!TypeOK'
    BY DEF Str!TypeOK, Str!RangesOf
  <2>2. InLine' /\ Apart' /\ Fresh'
    BY DEF InLine, Adding, Start, Apart, Fresh
  <2>3. MatchedOnLine'
    <3>1. Into' = Into
      BY DEF Into
    <3>2. PbsOf(newStripes') = PbsOf(newStripes)
      OBVIOUS
    <3>3. Adding' <=> Adding
      BY DEF Adding
    <3> QED
      BY <3>1, <3>2, <3>3 DEF MatchedOnLine
  <2>4. Kept'
    BY DEF PbsOf, Kept, Str!Listed, Str!All, Str!Over
  <2> QED
    BY <2>1, <2>2, <2>3, <2>4
<1>2. CASE Str!StripeNext
  BY <1>2, StrListLit, StrListDark, StrListEnds, StrListStoreOld, StrListStoreNew, StrListNextLine,
    StrListMatch, StrListPlace, StrListStripesToBlobs, StrListReport, StrListFree DEF Str!StripeNext
<1> QED
  BY <1>1, <1>2

\* The arrays of ranges never hold more than the program gave them room for, and what they and the
\* list name is allocated.
THEOREM StrTypes == ASSUME Str!PictureAssumption PROVE Str!StripeSpec => []Str!TypeOK
<1>1. Str!Init => ListInv
  BY StrListInit
<1>2. ListInv /\ [Str!StripeNext]_(Str!stripeVars) => ListInv'
  BY StrListStep
<1>3. ListInv => Str!TypeOK
  BY DEF ListInv
<1> QED
  BY <1>1, <1>2, <1>3, PTL DEF Str!StripeSpec

\* Neighbours are so both ways.
LEMMA StrNear ==
  ASSUME NEW p \in Str!Pixels, NEW q \in Str!Pixels
  PROVE  /\ p[1] \in Int /\ p[2] \in Int /\ q[1] \in Int /\ q[2] \in Int
         /\ Str!Near(p, q) <=> Str!Near(q, p)
         /\ Str!Near(p, p)
         /\ Str!Near(p, q) => /\ p[1] <= q[1] + 1 /\ q[1] <= p[1] + 1
                              /\ p[2] <= q[2] + 1 /\ q[2] <= p[2] + 1
BY DEF Str!Near, Str!Pixels

\* Pieces with neighbouring pixels are one piece.
LEMMA StrJoined ==
  ASSUME NEW f \in SUBSET Str!Pixels, NEW g \in SUBSET Str!Pixels, NEW p \in f, NEW q \in g,
         Str!Connected(f), Str!Connected(g), Str!Near(p, q)
  PROVE  Str!Connected(f \cup g)
<1> SUFFICES ASSUME NEW h \in SUBSET (f \cup g), h \notin {{}, f \cup g}
             PROVE  \E a \in h, b \in (f \cup g) \ h : Str!Near(a, b)
  BY DEF Str!Connected
<1>1. CASE h \cap f \notin {{}, f}
  <2>1. PICK a \in h \cap f, b \in f \ (h \cap f) : Str!Near(a, b)
    BY <1>1 DEF Str!Connected
  <2> QED
    BY <2>1
<1>2. CASE h \cap g \notin {{}, g}
  <2>1. PICK a \in h \cap g, b \in g \ (h \cap g) : Str!Near(a, b)
    BY <1>2 DEF Str!Connected
  <2> QED
    BY <2>1
<1>3. CASE h \cap f \in {{}, f} /\ h \cap g \in {{}, g}
  <2>1. Str!Near(q, p)
    BY StrNear
  <2>2. (p \in h /\ q \notin h) \/ (q \in h /\ p \notin h)
    BY <1>3
  <2> QED
    BY <2>1, <2>2
<1> QED
  BY <1>1, <1>2, <1>3

\* One pixel is connected.
LEMMA StrSingle == ASSUME NEW p PROVE Str!Connected({p})
BY DEF Str!Connected

\* Where the pixels of the picture lie, and those of preblobs.
LEMMA StrSeen ==
  ASSUME Str!PictureAssumption, ListInv, Str!Inside, PixelInv
  PROVE  /\ \A q \in snapshot : /\ q \in Str!Pixels /\ q = <<q[1], q[2]>>
                                /\ q[1] \in 0 .. Width - 2 /\ q[2] \in 0 .. Height - 1
         /\ Passed \subseteq snapshot
         /\ stage # "done" =>
              /\ Mine \subseteq Passed
              /\ \A pb \in DOMAIN heap : Owned(pb) \subseteq Passed /\ Owned(pb) \subseteq Str!Pixels
              /\ \A pb \in DOMAIN heap : Owned(pb) \cap Mine = {}
<1>1. snapshot \subseteq Str!Pixels
  BY DEF ListInv, Str!TypeOK
<1>2. \A q \in Str!Pixels : q = <<q[1], q[2]>> /\ q[1] \in 0 .. Width - 1 /\ q[2] \in 0 .. Height - 1
  BY DEF Str!Pixels
<1>3. \A q \in snapshot : q[1] # Width - 1
  BY DEF Str!Inside
<1>4. \A q \in snapshot : q[1] \in 0 .. Width - 2
  BY <1>1, <1>2, <1>3 DEF Str!PictureAssumption
<1>5. Passed \subseteq snapshot
  BY DEF Passed
<1>6. stage # "done" => Shared
  BY DEF PixelInv
<1> QED
  BY <1>1, <1>2, <1>4, <1>5, <1>6 DEF Shared

\* What was passed of the line of the stripe that is added ends two columns before it.
LEMMA StrBeside ==
  ASSUME Str!PictureAssumption, ListInv, Str!Inside, PixelInv, Adding, NEW q \in Passed, q \notin Mine
  PROVE  q[2] < row \/ (q[2] = row /\ q[1] + 2 <= stripe.hstart)
<1>1. Str!TypeOK /\ InLine /\ Edges
  BY DEF ListInv, PixelInv
<1>2. /\ stripe.hstart \in Int /\ stripe.hstop \in Int /\ col \in Int /\ row \in Int
      /\ stripe.vline = row /\ col = stripe.hstop + 2
      /\ <<stripe.hstart - 1, row>> \notin snapshot /\ <<stripe.hstop + 1, row>> \notin snapshot
  BY <1>1, StrNumbers DEF InLine, Edges
<1>3. q \in snapshot /\ q = <<q[1], q[2]>> /\ q[1] \in Int /\ q[2] \in Int
  BY StrSeen
<1>4. q[2] < row \/ (q[2] = row /\ q[1] < col)
  BY DEF Passed
<1>5. SUFFICES ASSUME q[2] = row PROVE q[1] + 2 <= stripe.hstart
  BY <1>4
<1>6. q[1] \notin stripe.hstart .. stripe.hstop
  BY <1>2, <1>3, <1>5 DEF Mine, Str!Own
<1>7. q[1] # stripe.hstart - 1 /\ q[1] # stripe.hstop + 1
  BY <1>2, <1>3, <1>5
<1> QED
  BY <1>2, <1>3, <1>4, <1>5, <1>6, <1>7

\* Pixels of the stripe are neighbours of a preblob's just where the stripe is in a range of it.
LEMMA StrNearTouches ==
  ASSUME Str!PictureAssumption, ListInv, Str!Inside, PixelInv, stage = "match",
         NEW pb \in DOMAIN heap, NEW p \in Mine, NEW q \in Owned(pb), Str!Near(p, q)
  PROVE  \E i \in DOMAIN stripes : stripes[i].pb = pb /\ Str!InRange(stripe, stripes[i])
<1>1. Str!TypeOK /\ InLine /\ Adding /\ OnLines
  BY DEF ListInv, PixelInv, InLine, Adding
<1>2. /\ stripe.hstart \in Int /\ stripe.hstop \in Int /\ row \in Int
      /\ stripe.vline = row /\ vline = row
  BY <1>1, StrNumbers DEF InLine
<1>3. /\ p \in Str!Pixels /\ q \in Str!Pixels /\ q \in Passed /\ q \notin Mine
      /\ p = <<p[1], p[2]>>
  BY StrSeen
<1>4. p[2] = row /\ stripe.hstart <= p[1] /\ p[1] <= stripe.hstop
  BY <1>1, <1>2 DEF Mine, Str!Own
<1>5. /\ p[1] \in Int /\ p[2] \in Int /\ q[1] \in Int /\ q[2] \in Int
      /\ p[1] <= q[1] + 1 /\ q[1] <= p[1] + 1 /\ p[2] <= q[2] + 1 /\ q[2] <= p[2] + 1
  BY <1>3, StrNear
<1>6. q[2] = row - 1
  BY <1>1, <1>2, <1>3, <1>4, <1>5, StrBeside
<1>7. PICK i \in DOMAIN stripes :
        stripes[i].pb = pb /\ stripes[i].x1 <= q[1] /\ q[1] <= stripes[i].x2
  BY <1>1, <1>2, <1>3, <1>6 DEF OnLines, Covers
<1>8. stripes[i].x1 \in Int /\ stripes[i].x2 \in Int
  BY <1>1, StrRanges
<1>9. Str!InRange(stripe, stripes[i])
  BY <1>2, <1>4, <1>5, <1>7, <1>8 DEF Str!InRange
<1> QED
  BY <1>7, <1>9

\* Ranges that overlap have pixels next to one another.
LEMMA StrTouchesNear ==
  ASSUME Str!PictureAssumption, ListInv, Str!Inside, PixelInv, stage = "match",
         NEW i \in DOMAIN stripes, Str!InRange(stripe, stripes[i])
  PROVE  \E p \in Mine, q \in Owned(stripes[i].pb) : Str!Near(p, q)
<1>1. Str!TypeOK /\ InLine /\ Adding /\ OnLines
  BY DEF ListInv, PixelInv, InLine, Adding
<1>2. /\ stripe.hstart \in Int /\ stripe.hstop \in Int /\ row \in Int
      /\ stripe.vline = row /\ vline = row /\ stripe.hstart <= stripe.hstop
  BY <1>1, StrNumbers DEF InLine
<1>3. /\ stripes[i].x1 \in Int /\ stripes[i].x2 \in Int
  BY <1>1, StrRanges
<1>4. /\ stripes[i].x1 <= stripes[i].x2
      /\ \A c \in stripes[i].x1 .. stripes[i].x2 : <<c, row - 1>> \in Owned(stripes[i].pb)
  BY <1>1, <1>2 DEF OnLines, Covers
<1>5. stripe.hstart - 1 <= stripes[i].x2 /\ stripe.hstop + 1 >= stripes[i].x1
  BY DEF Str!InRange
<1>6. PICK a \in stripe.hstart .. stripe.hstop, c \in stripes[i].x1 .. stripes[i].x2 :
        a - c \in -1 .. 1
  <2>1. CASE stripes[i].x2 < stripe.hstart
    BY <1>2, <1>3, <1>4, <1>5, <2>1
  <2>2. CASE stripes[i].x1 > stripe.hstop
    BY <1>2, <1>3, <1>4, <1>5, <2>2
  <2>3. CASE stripes[i].x2 >= stripe.hstart /\ stripes[i].x1 <= stripe.hstop
    <3>1. CASE stripes[i].x1 <= stripe.hstart
      <4>1. stripe.hstart \in stripes[i].x1 .. stripes[i].x2 /\ stripe.hstart - stripe.hstart \in -1 .. 1
        BY <1>2, <1>3, <2>3, <3>1
      <4> QED
        BY <1>2, <4>1
    <3>2. CASE stripes[i].x1 > stripe.hstart
      <4>1. stripes[i].x1 \in stripe.hstart .. stripe.hstop /\ stripes[i].x1 - stripes[i].x1 \in -1 .. 1
        BY <1>2, <1>3, <2>3, <3>2
      <4> QED
        BY <1>3, <1>4, <4>1
    <3> QED
      BY <1>2, <1>3, <3>1, <3>2
  <2> QED
    BY <1>2, <1>3, <2>1, <2>2, <2>3
<1>7. <<a, row>> \in Mine /\ <<c, row - 1>> \in Owned(stripes[i].pb)
  BY <1>1, <1>2, <1>4, <1>6 DEF Mine, Str!Own
<1>8. Str!Near(<<a, row>>, <<c, row - 1>>)
  BY <1>2, <1>6 DEF Str!Near
<1> QED
  BY <1>7, <1>8

\* The pixels are those of the picture at first,
LEMMA StrPixelInit == ASSUME Str!PictureAssumption, Str!Init PROVE PixelInv
<1> USE DEF Str!Init
<1>1. ListInv
  BY StrListInit
<1>2. snapshot \subseteq Str!Pixels
  BY <1>1 DEF ListInv, Str!TypeOK
<1>3. \A q \in Str!Pixels : q[1] >= 0 /\ q[2] >= 0 /\ q[1] \in Int /\ q[2] \in Int
  BY DEF Str!Pixels
<1>4. Passed = {}
  BY <1>2, <1>3 DEF Passed
<1>5. Mine = {} /\ ~Adding /\ Into = {}
  BY DEF Mine, Adding, Into
<1>6. <<0 - 1, 0>> \notin snapshot
  <2>1. ASSUME <<0 - 1, 0>> \in snapshot PROVE FALSE
    <3>1. <<0 - 1, 0>>[1] >= 0
      BY <1>2, <1>3, <2>1
    <3> QED
      BY <3>1
  <2> QED
    BY <2>1
<1>7. SeesPicture /\ Edges /\ OnePiece /\ Touched
  BY <1>5, <1>6 DEF SeesPicture, Edges, OnePiece, Touched
<1>8. OnLines
  BY DEF OnLines, Covers
<1>9. Shared /\ Pieces
  BY <1>4, <1>5 DEF Shared, Pieces
<1> QED
  BY <1>7, <1>8, <1>9 DEF PixelInv

\* Steps that leave the scan alone, and the pixels of preblobs.
LEMMA StrSameScan ==
  ASSUME snapshot' = snapshot, bright' = bright, col' = col, row' = row, stripe' = stripe,
         stage \notin {"dark", "lit"}, stage' \notin {"dark", "lit"}, Adding' <=> Adding,
         SeesPicture, Edges, OnePiece
  PROVE  Passed' = Passed /\ Mine' = Mine /\ SeesPicture' /\ Edges' /\ OnePiece'
<1>1. Passed' = Passed
  BY DEF Passed
<1>2. Mine' = Mine
  BY DEF Mine, Str!Own
<1>3. SeesPicture'
  BY <1>1 DEF SeesPicture
<1>4. Edges'
  BY DEF Edges
<1>5. OnePiece'
  BY <1>2 DEF OnePiece, Str!Connected, Str!Near
<1> QED
  BY <1>1, <1>2, <1>3, <1>4, <1>5

\* Nothing changes the pieces while no pixel does.
LEMMA StrSamePixels ==
  ASSUME Passed' = Passed, Mine' = Mine, Into' = Into, DOMAIN heap' = DOMAIN heap,
         \A pb \in DOMAIN heap : heap'[pb].pixels = heap[pb].pixels /\ heap'[pb].points = heap[pb].points,
         Shared, Pieces
  PROVE  Shared' /\ Pieces'
<1>1. \A pb \in DOMAIN heap : Owned(pb)' = Owned(pb) /\ Grown(pb)' = Grown(pb)
  BY DEF Owned, Grown
<1>2. Shared'
  BY <1>1 DEF Shared
<1>3. Pieces'
  BY <1>1 DEF Pieces, Str!Connected, Str!Near
<1> QED
  BY <1>2, <1>3

\* after a bright pixel,
LEMMA StrPixelLit ==
  ASSUME Str!PictureAssumption, ListInv, Str!Inside, PixelInv, Str!Lit PROVE PixelInv'
<1> USE DEF Str!lines
<1>1. /\ stage \in {"dark", "lit"} /\ stage' = "lit" /\ row' = row /\ col' = col + 1 /\ vline' = vline
      /\ <<col, row>> \in bright /\ heap' = heap /\ stripes' = stripes /\ newStripes' = newStripes
      /\ bright' = bright /\ snapshot' = snapshot /\ turn' = turn /\ rng' = rng
  BY DEF Str!Lit
<1>2. Str!TypeOK /\ InLine /\ Shared /\ Pieces /\ SeesPicture /\ Edges /\ OnePiece /\ OnLines
  BY <1>1 DEF ListInv, PixelInv
<1> DEFINE q == <<col, row>>
<1>3. /\ col \in 0 .. Width - 1 /\ row \in 0 .. Height - 1 /\ q \in Str!Pixels
      /\ q[1] = col /\ q[2] = row
  BY <1>1, <1>2 DEF Str!TypeOK, Str!Pixels, Str!PictureAssumption
<1>4. q \notin Passed
  BY <1>3 DEF Passed
<1>5. q \in snapshot
  BY <1>1, <1>3, <1>4, <1>2 DEF SeesPicture
<1>6. Passed' = Passed \cup {q}
  <2>1. \A a \in snapshot : a = <<a[1], a[2]>> /\ a[1] \in Int /\ a[2] \in Int
    BY StrSeen
  <2>2. \A a \in snapshot : a[2] < row \/ (a[2] = row /\ a[1] < col + 1)
                            <=> (a[2] < row \/ (a[2] = row /\ a[1] < col)) \/ a = q
    BY <1>3, <2>1
  <2> QED
    BY <1>1, <1>5, <2>2 DEF Passed
<1>7. stage = "lit" => /\ stripe.hstop + 1 = col /\ stripe.hstart <= stripe.hstop /\ stripe.vline = row
                       /\ stripe.hstart \in 0 .. Width - 1 /\ stripe.hstop \in 0 .. Width - 1
  BY <1>2, StrNumbers DEF InLine
<1>8. /\ stripe'.vline = row /\ stripe'.hstop = col
      /\ stripe'.hstart = IF stage = "lit" THEN stripe.hstart ELSE col
  <2>1. stripe \in Str!Stripe
    BY <1>2 DEF Str!TypeOK
  <2> QED
    BY <1>7, <2>1 DEF Str!Lit, Str!Stripe
<1>9. Mine' = Mine \cup {q} /\ Mine' = Str!Own(stripe')
  <2>1. Mine' = (stripe'.hstart .. col) \X {row}
    BY <1>1, <1>8 DEF Mine, Str!Own
  <2>2. CASE stage = "lit"
    <3>1. Mine = (stripe.hstart .. stripe.hstop) \X {row}
      BY <1>7, <2>2 DEF Mine, Str!Own
    <3>2. stripe.hstart .. col = (stripe.hstart .. stripe.hstop) \cup {col}
      BY <1>3, <1>7, <2>2
    <3>3. Mine' = ((stripe.hstart .. stripe.hstop) \cup {col}) \X {row}
      BY <1>8, <2>1, <2>2, <3>2
    <3> QED
      BY <1>1, <3>1, <3>3 DEF Mine
  <2>3. CASE stage = "dark"
    <3>1. Mine = {} /\ stripe'.hstart = col
      BY <1>8, <2>3 DEF Mine, Adding
    <3>2. col .. col = {col}
      BY <1>3
    <3> QED
      BY <1>1, <2>1, <3>1, <3>2 DEF Mine
  <2> QED
    BY <1>1, <2>2, <2>3
<1>10. SeesPicture'
  <2>1. ASSUME NEW a \in Str!Pixels, a[2] > row \/ (a[2] = row /\ a[1] >= col + 1)
        PROVE  a \in bright <=> a \in snapshot
    <3>1. a[1] \in Int /\ a[2] \in Int
      BY DEF Str!Pixels
    <3>2. a \notin Passed /\ (a[2] > row \/ (a[2] = row /\ a[1] >= col))
      BY <1>3, <2>1, <3>1 DEF Passed
    <3> QED
      BY <1>2, <3>2 DEF SeesPicture
  <2> QED
    BY <1>1, <2>1 DEF SeesPicture
<1>11. Edges'
  <2>1. <<stripe'.hstart - 1, row>> \notin snapshot
    BY <1>1, <1>2, <1>8 DEF Edges
  <2> QED
    BY <1>1, <2>1 DEF Edges, Adding
<1>12. OnePiece'
  <2>1. Str!Connected({q})
    BY StrSingle
  <2>2. CASE stage = "lit"
    <3>1. Mine \subseteq Str!Pixels /\ q \notin Mine
      BY <1>2, <1>4, <2>2, StrSeen DEF Shared
    <3>2. <<stripe.hstop, row>> \in Mine
      BY <1>7, <2>2 DEF Mine, Str!Own
    <3>3. Str!Near(<<stripe.hstop, row>>, q)
      BY <1>3, <1>7, <2>2 DEF Str!Near
    <3>4. Str!Connected(Mine)
      BY <1>2, <2>2 DEF OnePiece
    <3>5. {q} \in SUBSET Str!Pixels /\ q \in {q}
      BY <1>3
    <3>6. Str!Connected(Mine \cup {q})
      BY <2>1, <3>1, <3>2, <3>3, <3>4, <3>5, StrJoined
    <3>7. /\ IsFiniteSet(Mine \cup {q}) /\ Cardinality(Mine \cup {q}) = Cardinality(Mine) + 1
          /\ Cardinality(Mine) = stripe.hstop - stripe.hstart + 1
      BY <1>2, <2>2, <3>1, FS_AddElement DEF OnePiece
    <3>8. Cardinality(Mine \cup {q}) = stripe'.hstop - stripe'.hstart + 1
      BY <1>3, <1>7, <1>8, <2>2, <3>7
    <3> QED
      BY <1>9, <3>6, <3>7, <3>8 DEF OnePiece, Str!Connected, Str!Near
  <2>3. CASE stage = "dark"
    <3>1. Mine' = {q}
      BY <1>1, <1>9, <2>3 DEF Mine, Adding
    <3>2. IsFiniteSet({q}) /\ Cardinality({q}) = 1
      BY FS_Singleton
    <3>3. stripe'.hstop - stripe'.hstart + 1 = 1
      BY <1>3, <1>8, <2>3
    <3> QED
      BY <2>1, <3>1, <3>2, <3>3 DEF OnePiece, Str!Connected, Str!Near
  <2> QED
    BY <1>1, <2>2, <2>3
<1>13. Touched'
  BY <1>1 DEF Touched
<1>14. OnLines'
  BY <1>1, <1>2 DEF OnLines, Covers, Owned
<1>15. \A pb \in DOMAIN heap : Owned(pb)' = Owned(pb)
  BY <1>1 DEF Owned
<1>16. Shared'
  <2>1. \A pb \in DOMAIN heap : Owned(pb) \cap (Mine \cup {q}) = {}
    BY <1>2, <1>4 DEF Shared
  <2> QED
    BY <1>1, <1>2, <1>6, <1>9, <1>15, <2>1 DEF Shared
<1>17. Pieces'
  <2>1. Into' = {} /\ Into = {}
    BY <1>1 DEF Into
  <2>2. \A pb \in DOMAIN heap : Grown(pb)' = Grown(pb)
    BY <1>15, <2>1 DEF Grown
  <2> QED
    BY <1>1, <1>2, <1>15, <2>2 DEF Pieces, Str!Connected, Str!Near
<1> QED
  BY <1>10, <1>11, <1>12, <1>13, <1>14, <1>16, <1>17 DEF PixelInv

\* after a dark one,
LEMMA StrPixelDark ==
  ASSUME Str!PictureAssumption, ListInv, Str!Inside, PixelInv, Str!Dark PROVE PixelInv'
<1> USE DEF Str!lines
<1>1. /\ stage = "dark" /\ stage' = "dark" /\ vline' = vline /\ row < Height
      /\ <<col, row>> \notin bright /\ heap' = heap /\ stripes' = stripes /\ newStripes' = newStripes
      /\ bright' = bright /\ snapshot' = snapshot /\ stripe' = stripe /\ turn' = turn /\ rng' = rng
  BY DEF Str!Dark
<1>2. Str!TypeOK /\ InLine /\ Shared /\ Pieces /\ SeesPicture /\ Edges /\ OnePiece /\ OnLines
  BY <1>1 DEF ListInv, PixelInv
<1>3. /\ col \in 0 .. Width /\ row \in 0 .. Height - 1 /\ Width \in Nat /\ Height \in Nat
      /\ \/ col < Width /\ col' = col + 1 /\ row' = row
         \/ col = Width /\ col' = 0 /\ row' = row + 1
  BY <1>1, <1>2, StrNumbers DEF Str!Dark
<1>4. <<col, row>> \notin snapshot
  <2>1. ASSUME <<col, row>> \in snapshot PROVE FALSE
    <3>1. <<col, row>> \in Str!Pixels /\ <<col, row>>[1] = col /\ <<col, row>>[2] = row
      BY <2>1, StrSeen
    <3>2. <<col, row>> \notin Passed
      BY <1>3, <3>1 DEF Passed
    <3> QED
      BY <1>1, <1>2, <1>3, <2>1, <3>1, <3>2 DEF SeesPicture
  <2> QED
    BY <2>1
<1>5. \A q \in snapshot : /\ q = <<q[1], q[2]>> /\ q[1] \in 0 .. Width - 2 /\ q[2] \in 0 .. Height - 1
                          /\ q \in Str!Pixels
  BY StrSeen
<1>6. Passed' = Passed
  <2>1. \A q \in snapshot : (q[2] < row' \/ (q[2] = row' /\ q[1] < col'))
                            <=> (q[2] < row \/ (q[2] = row /\ q[1] < col))
    BY <1>3, <1>4, <1>5
  <2> QED
    BY <1>1, <2>1 DEF Passed
<1>7. Mine' = Mine /\ Mine = {} /\ ~Adding /\ ~Adding' /\ Into = {} /\ Into' = {}
  BY <1>1 DEF Mine, Adding, Into
<1>8. SeesPicture'
  <2>1. ASSUME NEW a \in Str!Pixels, a[2] > row' \/ (a[2] = row' /\ a[1] >= col'), a \notin Passed
        PROVE  a \in bright <=> a \in snapshot
    <3>1. a[1] \in 0 .. Width - 1 /\ a[2] \in Int
      BY DEF Str!Pixels
    <3>2. a[2] > row \/ (a[2] = row /\ a[1] >= col)
      BY <1>3, <2>1, <3>1
    <3> QED
      BY <1>2, <2>1, <3>2 DEF SeesPicture
  <2> QED
    BY <1>1, <1>6, <2>1 DEF SeesPicture
<1>9. Edges'
  <2>1. <<col' - 1, row'>> \notin snapshot
    <3>1. CASE col < Width /\ col' = col + 1 /\ row' = row
      <4>1. col' - 1 = col
        BY <1>3, <3>1
      <4> QED
        BY <1>4, <3>1, <4>1
    <3>2. CASE col' = 0
      <4>1. ASSUME <<col' - 1, row'>> \in snapshot PROVE FALSE
        <5>1. <<col' - 1, row'>>[1] \in 0 .. Width - 2
          BY <1>5, <4>1
        <5> QED
          BY <1>3, <3>2, <5>1
      <4> QED
        BY <4>1
    <3> QED
      BY <1>3, <3>1, <3>2
  <2> QED
    BY <1>1, <1>7, <2>1 DEF Edges
<1>10. OnePiece' /\ Touched'
  BY <1>1, <1>7 DEF OnePiece, Touched
<1>11. OnLines'
  BY <1>1, <1>2 DEF OnLines, Covers, Owned
<1>12. Shared' /\ Pieces'
  BY <1>1, <1>2, <1>6, <1>7, StrSamePixels
<1> QED
  BY <1>8, <1>9, <1>10, <1>11, <1>12 DEF PixelInv

\* The picture is drawn into behind the scan only: no stripe ends with its line.
LEMMA StrPixelEnds ==
  ASSUME Str!PictureAssumption, ListInv, Str!Inside, PixelInv, Str!Ends PROVE PixelInv'
<1> USE DEF Str!lines
<1>1. /\ stage = "lit" /\ stage' \in {"match", "old"} /\ vline' = vline /\ row' = row /\ turn' = 1
      /\ rng' = 0 /\ stripe' = [stripe EXCEPT !.points = @ + 1] /\ snapshot' = snapshot
      /\ col' = (IF col < Width THEN col + 1 ELSE col) /\ bright' = bright \cup Str!Drawn(stripe)
      /\ heap' = heap /\ stripes' = stripes /\ newStripes' = newStripes /\ <<col, row>> \notin bright
  BY DEF Str!Ends
<1>2. Str!TypeOK /\ InLine /\ Shared /\ Pieces /\ SeesPicture /\ Edges /\ OnePiece /\ OnLines
  BY <1>1 DEF ListInv, PixelInv
<1>3. /\ stripe.vline = row /\ stripe.hstop + 1 = col /\ row < Height /\ stripe.hstart <= stripe.hstop
      /\ col \in 0 .. Width /\ row \in 0 .. Height - 1 /\ Width \in Nat /\ Height \in Nat
      /\ stripe.hstart \in 0 .. Width - 1 /\ stripe.hstop \in 0 .. Width - 1
  BY <1>1, <1>2, StrNumbers DEF InLine
<1>4. stripe'.vline = row /\ stripe'.hstop = stripe.hstop /\ stripe'.hstart = stripe.hstart
  BY <1>1, <1>2, <1>3 DEF Str!TypeOK, Str!Stripe
<1>5. \A q \in snapshot : /\ q = <<q[1], q[2]>> /\ q[1] \in 0 .. Width - 2 /\ q[2] \in 0 .. Height - 1
                          /\ q \in Str!Pixels
  BY StrSeen
<1>6. col < Width /\ col' = col + 1
  <2>1. <<stripe.hstop, row>> \in Mine
    BY <1>1, <1>3 DEF Mine, Str!Own
  <2>2. <<stripe.hstop, row>> \in snapshot
    BY <1>1, <2>1, StrSeen
  <2>3. <<stripe.hstop, row>>[1] \in 0 .. Width - 2
    BY <1>5, <2>2
  <2> QED
    BY <1>1, <1>3, <2>3
<1>7. <<col, row>> \in Str!Pixels /\ <<col, row>>[1] = col /\ <<col, row>>[2] = row
  BY <1>3, <1>6 DEF Str!Pixels
<1>8. <<col, row>> \notin snapshot
  <2>1. <<col, row>> \notin Passed
    BY <1>3, <1>7 DEF Passed
  <2> QED
    BY <1>1, <1>2, <1>3, <1>7, <2>1 DEF SeesPicture
<1>9. Passed' = Passed
  <2>1. \A q \in snapshot : (q[2] < row \/ (q[2] = row /\ q[1] < col + 1))
                            <=> (q[2] < row \/ (q[2] = row /\ q[1] < col))
    BY <1>3, <1>5, <1>8
  <2> QED
    BY <1>1, <1>6, <2>1 DEF Passed
<1>10. Mine' = Mine /\ Adding'
  BY <1>1, <1>3, <1>4 DEF Mine, Adding, Str!Own
<1>11. Into' = {} /\ Into = {}
  BY <1>1 DEF Into
<1>12. SeesPicture'
  <2>1. ASSUME NEW a \in Str!Pixels, a[2] > row \/ (a[2] = row /\ a[1] >= col + 1), a \notin Passed
        PROVE  a \in bright' <=> a \in snapshot
    <3>1. a[1] \in Int /\ a[2] \in Int
      BY DEF Str!Pixels
    <3>2. a \in bright <=> a \in snapshot
      BY <1>2, <1>3, <2>1, <3>1 DEF SeesPicture
    <3>3. a \notin Str!Drawn(stripe)
      <4>1. ASSUME NEW c \in stripe.hstart + 1 .. stripe.hstop + 1
            PROVE  a # IF c < Width THEN <<c, stripe.vline>> ELSE <<0, stripe.vline + 1>>
        <5>1. c < Width /\ c \in Int /\ c <= col
          BY <1>3, <1>6, <4>1
        <5>2. <<c, stripe.vline>>[1] = c /\ <<c, stripe.vline>>[2] = row
          BY <1>3
        <5> QED
          BY <1>3, <2>1, <3>1, <5>1, <5>2
      <4> QED
        BY <4>1 DEF Str!Drawn
    <3> QED
      BY <1>1, <3>2, <3>3
  <2> QED
    BY <1>1, <1>6, <1>9, <2>1 DEF SeesPicture
<1>13. Edges'
  <2>1. <<stripe.hstart - 1, row>> \notin snapshot
    BY <1>1, <1>2 DEF Edges
  <2>2. col' = stripe.hstop + 2 /\ stripe.hstop + 1 = col
    BY <1>3, <1>6
  <2> QED
    BY <1>1, <1>4, <1>8, <1>10, <2>1, <2>2 DEF Edges
<1>14. OnePiece'
  BY <1>1, <1>2, <1>4, <1>10 DEF OnePiece, Str!Connected, Str!Near
<1>15. Touched'
  <2>1. ~\E i \in DOMAIN stripes : i < 1
    BY <1>2, StrRanges
  <2> QED
    BY <1>1, <2>1 DEF Touched
<1>16. OnLines'
  BY <1>1, <1>2 DEF OnLines, Covers, Owned
<1>17. Shared' /\ Pieces'
  BY <1>1, <1>2, <1>9, <1>10, <1>11, StrSamePixels
<1> QED
  BY <1>12, <1>13, <1>14, <1>15, <1>16, <1>17 DEF PixelInv

\* with a blob there was,
LEMMA StrPixelStoreOld ==
  ASSUME Str!PictureAssumption, ListInv, Str!Inside, PixelInv, Str!StoreOld PROVE PixelInv'
<1> USE DEF Str!lines, Str!scanned
<1>1. /\ stage = "old" /\ stage' \in {"old", "new"} /\ row' = row /\ col' = col /\ vline' = vline
      /\ heap' = heap /\ stripes' = stripes /\ newStripes' = newStripes /\ bright' = bright
      /\ snapshot' = snapshot /\ stripe' = stripe
  BY DEF Str!StoreOld
<1>2. Shared /\ Pieces /\ SeesPicture /\ Edges /\ OnePiece /\ OnLines
  BY <1>1 DEF PixelInv
<1>3. (Adding' <=> Adding) /\ Into' = {} /\ Into = {}
  BY <1>1 DEF Adding, Into
<1>4. Passed' = Passed /\ Mine' = Mine /\ SeesPicture' /\ Edges' /\ OnePiece'
  BY <1>1, <1>2, <1>3, StrSameScan
<1>5. Touched' /\ OnLines'
  BY <1>1, <1>2 DEF Touched, OnLines, Covers, Owned
<1>6. Shared' /\ Pieces'
  BY <1>1, <1>2, <1>3, <1>4, StrSamePixels
<1> QED
  BY <1>4, <1>5, <1>6 DEF PixelInv

\* with a new one,
LEMMA StrPixelStoreNew ==
  ASSUME Str!PictureAssumption, ListInv, Str!Inside, PixelInv, Str!StoreNew PROVE PixelInv'
<1> USE DEF Str!lines, Str!scanned
<1>1. /\ stage = "new" /\ stage' = "new" /\ row' = row /\ col' = col /\ vline' = vline
      /\ stripes' = stripes /\ newStripes' = newStripes /\ bright' = bright
      /\ snapshot' = snapshot /\ stripe' = stripe
  BY DEF Str!StoreNew
<1>2. Shared /\ Pieces /\ SeesPicture /\ Edges /\ OnePiece /\ OnLines
  BY <1>1 DEF PixelInv
<1>3. (Adding' <=> Adding) /\ Into' = {} /\ Into = {}
  BY <1>1 DEF Adding, Into
<1>4. Passed' = Passed /\ Mine' = Mine /\ SeesPicture' /\ Edges' /\ OnePiece'
  BY <1>1, <1>2, <1>3, StrSameScan
<1>5. DOMAIN heap' = DOMAIN heap
      /\ \A pb \in DOMAIN heap : heap'[pb].pixels = heap[pb].pixels /\ heap'[pb].points = heap[pb].points
  <2> DEFINE pb == newStripes[turn].pb
             R == [pixels : SUBSET Str!Pixels, points : Nat, matched : BOOLEAN]
  <2>1. heap' = [heap EXCEPT ![pb].matched = FALSE]
    BY DEF Str!StoreNew
  <2>2. heap \in [DOMAIN heap -> R]
    BY DEF ListInv, Str!TypeOK
  <2> HIDE DEF pb
  <2> QED
    BY <2>1, <2>2
<1>6. Touched' /\ OnLines'
  <2>1. \A pb \in DOMAIN heap : Owned(pb)' = Owned(pb)
    BY <1>5 DEF Owned
  <2>2. Covers(stripes, vline - 1)' /\ Covers(newStripes, vline)'
    <3>1. \A i \in DOMAIN stripes : stripes[i].pb \in DOMAIN heap
      BY StrRanges DEF ListInv
    <3>2. \A i \in DOMAIN newStripes : newStripes[i].pb \in DOMAIN heap
      BY StrRanges DEF ListInv
    <3>3. Covers(stripes, vline - 1) /\ Covers(newStripes, vline)
      BY <1>1, <1>2 DEF OnLines
    <3> QED
      BY <1>1, <1>5, <2>1, <3>1, <3>2, <3>3 DEF Covers
  <2> QED
    BY <1>1, <1>2, <1>5, <2>1, <2>2 DEF Touched, OnLines
<1>7. Shared' /\ Pieces'
  BY <1>2, <1>3, <1>4, <1>5, StrSamePixels
<1> QED
  BY <1>4, <1>6, <1>7 DEF PixelInv

\* on the next line,
LEMMA StrPixelNextLine ==
  ASSUME Str!PictureAssumption, ListInv, Str!Inside, PixelInv, Str!NextLine PROVE PixelInv'
<1> USE DEF Str!scanned
<1>1. /\ stage = "new" /\ row' = row /\ col' = col /\ heap' = heap
      /\ bright' = bright /\ snapshot' = snapshot /\ rng' = rng /\ stripe' = stripe /\ turn' = 1
      /\ newStripes' = <<>> /\ stripes' = (IF Str!All THEN <<>> ELSE newStripes)
      /\ vline' = (IF Str!Over THEN -2 ELSE stripe.vline)
      /\ stage' = (IF Str!Over THEN "report" ELSE "match")
  BY DEF Str!NextLine
<1>2. /\ Str!TypeOK /\ InLine /\ MatchedOnLine
      /\ Shared /\ Pieces /\ SeesPicture /\ Edges /\ OnePiece /\ OnLines
  BY <1>1 DEF PixelInv, ListInv
<1>3. /\ row \in 0 .. Height /\ Height \in Nat /\ vline <= row /\ vline # row /\ vline \in Int
      /\ stripe.vline \in Int
  BY <1>1, <1>2, StrNumbers DEF InLine
<1>4. Adding' <=> Adding
  BY <1>1, <1>3 DEF Adding, Str!Over
<1>5. ~Str!Over => stripe.vline = row /\ rng = 0
  BY <1>1, <1>2, <1>3 DEF InLine, MatchedOnLine, Adding, Str!Over
<1>6. Into' = {} /\ Into = {}
  BY <1>1, <1>5 DEF Into
<1>7. Passed' = Passed /\ Mine' = Mine /\ SeesPicture' /\ Edges' /\ OnePiece'
  <2>1. stage \notin {"dark", "lit"} /\ stage' \notin {"dark", "lit"}
    BY <1>1
  <2> QED
    BY <1>1, <1>2, <1>4, <2>1, StrSameScan
<1>8. Shared' /\ Pieces'
  BY <1>1, <1>2, <1>6, <1>7, StrSamePixels
<1>9. Touched'
  <2>1. CASE Str!Over
    BY <1>1, <2>1 DEF Touched
  <2>2. CASE ~Str!Over
    <3>1. rng' = 0 /\ \A i \in DOMAIN stripes' : ~(i < turn')
      BY <1>1, <1>2, <1>5, <2>2, StrRanges
    <3> QED
      BY <3>1 DEF Touched
  <2> QED
    BY <2>1, <2>2
<1>10. OnLines'
  <2>1. CASE Str!Over
    BY <1>1, <2>1 DEF OnLines
  <2>2. CASE ~Str!Over
    <3>1. vline' = row
      BY <1>1, <1>5, <2>2
    <3>2. \A pb \in DOMAIN heap : \A q \in Owned(pb) : q[2] <= vline /\ q[2] \in Int
      BY <1>1, <1>2, StrSeen DEF OnLines
    <3>3. \A pb \in DOMAIN heap : \A q \in Owned(pb) : q[2] <= vline' /\ q[2] # row
      BY <1>3, <3>1, <3>2
    <3>4. Covers(newStripes, row)'
      BY <1>1, <3>3 DEF Covers, Owned
    <3>5. Covers(stripes, vline - 1)'
      <4>1. CASE Str!All
        <5>1. vline' > vline + 1
          BY <1>3, <1>5, <2>2, <3>1, <4>1 DEF Str!All
        <5>2. \A pb \in DOMAIN heap : \A q \in Owned(pb) : q[2] # vline' - 1
          BY <1>3, <3>1, <3>2, <5>1
        <5>3. stripes' = <<>>
          BY <1>1, <4>1
        <5> QED
          BY <1>1, <5>2, <5>3 DEF Covers, Owned
      <4>2. CASE ~Str!All
        <5>1. vline' - 1 = vline /\ stripes' = newStripes
          BY <1>1, <1>3, <1>5, <2>2, <3>1, <4>2 DEF Str!All
        <5>2. Covers(newStripes, vline)
          BY <1>1, <1>2 DEF OnLines
        <5> QED
          BY <1>1, <5>1, <5>2 DEF Covers, Owned
      <4> QED
        BY <4>1, <4>2
    <3>6. \A pb \in DOMAIN heap' : \A q \in Owned(pb)' : q[2] <= vline'
      BY <1>1, <3>3 DEF Owned
    <3> QED
      BY <1>1, <3>1, <3>4, <3>5, <3>6 DEF OnLines, Covers, Owned
  <2> QED
    BY <2>1, <2>2
<1> QED
  BY <1>7, <1>8, <1>9, <1>10 DEF PixelInv

\* Fields that share no pixel have as many as both.
LEMMA StrCounted ==
  ASSUME NEW f, NEW g, IsFiniteSet(f), IsFiniteSet(g), f \cap g = {}
  PROVE  IsFiniteSet(f \cup g) /\ Cardinality(f \cup g) = Cardinality(f) + Cardinality(g)
<1>1. Cardinality(f \cap g) = 0
  BY FS_EmptySet
<1>2. Cardinality(f) \in Nat /\ Cardinality(g) \in Nat
  BY FS_CardinalityType
<1>3. /\ IsFiniteSet(f \cup g)
      /\ Cardinality(f \cup g) = Cardinality(f) + Cardinality(g) - Cardinality(f \cap g)
  BY FS_Union
<1>4. Cardinality(f) + Cardinality(g) - 0 = Cardinality(f) + Cardinality(g)
  BY <1>2
<1> QED
  BY <1>1, <1>3, <1>4

\* Preblobs share no pixel, since no two of their pixels are neighbours.
LEMMA StrDisjoint ==
  ASSUME Str!PictureAssumption, ListInv, Str!Inside, PixelInv, stage # "done",
         NEW pb \in DOMAIN heap, NEW pe \in DOMAIN heap, pb # pe
  PROVE  Owned(pb) \cap Owned(pe) = {}
<1>1. SUFFICES ASSUME NEW q \in Owned(pb) \cap Owned(pe) PROVE FALSE
  OBVIOUS
<1>2. Str!Near(q, q)
  BY StrSeen, StrNear
<1>3. Pieces
  BY DEF PixelInv
<1> QED
  BY <1>2, <1>3 DEF Pieces

\* after a match,
LEMMA StrPixelMatch ==
  ASSUME Str!PictureAssumption, ListInv, Str!Inside, PixelInv, Str!Match PROVE PixelInv'
<1> USE DEF Str!scanned
<1>1. /\ stage = "match" /\ stage' = "match" /\ row' = row /\ col' = col /\ vline' = vline
      /\ bright' = bright /\ snapshot' = snapshot
      /\ stripe' = stripe /\ turn' = turn + 1 /\ turn \in DOMAIN stripes
  BY DEF Str!Match
<1>2. /\ Str!TypeOK /\ InLine /\ MatchedOnLine /\ ListInv'
      /\ Shared /\ Pieces /\ SeesPicture /\ Edges /\ OnePiece /\ OnLines /\ Touched
  BY <1>1, StrListMatch DEF PixelInv, ListInv
<1>3. /\ turn >= 1 /\ turn \in Nat /\ rng \in Nat
      /\ rng < turn /\ rng <= Len(stripes) /\ turn <= Len(stripes) /\ Len(stripes) \in Nat
      /\ DOMAIN stripes = 1 .. Len(stripes)
  BY <1>1, <1>2, StrNumbers, StrRanges DEF InLine, MatchedOnLine
<1>4. Adding /\ Adding'
  BY <1>1, <1>2 DEF Adding, InLine
<1>5. Passed' = Passed /\ Mine' = Mine /\ SeesPicture' /\ Edges' /\ OnePiece'
  BY <1>1, <1>2, <1>4, StrSameScan
<1>6. PICK met \in DOMAIN heap, into \in DOMAIN heap :
        /\ met = stripes[turn].pb
        /\ into = IF rng = 0 THEN met ELSE stripes[rng].pb
  <2>1. stripes[turn].pb \in DOMAIN heap /\ (rng # 0 => stripes[rng].pb \in DOMAIN heap)
    BY <1>1, <1>2, <1>3, StrRanges
  <2> QED
    BY <2>1
<1>7. /\ \A i \in DOMAIN stripes :
           i < turn /\ Str!InRange(stripe, stripes[i]) => rng # 0 /\ stripes[i].pb = stripes[rng].pb
      /\ rng # 0 => Str!InRange(stripe, stripes[rng])
  BY <1>1, <1>2 DEF Touched
<1>8. \A i \in DOMAIN stripes : i < turn + 1 => i < turn \/ i = turn
  BY <1>3
<1>9. Covers(stripes, vline - 1) /\ Covers(newStripes, vline)
      /\ \A pb \in DOMAIN heap : \A q \in Owned(pb) : q[2] <= vline
  BY <1>1, <1>2 DEF OnLines
<1>10. /\ \A i \in DOMAIN stripes : stripes[i].pb \in DOMAIN heap
       /\ \A i \in DOMAIN newStripes : newStripes[i].pb \in DOMAIN heap
  BY <1>2, StrRanges
<1>11. Str!Connected(Mine) /\ Mine \subseteq Str!Pixels
       /\ \A pb \in DOMAIN heap : Owned(pb) \subseteq Str!Pixels
  BY <1>1, <1>2, <1>4, StrSeen DEF OnePiece
<1>12. CASE ~Str!InRange(stripe, stripes[turn])
  <2>1. rng' = rng /\ heap' = heap /\ stripes' = stripes /\ newStripes' = newStripes
    BY <1>12 DEF Str!Match
  <2>2. Into' = Into
    BY <1>1, <2>1 DEF Into
  <2>3. Shared' /\ Pieces'
    BY <1>2, <1>5, <2>1, <2>2, StrSamePixels
  <2>4. OnLines'
    BY <1>1, <1>2, <2>1 DEF OnLines, Covers, Owned
  <2>5. Touched'
    BY <1>1, <1>7, <1>8, <1>12, <2>1 DEF Touched
  <2> QED
    BY <1>5, <2>3, <2>4, <2>5 DEF PixelInv
<1>13. CASE Str!InRange(stripe, stripes[turn]) /\ into = met
  <2>1. /\ rng' = (IF rng = 0 THEN turn ELSE rng) /\ heap' = [heap EXCEPT ![met].matched = TRUE]
        /\ stripes' = stripes /\ newStripes' = newStripes
    BY <1>6, <1>13 DEF Str!Match
  <2>2. Into' = {met} /\ (rng = 0 => Into = {}) /\ (rng # 0 => Into = {met})
    <3>1. rng' # 0 /\ stripes[rng'].pb = met /\ (rng # 0 => stripes[rng].pb = met)
      BY <1>3, <1>6, <1>13, <2>1
    <3> QED
      BY <1>1, <2>1, <3>1 DEF Into
  <2>3. \E p \in Mine, q \in Owned(met) : Str!Near(p, q)
    BY <1>1, <1>6, <1>13, StrTouchesNear
  <2>4. DOMAIN heap' = DOMAIN heap
        /\ \A pb \in DOMAIN heap : heap'[pb].pixels = heap[pb].pixels /\ heap'[pb].points = heap[pb].points
    <3> DEFINE R == [pixels : SUBSET Str!Pixels, points : Nat, matched : BOOLEAN]
    <3>1. heap \in [DOMAIN heap -> R]
      BY <1>2 DEF Str!TypeOK
    <3> QED
      BY <1>6, <2>1, <3>1
  <2>5. Touched'
    <3>1. rng' # 0 /\ stripes[rng'].pb = met /\ Str!InRange(stripe, stripes[rng'])
      BY <1>3, <1>6, <1>7, <1>13, <2>1
    <3>2. ASSUME NEW i \in DOMAIN stripes, i < turn + 1, Str!InRange(stripe, stripes[i])
          PROVE  stripes[i].pb = met
      BY <1>6, <1>7, <1>8, <1>13, <3>2
    <3> QED
      BY <1>1, <2>1, <3>1, <3>2 DEF Touched
  <2>6. \A pb \in DOMAIN heap : Owned(pb)' = Owned(pb)
    BY <2>4 DEF Owned
  <2>7. OnLines'
    <3>1. Covers(stripes, vline - 1)' /\ Covers(newStripes, vline)'
      BY <1>1, <1>9, <1>10, <2>1, <2>4, <2>6 DEF Covers
    <3> QED
      BY <1>1, <1>9, <2>4, <2>6, <3>1 DEF OnLines
  <2>8. Shared'
    BY <1>2, <1>5, <2>4, <2>6 DEF Shared
  <2>9. ASSUME NEW pb \in DOMAIN heap
        PROVE  Str!Connected(Grown(pb)')
    <3>1. CASE pb = met /\ rng = 0
      <4>1. Grown(pb)' = Mine \cup Owned(met) /\ Grown(pb) = Owned(pb)
        BY <1>5, <2>2, <2>6, <2>9, <3>1 DEF Grown
      <4>2. Str!Connected(Owned(met))
        BY <1>2, <2>9, <3>1, <4>1 DEF Pieces
      <4>3. Str!Connected(Mine \cup Owned(met))
        BY <1>6, <1>11, <2>3, <4>2, StrJoined
      <4> QED
        BY <4>1, <4>3
    <3>2. CASE pb # met \/ rng # 0
      <4>1. Grown(pb)' = Grown(pb)
        BY <1>5, <2>2, <2>6, <2>9, <3>2 DEF Grown
      <4> QED
        BY <1>2, <2>9, <4>1 DEF Pieces
    <3> QED
      BY <3>1, <3>2
  <2>10. Pieces'
    BY <1>2, <2>4, <2>6, <2>9 DEF Pieces, Str!Connected, Str!Near
  <2> QED
    BY <1>5, <2>5, <2>7, <2>8, <2>10 DEF PixelInv
<1>14. CASE Str!InRange(stripe, stripes[turn]) /\ into # met
  <2>1. /\ rng' = rng /\ heap' = Str!Merged(into, met)
        /\ stripes' = Str!Turned(stripes, into, met)
        /\ newStripes' = Str!Turned(newStripes, into, met)
    BY <1>6, <1>14 DEF Str!Match
  <2>2. rng # 0 /\ Into = {into} /\ stripes[rng].pb = into /\ rng \in DOMAIN stripes
    BY <1>1, <1>3, <1>6, <1>14 DEF Into
  <2>3. PICK p \in Mine, q \in Owned(met) : Str!Near(p, q)
    BY <1>1, <1>6, <1>14, StrTouchesNear
  <2>4. \A i \in DOMAIN stripes :
          i < turn + 1 /\ Str!InRange(stripe, stripes[i]) => stripes[i].pb \in {into, met}
    BY <1>6, <1>7, <1>8, <2>2
  <2>5. /\ DOMAIN heap' = DOMAIN heap \ {met}
        /\ \A pb \in DOMAIN heap' : pb # into => heap'[pb] = heap[pb]
        /\ heap'[into].pixels = heap[into].pixels \cup heap[met].pixels
        /\ heap'[into].points = heap[into].points + heap[met].points
    <3>1. Str!TypeOK /\ into # met /\ heap' = Str!Merged(into, met)
      BY <1>2, <1>14, <2>1
    <3> QED
      BY <3>1, StrMerged
  <2>6. /\ DOMAIN stripes' = DOMAIN stripes
        /\ \A i \in DOMAIN stripes :
             /\ stripes'[i].x1 = stripes[i].x1
             /\ stripes'[i].x2 = stripes[i].x2
             /\ stripes'[i].pb = (IF stripes[i].pb = met THEN into ELSE stripes[i].pb)
    BY <1>2, <1>6, <1>14, <2>1, StrTurned
  <2>7. /\ DOMAIN newStripes' = DOMAIN newStripes
        /\ \A i \in DOMAIN newStripes :
             /\ newStripes'[i].x1 = newStripes[i].x1
             /\ newStripes'[i].x2 = newStripes[i].x2
             /\ newStripes'[i].pb = (IF newStripes[i].pb = met THEN into ELSE newStripes[i].pb)
    BY <1>2, <1>6, <1>14, <2>1, StrTurned
  <2>8. Into' = {into}
    BY <1>1, <1>14, <2>1, <2>2, <2>6 DEF Into
  <2>9. /\ into \in DOMAIN heap' /\ met \notin DOMAIN heap'
        /\ Owned(into)' = Owned(into) \cup Owned(met)
        /\ \A pb \in DOMAIN heap' : pb # into => Owned(pb)' = Owned(pb)
    BY <1>6, <1>14, <2>5 DEF Owned
  <2>10. /\ Grown(into) = Owned(into) \cup Mine
         /\ Grown(into)' = Owned(into) \cup Owned(met) \cup Mine
         /\ \A pb \in DOMAIN heap' : pb # into => Grown(pb)' = Grown(pb)
         /\ Grown(met) = Owned(met)
    BY <1>5, <1>14, <2>2, <2>8, <2>9 DEF Grown
  <2>11. Touched'
    <3>1. \A i \in DOMAIN stripes : Str!InRange(stripe, stripes'[i]) <=> Str!InRange(stripe, stripes[i])
      BY <2>6 DEF Str!InRange
    <3>2. stripes'[rng].pb = into /\ Str!InRange(stripe, stripes'[rng])
      BY <1>7, <1>14, <2>2, <2>6, <3>1
    <3>3. \A i \in DOMAIN stripes :
            i < turn + 1 /\ Str!InRange(stripe, stripes'[i]) => stripes'[i].pb = into
      BY <2>4, <2>6, <3>1
    <3> QED
      BY <1>1, <2>1, <2>2, <2>6, <3>2, <3>3 DEF Touched
  <2>12. ASSUME NEW r \in {stripes, newStripes}, NEW s \in {stripes', newStripes'}, NEW line,
                Covers(r, line), DOMAIN s = DOMAIN r, \A i \in DOMAIN r : r[i].pb \in DOMAIN heap,
                \A i \in DOMAIN r :
                  /\ s[i].x1 = r[i].x1 /\ s[i].x2 = r[i].x2
                  /\ s[i].pb = (IF r[i].pb = met THEN into ELSE r[i].pb)
         PROVE  /\ \A pb \in DOMAIN heap', a \in Str!Pixels :
                     a \in Owned(pb)' /\ a[2] = line =>
                       \E i \in DOMAIN s : s[i].pb = pb /\ s[i].x1 <= a[1] /\ a[1] <= s[i].x2
                /\ \A i \in DOMAIN s :
                     /\ s[i].x1 <= s[i].x2
                     /\ \A c \in s[i].x1 .. s[i].x2 : <<c, line>> \in Owned(s[i].pb)'
    <3>1. ASSUME NEW pb \in DOMAIN heap', NEW a \in Str!Pixels, a \in Owned(pb)', a[2] = line
          PROVE  \E i \in DOMAIN s : s[i].pb = pb /\ s[i].x1 <= a[1] /\ a[1] <= s[i].x2
      <4>1. PICK pe \in DOMAIN heap : a \in Owned(pe) /\ pb = IF pe = met THEN into ELSE pe
        BY <1>6, <2>5, <2>9, <3>1
      <4>2. PICK i \in DOMAIN r : r[i].pb = pe /\ r[i].x1 <= a[1] /\ a[1] <= r[i].x2
        BY <2>12, <3>1, <4>1 DEF Covers
      <4> QED
        BY <2>12, <4>1, <4>2
    <3>2. ASSUME NEW i \in DOMAIN s
          PROVE  /\ s[i].x1 <= s[i].x2
                 /\ \A c \in s[i].x1 .. s[i].x2 : <<c, line>> \in Owned(s[i].pb)'
      <4>1. /\ r[i].x1 <= r[i].x2
            /\ \A c \in r[i].x1 .. r[i].x2 : <<c, line>> \in Owned(r[i].pb)
        BY <2>12, <3>2 DEF Covers
      <4>2. Owned(r[i].pb) \subseteq Owned(s[i].pb)'
        BY <2>5, <2>9, <2>12, <3>2
      <4> QED
        BY <2>12, <3>2, <4>1, <4>2
    <3> QED
      BY <3>1, <3>2
  <2>13. OnLines'
    <3>1. Covers(stripes, vline - 1)'
      <4>1. /\ \A pb \in DOMAIN heap', a \in Str!Pixels :
                 a \in Owned(pb)' /\ a[2] = vline - 1 =>
                   \E i \in DOMAIN stripes' :
                     stripes'[i].pb = pb /\ stripes'[i].x1 <= a[1] /\ a[1] <= stripes'[i].x2
            /\ \A i \in DOMAIN stripes' :
                 /\ stripes'[i].x1 <= stripes'[i].x2
                 /\ \A c \in stripes'[i].x1 .. stripes'[i].x2 : <<c, vline - 1>> \in Owned(stripes[i].pb)'
        <5>1. Covers(stripes, vline - 1)
          BY <1>9
        <5> QED
          BY <1>10, <2>6, <2>12, <5>1
      <4> QED
        BY <1>1, <4>1 DEF Covers
    <3>2. Covers(newStripes, vline)'
      <4>1. /\ \A pb \in DOMAIN heap', a \in Str!Pixels :
                 a \in Owned(pb)' /\ a[2] = vline =>
                   \E i \in DOMAIN newStripes' :
                     newStripes'[i].pb = pb /\ newStripes'[i].x1 <= a[1] /\ a[1] <= newStripes'[i].x2
            /\ \A i \in DOMAIN newStripes' :
                 /\ newStripes'[i].x1 <= newStripes'[i].x2
                 /\ \A c \in newStripes'[i].x1 .. newStripes'[i].x2 : <<c, vline>> \in Owned(newStripes[i].pb)'
        <5>1. Covers(newStripes, vline)
          BY <1>9
        <5> QED
          BY <1>10, <2>7, <2>12, <5>1
      <4> QED
        BY <1>1, <4>1 DEF Covers
    <3>3. \A pb \in DOMAIN heap' : \A a \in Owned(pb)' : a[2] <= vline
      BY <1>6, <1>9, <2>5, <2>9
    <3> QED
      BY <1>1, <3>1, <3>2, <3>3 DEF OnLines
  <2>14. Shared'
    <3>1. \A a : (\E pb \in DOMAIN heap : a \in Owned(pb)) <=> \E pb \in DOMAIN heap' : a \in Owned(pb)'
      <4>1. \A a : (\E pb \in DOMAIN heap : a \in Owned(pb)) => \E pb \in DOMAIN heap' : a \in Owned(pb)'
        BY <2>5, <2>9
      <4>2. \A a : (\E pb \in DOMAIN heap' : a \in Owned(pb)') => \E pb \in DOMAIN heap : a \in Owned(pb)
        BY <1>6, <2>5, <2>9
      <4> QED
        BY <4>1, <4>2
    <3>2. \A a : a \in Passed' <=> a \in Mine' \/ \E pb \in DOMAIN heap' : a \in Owned(pb)'
      BY <1>2, <1>5, <3>1 DEF Shared
    <3>3. \A pb \in DOMAIN heap' : Owned(pb)' \cap Mine' = {}
      BY <1>2, <1>5, <1>6, <2>5, <2>9 DEF Shared
    <3> QED
      BY <3>2, <3>3 DEF Shared
  <2>15. ASSUME NEW pb \in DOMAIN heap'
         PROVE  /\ pb \in Owned(pb)'
                /\ Str!Connected(Grown(pb)')
                /\ IsFiniteSet(Owned(pb)') /\ heap'[pb].points = Cardinality(Owned(pb)')
    <3>1. CASE pb = into
      <4>1. /\ into \in Owned(into) /\ IsFiniteSet(Owned(into)) /\ IsFiniteSet(Owned(met))
            /\ heap[into].points = Cardinality(Owned(into))
            /\ heap[met].points = Cardinality(Owned(met))
            /\ Str!Connected(Owned(into) \cup Mine) /\ Str!Connected(Owned(met))
        BY <1>2, <1>6, <2>10 DEF Pieces
      <4>2. Owned(into) \cap Owned(met) = {}
        BY <1>1, <1>6, <1>14, StrDisjoint
      <4>3. Str!Connected((Owned(into) \cup Mine) \cup Owned(met))
        BY <1>6, <1>11, <2>3, <4>1, StrJoined
      <4>4. (Owned(into) \cup Mine) \cup Owned(met) = Grown(into)'
        BY <2>10
      <4>5. /\ IsFiniteSet(Owned(into) \cup Owned(met))
            /\ Cardinality(Owned(into) \cup Owned(met))
                 = Cardinality(Owned(into)) + Cardinality(Owned(met))
        BY <4>1, <4>2, StrCounted
      <4> QED
        BY <2>5, <2>9, <3>1, <4>1, <4>3, <4>4, <4>5
    <3>2. CASE pb # into
      BY <1>2, <2>5, <2>9, <2>10, <2>15, <3>2 DEF Pieces
    <3> QED
      BY <3>1, <3>2
  <2>16. ASSUME NEW pb \in DOMAIN heap', NEW pe \in DOMAIN heap', pb # pe,
                NEW a \in Owned(pb)', NEW b \in Owned(pe)'
         PROVE  ~Str!Near(a, b)
    <3>1. PICK ob \in DOMAIN heap : a \in Owned(ob) /\ pb = IF ob = met THEN into ELSE ob
      BY <1>6, <2>5, <2>9, <2>16
    <3>2. PICK oc \in DOMAIN heap : b \in Owned(oc) /\ pe = IF oc = met THEN into ELSE oc
      BY <1>6, <2>5, <2>9, <2>16
    <3> QED
      BY <1>2, <2>16, <3>1, <3>2 DEF Pieces
  <2>17. Pieces'
    <3> HIDE DEF Pieces
    <3> QED
      BY <2>15, <2>16 DEF Pieces, Str!Connected, Str!Near
  <2> QED
    BY <1>5, <2>11, <2>13, <2>14, <2>17 DEF PixelInv
<1> QED
  BY <1>12, <1>13, <1>14

\* with a range that is placed,
LEMMA StrPixelPlace ==
  ASSUME Str!PictureAssumption, ListInv, Str!Inside, PixelInv, Str!Place PROVE PixelInv'
<1> USE DEF Str!scanned
<1>1. /\ stage = "match" /\ stage' = "dark" /\ row' = row /\ col' = col /\ vline' = vline
      /\ bright' = bright /\ snapshot' = snapshot /\ stripe' = stripe /\ stripes' = stripes
      /\ turn \notin DOMAIN stripes
  BY DEF Str!Place
<1>2. /\ Str!TypeOK /\ InLine /\ MatchedOnLine
      /\ Shared /\ Pieces /\ SeesPicture /\ Edges /\ OnePiece /\ OnLines /\ Touched
  BY <1>1 DEF PixelInv, ListInv
<1>3. /\ row \in 0 .. Height - 1 /\ stripe.vline = row /\ vline = row /\ row < Height
      /\ stripe.hstart \in Int /\ stripe.hstop \in Int /\ turn >= 1 /\ turn \in Nat
      /\ stripe.hstart <= stripe.hstop /\ stripe.points = stripe.hstop - stripe.hstart + 1
  BY <1>1, <1>2, StrNumbers DEF InLine, Adding
<1>4. Adding /\ Mine = Str!Own(stripe) /\ Mine' = {} /\ Into' = {} /\ ~Adding'
  BY <1>1, <1>3 DEF Adding, Mine, Into
<1>5. /\ Str!Connected(Mine) /\ IsFiniteSet(Mine) /\ Cardinality(Mine) = stripe.points
      /\ Mine \subseteq Str!Pixels
      /\ \A pb \in DOMAIN heap : Owned(pb) \subseteq Str!Pixels
  BY <1>1, <1>2, <1>3, <1>4, StrSeen DEF OnePiece
<1>6. PICK pb :
         /\ rng = 0 => pb = <<stripe.hstart, row>> /\ pb \notin DOMAIN heap
         /\ rng # 0 => pb = stripes[rng].pb /\ pb \in DOMAIN heap /\ Into = {pb}
         /\ DOMAIN heap' = DOMAIN heap \cup {pb}
         /\ \A p \in DOMAIN heap : p # pb => heap'[p] = heap[p]
         /\ heap'[pb].pixels = Str!Own(stripe) \cup (IF rng = 0 THEN {} ELSE heap[pb].pixels)
         /\ heap'[pb].points = stripe.points + (IF rng = 0 THEN 0 ELSE heap[pb].points)
         /\ newStripes' = Append(newStripes, [x1 |-> stripe.hstart, x2 |-> stripe.hstop, pb |-> pb])
  BY StrPlaced
<1>7. /\ Owned(pb)' = Mine \cup (IF rng = 0 THEN {} ELSE Owned(pb))
      /\ \A pe \in DOMAIN heap : pe # pb => Owned(pe)' = Owned(pe)
  BY <1>4, <1>6 DEF Owned
<1>8. Passed' = Passed
  BY <1>1 DEF Passed
<1>9. SeesPicture'
  BY <1>1, <1>2, <1>8 DEF SeesPicture
<1>10. Edges'
  <2>1. <<stripe.hstop + 1, row>> \notin snapshot /\ col = stripe.hstop + 2
    BY <1>2, <1>4 DEF Edges
  <2>2. col - 1 = stripe.hstop + 1
    BY <1>3, <2>1
  <2> QED
    BY <1>1, <1>4, <2>1, <2>2 DEF Edges
<1>11. OnePiece' /\ Touched'
  BY <1>1, <1>4 DEF OnePiece, Touched
<1>12. Shared'
  <2>1. \A a : (a \in Mine \/ \E pe \in DOMAIN heap : a \in Owned(pe))
               => \E pe \in DOMAIN heap' : a \in Owned(pe)'
    BY <1>6, <1>7
  <2>2. \A a : (\E pe \in DOMAIN heap' : a \in Owned(pe)')
               => a \in Mine \/ \E pe \in DOMAIN heap : a \in Owned(pe)
    BY <1>6, <1>7
  <2> QED
    BY <1>2, <1>4, <1>8, <2>1, <2>2 DEF Shared
<1>13. OnLines'
  <2> DEFINE n == Len(newStripes)
  <2>1. \A p \in Mine : p[2] = row /\ stripe.hstart <= p[1] /\ p[1] <= stripe.hstop
    BY <1>3, <1>4 DEF Str!Own
  <2>2. \A c \in stripe.hstart .. stripe.hstop : <<c, row>> \in Mine
    BY <1>3, <1>4 DEF Str!Own
  <2>3. /\ \A pe \in DOMAIN heap : \A q \in Owned(pe) : q[2] <= vline
        /\ Covers(stripes, vline - 1) /\ Covers(newStripes, vline)
    BY <1>1, <1>2 DEF OnLines
  <2>4. \A pe \in DOMAIN heap' : \A q \in Owned(pe)' : q[2] <= vline
    BY <1>3, <1>6, <1>7, <2>1, <2>3
  <2>5. /\ \A i \in DOMAIN stripes : stripes[i].pb \in DOMAIN heap
        /\ \A i \in DOMAIN newStripes : newStripes[i].pb \in DOMAIN heap
        /\ newStripes \in Seq(Str!RangesOf(DOMAIN heap))
        /\ \A pe \in DOMAIN heap : Owned(pe) \subseteq Owned(pe)'
    BY <1>2, <1>6, <1>7, StrRanges DEF Str!TypeOK
  <2>6. Covers(stripes, vline - 1)'
    <3>1. ASSUME NEW pe \in DOMAIN heap', NEW q \in Str!Pixels, q \in Owned(pe)', q[2] = vline - 1
          PROVE  \E i \in DOMAIN stripes :
                   stripes[i].pb = pe /\ stripes[i].x1 <= q[1] /\ q[1] <= stripes[i].x2
      <4>1. q \notin Mine
        BY <1>3, <2>1, <3>1
      <4>2. pe \in DOMAIN heap /\ q \in Owned(pe)
        BY <1>6, <1>7, <3>1, <4>1
      <4> QED
        BY <2>3, <3>1, <4>2 DEF Covers
    <3>2. ASSUME NEW i \in DOMAIN stripes
          PROVE  /\ stripes[i].x1 <= stripes[i].x2
                 /\ \A c \in stripes[i].x1 .. stripes[i].x2 :
                      <<c, vline - 1>> \in Owned(stripes[i].pb)'
      <4>1. /\ stripes[i].x1 <= stripes[i].x2
            /\ \A c \in stripes[i].x1 .. stripes[i].x2 : <<c, vline - 1>> \in Owned(stripes[i].pb)
        BY <2>3, <3>2 DEF Covers
      <4>2. Owned(stripes[i].pb) \subseteq Owned(stripes[i].pb)'
        <5>1. \A pe \in DOMAIN heap : stripes'[i].pb = pe => Owned(stripes[i].pb)' = Owned(pe)'
          OBVIOUS
        <5> QED
          BY <1>1, <2>5, <3>2, <5>1
      <4> QED
        BY <4>1, <4>2
    <3> QED
      BY <1>1, <3>1, <3>2 DEF Covers
  <2>7. /\ DOMAIN newStripes = 1 .. n /\ n \in Nat /\ DOMAIN newStripes' = 1 .. n + 1
        /\ \A i \in 1 .. n : newStripes'[i] = newStripes[i]
        /\ newStripes'[n + 1].x1 = stripe.hstart /\ newStripes'[n + 1].x2 = stripe.hstop
        /\ newStripes'[n + 1].pb = pb
    BY <1>6, <2>5
  <2> HIDE DEF n
  <2>8. \A i \in 1 .. n + 1 : i \in 1 .. n \/ i = n + 1
    BY <2>7
  <2>9. 1 .. n \subseteq 1 .. n + 1 /\ n + 1 \in 1 .. n + 1
    BY <2>7
  <2>10. Covers(newStripes, vline)'
    <3>1. ASSUME NEW pe \in DOMAIN heap', NEW q \in Str!Pixels, q \in Owned(pe)', q[2] = vline
          PROVE  \E i \in DOMAIN newStripes' :
                   newStripes'[i].pb = pe /\ newStripes'[i].x1 <= q[1] /\ q[1] <= newStripes'[i].x2
      <4>1. CASE q \in Mine
        <5>1. pe = pb
          BY <1>2, <1>6, <1>7, <3>1, <4>1 DEF Shared
        <5> QED
          BY <2>1, <2>7, <2>9, <4>1, <5>1
      <4>2. CASE q \notin Mine
        <5>1. pe \in DOMAIN heap /\ q \in Owned(pe)
          BY <1>6, <1>7, <3>1, <4>2
        <5>2. PICK i \in DOMAIN newStripes :
                newStripes[i].pb = pe /\ newStripes[i].x1 <= q[1] /\ q[1] <= newStripes[i].x2
          BY <2>3, <3>1, <5>1 DEF Covers
        <5> QED
          BY <2>7, <2>9, <5>2
      <4> QED
        BY <4>1, <4>2
    <3>2. ASSUME NEW i \in DOMAIN newStripes'
          PROVE  /\ newStripes'[i].x1 <= newStripes'[i].x2
                 /\ \A c \in newStripes'[i].x1 .. newStripes'[i].x2 :
                      <<c, vline>> \in Owned(newStripes[i].pb)'
      <4>1. CASE i \in 1 .. n
        <5>1. /\ newStripes[i].x1 <= newStripes[i].x2
              /\ \A c \in newStripes[i].x1 .. newStripes[i].x2 : <<c, vline>> \in Owned(newStripes[i].pb)
          BY <2>3, <2>7, <4>1 DEF Covers
        <5>2. newStripes'[i] = newStripes[i] /\ newStripes[i].pb \in DOMAIN heap
          BY <2>5, <2>7, <4>1
        <5>3. Owned(newStripes[i].pb) \subseteq Owned(newStripes[i].pb)'
          <6>1. \A pe \in DOMAIN heap : newStripes'[i].pb = pe => Owned(newStripes[i].pb)' = Owned(pe)'
            OBVIOUS
          <6> QED
            BY <2>5, <5>2, <6>1
        <5> QED
          BY <5>1, <5>2, <5>3
      <4>2. CASE i = n + 1
        <5>1. Owned(newStripes[i].pb)' = Owned(pb)'
          BY <2>7, <4>2 DEF Owned
        <5> QED
          BY <1>3, <1>7, <2>2, <2>7, <4>2, <5>1
      <4> QED
        BY <2>7, <2>8, <3>2, <4>1, <4>2
    <3> QED
      BY <1>1, <3>1, <3>2 DEF Covers
  <2> QED
    BY <1>1, <2>4, <2>6, <2>10 DEF OnLines
<1>14. ASSUME NEW pe \in DOMAIN heap, pe # pb, NEW p \in Owned(pb)', NEW q \in Owned(pe)
       PROVE  ~Str!Near(p, q)
  <2>1. CASE p \in Mine
    <3>1. SUFFICES ASSUME Str!Near(p, q) PROVE FALSE
      OBVIOUS
    <3>2. PICK i \in DOMAIN stripes : stripes[i].pb = pe /\ Str!InRange(stripe, stripes[i])
      BY <1>1, <1>14, <2>1, <3>1, StrNearTouches
    <3>3. i < turn
      BY <1>1, <1>2, <1>3, StrRanges
    <3> QED
      BY <1>1, <1>2, <1>6, <1>14, <3>2, <3>3 DEF Touched
  <2>2. CASE p \notin Mine
    <3>1. pb \in DOMAIN heap /\ p \in Owned(pb)
      BY <1>6, <1>7, <1>14, <2>2
    <3> QED
      BY <1>2, <1>14, <3>1 DEF Pieces
  <2> QED
    BY <2>1, <2>2
<1>15. ASSUME NEW pe \in DOMAIN heap', NEW pd \in DOMAIN heap', pe # pd,
              NEW p \in Owned(pe)', NEW q \in Owned(pd)'
       PROVE  ~Str!Near(p, q)
  <2>1. CASE pe = pb
    BY <1>6, <1>7, <1>14, <1>15, <2>1
  <2>2. CASE pd = pb
    <3>1. pe \in DOMAIN heap /\ p \in Owned(pe)
      BY <1>6, <1>7, <1>15, <2>2
    <3>2. ~Str!Near(q, p)
      BY <1>14, <1>15, <2>2, <3>1
    <3>3. p \in Str!Pixels /\ q \in Str!Pixels
      BY <1>5, <1>6, <1>7, <1>15, <2>2, <3>1
    <3> QED
      BY <3>2, <3>3, StrNear
  <2>3. CASE pe # pb /\ pd # pb
    BY <1>2, <1>6, <1>7, <1>15, <2>3 DEF Pieces
  <2> QED
    BY <2>1, <2>2, <2>3
<1>16. ASSUME NEW pe \in DOMAIN heap'
       PROVE  /\ pe \in Owned(pe)'
              /\ Str!Connected(Grown(pe)')
              /\ IsFiniteSet(Owned(pe)') /\ heap'[pe].points = Cardinality(Owned(pe)')
  <2>1. Grown(pe)' = Owned(pe)'
    BY <1>4 DEF Grown
  <2>2. CASE pe # pb
    <3>1. pe \in DOMAIN heap /\ heap'[pe] = heap[pe] /\ Owned(pe)' = Owned(pe)
      BY <1>6, <1>7, <2>2
    <3>2. Grown(pe) = Owned(pe)
      BY <1>1, <1>6, <2>2 DEF Grown, Into
    <3> QED
      BY <1>2, <2>1, <3>1, <3>2 DEF Pieces
  <2>3. CASE pe = pb /\ rng = 0
    <3>1. Owned(pe)' = Mine /\ heap'[pe].points = stripe.points
      BY <1>3, <1>6, <1>7, <2>3
    <3>2. pe \in Mine
      BY <1>3, <1>4, <1>6, <2>3 DEF Str!Own
    <3> QED
      BY <1>5, <2>1, <3>1, <3>2
  <2>4. CASE pe = pb /\ rng # 0
    <3>1. /\ pb \in DOMAIN heap /\ Owned(pe)' = Mine \cup Owned(pb) /\ Grown(pb) = Owned(pb) \cup Mine
          /\ heap'[pe].points = stripe.points + heap[pb].points
      BY <1>6, <1>7, <2>4 DEF Grown
    <3>2. /\ pb \in Owned(pb) /\ Str!Connected(Grown(pb)) /\ IsFiniteSet(Owned(pb))
          /\ heap[pb].points = Cardinality(Owned(pb)) /\ Owned(pb) \cap Mine = {}
      BY <1>2, <3>1 DEF Pieces, Shared
    <3>3. Owned(pe)' = Grown(pb)
      BY <3>1
    <3>4. /\ IsFiniteSet(Mine \cup Owned(pb))
          /\ Cardinality(Mine \cup Owned(pb)) = Cardinality(Mine) + Cardinality(Owned(pb))
      BY <1>5, <3>2, StrCounted
    <3> QED
      BY <1>5, <2>1, <2>4, <3>1, <3>2, <3>3, <3>4
  <2> QED
    BY <2>2, <2>3, <2>4
<1>17. Pieces'
  BY <1>15, <1>16 DEF Pieces, Str!Connected, Str!Near
<1> QED
  BY <1>9, <1>10, <1>11, <1>12, <1>13, <1>17 DEF PixelInv

\* after the last line,
LEMMA StrPixelStripesToBlobs ==
  ASSUME Str!PictureAssumption, ListInv, Str!Inside, PixelInv, Str!StripesToBlobs PROVE PixelInv'
<1> USE DEF Str!scanned, Str!lines
<1>1. /\ stage = "dark" /\ stage' = "old" /\ row' = row /\ col' = col /\ vline' = vline
      /\ bright' = bright /\ snapshot' = snapshot /\ stripe' = stripe /\ stripes' = stripes
      /\ newStripes' = newStripes /\ heap' = heap /\ row = Height
  BY DEF Str!StripesToBlobs, Str!Over
<1>2. Shared /\ Pieces /\ SeesPicture /\ Edges /\ OnePiece /\ OnLines
  BY <1>1 DEF PixelInv
<1>3. ~Adding /\ ~Adding' /\ Mine = {} /\ Mine' = {} /\ Into = {} /\ Into' = {}
  BY <1>1, StrNumbers DEF Adding, Mine, Into, ListInv
<1>4. Passed' = Passed
  BY <1>1 DEF Passed
<1>5. SeesPicture' /\ Edges' /\ OnePiece' /\ Touched'
  BY <1>1, <1>2, <1>3, <1>4 DEF SeesPicture, Edges, OnePiece, Touched
<1>6. OnLines'
  BY <1>1, <1>2 DEF OnLines, Covers, Owned
<1>7. Shared' /\ Pieces'
  BY <1>1, <1>2, <1>3, <1>4, StrSamePixels
<1> QED
  BY <1>5, <1>6, <1>7 DEF PixelInv

\* with a blob that is told,
LEMMA StrPixelReport ==
  ASSUME Str!PictureAssumption, ListInv, Str!Inside, PixelInv, Str!Report PROVE PixelInv'
<1> USE DEF Str!scanned, Str!lines
<1>1. /\ stage = "report" /\ stage' = "report" /\ row' = row /\ col' = col
      /\ bright' = bright /\ snapshot' = snapshot /\ stripe' = stripe /\ heap' = heap
  BY DEF Str!Report
<1>2. Shared /\ Pieces /\ SeesPicture /\ Edges /\ OnePiece /\ OnLines
  BY <1>1 DEF PixelInv
<1>3. (Adding' <=> Adding) /\ Into = {} /\ Into' = {}
  BY <1>1 DEF Adding, Into
<1>4. Passed' = Passed /\ Mine' = Mine /\ SeesPicture' /\ Edges' /\ OnePiece'
  BY <1>1, <1>2, <1>3, StrSameScan
<1>5. OnLines' /\ Touched'
  BY <1>1 DEF OnLines, Touched
<1>6. Shared' /\ Pieces'
  BY <1>1, <1>2, <1>3, <1>4, StrSamePixels
<1> QED
  BY <1>4, <1>5, <1>6 DEF PixelInv

\* and with one that is freed.
LEMMA StrPixelFree ==
  ASSUME Str!PictureAssumption, ListInv, Str!Inside, PixelInv, Str!Free PROVE PixelInv'
<1> USE DEF Str!scanned
<1>1. /\ stage = "report" /\ stage' = "done" /\ row' = row /\ col' = col
      /\ bright' = bright /\ snapshot' = snapshot /\ stripe' = stripe
  BY DEF Str!Free
<1>2. SeesPicture /\ Edges /\ OnePiece
  BY DEF PixelInv
<1>3. Adding' <=> Adding
  BY <1>1 DEF Adding
<1>4. SeesPicture' /\ Edges' /\ OnePiece'
  BY <1>1, <1>2, <1>3, StrSameScan
<1> QED
  BY <1>1, <1>4 DEF PixelInv, OnLines, Touched

\* Every step keeps the pixels.
LEMMA StrPixelStep ==
  ASSUME Str!PictureAssumption, ListInv, Str!Inside, PixelInv, [Str!StripeNext]_(Str!stripeVars)
  PROVE  PixelInv'
<1>1. CASE UNCHANGED Str!stripeVars
  <2> USE <1>1 DEF Str!stripeVars
  <2>1. Passed' = Passed /\ Mine' = Mine /\ Into' = Into /\ (Adding' <=> Adding)
    BY DEF Passed, Mine, Into, Adding, Str!Own
  <2>2. SeesPicture' /\ Edges' /\ OnePiece'
    BY <2>1 DEF PixelInv, SeesPicture, Edges, OnePiece, Str!Connected, Str!Near
  <2>3. Touched' /\ OnLines'
    BY DEF PixelInv, Touched, OnLines, Covers, Owned
  <2>4. stage # "done" => Shared' /\ Pieces'
    BY <2>1, StrSamePixels DEF PixelInv
  <2> QED
    BY <2>2, <2>3, <2>4 DEF PixelInv
<1>2. CASE Str!StripeNext
  BY <1>2, StrPixelLit, StrPixelDark, StrPixelEnds, StrPixelStoreOld, StrPixelStoreNew,
    StrPixelNextLine, StrPixelMatch, StrPixelPlace, StrPixelStripesToBlobs, StrPixelReport,
    StrPixelFree DEF Str!StripeNext
<1> QED
  BY <1>1, <1>2

\* Blobs are reported in the order of the list.
LEMMA StrReportStep ==
  ASSUME Str!PictureAssumption, ListInv, Str!Inside, PixelInv, ReportInv, Str!Report
  PROVE  ReportInv'
<1> USE DEF Str!scanned, Str!lines
<1>1. /\ stage = "report" /\ stage' = "report" /\ heap' = heap /\ preblobs' = preblobs
      /\ turn' = turn + 1 /\ turn \in DOMAIN preblobs /\ size' = size
  BY DEF Str!Report
<1>2. Str!TypeOK /\ InLine /\ Kept
  BY DEF ListInv
<1>3. turn \in Nat /\ turn >= 1 /\ MaxBlobs \in Nat
  BY <1>1, <1>2, StrNumbers DEF InLine, Str!PictureAssumption
<1>4. /\ DOMAIN preblobs = 1 .. Len(preblobs) /\ Len(preblobs) \in Nat
      /\ \A i \in DOMAIN preblobs : preblobs[i] \in DOMAIN heap
      /\ \A i, j \in DOMAIN preblobs : i # j => preblobs[i] # preblobs[j]
  BY <1>2, StrPreblobs DEF Kept
<1> DEFINE pb == preblobs[turn]
<1>5. /\ \A i \in DOMAIN blobs :
           \E j \in DOMAIN preblobs : j < turn /\ blobs[i] = BlobOf(preblobs[j])
      /\ \A i \in DOMAIN blobs : Str!Fits(blobs[i].points)
      /\ \A i, j \in DOMAIN blobs : i # j => blobs[i].pixels # blobs[j].pixels
      /\ \A j \in DOMAIN preblobs :
           j < turn /\ Str!Fits(heap[preblobs[j]].points) =>
             Owned(preblobs[j]) \in Str!Reported \/ Len(blobs) = MaxBlobs
  BY <1>1 DEF ReportInv
<1>6. \A j \in DOMAIN preblobs : j < turn + 1 => j < turn \/ j = turn
  BY <1>3, <1>4
<1>7. \A j \in DOMAIN preblobs : j < turn => j < turn + 1
  BY <1>3, <1>4
<1>8. blobs \in Seq([pixels : SUBSET Str!Pixels, points : Nat]) /\ Len(blobs) <= MaxBlobs
  BY <1>2 DEF Str!TypeOK
<1>9. \A q : BlobOf(q)' = BlobOf(q) /\ Owned(q)' = Owned(q)
  BY <1>1 DEF BlobOf, Owned
<1>10. \A k : Str!Fits(k)' <=> Str!Fits(k)
  BY <1>1 DEF Str!Fits
<1>11. CASE ~(Str!Fits(heap[pb].points) /\ Len(blobs) < MaxBlobs)
  <2>1. blobs' = blobs
    BY <1>11 DEF Str!Report
  <2>2. Len(blobs) < MaxBlobs \/ Len(blobs) = MaxBlobs
    BY <1>3, <1>8
  <2>3. \A i \in DOMAIN blobs :
          \E j \in DOMAIN preblobs : j < turn + 1 /\ blobs[i] = BlobOf(preblobs[j])
    BY <1>5, <1>7
  <2>4. ASSUME NEW j \in DOMAIN preblobs, j < turn + 1, Str!Fits(heap[preblobs[j]].points)
        PROVE  Owned(preblobs[j]) \in Str!Reported \/ Len(blobs) = MaxBlobs
    BY <1>5, <1>6, <1>11, <2>2, <2>4
  <2>5. Str!Reported' = Str!Reported
    BY <2>1 DEF Str!Reported
  <2> QED
    BY <1>1, <1>5, <2>1, <2>3, <2>4, <2>5 DEF ReportInv, BlobOf, Owned, Str!Fits
<1>12. CASE Str!Fits(heap[pb].points) /\ Len(blobs) < MaxBlobs
  <2> DEFINE n == Len(blobs)
  <2>1. blobs' = Append(blobs, BlobOf(pb))
    BY <1>12 DEF Str!Report, BlobOf, Owned
  <2>2. BlobOf(pb) \in [pixels : SUBSET Str!Pixels, points : Nat]
    BY <1>1, <1>2, <1>4, StrPreblobs DEF BlobOf, Owned
  <2>3. /\ DOMAIN blobs = 1 .. n /\ n \in Nat /\ DOMAIN blobs' = 1 .. n + 1
        /\ \A i \in 1 .. n : blobs'[i] = blobs[i]
        /\ blobs'[n + 1] = BlobOf(pb)
    BY <1>8, <2>1, <2>2, StrAppended
  <2> HIDE DEF n
  <2>4. /\ \A i \in 1 .. n + 1 : i \in 1 .. n \/ i = n + 1
        /\ 1 .. n \subseteq 1 .. n + 1 /\ n + 1 \in 1 .. n + 1
    BY <2>3
  <2>5. BlobOf(pb).pixels = Owned(pb) /\ BlobOf(pb).points = heap[pb].points
    BY DEF BlobOf
  <2>6. \A i \in DOMAIN blobs' :
          \E j \in DOMAIN preblobs : j < turn + 1 /\ blobs'[i] = BlobOf(preblobs[j])
    <3>1. turn < turn + 1
      BY <1>3
    <3> QED
      BY <1>1, <1>5, <1>7, <2>3, <2>4, <3>1
  <2>7. \A i \in DOMAIN blobs' : Str!Fits(blobs'[i].points)
    BY <1>5, <1>12, <2>3, <2>4, <2>5
  <2>8. ASSUME NEW i \in 1 .. n PROVE blobs[i].pixels # Owned(pb)
    <3>1. PICK j \in DOMAIN preblobs : j < turn /\ blobs[i] = BlobOf(preblobs[j])
      BY <1>5, <2>3, <2>8
    <3>2. j # turn
      BY <1>3, <1>4, <3>1
    <3>3. preblobs[j] # pb /\ preblobs[j] \in DOMAIN heap /\ pb \in DOMAIN heap
      BY <1>1, <1>4, <3>1, <3>2
    <3>4. Owned(preblobs[j]) \cap Owned(pb) = {}
      BY <1>1, <3>3, StrDisjoint
    <3>5. pb \in Owned(pb)
      BY <1>1, <3>3 DEF PixelInv, Pieces
    <3>6. blobs[i].pixels = Owned(preblobs[j])
      BY <3>1 DEF BlobOf
    <3> QED
      BY <3>4, <3>5, <3>6
  <2>9. \A i, j \in DOMAIN blobs' : i # j => blobs'[i].pixels # blobs'[j].pixels
    BY <1>5, <2>3, <2>4, <2>5, <2>8
  <2>10. Str!Reported \subseteq Str!Reported' /\ Owned(pb) \in Str!Reported'
    BY <2>3, <2>4, <2>5 DEF Str!Reported
  <2>11. Len(blobs) # MaxBlobs
    <3>1. Len(blobs) \in Nat
      BY <1>8
    <3> QED
      BY <1>3, <1>12, <3>1
  <2>12. ASSUME NEW j \in DOMAIN preblobs, j < turn + 1, Str!Fits(heap[preblobs[j]].points)
         PROVE  Owned(preblobs[j]) \in Str!Reported'
    BY <1>5, <1>6, <2>10, <2>11, <2>12
  <2> QED
    BY <1>1, <2>6, <2>7, <2>9, <2>12 DEF ReportInv, BlobOf, Owned, Str!Fits
<1> QED
  BY <1>11, <1>12

\* When the list is complete, preblobs are the fields of the picture.
LEMMA StrFields ==
  ASSUME Str!PictureAssumption, ListInv, Str!Inside, PixelInv, stage = "report"
  PROVE  /\ \A pb \in DOMAIN heap :
              Str!IsField(Owned(pb)) /\ heap[pb].points = Cardinality(Owned(pb))
         /\ \A f \in SUBSET snapshot : Str!IsField(f) => \E pb \in DOMAIN heap : f = Owned(pb)
<1>1. Shared /\ Pieces /\ InLine /\ Str!TypeOK
  BY DEF PixelInv, ListInv
<1>2. row = Height /\ Height \in Nat /\ Mine = {} /\ Into = {}
  BY <1>1, StrNumbers DEF InLine, Mine, Adding, Into
<1>3. Passed = snapshot
  <2>1. \A q \in snapshot : q[2] \in 0 .. Height - 1
    BY StrSeen
  <2> QED
    BY <1>2, <2>1 DEF Passed
<1>4. \A q : q \in snapshot <=> \E pb \in DOMAIN heap : q \in Owned(pb)
  BY <1>1, <1>2, <1>3 DEF Shared
<1>5. ASSUME NEW pb \in DOMAIN heap
      PROVE  Str!IsField(Owned(pb)) /\ heap[pb].points = Cardinality(Owned(pb))
  <2>1. /\ pb \in Owned(pb) /\ heap[pb].points = Cardinality(Owned(pb)) /\ Str!Connected(Grown(pb))
        /\ \A pe \in DOMAIN heap :
             pb # pe => \A p \in Owned(pb), q \in Owned(pe) : ~Str!Near(p, q)
    BY <1>1, <1>5 DEF Pieces
  <2>2. Str!Connected(Owned(pb))
    BY <1>2, <2>1 DEF Grown
  <2>3. Str!Closed(Owned(pb))
    BY <1>4, <2>1 DEF Str!Closed
  <2>4. Owned(pb) \subseteq snapshot
    BY <1>4, <1>5
  <2> QED
    BY <2>1, <2>2, <2>3, <2>4 DEF Str!IsField
<1>6. ASSUME NEW f \in SUBSET snapshot, Str!IsField(f)
      PROVE  \E pb \in DOMAIN heap : f = Owned(pb)
  <2>1. PICK q \in f : TRUE
    BY <1>6 DEF Str!IsField
  <2>2. PICK pb \in DOMAIN heap : q \in Owned(pb)
    BY <1>4, <1>6, <2>1
  <2> DEFINE g == f \cap Owned(pb)
  <2>3. Str!IsField(Owned(pb)) /\ Owned(pb) \subseteq snapshot /\ g # {}
    BY <1>5, <2>2 DEF Str!IsField
  <2>4. g = Owned(pb)
    <3>1. SUFFICES ASSUME g # Owned(pb) PROVE FALSE
      OBVIOUS
    <3>2. PICK a \in g, b \in Owned(pb) \ g : Str!Near(a, b)
      BY <2>3, <3>1 DEF Str!IsField, Str!Connected
    <3> QED
      BY <1>6, <2>3, <3>2 DEF Str!IsField, Str!Closed
  <2>5. g = f
    <3>1. SUFFICES ASSUME g # f PROVE FALSE
      OBVIOUS
    <3>2. PICK a \in g, b \in f \ g : Str!Near(a, b)
      BY <1>6, <2>3, <3>1 DEF Str!IsField, Str!Connected
    <3> QED
      BY <1>6, <2>3, <3>2 DEF Str!IsField, Str!Closed
  <2> QED
    BY <2>4, <2>5
<1> QED
  BY <1>5, <1>6

\* The number of pixels is the one of the library.
LEMMA StrCardinality == \A f : Str!Cardinality(f) = Cardinality(f)
BY DEF Str!Cardinality, Cardinality

\* When the blobs are freed, those that were told are the fields.
LEMMA StrFreed ==
  ASSUME Str!PictureAssumption, ListInv, Str!Inside, PixelInv, ReportInv, Str!Free
  PROVE  Str!BlobsAreFields'
<1> USE DEF Str!scanned
<1>1. /\ stage = "report" /\ blobs' = blobs /\ snapshot' = snapshot /\ size' = size
      /\ turn \notin DOMAIN preblobs
  BY DEF Str!Free
<1>2. Str!TypeOK /\ InLine /\ Kept
  BY DEF ListInv
<1>3. /\ \A i \in DOMAIN preblobs : i < turn
      /\ \A i \in DOMAIN preblobs : preblobs[i] \in DOMAIN heap
      /\ \A pb \in DOMAIN heap : \E i \in DOMAIN preblobs : preblobs[i] = pb
  <2>1. turn >= 1 /\ turn \in Nat /\ stripes = <<>> /\ newStripes = <<>>
    BY <1>1, <1>2, StrNumbers DEF InLine
  <2>2. \A i \in DOMAIN preblobs : i < turn /\ preblobs[i] \in DOMAIN heap
    BY <1>1, <1>2, <2>1, StrPreblobs
  <2>3. DOMAIN heap \subseteq Str!Listed
    BY <1>2, <2>1 DEF Kept, PbsOf
  <2> QED
    BY <2>2, <2>3 DEF Str!Listed
<1>4. /\ \A i \in DOMAIN blobs :
           \E j \in DOMAIN preblobs : j < turn /\ blobs[i] = BlobOf(preblobs[j])
      /\ \A i \in DOMAIN blobs : Str!Fits(blobs[i].points)
      /\ \A i, j \in DOMAIN blobs : i # j => blobs[i].pixels # blobs[j].pixels
      /\ \A j \in DOMAIN preblobs :
           j < turn /\ Str!Fits(heap[preblobs[j]].points) =>
             Owned(preblobs[j]) \in Str!Reported \/ Len(blobs) = MaxBlobs
  BY <1>1 DEF ReportInv
<1>5. /\ \A pb \in DOMAIN heap :
           Str!IsField(Owned(pb)) /\ heap[pb].points = Cardinality(Owned(pb))
      /\ \A f \in SUBSET snapshot : Str!IsField(f) => \E pb \in DOMAIN heap : f = Owned(pb)
  BY <1>1, StrFields
<1>6. ASSUME NEW i \in DOMAIN blobs
      PROVE  /\ Str!IsField(blobs[i].pixels)
             /\ blobs[i].points = Cardinality(blobs[i].pixels)
             /\ Str!Fits(blobs[i].points)
  <2>1. PICK j \in DOMAIN preblobs : blobs[i] = BlobOf(preblobs[j])
    BY <1>4, <1>6
  <2>2. /\ blobs[i].pixels = Owned(preblobs[j]) /\ blobs[i].points = heap[preblobs[j]].points
        /\ preblobs[j] \in DOMAIN heap
    BY <1>3, <2>1 DEF BlobOf
  <2> QED
    BY <1>4, <1>5, <1>6, <2>2
<1>7. ASSUME Len(blobs) # MaxBlobs, NEW f \in SUBSET (snapshot \ UNION Str!Reported), Str!IsField(f)
      PROVE  ~Str!Fits(Cardinality(f))
  <2>1. f \in SUBSET snapshot /\ f # {}
    BY <1>7 DEF Str!IsField
  <2>2. PICK pb \in DOMAIN heap : f = Owned(pb)
    BY <1>5, <1>7, <2>1
  <2>3. PICK j \in DOMAIN preblobs : preblobs[j] = pb /\ j < turn
    BY <1>3
  <2>4. f \notin Str!Reported
    BY <1>7, <2>1
  <2> QED
    BY <1>4, <1>5, <1>7, <2>2, <2>3, <2>4
<1>8. Str!Reported' = Str!Reported
  BY <1>1 DEF Str!Reported
<1>9. \A f : Str!IsField(f)' <=> Str!IsField(f)
  BY <1>1 DEF Str!IsField, Str!Closed, Str!Connected, Str!Near
<1>10. \A k : Str!Fits(k)' <=> Str!Fits(k)
  BY <1>1 DEF Str!Fits
<1> HIDE DEF Str!IsField, Str!Fits
<1>11. /\ \A i \in DOMAIN blobs' :
            /\ Str!IsField(blobs[i].pixels)'
            /\ blobs'[i].points = Cardinality(blobs'[i].pixels)
            /\ Str!Fits(blobs[i].points)'
       /\ \A i, j \in DOMAIN blobs' : i # j => blobs'[i].pixels # blobs'[j].pixels
  BY <1>1, <1>4, <1>6, <1>9, <1>10
<1>12. \/ Len(blobs') = MaxBlobs
       \/ \A f \in SUBSET (snapshot' \ UNION Str!Reported') :
            Str!IsField(f)' => ~Str!Fits(Cardinality(f))'
  BY <1>1, <1>7, <1>8, <1>9, <1>10
<1> QED
  BY <1>11, <1>12, StrCardinality DEF Str!BlobsAreFields

\* The invariant holds at first,
LEMMA StrInit == ASSUME Str!PictureAssumption, Str!Init PROVE StrInv
BY StrListInit, StrPixelInit DEF StrInv, ReportInv, Str!BlobsAreFields, Str!Init

\* and after every step.
LEMMA StrStep ==
  ASSUME Str!PictureAssumption, StrInv, [Str!StripeNext]_(Str!stripeVars) PROVE StrInv'
<1>1. ListInv /\ ListInv'
  BY StrListStep DEF StrInv
<1>2. snapshot' = snapshot /\ (Str!Inside' <=> Str!Inside)
  BY DEF Str!Inside, Str!stripeVars, Str!StripeNext, Str!Lit, Str!Dark, Str!Ends, Str!StoreOld,
    Str!StoreNew, Str!NextLine, Str!Match, Str!Place, Str!StripesToBlobs, Str!Report, Str!Free,
    Str!scanned
<1>3. SUFFICES ASSUME Str!Inside PROVE PixelInv' /\ ReportInv' /\ Str!BlobsAreFields'
  BY <1>1, <1>2 DEF StrInv
<1>4. PixelInv /\ ReportInv /\ Str!BlobsAreFields
  BY <1>3 DEF StrInv
<1>5. PixelInv'
  BY <1>1, <1>3, <1>4, StrPixelStep
<1>6. CASE UNCHANGED Str!stripeVars
  <2> USE <1>6 DEF Str!stripeVars
  <2>1. ReportInv'
    BY <1>4 DEF ReportInv, BlobOf, Owned, Str!Fits, Str!Reported
  <2>2. Str!BlobsAreFields'
    BY <1>4 DEF Str!BlobsAreFields, Str!IsField, Str!Closed, Str!Connected, Str!Near, Str!Fits,
      Str!Reported
  <2> QED
    BY <1>5, <2>1, <2>2
<1>7. CASE Str!Lit \/ Str!Dark \/ Str!Ends \/ Str!StoreOld \/ Str!StoreNew \/ Str!Match \/ Str!Place
           \/ Str!StripesToBlobs
  <2>1. stage \notin {"report", "done"} /\ stage' \notin {"report", "done"} /\ blobs' = blobs
    BY <1>7 DEF Str!Lit, Str!Dark, Str!Ends, Str!StoreOld, Str!StoreNew, Str!Match, Str!Place,
      Str!StripesToBlobs
  <2> QED
    BY <1>4, <1>5, <2>1 DEF ReportInv, Str!BlobsAreFields
<1>8. CASE Str!NextLine
  <2>1. /\ stage = "new" /\ stage' \in {"report", "match"} /\ blobs' = blobs /\ turn' = 1
        /\ preblobs' = preblobs
    BY <1>8 DEF Str!NextLine
  <2>2. blobs' = <<>>
    BY <1>4, <2>1 DEF ReportInv
  <2>3. \A j \in DOMAIN preblobs : ~(j < 1)
    BY <1>1, StrPreblobs DEF ListInv
  <2> QED
    BY <1>5, <2>1, <2>2, <2>3 DEF ReportInv, Str!BlobsAreFields
<1>9. CASE Str!Report
  <2>1. stage' = "report"
    BY <1>9 DEF Str!Report
  <2>2. ReportInv'
    BY <1>1, <1>3, <1>4, <1>9, StrReportStep
  <2> QED
    BY <1>5, <2>1, <2>2 DEF Str!BlobsAreFields
<1>10. CASE Str!Free
  <2>1. stage' = "done"
    BY <1>10 DEF Str!Free
  <2>2. Str!BlobsAreFields'
    BY <1>1, <1>3, <1>4, <1>10, StrFreed
  <2> QED
    BY <1>5, <2>1, <2>2 DEF ReportInv
<1> QED
  BY <1>6, <1>7, <1>8, <1>9, <1>10 DEF Str!StripeNext

\* Blobs of a picture with a dark last column are its fields of bright pixels.
THEOREM StrInvariance ==
  ASSUME Str!PictureAssumption PROVE Str!StripeSpec => [](StrInv /\ Str!BlobsAreFieldsInside)
<1>1. Str!Init => StrInv
  BY StrInit
<1>2. StrInv /\ [Str!StripeNext]_(Str!stripeVars) => StrInv'
  BY StrStep
<1>3. StrInv => Str!BlobsAreFieldsInside
  BY DEF StrInv, Str!BlobsAreFieldsInside
<1> QED
  BY <1>1, <1>2, <1>3, PTL DEF Str!StripeSpec

------------------------------------------------------------------------------
(***************************************************************************)
(* The variables of each component have their types, for any values of its *)
(* constants.  What its inductive invariant says of them is taken from     *)
(* there; the rest are the flags, the counts and what is only read.        *)
(***************************************************************************)

\* No buffer of a webcam is in both of its queues or twice in one, so that there are no
\* more places than buffers; the other types of Webcam are those of WebInv.
THEOREM WebTypesHold == ASSUME Web!StreamAssumption PROVE Web!WebcamSpec => []Web!WebcamTypeOK
<1>1. WebInv => Web!WebcamTypeOK
  <2> SUFFICES ASSUME WebInv
               PROVE  Web!WebcamTypeOK
    OBVIOUS
  <2>1. Types /\ OnePlace
    BY DEF WebInv
  <2> DEFINE n == Len(queued)
             m == Len(full)
             place == [i \in 1 .. n + m |-> IF i <= n THEN queued[i] ELSE full[i - n]]
  <2>2. n \in Nat /\ m \in Nat /\ MaxBuffers \in Nat
    BY <2>1 DEF Types, Web!StreamAssumption
  <2>3. place \in [1 .. n + m -> 1 .. MaxBuffers]
    BY <2>1, <2>2 DEF Types, Web!Indices
  <2>4. \A i, j \in 1 .. n + m : place[i] = place[j] => i = j
    BY <2>1, <2>2 DEF OnePlace
  <2> HIDE DEF n, m, place
  <2>5. ~(MaxBuffers < n + m)
    <3>1. \A k \in Nat : IsFiniteSet(1 .. k) /\ Cardinality(1 .. k) = k
      BY FS_Interval
    <3>2. n + m \in Nat
      BY <2>2
    <3>3. /\ IsFiniteSet(1 .. n + m) /\ Cardinality(1 .. n + m) = n + m
          /\ IsFiniteSet(1 .. MaxBuffers) /\ Cardinality(1 .. MaxBuffers) = MaxBuffers
      BY <2>2, <3>1, <3>2, Zenon
    <3>4. MaxBuffers < n + m => \E i, j \in 1 .. n + m : i # j /\ place[i] = place[j]
      BY <2>3, <3>3, FS_PigeonHole, Zenon
    <3> QED
      BY <2>4, <3>4
  <2> QED
    BY <2>1, <2>2, <2>5 DEF Types, Web!WebcamTypeOK, Exposures, Steps, n, m
<1> QED
  BY <1>1, WebInvariance, PTL

\* The variables of Buffering have their types.
THEOREM BufTypesHold == ASSUME Buf!BuffersAssumption PROVE Buf!Spec => []Buf!TypeOK
<1> DEFINE Shot == \A b \in Buf!BufferIds : buffers[b].shot <= MaxShots
           Rest == /\ Shot /\ shots <= MaxShots
                   /\ runs \in 0 .. MaxRuns /\ (viewer \in {"init", "start"} => runs < MaxRuns)
                   /\ initing \subseteq {"read", "write", "current"}
                   /\ viewer \in {"idle", "init", "start", "show", "stop"}
                   /\ initBuffers \in BOOLEAN /\ lost \in BOOLEAN
<1>1. Buf!Init => Rest
  <2> SUFFICES ASSUME Buf!Init
               PROVE  Rest
    OBVIOUS
  <2>1. \A b \in Buf!BufferIds : buffers[b] = [size |-> 0, shot |-> 0]
    BY DEF Buf!Init, Buf!Torn
  <2>2. Shot
    BY <2>1 DEF Buf!BuffersAssumption
  <2>3. 0 <= MaxShots /\ 0 \in 0 .. MaxRuns
    BY DEF Buf!BuffersAssumption
  <2> HIDE DEF Shot
  <2> QED
    BY <2>2, <2>3, Zenon DEF Buf!Init
<1>2. BufInv /\ Rest /\ [Buf!BufNext]_(Buf!bufVars) => Rest'
  <2> SUFFICES ASSUME BufInv, Rest, [Buf!BufNext]_(Buf!bufVars)
               PROVE  Rest'
    OBVIOUS
  <2>1. BufTypes /\ (target # Buf!None => target \in Buf!BufferIds)
    BY DEF BufInv, BufTypes
  <2>2. Shot'
    <3> SUFFICES ASSUME NEW b \in Buf!BufferIds
                 PROVE  buffers'[b].shot <= MaxShots
      BY DEF Buf!BufferIds
    <3>1. buffers[b] \in [size : Resolutions \cup {0}, shot : Nat] /\ buffers[b].shot <= MaxShots
      BY <2>1 DEF BufTypes
    <3>2. CASE Buf!Draw
      BY <2>1, <3>1, <3>2 DEF Buf!Draw, BufTypes, Buf!BuffersAssumption
    <3>3. CASE Buf!Resize
      BY <3>1, <3>3 DEF Buf!Resize, Buf!Torn, Buf!BuffersAssumption
    <3>4. CASE Buf!WriteBuffer
      BY <2>1, <3>1, <3>4 DEF Buf!WriteBuffer, Buf!Torn, BufTypes, Buf!BuffersAssumption
    <3>5. CASE UNCHANGED buffers
      BY <3>1, <3>5
    <3> QED
      BY <3>2, <3>3, <3>4, <3>5
         DEF Buf!BufNext, Buf!bufVars, Buf!Start, Buf!InitBuffers, Buf!StartMaster,
             Buf!ChangeResolution, Buf!Stop, Buf!Stopped, Buf!Redraw, Buf!Redrawn,
             Buf!BufferWritten, Buf!MasterEnds
  <2>3. /\ shots' <= MaxShots /\ runs' \in 0 .. MaxRuns
        /\ viewer' \in {"init", "start"} => runs' < MaxRuns
    BY <2>1 DEF Buf!BufNext, Buf!bufVars, Buf!Start, Buf!InitBuffers, Buf!StartMaster,
           Buf!ChangeResolution, Buf!Stop, Buf!Stopped, Buf!Redraw, Buf!Redrawn,
           Buf!BufferWritten, Buf!MasterEnds, Buf!Draw, Buf!Resize, Buf!WriteBuffer,
           BufTypes, Buf!BuffersAssumption
  <2>4. /\ initing' \subseteq {"read", "write", "current"}
        /\ viewer' \in {"idle", "init", "start", "show", "stop"}
        /\ initBuffers' \in BOOLEAN /\ lost' \in BOOLEAN
    BY DEF Buf!BufNext, Buf!bufVars, Buf!Start, Buf!InitBuffers, Buf!StartMaster,
           Buf!ChangeResolution, Buf!Stop, Buf!Stopped, Buf!Redraw, Buf!Redrawn,
           Buf!BufferWritten, Buf!MasterEnds, Buf!Draw, Buf!Resize, Buf!WriteBuffer
  <2> QED
    BY <2>2, <2>3, <2>4
<1>3. BufInv /\ Rest => Buf!TypeOK
  <2> SUFFICES ASSUME BufInv, Rest
               PROVE  Buf!TypeOK
    OBVIOUS
  <2>1. BufTypes
    BY DEF BufInv
  <2>2. buffers \in [Buf!BufferIds -> [size : Resolutions \cup {0}, shot : 0 .. MaxShots]]
    BY <2>1 DEF BufTypes, Buf!BuffersAssumption
  <2> QED
    BY <2>1, <2>2 DEF Buf!TypeOK, BufTypes, Buf!BuffersAssumption
<1> HIDE DEF Rest
<1> QED
  BY <1>1, <1>2, <1>3, BufInvariance, PTL DEF Buf!Spec

\* The variables of TirPackets have their types; a scan that is sent is one of the last, and
\* the one after it is the bound.
THEOREM PktTypesHold ==
  ASSUME Pkt!PacketAssumption
  PROVE  Pkt!Init /\ [][Pkt!PacketNext]_(Pkt!packetVars) => []Pkt!TypeOK
<1> DEFINE Rest == /\ scanner.scan <= MaxScans + 1 /\ packetType \in {"none", "open"}
                   /\ blobList \subseteq Pkt!Word
                   /\ readState \in {"run", "packets", "request", "paused", "failed"}
                   /\ newRequest \in BOOLEAN /\ cut \subseteq Pkt!Scans
                   /\ pauses \in 0 .. MaxPauses
<1>1. Pkt!Init => Rest
  <2>1. 0 \in 0 .. MaxPauses /\ 1 <= MaxScans + 1
    BY DEF Pkt!PacketAssumption
  <2>2. Pkt!Init => scanner.scan = 1
    BY DEF Pkt!Init
  <2> QED
    BY <2>1, <2>2, Zenon DEF Pkt!Init
<1>2. PktInv /\ Rest /\ [Pkt!PacketNext]_(Pkt!packetVars) => Rest'
  <2> SUFFICES ASSUME PktInv, Rest, [Pkt!PacketNext]_(Pkt!packetVars)
               PROVE  Rest'
    OBVIOUS
  <2>1. PktTypes /\ Transfers
    BY DEF PktInv
  <2>2. /\ packetType' \in {"none", "open"} /\ newRequest' \in BOOLEAN
        /\ readState' \in {"run", "packets", "request", "paused", "failed"}
    BY DEF Pkt!PacketNext, Pkt!packetVars, Pkt!Receive, Pkt!ReceiveOdd, Pkt!SkipPacket,
           Pkt!ProcessWord, Pkt!ProcessScan, Pkt!LookForRequest, Pkt!Request, Pkt!NextTurn,
           Pkt!Resume, Pkt!HaveFrame, Pkt!GoOn
  <2>3. cut' \subseteq Pkt!Scans /\ pauses' \in 0 .. MaxPauses
    BY DEF Pkt!PacketNext, Pkt!packetVars, Pkt!Receive, Pkt!ReceiveOdd, Pkt!SkipPacket,
           Pkt!ProcessWord, Pkt!ProcessScan, Pkt!LookForRequest, Pkt!Request, Pkt!NextTurn,
           Pkt!Resume, Pkt!PacketAssumption
  <2>4. blobList' \subseteq Pkt!Word
    <3>1. CASE Pkt!ProcessScan
      <4>1. transfer # <<>> /\ blobList' = collected \cup
              {Head(transfer).words[i] : i \in DOMAIN Head(transfer).words}
        BY <3>1 DEF Pkt!ProcessScan, Pkt!HaveFrame
      <4>2. Head(transfer).words \in Seq(Pkt!Word)
        <5>1. Head(transfer) \in Packets
          BY <2>1, <4>1 DEF PktTypes
        <5> QED
          BY <5>1 DEF Packets
      <4>3. \A i \in DOMAIN Head(transfer).words : Head(transfer).words[i] \in Pkt!Word
        BY <4>2
      <4> QED
        BY <2>1, <4>1, <4>3 DEF PktTypes
    <3>2. CASE UNCHANGED blobList \/ blobList' = collected
      BY <2>1, <3>2 DEF PktTypes
    <3> QED
      BY <3>1, <3>2
         DEF Pkt!PacketNext, Pkt!packetVars, Pkt!Receive, Pkt!ReceiveOdd, Pkt!SkipPacket,
             Pkt!ProcessWord, Pkt!LookForRequest, Pkt!Request, Pkt!NextTurn, Pkt!Resume,
             Pkt!HaveFrame
  <2>5. scanner'.scan <= MaxScans + 1
    <3>1. scanner \in Scanners /\ scanner.scan \in Nat
      BY <2>1 DEF PktTypes, Scanners
    <3>2. CASE Pkt!Receive /\ scanner' # scanner
      <4>1. PICK s \in Pkt!Sent :
              /\ \A i \in DOMAIN s[1].words : s[1].words[i].scan <= MaxScans
              /\ scanner' = s[2] /\ scanner.scan <= MaxScans
        BY <3>2 DEF Pkt!Receive
      <4>2. CASE family = "words"
        <5>1. PICK w \in Pkt!NextWords(scanner) :
                \/ s = <<Pkt!Packet("words", <<w>>), Pkt!After(scanner, w)>>
                \/ \E v \in Pkt!NextWords(Pkt!After(scanner, w)) :
                     s = <<Pkt!Packet("words", <<w, v>>), Pkt!After(Pkt!After(scanner, w), v)>>
          BY <4>1, <4>2, SentWords
        <5>2. ASSUME NEW z \in Scanners, z.scan > 0, z.scan <= MaxScans + 1,
                     NEW u \in Pkt!NextWords(z), u.scan <= MaxScans
              PROVE  Pkt!After(z, u) \in Scanners /\ Pkt!After(z, u).scan > 0
                     /\ Pkt!After(z, u).scan <= MaxScans + 1
          <6>1. /\ u \in [scan : Nat, line : 0 .. Lines]
                /\ Pkt!After(z, u) \in Scanners /\ Pkt!After(z, u).scan > 0
                /\ u.line # 0 => Pkt!After(z, u).scan = u.scan
                /\ u.scan = z.scan \/ u.scan = z.scan + 1
            BY <5>2, AfterWord
          <6>2. u.line = 0 => Pkt!After(z, u).scan = z.scan + 1
            BY DEF Pkt!After, Scanners
          <6> QED
            BY <5>2, <6>1, <6>2 DEF Pkt!PacketAssumption, Scanners
        <5>3. CASE s = <<Pkt!Packet("words", <<w>>), Pkt!After(scanner, w)>>
          <6>1. s[1].words = <<w>>
            BY <5>3 DEF Pkt!Packet
          <6>2. w.scan <= MaxScans
            BY <4>1, <6>1
          <6> QED
            BY <2>1, <4>1, <5>2, <5>3, <6>2 DEF PktTypes
        <5>4. ASSUME NEW v \in Pkt!NextWords(Pkt!After(scanner, w)),
                     s = <<Pkt!Packet("words", <<w, v>>), Pkt!After(Pkt!After(scanner, w), v)>>
              PROVE  scanner'.scan <= MaxScans + 1
          <6>1. s[1].words = <<w, v>>
            BY <5>4 DEF Pkt!Packet
          <6>2. w.scan <= MaxScans /\ v.scan <= MaxScans
            <7>1. 1 \in DOMAIN s[1].words /\ 2 \in DOMAIN s[1].words
                  /\ s[1].words[1] = w /\ s[1].words[2] = v
              BY <6>1
            <7> QED
              BY <4>1, <7>1
          <6> QED
            BY <2>1, <4>1, <5>2, <5>4, <6>2 DEF PktTypes
        <5> QED
          BY <5>1, <5>3, <5>4
      <4>3. CASE family # "words"
        <5>1. s[2] = [scanner EXCEPT !.scan = @ + 1]
          BY <2>1, <4>1, <4>3, SentScan
        <5> QED
          BY <3>1, <4>1, <5>1 DEF Scanners, Pkt!PacketAssumption
      <4> QED
        BY <4>2, <4>3
    <3>3. CASE Pkt!Resume
      BY <3>1, <3>3 DEF Pkt!Resume, Pkt!PacketAssumption
    <3>4. CASE Pkt!NextTurn
      BY <3>1, <3>4 DEF Pkt!NextTurn, Scanners
    <3>5. CASE UNCHANGED scanner
      BY <3>5
    <3> QED
      BY <3>2, <3>3, <3>4, <3>5
         DEF Pkt!PacketNext, Pkt!packetVars, Pkt!ReceiveOdd, Pkt!SkipPacket, Pkt!ProcessWord,
             Pkt!ProcessScan, Pkt!LookForRequest, Pkt!Request
  <2> QED
    BY <2>2, <2>3, <2>4, <2>5
<1>3. PktInv /\ Rest => Pkt!TypeOK
  <2> SUFFICES ASSUME PktInv, Rest
               PROVE  Pkt!TypeOK
    OBVIOUS
  <2>1. PktTypes
    BY DEF PktInv
  <2>2. scanner \in [scan : 1 .. MaxScans + 1, line : 0 .. Lines, on : BOOLEAN]
    BY <2>1 DEF PktTypes, Scanners, Pkt!PacketAssumption
  <2>3. \A i \in DOMAIN transfer :
          /\ transfer[i].kind \in {"info", "unknown", "short", "gray", "bad"} \cup Pkt!PacketFamilies
          /\ \A j \in DOMAIN transfer[i].words : transfer[i].words[j] \in Pkt!Word
    <3> SUFFICES ASSUME NEW i \in DOMAIN transfer
                 PROVE  /\ transfer[i].kind \in {"info", "unknown", "short", "gray", "bad"}
                                                \cup Pkt!PacketFamilies
                        /\ \A j \in DOMAIN transfer[i].words : transfer[i].words[j] \in Pkt!Word
      OBVIOUS
    <3>1. transfer[i] \in Packets
      BY <2>1 DEF PktTypes
    <3>2. transfer[i].words \in Seq(Pkt!Word)
      BY <3>1 DEF Packets
    <3> QED
      BY <3>1, <3>2 DEF Packets
  <2> QED
    BY <2>1, <2>2, <2>3 DEF Pkt!TypeOK, PktTypes
<1> HIDE DEF Rest
<1> QED
  BY <1>1, <1>2, <1>3, PktInvariance, PTL

\* Where the device thread is, and its frames.
RecDevices == [at : {"down", "paused", "wait", "pose", "clear", "clear3", "write", "callback"},
               frame : Rec!Frames, base : Rec!Frames, needed : Rec!Frames]

\* The requests to recentre.
RecFlags ==
  /\ recenter \in BOOLEAN /\ initRecenter \in BOOLEAN /\ modelChanged \in BOOLEAN
  /\ single \in BOOLEAN /\ requests \in 0 .. MaxRequests /\ inits \in 0 .. MaxInits

\* A frame is counted at most once, and not before it was taken.
RecNumbers ==
  /\ device \in RecDevices /\ centre \in Rec!Frames /\ due \in Rec!Frames
  /\ poseCount \in Rec!Frames /\ poseCount <= device.frame
  /\ device.at \in {"clear", "clear3", "write"} => poseCount < device.frame

\* What is on its way to the clients.
RecLinks ==
  /\ pose \in Rec!Poses /\ last \in Rec!Poses
  /\ link \in Seq(Rec!Poses) /\ Len(link) <= LinkSize

\* What a client has.
RecClient ==
  /\ comm \in [pose : Rec!Poses, state : Rec!Statuses, preparing : BOOLEAN]
  /\ client \in [counter : Rec!Frames, got : Rec!Poses, new : BOOLEAN]

\* What is broadcast is a pose.
LEMMA BroadcastTypes ==
  ASSUME Rec!FramesAssumption, RecLinks, NEW p \in Rec!Poses, Rec!Broadcast(p), pose' \in Rec!Poses
  PROVE  RecLinks'
<1>1. /\ Append(link, p) \in Seq(Rec!Poses) /\ Len(Append(link, p)) = Len(link) + 1
      /\ Len(link) \in Nat
  BY DEF RecLinks
<1> QED
  BY <1>1 DEF Rec!Broadcast, RecLinks, Rec!FramesAssumption

\* The types of Recentering are kept.
LEMMA RecTypesKeep ==
  ASSUME Rec!FramesAssumption, RecFlags, RecNumbers, RecLinks, RecClient, Rec!RecNext
  PROVE  RecFlags' /\ RecNumbers' /\ RecLinks' /\ RecClient'
<1>1. RecFlags'
  <2>1. requests' \in 0 .. MaxRequests /\ inits' \in 0 .. MaxInits
    BY DEF RecFlags, Rec!RecNext, Rec!Start, Rec!Recenter, Rec!ChangeModel, Rec!FrameArrives,
           Rec!NoPose, Rec!TakeCentre, Rec!ResetRecenter, Rec!WritePose, Rec!NewFrame,
           Rec!ChangeState, Rec!ProcessMessage, Rec!GetPose, Rec!FramesAssumption
  <2>2. /\ recenter' \in BOOLEAN /\ initRecenter' \in BOOLEAN /\ modelChanged' \in BOOLEAN
        /\ single' \in BOOLEAN
    BY Zenon
       DEF RecFlags, Rec!RecNext, Rec!Start, Rec!Recenter, Rec!ChangeModel, Rec!FrameArrives,
           Rec!NoPose, Rec!TakeCentre, Rec!ResetRecenter, Rec!WritePose, Rec!NewFrame,
           Rec!ChangeState, Rec!ProcessMessage, Rec!GetPose, Rec!CheckPose
  <2> QED
    BY <2>1, <2>2 DEF RecFlags
<1>2. RecNumbers'
  <2>1. /\ device = [at |-> device.at, frame |-> device.frame, base |-> device.base,
                     needed |-> device.needed]
        /\ device.at \in {"down", "paused", "wait", "pose", "clear", "clear3", "write", "callback"}
        /\ device.frame \in 0 .. MaxFrames /\ device.base \in 0 .. MaxFrames
        /\ device.needed \in 0 .. MaxFrames
        /\ centre \in 0 .. MaxFrames /\ due \in 0 .. MaxFrames /\ poseCount \in 0 .. MaxFrames
    BY DEF RecNumbers, RecDevices, Rec!Frames
  <2>2. CASE Rec!TakeCentre
    <3> DEFINE f == device.frame + 1
    <3>1. /\ f \in 0 .. MaxFrames /\ due' = due /\ poseCount' = poseCount /\ poseCount < f
          /\ centre' \in {f, centre}
      BY <2>1, <2>2 DEF Rec!TakeCentre, RecNumbers, Rec!FramesAssumption
    <3>2. PICK a \in {"clear", "clear3", "write"} :
            device' = [at |-> a, frame |-> f, base |-> device.base, needed |-> due]
      BY <2>1, <2>2, Zenon DEF Rec!TakeCentre
    <3> HIDE DEF f
    <3>3. device' \in RecDevices
      BY <2>1, <3>1, <3>2 DEF RecDevices, Rec!Frames
    <3>4. device'.frame = f /\ centre' \in 0 .. MaxFrames /\ poseCount <= f
      BY <2>1, <3>1, <3>2
    <3> QED
      BY <2>1, <3>1, <3>3, <3>4 DEF RecNumbers, Rec!Frames
  <2>3. CASE Rec!WritePose
    <3>1. /\ device' = [device EXCEPT !.at = "callback"] /\ device.at = "write"
          /\ UNCHANGED <<centre, due>> /\ poseCount' \in {poseCount, poseCount + 1}
      BY <2>3 DEF Rec!WritePose
    <3>2. device' = [at |-> "callback", frame |-> device.frame, base |-> device.base,
                     needed |-> device.needed]
      BY <2>1, <3>1
    <3>3. device' \in RecDevices
      BY <2>1, <3>2, Zenon DEF RecDevices, Rec!Frames
    <3>5. device'.at = "callback" /\ device'.frame = device.frame
      BY <3>2
    <3>4. poseCount' \in 0 .. MaxFrames /\ poseCount' <= device.frame
      <4>1. poseCount < device.frame /\ poseCount' \in {poseCount, poseCount + 1}
        BY <3>1, Zenon DEF RecNumbers
      <4>2. device.frame \in 0 .. MaxFrames /\ poseCount \in 0 .. MaxFrames
        BY <2>1, Zenon
      <4> QED
        BY <4>1, <4>2 DEF Rec!FramesAssumption
    <3> QED
      BY <2>1, <3>1, <3>3, <3>4, <3>5 DEF RecNumbers, Rec!Frames
  <2>4. CASE Rec!Start
    BY <2>1, <2>4 DEF Rec!Start, RecNumbers, RecDevices, Rec!Frames
  <2>5. CASE Rec!ResetRecenter
    BY <2>1, <2>5 DEF Rec!ResetRecenter, RecNumbers, RecDevices, Rec!Frames
  <2>6. CASE Rec!FrameArrives \/ Rec!NoPose \/ Rec!NewFrame \/ Rec!ChangeState
    BY <2>1, <2>6 DEF Rec!FrameArrives, Rec!NoPose, Rec!NewFrame, Rec!ChangeState, RecNumbers,
                      RecDevices, Rec!Frames
  <2>7. CASE Rec!Recenter \/ Rec!ChangeModel \/ Rec!ProcessMessage \/ Rec!GetPose
    BY <2>1, <2>7 DEF Rec!Recenter, Rec!ChangeModel, Rec!ProcessMessage, Rec!GetPose, RecNumbers,
                      RecDevices, Rec!Frames
  <2> QED
    BY <2>2, <2>3, <2>4, <2>5, <2>6, <2>7 DEF Rec!RecNext
<1>3. RecLinks'
  <2>1. \A p \in Rec!Poses : p.status \in Rec!Statuses
    BY DEF Rec!Poses
  <2>2. CASE Rec!Start \/ Rec!ChangeState
    <3>1. UNCHANGED pose /\ \E s \in Rec!Statuses : Rec!Broadcast([last EXCEPT !.status = s])
      BY <2>2 DEF Rec!Start, Rec!ChangeState, Rec!Announce, Rec!Statuses
    <3>2. \A s \in Rec!Statuses : [last EXCEPT !.status = s] \in Rec!Poses
      BY DEF RecLinks, Rec!Poses
    <3> QED
      BY <3>1, <3>2, BroadcastTypes DEF RecLinks
  <2>3. CASE Rec!NewFrame
    <3>1. /\ [pose EXCEPT !.counter = poseCount, !.status = last.status] \in Rec!Poses
          /\ [pose EXCEPT !.status = last.status] \in Rec!Poses
      BY DEF RecLinks, RecNumbers, Rec!Poses
    <3> QED
      BY <2>3, <3>1, BroadcastTypes DEF Rec!NewFrame
  <2>4. CASE Rec!WritePose
    <3>1. [pose EXCEPT !.frame = device.frame, !.centre = centre, !.needed = device.needed,
                       !.base = device.base] \in Rec!Poses
      BY DEF RecLinks, RecNumbers, RecDevices, Rec!Poses
    <3> QED
      BY <2>4, <3>1 DEF Rec!WritePose, RecLinks
  <2>5. CASE Rec!ProcessMessage
    <3>1. link # <<>> => Tail(link) \in Seq(Rec!Poses) /\ Len(Tail(link)) = Len(link) - 1
      BY DEF RecLinks
    <3> QED
      BY <2>5, <3>1 DEF Rec!ProcessMessage, RecLinks, Rec!FramesAssumption
  <2>6. CASE UNCHANGED <<pose, last, link>>
    BY <2>6 DEF RecLinks
  <2> QED
    BY <2>2, <2>3, <2>4, <2>5, <2>6
       DEF Rec!RecNext, Rec!Recenter, Rec!ChangeModel, Rec!FrameArrives, Rec!NoPose,
           Rec!TakeCentre, Rec!ResetRecenter, Rec!GetPose
<1>4. RecClient'
  <2>1. CASE Rec!ProcessMessage
    <3>1. Head(link) \in Rec!Poses /\ comm.pose \in Rec!Poses
      BY <2>1 DEF Rec!ProcessMessage, RecLinks, RecClient
    <3>2. Head(link).status \in Rec!Statuses
      BY <3>1 DEF Rec!Poses
    <3> QED
      BY <2>1, <3>1, <3>2 DEF Rec!ProcessMessage, RecClient
  <2>2. CASE Rec!GetPose
    <3>1. comm.pose \in Rec!Poses /\ comm.pose.counter \in Rec!Frames
      BY DEF RecClient, Rec!Poses
    <3> QED
      BY <2>2, <3>1 DEF Rec!GetPose, RecClient
  <2>3. CASE UNCHANGED <<comm, client>>
    BY <2>3 DEF RecClient
  <2> QED
    BY <2>1, <2>2, <2>3
       DEF Rec!RecNext, Rec!Start, Rec!Recenter, Rec!ChangeModel, Rec!FrameArrives,
           Rec!NoPose, Rec!TakeCentre, Rec!ResetRecenter, Rec!WritePose, Rec!NewFrame,
           Rec!ChangeState
<1> QED
  BY <1>1, <1>2, <1>3, <1>4

\* The variables of Recentering have their types.
THEOREM RecTypesHold == ASSUME Rec!FramesAssumption PROVE Rec!RecSpec => []Rec!TypeOK
<1> DEFINE Inv == RecFlags /\ RecNumbers /\ RecLinks /\ RecClient
<1>1. Rec!Init => Inv
  <2> SUFFICES ASSUME Rec!Init
               PROVE  Inv
    OBVIOUS
  <2>1. 0 \in Rec!Frames /\ 0 \in 0 .. MaxRequests /\ 0 \in 0 .. MaxInits
    BY DEF Rec!Frames, Rec!FramesAssumption
  <2>2. Rec!Zero \in Rec!Poses
    <3>1. "INITIALIZING" \in Rec!Statuses
      BY DEF Rec!Statuses
    <3> QED
      BY <2>1, <3>1 DEF Rec!Zero, Rec!Poses
  <2>3. RecFlags
    BY <2>1, Zenon DEF Rec!Init, RecFlags
  <2>4. RecNumbers
    BY <2>1 DEF Rec!Init, RecNumbers, RecDevices
  <2>5. RecLinks
    BY <2>2 DEF Rec!Init, RecLinks, Rec!FramesAssumption
  <2>6. RecClient
    BY <2>1, <2>2 DEF Rec!Init, RecClient, Rec!Statuses
  <2> QED
    BY <2>3, <2>4, <2>5, <2>6
<1>2. Inv /\ [Rec!RecNext]_(Rec!recVars) => Inv'
  <2>1. Inv /\ UNCHANGED Rec!recVars => Inv'
    BY DEF RecFlags, RecNumbers, RecLinks, RecClient, Rec!recVars
  <2> QED
    BY <2>1, RecTypesKeep
<1>3. Inv => Rec!TypeOK
  BY Zenon DEF Rec!TypeOK, RecFlags, RecNumbers, RecDevices, RecLinks, RecClient
<1> HIDE DEF Inv
<1> QED
  BY <1>1, <1>2, <1>3, PTL DEF Rec!RecSpec

\* The types of what DevInv leaves out.
DevRest ==
  /\ tir \in BOOLEAN /\ behind \in BOOLEAN /\ strayed \in BOOLEAN /\ crashed \in BOOLEAN
  /\ presses \in 0 .. MaxChoices
  /\ dialog \in combo \cup {Dev!Nothing}
  /\ shown.res \in 1 .. Dev!Listed(info, shown.fmt)
  /\ loaded \in Dev!WebcamSettings

\* The input has a section.
InputHas(p) == p.input \in DOMAIN p.sections \cup {Dev!Nothing}

\* What a driver has loaded are settings.
LEMMA LoadedAre ==
  ASSUME loaded \in Dev!WebcamSettings, NEW s \in Dev!WebcamSettings
  PROVE  Dev!Loaded(s) \in Dev!WebcamSettings
BY DEF Dev!Loaded, Dev!WebcamSettings

\* A resolution that is there is listed.
LEMMA ListedHas ==
  ASSUME Dev!DeviceAssumption, NEW c \in CameraNames \cup {Dev!NoValue},
         NEW f \in DOMAIN Dev!Offer(c), NEW r \in DOMAIN Dev!Offer(c)[f].res
  PROVE  r \in 1 .. Dev!Listed(c, f)
<1>1. CASE c \in CameraNames /\ Offers[c] # <<>>
  <2>1. Dev!Offer(c) = Offers[c] /\ Dev!Listed(c, f) = Len(Offers[c][f].res)
    BY <1>1 DEF Dev!Offer, Dev!Listed
  <2>2. Offers[c][f] \in Dev!Formats
    BY <1>1, <2>1 DEF Dev!DeviceAssumption
  <2>3. DOMAIN Offers[c][f].res = 1 .. Len(Offers[c][f].res)
    BY <2>2 DEF Dev!Formats
  <2> QED
    BY <2>1, <2>3
<1>2. CASE ~(c \in CameraNames /\ Offers[c] # <<>>)
  <2>1. Dev!Offer(c) = Dev!Fallback /\ Dev!Listed(c, f) = 3
    BY <1>2 DEF Dev!Offer, Dev!Listed
  <2>2. f = 1 /\ Dev!Fallback[1].res = <<"160 x 120">>
    BY <2>1, OneElement DEF Dev!Fallback
  <2>3. r = 1
    BY <2>1, <2>2, OneElement
  <2> QED
    BY <2>1, <2>3
<1> QED
  BY <1>1, <1>2

\* A dialog that is opened.
LEMMA OpenTypes ==
  ASSUME Dev!DeviceAssumption, DevTypes, DevRest, NEW p, Dev!PrefsOK(p), NEW d \in Dev!Devices,
         Dev!Open(p, d)
  PROVE  /\ dialog' = d /\ behind' \in BOOLEAN /\ crashed' \in BOOLEAN /\ InputHas(prefs')
         /\ shown'.res \in 1 .. Dev!Listed(info', shown'.fmt)
         /\ loaded' \in Dev!WebcamSettings
<1>1. /\ dialog' = d /\ behind' \in BOOLEAN
      /\ Dev!OpenWebcam(p, d) \/ Dev!OpenTir(p, d)
  BY DEF Dev!Open, Dev!OpenFace, Dev!OpenWiimote
<1>2. ASSUME NEW fresh \in Dev!WebcamSettings
      PROVE  LET now == Dev!Activated(p, d, fresh)
             IN  InputHas(now) /\ now.sections[d] \in Dev!WebcamSettings
  <2>1. LET now == Dev!Activated(p, d, fresh)
        IN  /\ Dev!PrefsOK(now) /\ now.input = d
            /\ DOMAIN now.sections = DOMAIN p.sections \cup {d}
    BY ActivatedHas
  <2> QED
    BY <2>1 DEF InputHas, Dev!PrefsOK
<1>3. CASE Dev!OpenWebcam(p, d)
  <2>1. d \in Dev!Webcams /\ crashed' \in BOOLEAN
    BY <1>3 DEF Dev!OpenWebcam
  <2>2. Begins[d.id] \subseteq CameraNames
    BY <2>1, WebcamHas DEF Dev!DeviceAssumption
  <2>3. PICK c \in CameraNames \cup {Dev!NoValue} : Dev!Shows(p, d, c)
    BY <1>3, <2>2 DEF Dev!OpenWebcam, Dev!Found
  <2> DEFINE now == Dev!Activated(p, d, Dev!Empty)
             set == Dev!Loaded(now.sections[d])
             f == Dev!FindCode(c, set.code)
             r == Dev!ResFor(c, f, set)
             v == Dev!Spec(c, f, r)
  <2>4. /\ info' = c /\ shown' = [fmt |-> f, res |-> r]
        /\ prefs' = now \/ prefs' = [now EXCEPT !.sections[d] = v]
        /\ loaded' \in {v, set}
    BY <2>3 DEF Dev!Shows
  <2>5. Dev!Empty \in Dev!WebcamSettings
    BY DEF Dev!Empty, Dev!WebcamSettings
  <2>6. InputHas(now) /\ set \in Dev!WebcamSettings /\ Dev!PrefsOK(now)
    BY <1>2, <2>5, LoadedAre, ActivatedHas DEF DevRest
  <2>7. f \in DOMAIN Dev!Offer(c) /\ r \in DOMAIN Dev!Offer(c)[f].res
    BY FoundInList
  <2>8. v \in Dev!WebcamSettings /\ r \in 1 .. Dev!Listed(c, f)
    BY <2>7, FoundInList, ListedHas
  <2> HIDE DEF now, set, f, r, v
  <2>9. InputHas(prefs')
    BY <2>4, <2>6, <2>8, StoredHas DEF InputHas
  <2> QED
    BY <1>1, <2>1, <2>4, <2>6, <2>8, <2>9
<1>4. CASE Dev!OpenTir(p, d)
  <2>1. Dev!NoSettings \in Dev!WebcamSettings
    BY DEF Dev!NoSettings, Dev!WebcamSettings
  <2>2. InputHas(prefs')
    BY <1>2, <1>4, <2>1 DEF Dev!OpenTir
  <2>3. [loaded EXCEPT !.code = Dev!NoValue] \in Dev!WebcamSettings
    BY DEF DevRest, Dev!WebcamSettings
  <2> QED
    BY <1>1, <1>4, <2>2, <2>3 DEF Dev!OpenTir, DevRest
<1> QED
  BY <1>1, <1>3, <1>4

\* The variables of DeviceSetup have their types; the input has a section, which is what
\* a driver reads.
THEOREM DevTypesHold == ASSUME Dev!DeviceAssumption PROVE Dev!DeviceSpec => []Dev!TypeOK
<1> DEFINE Inv == DevRest /\ InputHas(prefs) /\ InputHas(file)
<1>1. InputHas(Dev!Default)
  BY DEF InputHas, Dev!Default
<1>2. Dev!Init => Inv
  <2> SUFFICES ASSUME Dev!Init
               PROVE  Inv
    OBVIOUS
  <2>1. InputHas(file) /\ prefs = file
    BY <1>1 DEF Dev!Init, InputHas, Dev!DeviceAssumption
  <2>2. 1 \in 1 .. Dev!Listed(Dev!NoValue, 1)
    BY DEF Dev!Listed, Dev!DeviceAssumption
  <2>3. shown.res = 1 /\ shown.fmt = 1 /\ info = Dev!NoValue
    BY DEF Dev!Init
  <2>4. Dev!NoSettings \in Dev!WebcamSettings /\ 0 \in 0 .. MaxChoices
    BY DEF Dev!NoSettings, Dev!WebcamSettings, Dev!DeviceAssumption
  <2>5. DevRest
    BY <2>2, <2>3, <2>4 DEF Dev!Init, DevRest
  <2> QED
    BY <2>1, <2>5
<1>3. DevInv /\ Inv /\ [Dev!DeviceNext]_(Dev!deviceVars) => Inv'
  <2> SUFFICES ASSUME DevInv, Inv, [Dev!DeviceNext]_(Dev!deviceVars)
               PROVE  Inv'
    OBVIOUS
  <2>1. DevTypes
    BY DEF DevInv
  <2>2. presses' \in 0 .. MaxChoices /\ tir' \in BOOLEAN
    <3>1. /\ presses' = presses \/ (presses < MaxChoices /\ presses' = presses + 1)
          /\ tir' = tir \/ tir' \in BOOLEAN
      BY Zenon
         DEF Dev!DeviceNext, Dev!deviceVars, Dev!Refresh, Dev!PickDevice, Dev!SelectFormat,
             Dev!SelectResolution, Dev!TuneWebcam, Dev!TuneFace, Dev!TuneTir, Dev!TuneWiimote,
             Dev!Tune, Dev!Save, Dev!Discard, Dev!Defaults, Dev!DriverReads, Dev!Plug, Dev!Press
    <3> QED
      BY <3>1 DEF DevRest, Dev!DeviceAssumption
  <2>3. ASSUME NEW p, Dev!PrefsOK(p), NEW d \in Dev!Devices, Dev!Open(p, d), d \in combo',
               UNCHANGED strayed, InputHas(file')
        PROVE  Inv'
    BY <2>1, <2>2, <2>3, OpenTypes DEF DevRest, InputHas
  <2>4. ASSUME NEW p, Dev!Refreshed(p)
        PROVE  \E d \in Dev!Devices : d \in combo' /\ Dev!Open(p, d)
    <3>1. PICK f \in Dev!Enumerated, w \in Dev!Enumerated :
            /\ combo' = Dev!WiimotesToAdd \cup Dev!TirsToAdd \cup Dev!FacesToAdd(f)
                          \cup Dev!WebcamsToAdd(w)
            /\ Dev!Open(p, Dev!Preferred(p))
      BY <2>4 DEF Dev!Refreshed
    <3>2. f \subseteq CameraNames /\ w \subseteq CameraNames
      BY <2>1 DEF Dev!Enumerated, DevTypes
    <3>3. combo' \subseteq Dev!Devices /\ Dev!Wiimote \in combo'
      BY <3>1, <3>2 DEF Dev!WiimotesToAdd, Dev!TirsToAdd, Dev!FacesToAdd, Dev!WebcamsToAdd,
                        Dev!Devices, Dev!Webcams
    <3> QED
      BY <3>1, <3>3 DEF Dev!Preferred
  <2>5. CASE Dev!PickDevice
    <3>1. PICK d \in combo : Dev!Open(prefs, d)
      BY <2>5 DEF Dev!PickDevice
    <3> QED
      BY <2>1, <2>3, <2>5, <3>1 DEF Dev!PickDevice, DevTypes, InputHas
  <2>6. CASE Dev!Refresh
    <3>1. PICK d \in Dev!Devices : d \in combo' /\ Dev!Open(prefs, d)
      BY <2>4, <2>6 DEF Dev!Refresh
    <3> QED
      BY <2>1, <2>3, <2>6, <3>1 DEF Dev!Refresh, DevTypes, InputHas
  <2>7. CASE Dev!Defaults
    <3>1. PICK d \in Dev!Devices : d \in combo' /\ Dev!Open(Dev!Default, d)
      BY <2>4, <2>7 DEF Dev!Defaults
    <3> QED
      BY <1>1, <2>3, <2>7, <3>1, DefaultIs DEF Dev!Defaults, InputHas
  <2>8. CASE Dev!SelectFormat \/ Dev!SelectResolution
    <3>1. /\ UNCHANGED <<file, combo, dialog, info, behind>>
          /\ \/ UNCHANGED <<prefs, loaded, strayed>> /\ crashed' = TRUE
             \/ \E v : Dev!Store(v) /\ v \in Dev!WebcamSettings
          /\ shown'.res \in 1 .. Dev!Listed(info, shown'.fmt)
      <4>1. CASE Dev!SelectFormat
        <5>1. PICK f \in DOMAIN Dev!Offer(info) :
                /\ shown' = [fmt |-> f, res |-> Dev!ResFor(info, f, loaded)]
                /\ Dev!Store(Dev!Spec(info, f, Dev!ResFor(info, f, loaded)))
          BY <4>1 DEF Dev!SelectFormat
        <5>2. /\ Dev!ResFor(info, f, loaded) \in DOMAIN Dev!Offer(info)[f].res
              /\ Dev!Spec(info, f, Dev!ResFor(info, f, loaded)) \in Dev!WebcamSettings
          BY <2>1, FoundInList DEF DevTypes
        <5>3. Dev!ResFor(info, f, loaded) \in 1 .. Dev!Listed(info, f)
          BY <2>1, <5>2, ListedHas DEF DevTypes
        <5> QED
          BY <4>1, <5>1, <5>2, <5>3 DEF Dev!SelectFormat
      <4>2. CASE Dev!SelectResolution
        <5>1. PICK r \in 1 .. Dev!Listed(info, shown.fmt) :
                /\ shown' = [shown EXCEPT !.res = r]
                /\ IF r \in DOMAIN Dev!Offer(info)[shown.fmt].res
                   THEN Dev!Store(Dev!Spec(info, shown.fmt, r))
                   ELSE crashed' = TRUE /\ UNCHANGED <<prefs, loaded, strayed>>
          BY <4>2 DEF Dev!SelectResolution
        <5>2. r \in DOMAIN Dev!Offer(info)[shown.fmt].res =>
                Dev!Spec(info, shown.fmt, r) \in Dev!WebcamSettings
          BY <2>1, FoundInList DEF DevTypes
        <5>3. shown'.res = r /\ shown'.fmt = shown.fmt
          BY <2>1, <5>1 DEF DevTypes
        <5> QED
          BY <4>2, <5>1, <5>2, <5>3 DEF Dev!SelectResolution
      <4> QED
        BY <2>8, <4>1, <4>2
    <3>2. ASSUME NEW v \in Dev!WebcamSettings, Dev!Store(v)
          PROVE  /\ InputHas(prefs') /\ strayed' \in BOOLEAN /\ crashed' \in BOOLEAN
                 /\ loaded' \in Dev!WebcamSettings
      <4>1. prefs' = prefs \/ prefs' = [prefs EXCEPT !.sections[prefs.input] = v]
        BY <3>2 DEF Dev!Store
      <4>2. InputHas(prefs')
        BY <2>1, <4>1, StoredHas DEF InputHas, DevTypes
      <4> QED
        BY <3>2, <4>2 DEF Dev!Store, DevRest
    <3> QED
      BY <2>2, <3>1, <3>2 DEF DevRest, InputHas
  <2>9. CASE Dev!DriverReads
    <3>1. prefs.sections[prefs.input] \in Dev!WebcamSettings
      BY <2>1, <2>9, WebcamHas DEF Dev!DriverReads, DevTypes, Dev!PrefsOK, InputHas
    <3>2. loaded' \in Dev!WebcamSettings /\ crashed' \in BOOLEAN
      BY <2>9, <3>1, LoadedAre DEF Dev!DriverReads, DevRest
    <3> QED
      BY <2>2, <2>9, <3>2 DEF Dev!DriverReads, DevRest, InputHas
  <2>10. CASE UNCHANGED Dev!deviceVars \/ Dev!Save \/ Dev!Discard \/ Dev!Plug
    BY <2>2, <2>10 DEF Dev!deviceVars, Dev!Save, Dev!Discard, Dev!Plug, DevRest, InputHas
  <2>11. CASE Dev!TuneWebcam \/ Dev!TuneFace \/ Dev!TuneTir \/ Dev!TuneWiimote
    <3>1. Dev!Tune
      BY <2>11 DEF Dev!TuneWebcam, Dev!TuneFace, Dev!TuneTir, Dev!TuneWiimote
    <3> QED
      BY <2>2, <3>1 DEF Dev!Tune, DevRest, InputHas
  <2> QED
    BY <2>5, <2>6, <2>7, <2>8, <2>9, <2>10, <2>11 DEF Dev!DeviceNext
<1>4. DevInv /\ Inv => Dev!TypeOK
  <2> SUFFICES ASSUME DevInv, Inv
               PROVE  Dev!TypeOK
    OBVIOUS
  <2>1. DevTypes
    BY DEF DevInv
  <2>2. shown.fmt \in 1 .. Len(Dev!Offer(info))
    BY <2>1, OffersOf DEF DevTypes
  <2> QED
    BY <2>1, <2>2 DEF Dev!TypeOK, DevTypes, DevRest
<1> HIDE DEF Inv
<1> QED
  BY <1>2, <1>3, <1>4, DevInvariance, PTL DEF Dev!DeviceSpec

\* The variables of TirLights have their types: what the camera is told is what its items are.
THEOREM LitTypesHold == ASSUME Lit!LightsAssumption PROVE Lit!LightsSpec => []Lit!TypeOK
<1> DEFINE Counts == ops \in 0 .. MaxOps /\ events \in 0 .. MaxEvents
           Rest == family \in Families /\ Counts
<1>1. Lit!Init => Rest
  <2>1. 0 \in 0 .. MaxOps /\ 0 \in 0 .. MaxEvents
    BY DEF Lit!LightsAssumption
  <2> QED
    BY <2>1, Zenon DEF Lit!Init
<1>2. Rest /\ [Lit!LightsNext]_(Lit!lightVars) => Rest'
  <2> SUFFICES ASSUME Rest, [Lit!LightsNext]_(Lit!lightVars)
               PROVE  Rest'
    OBVIOUS
  <2>1. /\ family' = family
        /\ ops' = ops \/ (ops < MaxOps /\ ops' = ops + 1)
    BY Zenon
       DEF Lit!LightsNext, Lit!lightVars, Lit!NextPacket, Lit!Open, Lit!Pause, Lit!Resume, Lit!GetFrame,
           Lit!Close, Lit!SetPref, Lit!Begin
  <2>2. CASE Lit!NextPacket
    <3>1. events' = events \/ \E what, v : Lit!Send(what, v)
      BY <2>2 DEF Lit!NextPacket
    <3>2. events' = events \/ (events < MaxEvents /\ events' = events + 1)
      BY <3>1 DEF Lit!Send
    <3> QED
      BY <2>1, <3>2 DEF Lit!LightsAssumption
  <2>3. CASE ~Lit!NextPacket
    <3>1. events' = events \/ (events < MaxEvents /\ events' = events + 1)
      BY <2>3, Zenon
         DEF Lit!LightsNext, Lit!lightVars, Lit!Open, Lit!Pause, Lit!Resume, Lit!GetFrame, Lit!Close,
             Lit!SetPref, Lit!Begin
    <3> QED
      BY <2>1, <3>1 DEF Lit!LightsAssumption
  <2> QED
    BY <2>2, <2>3
<1>3. LitInv /\ Rest => Lit!TypeOK
  BY Zenon DEF LitInv, LitTypes, CamTypes, Lit!TypeOK
<1> QED
  <2> HIDE DEF Rest
  <2> QED
    BY <1>1, <1>2, <1>3, LitInvariance, PTL DEF Lit!LightsSpec
==============================================================================
