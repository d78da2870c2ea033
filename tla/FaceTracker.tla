------------------------------ MODULE FaceTracker ------------------------------
(***************************************************************************)
(* The face tracker (facetrack.cpp): the thread that takes the images of a *)
(* webcam hands one at a time to a detector thread, which takes as long as *)
(* it takes, and reports the face found last.                              *)
(*                                                                         *)
(* frame_status tells whose turn it is.  The detector waits for READY on a *)
(* condition variable, under a mutex; the other side looks for DONE        *)
(* without it.  An image is the number of its frame, copied and looked at  *)
(* in parts.  What is done under the mutex is one step.  The face found,   *)
(* which the two threads share without any order, is left out.             *)
(***************************************************************************)
EXTENDS Naturals

CONSTANTS
  ImageParts,  \* the parts of an image
  MaxImages,   \* bound: images taken
  MaxStarts    \* bound: starts of the webcam

ImagesAssumption == MaxImages \in Nat /\ MaxStarts \in Nat

VARIABLES
  run,       \* run
  status,    \* frame_status
  detector,  \* where the detector thread is
  image,     \* frame and cvimage: the frame each part is of, or Freed
  untaken,   \* the parts the detector has not read
  seen,      \* history: the parts it has read
  grabber,   \* where the thread of the webcam is
  uncopied,  \* the parts its memcpy has not come to
  images,    \* images taken
  starts     \* starts

Freed == 0
grabs    == <<grabber, uncopied, images, starts>>
faceVars == <<run, status, detector, image, untaken, seen, grabs>>

TypeOK ==
  /\ run \in BOOLEAN
  /\ status \in {"READY", "PROCESSING", "DONE"}
  /\ detector \in {"none", "top", "lock", "wait", "woken", "detect", "delete", "ended"}
  /\ image \in [ImageParts -> 0 .. MaxImages] /\ seen \in [ImageParts -> 0 .. MaxImages]
  /\ untaken \subseteq ImageParts /\ uncopied \subseteq ImageParts
  /\ grabber \in {"closed", "idle", "copy", "ready", "stop", "join"}
  /\ images \in 0 .. MaxImages /\ starts \in 0 .. MaxStarts

Init ==
  /\ run = TRUE /\ status = "DONE" /\ detector = "none"
  /\ image = [p \in ImageParts |-> Freed] /\ seen = image
  /\ untaken = {} /\ uncopied = {}
  /\ grabber = "closed" /\ images = 0 /\ starts = 0

------------------------------------------------------------------------------
(* The thread of the webcam.                                               *)

\* ltr_int_init_face_detect
InitFaceDetect ==
  /\ grabber = "closed" /\ starts < MaxStarts
  /\ starts' = starts + 1
  /\ run' = TRUE /\ detector' = "top" /\ grabber' = "idle"
  /\ UNCHANGED <<status, image, untaken, seen, uncopied, images>>

\* Seeded fault: the image is handed over without a look at the status.
FaceDetectRegardless ==
  /\ grabber = "idle" /\ images < MaxImages
  /\ images' = images + 1
  /\ grabber' = "copy" /\ uncopied' = ImageParts
  /\ UNCHANGED <<run, status, detector, image, untaken, seen, starts>>

\* ltr_int_face_detect: the image is copied if the detector has done with
\* the one before.
FaceDetect ==
  /\ grabber = "idle" /\ images < MaxImages
  /\ images' = images + 1
  /\ IF status = "DONE" THEN grabber' = "copy" /\ uncopied' = ImageParts
                        ELSE UNCHANGED <<grabber, uncopied>>
  /\ UNCHANGED <<run, status, detector, image, untaken, seen, starts>>

\* its memcpy, a part at a time, into memory allocated after the first image
CopyImage(p) ==
  /\ grabber = "copy" /\ p \in uncopied
  /\ image' = [image EXCEPT ![p] = images]
  /\ uncopied' = uncopied \ {p}
  /\ grabber' = IF uncopied' = {} THEN "ready" ELSE "copy"
  /\ UNCHANGED <<run, status, detector, untaken, seen, images, starts>>

\* Under the mutex: the status is set and a waiting detector woken.
Ready     == status' = "READY"
Broadcast == detector' = IF detector = "wait" THEN "woken" ELSE detector

\* ... and handed over.
HandOver ==
  /\ grabber = "ready" /\ Ready /\ Broadcast
  /\ grabber' = "idle"
  /\ UNCHANGED <<run, image, untaken, seen, uncopied, images, starts>>

\* ltr_int_stop_face_detect
StopFaceDetect ==
  /\ grabber = "idle"
  /\ run' = FALSE /\ grabber' = "stop"
  /\ UNCHANGED <<status, detector, image, untaken, seen, uncopied, images, starts>>

\* Seeded fault: a detector that waits for an image is not woken to end.
StopSleeps ==
  /\ grabber = "stop" /\ Ready
  /\ grabber' = "join"
  /\ UNCHANGED <<run, detector, image, untaken, seen, uncopied, images, starts>>

\* The detector is woken as if an image came.
StopWakes ==
  /\ grabber = "stop" /\ Ready /\ Broadcast
  /\ grabber' = "join"
  /\ UNCHANGED <<run, image, untaken, seen, uncopied, images, starts>>

StopJoins ==
  /\ grabber = "join" /\ detector = "ended"
  /\ status' = "DONE" /\ detector' = "none" /\ grabber' = "closed"
  /\ UNCHANGED <<run, image, untaken, seen, uncopied, images, starts>>

------------------------------------------------------------------------------
(* ltr_int_detector_thread.                                                *)

\* while(run)
Top ==
  /\ detector = "top"
  /\ detector' = IF run THEN "lock" ELSE "delete"
  /\ UNCHANGED <<run, status, image, untaken, seen, grabs>>

\* Under the mutex, again after each waking: an image is taken or waited for.
TakeImage ==
  /\ detector \in {"lock", "woken"}
  /\ IF status = "READY"
       THEN /\ status' = "PROCESSING"
            /\ detector' = IF run THEN "detect" ELSE "delete"
            /\ untaken' = IF run THEN ImageParts ELSE untaken
       ELSE detector' = "wait" /\ UNCHANGED <<status, untaken>>
  /\ UNCHANGED <<run, image, seen, grabs>>

\* ltr_int_detect reads the image.
ReadImage(p) ==
  /\ detector = "detect" /\ p \in untaken
  /\ seen' = [seen EXCEPT ![p] = image[p]]
  /\ untaken' = untaken \ {p}
  /\ UNCHANGED <<run, status, detector, image, grabs>>

DetectDone ==
  /\ detector = "detect" /\ untaken = {}
  /\ status' = "DONE" /\ detector' = "top"
  /\ UNCHANGED <<run, image, untaken, seen, grabs>>

\* The detector ends: the image is freed.
DeleteImage ==
  /\ detector = "delete"
  /\ image' = [p \in ImageParts |-> Freed]
  /\ detector' = "ended"
  /\ UNCHANGED <<run, status, untaken, seen, grabs>>

Detector == Top \/ TakeImage \/ (\E p \in ImageParts : ReadImage(p)) \/ DetectDone
            \/ DeleteImage
Grabber == InitFaceDetect \/ FaceDetect \/ (\E p \in ImageParts : CopyImage(p))
           \/ HandOver \/ StopFaceDetect \/ StopWakes \/ StopJoins

FaceNext == Grabber \/ Detector

Spec == Init /\ [][FaceNext]_faceVars
             /\ WF_faceVars(Detector) /\ WF_faceVars(StopWakes \/ StopJoins)

------------------------------------------------------------------------------
(* Properties.                                                             *)

\* What the detector reads is one image: not one that is being copied, nor
\* one that is freed, although the copy is made without the mutex.
DetectorSeesOneImage ==
  detector = "detect" /\ untaken = {} =>
    \E n \in 1 .. MaxImages : seen = [p \in ImageParts |-> n]

Stopping == grabber = "stop"
Stopped  == grabber = "closed"

\* The stop of the webcam ends the detector, waiting or at work, and returns.
FaceStopReturns == Stopping ~> Stopped
==============================================================================
