------------------------------ MODULE Recentering ------------------------------
(***************************************************************************)
(* Poses on their way from the frames to a client (tracking.c,             *)
(* ltlib_int.c, ltr_srv_master.cpp, ltr_srv_slave.c, ltlib.c), and the     *)
(* flags on which the device thread takes a new centre: recenter, which    *)
(* the main thread of the master sets at any time, init_recenter, which a  *)
(* start sets, and model_changed, which the GUI sets.                      *)
(*                                                                         *)
(* A pose is the frame it was computed from and the frame its centre was   *)
(* taken from; frames are numbered as the centre is considered for them.   *)
(* "needed" and "base" of a pose are history: the frame after which its    *)
(* centre had to be taken, and the counter at the start of the run.        *)
(***************************************************************************)
EXTENDS Integers, Sequences

CONSTANTS
  MaxFrames,   \* bound: frames with blobs enough
  MaxRequests, \* bound: requests to recenter, and changes of the model
  MaxInits,    \* bound: starts of the master
  LinkSize     \* poses a downlink takes before it is full

FramesAssumption ==
  MaxFrames \in Nat /\ MaxRequests \in Nat /\ MaxInits \in Nat /\ LinkSize \in Nat

VARIABLES
  recenter, initRecenter, modelChanged, \* the flags
  single,    \* the type of the model: a single point, or three
  device,    \* where the device thread is, and the frame it is at
  centre,    \* the frame the centre was taken from
  pose,      \* current_pose of tracking.c
  poseCount, \* counter_d
  last,      \* current_pose of the master
  link,      \* the downlink of a slave
  comm,      \* ltr_comm of its client
  client,    \* counter of the client, and what ltr_get_pose returned
  due,       \* history: centres have to be newer than this frame
  requests, inits

recVars == <<recenter, initRecenter, modelChanged, single, device, centre, pose,
             poseCount, last, link, comm, client, due, requests, inits>>

Frames == 0 .. MaxFrames
Statuses == {"INITIALIZING", "RUNNING", "PAUSED", "STOPPED"}
Poses == [frame : Frames, centre : Frames, needed : Frames,
          counter : Frames, base : Frames, status : Statuses]
Zero == [frame |-> 0, centre |-> 0, needed |-> 0, counter |-> 0, base |-> 0,
         status |-> "INITIALIZING"]

TypeOK ==
  /\ recenter \in BOOLEAN /\ initRecenter \in BOOLEAN /\ modelChanged \in BOOLEAN
  /\ single \in BOOLEAN
  /\ device \in [at : {"down", "paused", "wait", "pose", "clear", "clear3",
                        "write", "callback"},
                 frame : Frames, base : Frames, needed : Frames]
  /\ centre \in Frames /\ poseCount \in Frames
  /\ pose \in Poses /\ last \in Poses
  /\ link \in Seq(Poses) /\ Len(link) <= LinkSize
  /\ comm \in [pose : Poses, state : Statuses, preparing : BOOLEAN]
  /\ client \in [counter : Frames, got : Poses, new : BOOLEAN]
  /\ due \in Frames
  /\ requests \in 0 .. MaxRequests /\ inits \in 0 .. MaxInits

Init ==
  /\ recenter = FALSE /\ initRecenter = FALSE /\ modelChanged = TRUE
  /\ single = TRUE
  /\ device = [at |-> "down", frame |-> 0, base |-> 0, needed |-> 0]
  /\ centre = 0 /\ pose = Zero /\ poseCount = 0 /\ last = Zero /\ link = <<>>
  /\ comm = [pose |-> Zero, state |-> "INITIALIZING", preparing |-> TRUE]
  /\ client = [counter |-> 0, got |-> Zero, new |-> FALSE]
  /\ due = 0 /\ requests = 0 /\ inits = 0

------------------------------------------------------------------------------
(* The master's main thread and the GUI.                                   *)

\* ltr_int_broadcast_pose: a downlink that is full drops the pose.
Broadcast(p) ==
  /\ last' = p
  /\ link' = IF Len(link) < LinkSize THEN Append(link, p) ELSE link

\* ltr_int_state_changed: the new status goes out with the last pose.
Announce(status) == Broadcast([last EXCEPT !.status = status])

\* ltr_int_init and ltr_int_init_tracking; then the loop says RUNNING
Start ==
  /\ device.at = "down" /\ inits < MaxInits
  /\ inits' = inits + 1
  /\ modelChanged' = FALSE
  /\ initRecenter' = TRUE /\ recenter' = FALSE
  /\ device' = [device EXCEPT !.at = "wait", !.base = poseCount]
  /\ due' = device.frame
  /\ Announce("RUNNING")
  /\ UNCHANGED <<single, centre, pose, poseCount, comm, client, requests>>

\* ltr_int_recenter_tracking. Between the test and the reset of the flag by
\* the device thread the request has no effect, and nothing is due.
Recenter ==
  /\ requests < MaxRequests /\ requests' = requests + 1
  /\ recenter' = TRUE
  /\ due' = IF device.at \in {"clear", "clear3"} THEN due ELSE device.frame
  /\ UNCHANGED <<initRecenter, modelChanged, single, device, centre, pose,
                 poseCount, last, link, comm, client, inits>>

\* ltr_int_announce_model_change, when the GUI has written another model
ChangeModel ==
  /\ requests < MaxRequests /\ requests' = requests + 1
  /\ modelChanged' = TRUE
  /\ UNCHANGED <<recenter, initRecenter, single, device, centre, pose, poseCount,
                 last, link, comm, client, due, inits>>

------------------------------------------------------------------------------
(* The device thread.                                                      *)

\* ltr_int_check_pose: another model may be of another type.
CheckPose ==
  /\ modelChanged' = FALSE
  /\ IF modelChanged THEN single' \in BOOLEAN ELSE UNCHANGED single

\* ltr_int_update_pose looks at the model; a change of it recenters.
FrameArrives ==
  /\ device.at = "wait"
  /\ device' = [device EXCEPT !.at = "pose"]
  /\ CheckPose
  /\ recenter' = (modelChanged \/ recenter)
  /\ due' = IF modelChanged THEN device.frame ELSE due
  /\ UNCHANGED <<initRecenter, centre, pose, poseCount, last, link, comm, client,
                 requests, inits>>

\* A frame without the blobs that are needed leaves pose and flags alone.
NoPose ==
  /\ device.at = "pose"
  /\ device' = [device EXCEPT !.at = "callback"]
  /\ IF single THEN CheckPose ELSE UNCHANGED <<modelChanged, single>>
  /\ UNCHANGED <<recenter, initRecenter, centre, pose, poseCount, last, link, comm,
                 client, due, requests, inits>>

\* update_pose_1pt, update_pose_3pt up to the use of recenter: the first
\* resets the flag only when it was set, the second in any case.
TakeCentre ==
  /\ device.at = "pose" /\ device.frame < MaxFrames
  /\ LET f == device.frame + 1
     IN  /\ centre' = IF recenter THEN f ELSE centre
         /\ device' = [device EXCEPT !.frame = f, !.needed = due,
                         !.at = CASE ~single -> "clear3"
                                  [] single /\ recenter -> "clear"
                                  [] OTHER -> "write"]
  /\ IF single THEN CheckPose ELSE UNCHANGED <<modelChanged, single>>
  /\ UNCHANGED <<recenter, initRecenter, pose, poseCount, last, link, comm, client,
                 due, requests, inits>>

\* The pose of three points can still turn out not to be finite, before the
\* flag is reset and after it.
ResetRecenter ==
  /\ \/ /\ device.at = "clear" /\ recenter' = FALSE
        /\ device' = [device EXCEPT !.at = "write"]
     \/ /\ device.at = "clear3" /\ recenter' = FALSE
        /\ device' \in {[device EXCEPT !.at = a] : a \in {"write", "callback"}}
     \/ /\ device.at = "clear3" /\ UNCHANGED recenter
        /\ device' = [device EXCEPT !.at = "callback"]
  /\ UNCHANGED <<initRecenter, modelChanged, single, centre, pose, poseCount, last,
                 link, comm, client, due, requests, inits>>

\* Seeded fault: the first pose of a run counts.
WritePoseCountsFirst ==
  /\ device.at = "write"
  /\ device' = [device EXCEPT !.at = "callback"]
  /\ pose' = [pose EXCEPT !.frame = device.frame, !.centre = centre,
                          !.needed = device.needed, !.base = device.base]
  /\ initRecenter' = FALSE
  /\ recenter' = (initRecenter \/ recenter)
  /\ poseCount' = poseCount + 1
  /\ UNCHANGED <<modelChanged, single, centre, last, link, comm, client, due,
                 requests, inits>>

\* The pose is written under pose_mutex; the first one of a run is not counted
\* and asks for a new centre.
WritePose ==
  /\ device.at = "write"
  /\ device' = [device EXCEPT !.at = "callback"]
  /\ pose' = [pose EXCEPT !.frame = device.frame, !.centre = centre,
                          !.needed = device.needed, !.base = device.base]
  /\ initRecenter' = FALSE
  /\ recenter' = (initRecenter \/ recenter)
  /\ poseCount' = IF initRecenter THEN poseCount ELSE poseCount + 1
  /\ UNCHANGED <<modelChanged, single, centre, last, link, comm, client, due,
                 requests, inits>>

\* frame_callback calls ltr_int_new_frame whatever came of the frame:
\* ltr_int_tracking_get_pose, and the pose is broadcast.
NewFrame ==
  /\ device.at = "callback"
  /\ device' = [device EXCEPT !.at = "wait"]
  /\ Broadcast([pose EXCEPT !.counter = poseCount, !.status = last.status])
  /\ pose' = [pose EXCEPT !.status = last.status]
  /\ UNCHANGED <<recenter, initRecenter, modelChanged, single, centre, poseCount,
                 comm, client, due, requests, inits>>

\* The loop pauses, resumes or ends between frames.
ChangeState ==
  /\ \/ /\ device.at = "wait"
        /\ \/ device' = [device EXCEPT !.at = "paused"] /\ Announce("PAUSED")
           \/ device' = [device EXCEPT !.at = "down"] /\ Announce("STOPPED")
     \/ /\ device.at = "paused"
        /\ \/ device' = [device EXCEPT !.at = "wait"] /\ Announce("RUNNING")
           \/ device' = [device EXCEPT !.at = "down"] /\ Announce("STOPPED")
  /\ UNCHANGED <<recenter, initRecenter, modelChanged, single, centre, pose,
                 poseCount, comm, client, due, requests, inits>>

------------------------------------------------------------------------------
(* The slave and its client.                                               *)

\* ltr_int_process_message of the reader thread of the slave
ProcessMessage ==
  /\ link # <<>>
  /\ link' = Tail(link)
  /\ comm' = [pose |-> IF Head(link).status = "RUNNING" THEN Head(link) ELSE comm.pose,
              state |-> Head(link).status, preparing |-> FALSE]
  /\ UNCHANGED <<recenter, initRecenter, modelChanged, single, device, centre, pose,
                 poseCount, last, client, due, requests, inits>>

\* ltr_get_pose; no state of this master is an error.
GetPose ==
  /\ client' = [counter |-> comm.pose.counter, got |-> comm.pose,
                new |-> comm.pose.counter # client.counter]
  /\ UNCHANGED <<recenter, initRecenter, modelChanged, single, device, centre, pose,
                 poseCount, last, link, comm, due, requests, inits>>

RecNext ==
  \/ Start \/ Recenter \/ ChangeModel
  \/ FrameArrives \/ NoPose \/ TakeCentre \/ ResetRecenter \/ WritePose
  \/ NewFrame \/ ChangeState \/ ProcessMessage \/ GetPose

RecSpec == Init /\ [][RecNext]_recVars

------------------------------------------------------------------------------
Centred(p) == p.counter > p.base => p.centre > p.needed

\* A pose that counts, at the client or on its way there, is relative to a
\* centre taken after the start of its run, after the last recentering asked
\* for before its frame, and after the last change of the model that the frame
\* found: tracking.c:349, 378.
CountedPoseIsCentred ==
  /\ Centred(last) /\ Centred(comm.pose) /\ Centred(client.got)
  /\ \A i \in 1 .. Len(link) : Centred(link[i])

================================================================================
