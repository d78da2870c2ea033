--------------------------- MODULE DeviceLifecycle ---------------------------
(***************************************************************************)
(* What the camera abstraction layer promises to whoever watches it, the   *)
(* master that polls ltr_int_get_tracking_state and the slaves it forwards *)
(* the status to: the published status and the camera move in step, and    *)
(* the camera is never told to do something it cannot do in its state.     *)
(* Threads, the request word, the condition variable and the loading of    *)
(* the driver library are hidden; DeviceControl is shown to implement it.  *)
(***************************************************************************)

VARIABLES
  status,   \* the published status, ltr_int_cal_device_state
  camera    \* "closed", "streaming" or "paused"

vars == <<status, camera>>

Errors   == {"err_NOT_INITIALIZED", "err_PROCESSING_FRAME"}
Statuses == {"INITIALIZING", "RUNNING", "PAUSED", "STOPPED"} \cup Errors
Cameras  == {"closed", "streaming", "paused"}

Init == status = "STOPPED" /\ camera = "closed"

\* A run begins whatever the previous one ended with, but with a closed camera.
Begin == /\ camera = "closed"
         /\ status' = "INITIALIZING"
         /\ UNCHANGED camera

Open == /\ status = "INITIALIZING" /\ camera = "closed"
        /\ camera' = "streaming"
        /\ UNCHANGED status

OpenFails == /\ status = "INITIALIZING" /\ camera = "closed"
             /\ status' = "err_NOT_INITIALIZED"
             /\ UNCHANGED camera

\* The end of initialization, and the end of a resume.
Run == /\ status \in {"INITIALIZING", "PAUSED"} /\ camera = "streaming"
       /\ status' = "RUNNING"
       /\ UNCHANGED camera

\* The status is published first, the camera follows.
AnnouncePause == /\ status = "RUNNING" /\ camera = "streaming"
                 /\ status' = "PAUSED"
                 /\ UNCHANGED camera

Pause == /\ status = "PAUSED" /\ camera = "streaming"
         /\ camera' = "paused"
         /\ UNCHANGED status

\* The camera is resumed first; the status follows, or the camera is closed.
Resume == /\ status = "PAUSED" /\ camera = "paused"
          /\ camera' = "streaming"
          /\ UNCHANGED status

Fail == /\ status = "RUNNING" /\ camera = "streaming"
        /\ status' = "err_PROCESSING_FRAME"
        /\ UNCHANGED camera

\* A paused camera is never closed before it is resumed.
Close == /\ status \in {"RUNNING", "PAUSED", "err_PROCESSING_FRAME"}
         /\ camera = "streaming"
         /\ camera' = "closed"
         /\ UNCHANGED status

Stop == /\ status \in {"RUNNING", "PAUSED", "err_PROCESSING_FRAME"}
        /\ camera = "closed"
        /\ status' = "STOPPED"
        /\ UNCHANGED camera

Next == \/ Begin \/ Open \/ OpenFails \/ Run \/ AnnouncePause \/ Pause
        \/ Resume \/ Fail \/ Close \/ Stop

Spec == Init /\ [][Next]_vars

==============================================================================
