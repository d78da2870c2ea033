--------------------------------- MODULE QtCam ---------------------------------
(***************************************************************************)
(* The webcam driver of macOS (macwebcam_driver.c) and the program qt_cam  *)
(* it runs: the process is started with the tracking and told by a command *)
(* in the shared memory (com_proc.c) to sleep, to wake up and to stop.     *)
(*                                                                         *)
(* In qt_cam the thread of the capture loop (mac/qt_camera.m) hands the    *)
(* images to a processing thread (mac/processing.c) in a ring of buffers   *)
(* without a lock (mac/buffer.c); a flag under a mutex wakes that thread.  *)
(* A driver that does not wait long enough for its process starts another  *)
(* beside it.                                                              *)
(***************************************************************************)
EXTENDS Naturals

CONSTANTS
  Children,   \* bound: processes that can be started, 1 .. n
  RingSize,   \* the buffers of a process
  MaxGrabs,   \* bound: images that two processes capture together
  MaxTells    \* bound: pauses and wakeups of the driver

RingAssumption ==
  RingSize \in Nat \ {0} /\ Children \in Nat /\ MaxGrabs \in Nat /\ MaxTells \in Nat

Ring == 0 .. RingSize - 1
Torn == 0

VARIABLES
  order,     \* cs->command
  host,      \* what the device thread does
  tells,     \* pauses and wakeups
  forked,    \* processes started; the last one is the child
  camAt,     \* where the capture thread of each process is
  oldCmd,    \* old_cmd
  capturing, \* capturing
  ring,      \* the image of each buffer, and whether it is filled
  writer,    \* the buffer to write
  reader,    \* the buffer to read
  newFlag,   \* new_frame_flag
  endFlag,   \* end_flag
  proc,      \* where the processing thread of each process is
  grabs,     \* images captured
  done       \* history: the image processed last

loop    == <<camAt, oldCmd, capturing>>
passing == <<ring, writer, reader, newFlag, endFlag>>
camVars == <<order, host, tells, forked, loop, passing, proc, grabs, done>>

Commands == {"STOP", "SLEEP", "WAKEUP"}

TypeOK ==
  /\ order \in Commands
  /\ host \in {"closed", "run", "paused", "closing"}
  /\ tells \in 0 .. MaxTells /\ forked \in 0 .. Children
  /\ camAt \in [1 .. Children -> {"none", "open", "loop", "write", "join", "gone"}]
  /\ oldCmd \in [1 .. Children -> Commands]
  /\ capturing \in [1 .. Children -> BOOLEAN]
  /\ ring \in [1 .. Children -> [Ring -> [shot : 0 .. MaxGrabs, filled : BOOLEAN]]]
  /\ writer \in [1 .. Children -> Ring] /\ reader \in [1 .. Children -> Ring]
  /\ newFlag \in [1 .. Children -> BOOLEAN] /\ endFlag \in [1 .. Children -> BOOLEAN]
  /\ proc \in [1 .. Children -> {"none", "top", "wait", "look", "work", "ended"}]
  /\ grabs \in [1 .. Children -> 0 .. MaxGrabs]
  /\ done \in [1 .. Children -> 0 .. MaxGrabs]

Each(v) == [c \in 1 .. Children |-> v]

Init ==
  /\ order = "STOP" /\ host = "closed" /\ tells = 0 /\ forked = 0
  /\ camAt = Each("none") /\ oldCmd = Each("WAKEUP") /\ capturing = Each(FALSE)
  /\ ring = Each([b \in Ring |-> [shot |-> Torn, filled |-> FALSE]])
  /\ writer = Each(0) /\ reader = Each(0)
  /\ newFlag = Each(FALSE) /\ endFlag = Each(FALSE)
  /\ proc = Each("none") /\ grabs = Each(0) /\ done = Each(0)

------------------------------------------------------------------------------
(* The driver.                                                             *)

\* init_capture: the command is set before the process is started.
TrackerInit ==
  /\ host = "closed" /\ forked < Children
  /\ host' = "run" /\ order' = "WAKEUP"
  /\ forked' = forked + 1
  /\ camAt' = [camAt EXCEPT ![forked + 1] = "open"]
  /\ UNCHANGED <<tells, oldCmd, capturing, passing, proc, grabs, done>>

TrackerPause ==
  /\ host = "run" /\ tells < MaxTells
  /\ host' = "paused" /\ order' = "SLEEP" /\ tells' = tells + 1
  /\ UNCHANGED <<forked, loop, passing, proc, grabs, done>>

TrackerResume ==
  /\ host = "paused" /\ tells < MaxTells
  /\ host' = "run" /\ order' = "WAKEUP" /\ tells' = tells + 1
  /\ UNCHANGED <<forked, loop, passing, proc, grabs, done>>

\* ltr_int_tracker_close, for a shutdown, and after a get_frame that found no
\* new blobs and the child gone
TrackerClose ==
  /\ host \in {"run", "paused"}
  /\ host' = "closing" /\ order' = "STOP"
  /\ UNCHANGED <<tells, forked, loop, passing, proc, grabs, done>>

\* ltr_int_wait_child_exit ends with the child, or after ten looks.
WaitChildExit ==
  /\ host = "closing"
  /\ host' = "closed"
  /\ UNCHANGED <<order, tells, forked, loop, passing, proc, grabs, done>>

------------------------------------------------------------------------------
(* The capture thread of process c.                                        *)

\* capture: the webcam is opened, the processing thread started.
Open(c) ==
  /\ camAt[c] = "open"
  /\ \/ /\ camAt' = [camAt EXCEPT ![c] = "loop"]
        /\ capturing' = [capturing EXCEPT ![c] = TRUE]
        /\ proc' = [proc EXCEPT ![c] = "top"]
     \/ /\ camAt' = [camAt EXCEPT ![c] = "gone"]
        /\ UNCHANGED <<capturing, proc>>
  /\ UNCHANGED <<order, host, tells, forked, oldCmd, passing, grabs, done>>

\* A turn of the loop: the command seen last tells whether the webcam runs.
Poll(c) ==
  /\ camAt[c] = "loop" /\ order \notin {"STOP", oldCmd[c]}
  /\ oldCmd' = [oldCmd EXCEPT ![c] = order]
  /\ capturing' = [capturing EXCEPT ![c] = (order = "WAKEUP")]
  /\ UNCHANGED <<order, host, tells, forked, camAt, passing, proc, grabs, done>>

\* The loop ends; endProcessing.
PollStop(c) ==
  /\ camAt[c] = "loop" /\ order = "STOP"
  /\ camAt' = [camAt EXCEPT ![c] = "join"]
  /\ capturing' = [capturing EXCEPT ![c] = FALSE]
  /\ endFlag' = [endFlag EXCEPT ![c] = TRUE]
  /\ UNCHANGED <<order, host, tells, forked, oldCmd, ring, writer, reader, newFlag, proc,
                 grabs, done>>

\* Seeded fault: the buffer is not looked at.
HasRoom(c) == TRUE

\* isEmpty(writer)
IsEmpty(c) == ~ring[c][writer[c]].filled

\* newFrame: an image that finds no empty buffer is dropped.
NewFrame(c) ==
  /\ camAt[c] = "loop" /\ capturing[c]
  /\ grabs[c] < MaxGrabs /\ \A d \in 1 .. Children \ {c} : grabs[c] + grabs[d] < MaxGrabs
  /\ grabs' = [grabs EXCEPT ![c] = @ + 1]
  /\ IF IsEmpty(c)
       THEN /\ ring' = [ring EXCEPT ![c][writer[c]].shot = Torn]
            /\ camAt' = [camAt EXCEPT ![c] = "write"]
       ELSE UNCHANGED <<ring, camAt>>
  /\ UNCHANGED <<order, host, tells, forked, oldCmd, capturing, writer, reader, newFlag,
                 endFlag, proc, done>>

\* bufferWritten, and the flag that wakes the processing thread
BufferWritten(c) ==
  /\ camAt[c] = "write"
  /\ camAt' = [camAt EXCEPT ![c] = "loop"]
  /\ ring' = [ring EXCEPT ![c][writer[c]] = [shot |-> grabs[c], filled |-> TRUE]]
  /\ writer' = [writer EXCEPT ![c] = (@ + 1) % RingSize]
  /\ newFlag' = [newFlag EXCEPT ![c] = TRUE]
  /\ UNCHANGED <<order, host, tells, forked, oldCmd, capturing, reader, endFlag, proc,
                 grabs, done>>

\* endProcessing has joined the processing thread; the process ends.
Joined(c) ==
  /\ camAt[c] = "join" /\ proc[c] = "ended"
  /\ camAt' = [camAt EXCEPT ![c] = "gone"]
  /\ UNCHANGED <<order, host, tells, forked, oldCmd, capturing, passing, proc, grabs, done>>

\* The process dies.
Crash(c) ==
  /\ camAt[c] \in {"loop", "write"}
  /\ camAt' = [camAt EXCEPT ![c] = "gone"] /\ proc' = [proc EXCEPT ![c] = "ended"]
  /\ capturing' = [capturing EXCEPT ![c] = FALSE]
  /\ UNCHANGED <<order, host, tells, forked, oldCmd, passing, grabs, done>>

------------------------------------------------------------------------------
(* processingThreadFun of process c.                                       *)

Top(c) ==
  /\ proc[c] = "top"
  /\ proc' = [proc EXCEPT ![c] = IF endFlag[c] THEN "ended" ELSE "wait"]
  /\ UNCHANGED <<order, host, tells, forked, loop, passing, grabs, done>>

\* Seeded fault: only a new image ends the wait.
WaitForFrame(c) ==
  /\ proc[c] = "wait" /\ newFlag[c]
  /\ newFlag' = [newFlag EXCEPT ![c] = FALSE]
  /\ proc' = [proc EXCEPT ![c] = "look"]
  /\ UNCHANGED <<order, host, tells, forked, loop, ring, writer, reader, endFlag, grabs, done>>

\* The wait ends with a new image, or, at the end of a time, with end_flag.
Wait(c) ==
  /\ proc[c] = "wait" /\ (newFlag[c] \/ endFlag[c])
  /\ newFlag' = [newFlag EXCEPT ![c] = FALSE]
  /\ proc' = [proc EXCEPT ![c] = "look"]
  /\ UNCHANGED <<order, host, tells, forked, loop, ring, writer, reader, endFlag, grabs, done>>

\* isEmpty(reader); one image is processed, if there is one.
Look(c) ==
  /\ proc[c] = "look"
  /\ proc' = [proc EXCEPT ![c] = IF ring[c][reader[c]].filled THEN "work" ELSE "top"]
  /\ UNCHANGED <<order, host, tells, forked, loop, passing, grabs, done>>

\* The blobs are published, bufferRead.
Processed(c) ==
  /\ proc[c] = "work"
  /\ done' = [done EXCEPT ![c] = ring[c][reader[c]].shot]
  /\ ring' = [ring EXCEPT ![c][reader[c]].filled = FALSE]
  /\ reader' = [reader EXCEPT ![c] = (@ + 1) % RingSize]
  /\ proc' = [proc EXCEPT ![c] = "top"]
  /\ UNCHANGED <<order, host, tells, forked, loop, writer, newFlag, endFlag, grabs>>

------------------------------------------------------------------------------
\* The threads of a process go on.
CaptureGoes(c) == Open(c) \/ Poll(c) \/ PollStop(c) \/ BufferWritten(c) \/ Joined(c)
ProcessGoes(c) == Top(c) \/ Wait(c) \/ Look(c) \/ Processed(c)

CamNext ==
  \/ TrackerInit \/ TrackerPause \/ TrackerResume \/ TrackerClose \/ WaitChildExit
  \/ \E c \in 1 .. Children :
       CaptureGoes(c) \/ ProcessGoes(c) \/ NewFrame(c) \/ Crash(c)

CamFairness ==
  \A c \in 1 .. Children : WF_camVars(CaptureGoes(c)) /\ WF_camVars(ProcessGoes(c))

Spec == Init /\ [][CamNext]_camVars /\ CamFairness

------------------------------------------------------------------------------
(* Properties.                                                             *)

LaterImage == \A c \in 1 .. Children : done'[c] # done[c] => done'[c] > done[c]

\* The blobs of a process are of whole images in the order in which these were
\* captured, although the ring of buffers has no lock and images are dropped.
ImagesInOrder == [][LaterImage]_camVars

Closed     == host = "closed"
NoChildren == \A c \in 1 .. Children : camAt[c] \in {"none", "gone"}

\* A driver that stays closed leaves no process behind, whatever it was told
\* before, one it did not wait for included.
ChildrenEnd == <>[]Closed => <>[]NoChildren
==============================================================================
