------------------------------- MODULE Requests -------------------------------
(***************************************************************************)
(* The way of a client's requests to the master: the calls of ltlib.c put  *)
(* them into the shared ltr_comm, where there is room for one command and  *)
(* a flag each for a recentering and for notifications; the main thread of *)
(* the slave (ltr_int_slave_main_loop) takes them out and writes them to   *)
(* the uplink that the other thread of the slave opens and closes          *)
(* (ltr_int_slave_reader_thread); the master takes them from there.        *)
(*                                                                         *)
(* Every access to ltr_comm that is not a look is under its semaphore, so  *)
(* a call is one step.  The semaphore is a lock of a file (lockf) and it   *)
(* is the process that holds it: when the reader thread has stored a pose  *)
(* in ltr_comm and unlocks, the main thread, which may be in the midst of  *)
(* taking the requests, no longer has it either, and the client can write  *)
(* there.  Hence the main thread takes them in several steps.              *)
(*                                                                         *)
(* Session has the master that is here only there or not, and the          *)
(* registration of the downlink, which is taken here to be immediate.      *)
(***************************************************************************)
EXTENDS Naturals, Sequences

CONSTANTS
  MaxRequests, \* bound: commands that are sent on
  UplinkSize   \* messages a fifo has room for

ASSUME RequestsAssumption ==
  MaxRequests \in Nat \ {0} /\ UplinkSize \in Nat \ {0}

VARIABLES
  client,   \* the client: it uses the library, has shut it down, or is gone
  comCmd, comRecenter, comNotify, \* ltr_comm: cmd, recenter, notify
  given,    \* history: how many commands were given
  locked,   \* the slave holds the semaphore, and its main thread counts on it
  main,     \* where the main thread of the slave is
  cmd,      \* its cmd
  recenter, \* its recenter
  notify,   \* notify: the reader thread writes to the pipe of the client
  quit,     \* quit_flag
  reader,   \* where the reader thread is
  linked,   \* the master whose end of the downlink it reads is there
  server,   \* who has the locks: nobody, ltr_gui without tracking, a master
  uplink,   \* the messages in the uplink
  done,     \* history: the number of the last command carried out
  due,      \* history: the last command given to the master of this time
  erased,   \* history: the last command that was cleared and not taken
  awaited   \* history: a recentering was asked for and can still come

com        == <<comCmd, comRecenter, comNotify>>
clientVars == <<client, com, given>>
mainVars   == <<main, cmd, recenter, notify, quit, locked, erased>>
masterVars == <<server, done, awaited>>
vars == <<clientVars, mainVars, reader, linked, uplink, due, masterVars>>

\* RUN_CMD, PAUSE_CMD and FRAMES_CMD go the same way and are told apart by
\* their number, the order in which they were given.
Forwarded   == 1 .. MaxRequests
NOP_CMD     == 0
STOP_CMD    == MaxRequests + 1
CMD_RECENTER == 0

TypeOK ==
  /\ client \in {"running", "shut", "dead"}
  /\ comCmd \in 0 .. STOP_CMD
  /\ comRecenter \in BOOLEAN
  /\ comNotify \in BOOLEAN
  /\ given \in 0 .. MaxRequests
  /\ main \in {"look", "take", "clear", "unlock", "send", "recenter", "join",
              "ended"}
  /\ cmd \in 0 .. STOP_CMD
  /\ recenter \in BOOLEAN
  /\ notify \in BOOLEAN
  /\ quit \in BOOLEAN
  /\ locked \in BOOLEAN
  /\ erased \in 0 .. MaxRequests
  /\ reader \in {"retry", "poll", "ended"}
  /\ linked \in BOOLEAN
  /\ server \in {"none", "gui", "up"}
  /\ uplink \in Seq({CMD_RECENTER} \cup Forwarded)
  /\ done \in 0 .. MaxRequests
  /\ due \in 0 .. MaxRequests
  /\ awaited \in BOOLEAN

\* ltr_int_init_helper has started the slave, and woken the tracker up.
Init ==
  /\ client = "running"
  /\ comCmd = 1
  /\ comRecenter = FALSE
  /\ comNotify = FALSE
  /\ given = 1
  /\ main = "look"
  /\ cmd = NOP_CMD
  /\ recenter = FALSE
  /\ notify = FALSE
  /\ quit = FALSE
  /\ locked = FALSE
  /\ erased = 0
  /\ reader = "retry"
  /\ linked = FALSE
  /\ server \in {"none", "gui", "up"}
  /\ uplink = <<>>
  /\ done = 0
  /\ due = 1
  /\ awaited = FALSE

------------------------------------------------------------------------------
(* The client: ltlib.c.  A call waits while the slave holds the semaphore. *)

\* ltr_wakeup, ltr_suspend, ltr_request_frames: a command that nobody has
\* taken yet is overwritten.
Command ==
  /\ client = "running" /\ ~locked
  /\ given < MaxRequests
  /\ given' = given + 1
  /\ due' = given + 1
  /\ comCmd' = given + 1
  /\ UNCHANGED <<client, comRecenter, comNotify, mainVars, reader, linked,
                 uplink, masterVars>>

\* ltr_recenter
Recenter ==
  /\ client = "running" /\ ~locked
  /\ comRecenter' = TRUE
  /\ awaited' = TRUE
  /\ UNCHANGED <<client, comCmd, comNotify, given, mainVars, reader, linked,
                 uplink, due, server, done>>

\* ltr_notification_on
NotificationOn ==
  /\ client = "running" /\ ~locked
  /\ comNotify' = TRUE
  /\ UNCHANGED <<client, comCmd, comRecenter, given, mainVars, reader, linked,
                 uplink, due, masterVars>>

\* ltr_shutdown: no call reaches the tracker any more.
Shutdown ==
  /\ client = "running" /\ ~locked
  /\ client' = "shut"
  /\ comCmd' = STOP_CMD
  /\ UNCHANGED <<comRecenter, comNotify, given, mainVars, reader, linked,
                 uplink, due, masterVars>>

\* The client program ends, in order or not.
Die ==
  /\ client # "dead"
  /\ client' = "dead"
  /\ UNCHANGED <<com, given, mainVars, reader, linked, uplink, due,
                 masterVars>>

------------------------------------------------------------------------------
(* The main thread of the slave.                                           *)

Room == Len(uplink) < UplinkSize

\* A write succeeds while the uplink is open, somebody reads it (EPIPE
\* otherwise) and there is room in it (EAGAIN otherwise).
Writable == reader = "poll" /\ server = "up" /\ Room

\* The requests are taken if there is a command or a recentering.
Look ==
  /\ main = "look"
  /\ IF comCmd # NOP_CMD \/ comRecenter
       THEN main' = "take" /\ locked' = TRUE
       ELSE main' = "send" /\ UNCHANGED locked
  /\ UNCHANGED <<clientVars, cmd, recenter, notify, quit, erased, reader,
                 linked, uplink, due, masterVars>>

TakeCommand ==
  /\ main = "take"
  /\ main' = "clear"
  /\ cmd' = comCmd
  /\ UNCHANGED <<clientVars, recenter, notify, quit, locked, erased, reader,
                 linked, uplink, due, masterVars>>

\* The flags are read: what is left of an older recentering is replaced.
TakeFlags ==
  /\ main = "clear"
  /\ main' = "unlock"
  /\ recenter' = comRecenter
  /\ notify' = comNotify
  /\ awaited' = (awaited /\ (recenter => comRecenter))
  /\ UNCHANGED <<client, comRecenter, comNotify, given, cmd, quit, locked,
                 reader, linked, uplink, due, server, done>>

\* Seeded fault: the command is left in ltr_comm.
LeaveCommand == TakeFlags /\ UNCHANGED <<comCmd, erased>>

\* The command is cleared, whether it is the one that was taken or not.
ClearCommand ==
  /\ TakeFlags
  /\ comCmd' = NOP_CMD
  /\ erased' = IF comCmd \in Forwarded \ {cmd} THEN comCmd ELSE erased

\* The recentering is cleared, whether it was taken or not, and the
\* semaphore is unlocked.
ClearRecenter ==
  /\ main = "unlock"
  /\ main' = "send"
  /\ comRecenter' = FALSE
  /\ awaited' = (awaited /\ (comRecenter => recenter))
  /\ locked' = FALSE
  /\ UNCHANGED <<client, comCmd, comNotify, given, cmd, recenter, notify, quit,
                 erased, reader, linked, uplink, due, server, done>>

\* What follows when a command was sent or need not be.
Sent ==
  /\ main' = "recenter"
  /\ cmd' = NOP_CMD
  /\ quit' = (quit \/ cmd = STOP_CMD)
  /\ UNCHANGED <<client, given, recenter, notify, locked, erased, reader,
                 linked, due, masterVars>>

\* Seeded fault: the parent is not looked at between two attempts.
SendForever ==
  /\ main = "send"
  /\ \/ cmd \in Forwarded /\ Writable /\ uplink' = Append(uplink, cmd)
     \/ cmd \notin Forwarded /\ UNCHANGED uplink
  /\ Sent /\ UNCHANGED com

\* Seeded fault: STOP_CMD is sent to the master like the others.
SendStop ==
  /\ main = "send"
  /\ \/ cmd # NOP_CMD /\ Writable /\ uplink' = Append(uplink, cmd)
     \/ cmd # NOP_CMD /\ ~Writable /\ client = "dead" /\ UNCHANGED uplink
     \/ cmd = NOP_CMD /\ UNCHANGED uplink
  /\ Sent /\ UNCHANGED com

\* Seeded fault: ltr_comm is cleared once the command is sent.
SendAndClear ==
  /\ main = "send"
  /\ \/ cmd \in Forwarded /\ Writable /\ uplink' = Append(uplink, cmd)
     \/ cmd \in Forwarded /\ ~Writable /\ client = "dead" /\ UNCHANGED uplink
     \/ cmd \notin Forwarded /\ UNCHANGED uplink
  /\ comCmd' = NOP_CMD /\ UNCHANGED <<comRecenter, comNotify>>
  /\ Sent

\* A command is sent again and again until it is written or the client gone;
\* STOP_CMD is not sent, it only ends the loop.
Send ==
  /\ main = "send"
  /\ \/ cmd \in Forwarded /\ Writable /\ uplink' = Append(uplink, cmd)
     \/ cmd \in Forwarded /\ ~Writable /\ client = "dead" /\ UNCHANGED uplink
     \/ cmd \notin Forwarded /\ UNCHANGED uplink
  /\ Sent /\ UNCHANGED com

\* How a turn ends.
EndTurn ==
  /\ main' = IF quit \/ client = "dead" THEN "join" ELSE "look"
  /\ UNCHANGED <<clientVars, cmd, notify, quit, locked, erased, reader, linked,
                 due, masterVars>>

\* Seeded fault: the request is cleared whether or not it was sent.
SendRecenterOnce ==
  /\ main = "recenter"
  /\ uplink' = IF recenter /\ Writable
                 THEN Append(uplink, CMD_RECENTER) ELSE uplink
  /\ recenter' = FALSE
  /\ EndTurn

\* A recentering is tried once in a turn and kept when it fails.
SendRecenter ==
  /\ main = "recenter"
  /\ IF recenter /\ Writable
       THEN uplink' = Append(uplink, CMD_RECENTER) /\ recenter' = FALSE
       ELSE UNCHANGED <<uplink, recenter>>
  /\ EndTurn

\* ltr_int_slave returns once the reader thread has, and the process ends.
Join ==
  /\ main = "join" /\ reader = "ended"
  /\ main' = "ended"
  /\ UNCHANGED <<clientVars, cmd, recenter, notify, quit, locked, erased,
                 reader, linked, uplink, due, masterVars>>

MainStep ==
  \/ Look \/ TakeCommand \/ ClearCommand \/ ClearRecenter
  \/ Send \/ SendRecenter \/ Join

------------------------------------------------------------------------------
(* The reader thread of the slave.                                         *)

\* ltr_int_try_start_master: the master there is is linked to; with nobody
\* there one is started, or the retries are used up; with ltr_gui there and
\* not tracking the thread waits.
TryStartMaster ==
  /\ reader = "retry"
  /\ \/ /\ server = "up"
        /\ reader' = "poll" /\ linked' = TRUE
        /\ UNCHANGED server
     \/ /\ server = "none"
        /\ server' = "up"
        /\ UNCHANGED <<reader, linked>>
     \/ /\ server = "none"
        /\ reader' = "ended"
        /\ UNCHANGED <<server, linked>>
  /\ UNCHANGED <<clientVars, mainVars, uplink, due, done, awaited>>

\* What is in a fifo is lost when nobody has it open, and other slaves may.
LostOrKept == uplink' \in {uplink, <<>>}

\* The poll of the downlink tells that the master has left.
Hangup ==
  /\ reader = "poll" /\ ~linked
  /\ reader' = "retry"
  /\ IF server = "up" THEN UNCHANGED uplink ELSE LostOrKept
  /\ UNCHANGED <<clientVars, mainVars, linked, due, masterVars>>

\* ltr_int_process_message stores a pose in ltr_comm: it locks the semaphore
\* that the process holds already, and its unlocking is for both threads.
StorePose ==
  /\ reader = "poll" /\ locked
  /\ locked' = FALSE
  /\ UNCHANGED <<clientVars, main, cmd, recenter, notify, quit, erased, reader,
                 linked, uplink, due, masterVars>>

\* The thread ends when it sees the client gone: after a poll that timed out,
\* or after a message.
ParentGone ==
  /\ reader = "poll" /\ client = "dead"
  /\ reader' = "ended"
  /\ UNCHANGED <<clientVars, mainVars, linked, uplink, due, masterVars>>

ReaderStep == TryStartMaster \/ Hangup \/ ParentGone

------------------------------------------------------------------------------
(* The master.                                                             *)

\* ltr_int_master takes one message in a turn.
Receive ==
  /\ server = "up" /\ uplink # <<>>
  /\ uplink' = Tail(uplink)
  /\ IF Head(uplink) = CMD_RECENTER
       THEN awaited' = FALSE /\ UNCHANGED done
       ELSE done' = Head(uplink) /\ UNCHANGED awaited
  /\ UNCHANGED <<clientVars, mainVars, reader, linked, due, server>>

\* The master leaves, to make room for ltr_gui or because of an error; what
\* was asked of it is not carried to another one.
Leave ==
  /\ server = "up"
  /\ server' \in {"none", "gui"}
  /\ linked' = FALSE
  /\ due' = 0
  /\ IF reader = "poll" THEN UNCHANGED uplink ELSE LostOrKept
  /\ awaited' = (awaited /\ (comRecenter \/ recenter))
  /\ UNCHANGED <<clientVars, mainVars, reader, done>>

\* ltr_gui opens or closes its window, or starts to track.
Arrive ==
  /\ server # "up"
  /\ server' \in {"none", "gui", "up"} \ {server}
  /\ UNCHANGED <<clientVars, mainVars, reader, linked, uplink, due, done,
                 awaited>>

Next ==
  \/ Command \/ Recenter \/ NotificationOn \/ Shutdown \/ Die
  \/ MainStep \/ ReaderStep \/ StorePose
  \/ Receive \/ Leave \/ Arrive

\* The threads of the slave and the loop of the master run.
Fairness ==
  /\ WF_vars(MainStep)
  /\ WF_vars(ReaderStep)
  /\ WF_vars(Receive)

Spec == Init /\ [][Next]_vars /\ Fairness

------------------------------------------------------------------------------
(* Properties.                                                             *)

\* However often a write fails and is tried again, and whatever masters come
\* and go, no command is carried out twice, or after one given later.
CarriedOutInOrder ==
  [][Receive => Head(uplink) = CMD_RECENTER \/ Head(uplink) > done]_vars

\* While the client lives and the master stays, the last command given is the
\* last one carried out: one that is overwritten before the slave takes it is
\* followed by another that is not.
LastCommandWins ==
  <>[](linked /\ client = "running") => <>[](due \in {0, done})

\* The same, but for a command that the slave clears without having taken it:
\* there is no other way to lose one.
LastCommandWinsUnlessErased ==
  <>[](linked /\ client = "running") => <>[](due \in {0, done, erased})

\* A recentering that could not be sent is sent to the master that comes,
\* unless another request was taken in between, which replaces it, or it came
\* while the slave was clearing what it had taken.
RecenterArrives ==
  <>[](linked /\ client = "running") => []<>~awaited

\* Unless masters leave for ever, the slave ends when its client is gone,
\* whatever it is trying to send or to open, except that it waits for ltr_gui
\* while that has a window and does not track.
SlaveEndsWithClient ==
  <>[][~Leave]_vars =>
    (client = "dead" ~> main = "ended" \/ (reader = "retry" /\ server = "gui"))

\* A client with a master that stays gets notifications once it has asked for
\* them.
NotificationsStart ==
  <>[](linked /\ client = "running" /\ comNotify) => <>notify
==============================================================================
