-------------------------------- MODULE Pipe --------------------------------
(***************************************************************************)
(* ltr_pipe (ltr_pipe.c): a program that writes the poses of linux-track   *)
(* to its output, to a file or fifo, to a socket, or as events to uinput,  *)
(* and that is told by signals to suspend and wake up (SIGUSR1), to        *)
(* recenter (SIGHUP) and to end. The handlers run between any two steps of *)
(* the main thread; errors end the program in the middle of what it does.  *)
(***************************************************************************)
EXTENDS Integers, Sequences

CONSTANT MaxPolls  \* bound: seconds to wait for the tracking (--ltr-timeout)

PollsAssumption == MaxPolls \in Nat

VARIABLES
  pc,         \* where the main thread is
  opts,       \* Args: output and format
  run,        \* Run_state
  recenter,   \* Recenter
  terminate,  \* Terminate
  fd,         \* Output_FD: is it open?
  polls,      \* seconds waited
  pending,    \* what of the pose is still to be written, write by write
  lib,        \* what the library was told last
  asked       \* history: a SIGHUP came since the last linuxtrack_recenter

pipeVars ==
  <<pc, opts, run, recenter, terminate, fd, polls, pending, lib, asked>>

------------------------------------------------------------------------------
(* Options and formats *)

Outputs == {"stdout", "file", "udp", "tcp"}

\* The values a format has, in order, with their signs; a record of uinput is
\* one write for each of them and one to synchronize.
Fields ==
  [default     |-> <<"h", "p", "r", "x", "y", "z", "counter">>,
   flightgear  |-> <<"h", "p", "-r", "x", "y", "z">>,
   il2         |-> <<"h", "-p", "r">>,
   il2_6dof    |-> <<"h", "-p", "r", "-z", "-x", "y">>,
   headtrack   |-> <<"1", "h", "r", "p", "x", "y", "z">>,
   silentwings |-> <<"-h", "p">>,
   mouse       |-> <<"-h", "p">>,
   uinput_rel  |-> <<"-h", "p", "-r">>,
   uinput_abs  |-> <<"-h", "p", "-r", "x", "y", "z">>]

Formats == DOMAIN Fields
Events == {"uinput_rel", "uinput_abs"}
Writes(format) ==
  IF format \in Events
  THEN Append([i \in 1 .. Len(Fields[format]) |-> <<Fields[format][i]>>], <<"sync">>)
  ELSE <<Fields[format]>>

NoOutput == "none"

TypeOK ==
  /\ pc \in {"options", "init", "poll", "top", "suspended", "suspending", "waking",
             "recenter", "call", "output", "pose", "select", "write", "exit",
             "shutdown", "gone"}
  /\ opts \in [output : Outputs \cup {NoOutput}, format : Formats, device : BOOLEAN]
  /\ run \in {"running", "suspend", "stopped", "wakeup"}
  /\ recenter \in BOOLEAN /\ terminate \in BOOLEAN /\ fd \in BOOLEAN
  /\ polls \in 0 .. MaxPolls
  /\ \E f \in Formats : \E i \in 1 .. Len(Writes(f)) + 1 :
       pending = SubSeq(Writes(f), i, Len(Writes(f)))
  /\ lib \in {"off", "on", "paused"} /\ asked \in BOOLEAN

Init ==
  /\ pc = "options" /\ opts = [output |-> NoOutput, format |-> "default", device |-> FALSE]
  /\ run = "running" /\ recenter = FALSE /\ terminate = FALSE
  /\ fd = FALSE /\ polls = 0 /\ pending = <<>>
  /\ lib = "off" /\ asked = FALSE

Goto(p) == pc' = p
Flags == <<run, recenter, terminate, asked>>

\* parse_opts, check_opts: with no output named it is stdout. Whether the file
\* is the uinput device is not known to the program.
ParseOpts ==
  /\ pc = "options" /\ Goto("init")
  /\ \E o \in Outputs, f \in Formats, d \in BOOLEAN :
       /\ d => o = "file" /\ f \in Events
       /\ opts' = [output |-> o, format |-> f, device |-> d]
  /\ UNCHANGED <<Flags, fd, polls, pending, lib>>

------------------------------------------------------------------------------
(* Signals *)

Listening == pc \notin {"options", "gone"}

\* Seeded fault: the handler asks for a recentering only when it could be done
\* at once.
SighupWhenRunning ==
  /\ Listening /\ recenter' = (recenter \/ run = "running") /\ asked' = TRUE
  /\ UNCHANGED <<pc, opts, run, terminate, fd, polls, pending, lib>>

\* catch_sighup
Sighup ==
  /\ Listening /\ recenter' = TRUE /\ asked' = TRUE
  /\ UNCHANGED <<pc, opts, run, terminate, fd, polls, pending, lib>>

\* catch_sigusr1: without effect while the last one is carried out
Sigusr1 ==
  /\ Listening /\ run \in {"running", "stopped"}
  /\ run' = IF run = "running" THEN "suspend" ELSE "wakeup"
  /\ UNCHANGED <<pc, opts, recenter, terminate, fd, polls, pending, lib, asked>>

\* catch_sigterm, catch_sigint
Sigterm ==
  /\ Listening /\ ~terminate /\ terminate' = TRUE
  /\ UNCHANGED <<pc, opts, run, recenter, fd, polls, pending, lib, asked>>

------------------------------------------------------------------------------
(* The main thread *)

\* setup_ltr: linuxtrack_init
InitLibrary ==
  /\ pc = "init"
  /\ \/ lib' = "on" /\ Goto("poll")
     \/ UNCHANGED lib /\ Goto("exit")
  /\ UNCHANGED <<opts, Flags, fd, polls, pending>>

\* setup_ltr: once a second it looks whether the tracking runs.
Poll ==
  /\ pc = "poll"
  /\ \/ polls < MaxPolls /\ Goto("top") /\ UNCHANGED polls
     \/ polls < MaxPolls /\ polls' = polls + 1 /\ UNCHANGED pc
     \/ polls = MaxPolls /\ Goto("exit") /\ UNCHANGED polls
  /\ UNCHANGED <<opts, Flags, fd, pending, lib>>

\* run_loop: the condition of the loop
Top ==
  /\ pc = "top" /\ Goto(IF terminate THEN "exit" ELSE "suspended")
  /\ UNCHANGED <<opts, Flags, fd, polls, pending, lib>>

\* suspended: linuxtrack_suspend and linuxtrack_wakeup come before the state
\* that a SIGUSR1 takes notice of.
Suspended ==
  /\ pc = "suspended"
  /\ \/ run = "running" /\ Goto("recenter")   /\ UNCHANGED lib
     \/ run = "suspend" /\ Goto("suspending") /\ lib' = "paused"
     \/ run = "stopped" /\ Goto("top")        /\ UNCHANGED lib
     \/ run = "wakeup"  /\ Goto("waking")     /\ lib' = "on"
  /\ UNCHANGED <<opts, Flags, fd, polls, pending>>

SetRunState ==
  /\ \/ pc = "suspending" /\ run' = "stopped" /\ Goto("top")
     \/ pc = "waking"     /\ run' = "running" /\ Goto("recenter")
  /\ UNCHANGED <<opts, recenter, terminate, fd, polls, pending, lib, asked>>

\* Seeded fault: the flag is cleared when the recentering was called for.
ClearAfterCall ==
  /\ \/ pc = "recenter" /\ Goto(IF recenter THEN "call" ELSE "output")
        /\ UNCHANGED <<recenter, asked>>
     \/ pc = "call" /\ recenter /\ asked' = FALSE /\ UNCHANGED <<pc, recenter>>
     \/ pc = "call" /\ recenter' = FALSE /\ Goto("output") /\ UNCHANGED asked
  /\ UNCHANGED <<opts, run, terminate, fd, polls, pending, lib>>

\* recenter: the flag is cleared and then linuxtrack_recenter is called.
Recentering ==
  /\ \/ pc = "recenter" /\ Goto(IF recenter THEN "call" ELSE "output")
        /\ recenter' = FALSE /\ UNCHANGED asked
     \/ pc = "call" /\ asked' = FALSE /\ Goto("output") /\ UNCHANGED recenter
  /\ UNCHANGED <<opts, run, terminate, fd, polls, pending, lib>>

\* ofd_setup_file: a fifo may have no reader yet; a file that is not uinput
\* refuses what makes a device of it.
SetupFile ==
  /\ opts.output = "file"
  /\ \/ fd' = TRUE /\ Goto(IF opts.format \in Events /\ ~opts.device THEN "exit" ELSE "pose")
     \/ UNCHANGED fd /\ Goto("top")
     \/ UNCHANGED fd /\ Goto("exit")

\* ofd_setup_sock, ofd_sock_connect: a connection that is refused is tried again
\* later, other failures end the program.
SetupSock ==
  /\ opts.output \in {"udp", "tcp"}
  /\ \/ fd' = TRUE /\ Goto("pose")
     \/ ~(opts.format \in Events) /\ UNCHANGED fd /\ Goto("top")
     \/ fd' \in BOOLEAN /\ Goto("exit")

\* ofd_unset, setup_ofd
SetupOutput ==
  /\ pc = "output"
  /\ \/ fd /\ Goto("pose") /\ UNCHANGED fd
     \/ ~fd /\ opts.output = "stdout" /\ fd' = TRUE /\ Goto("pose")
     \/ ~fd /\ SetupFile
     \/ ~fd /\ SetupSock
  /\ UNCHANGED <<opts, Flags, polls, pending, lib>>

\* linuxtrack_get_pose: a new pose or none. uinput is not waited for.
GetPose ==
  /\ pc = "pose"
  /\ \/ Goto("top") /\ UNCHANGED pending
     \/ IF opts.output = "file" /\ opts.format \in Events
        THEN Goto("write") /\ pending' = Writes(opts.format)
        ELSE Goto("select") /\ UNCHANGED pending
  /\ UNCHANGED <<opts, Flags, fd, polls, lib>>

\* select: there is room, there is none or a signal came, or it fails.
Select ==
  /\ pc = "select"
  /\ \/ Goto("write") /\ pending' = Writes(opts.format)
     \/ Goto("top") /\ UNCHANGED pending
     \/ Goto("exit") /\ UNCHANGED pending
  /\ UNCHANGED <<opts, Flags, fd, polls, lib>>

\* xwrite, write_data: a broken connection is closed if it is one of TCP, which
\* fails when it should have been uinput; else the data is lost.
Write ==
  /\ pc = "write"
  /\ \/ /\ pending = <<>> /\ Goto("top") /\ UNCHANGED <<fd, pending>>
     \/ /\ pending # <<>> /\ pending' = Tail(pending) /\ UNCHANGED <<pc, fd>>
     \/ /\ pending # <<>> /\ opts.output = "tcp"
        /\ IF opts.format \in Events
           THEN Goto("exit") /\ UNCHANGED fd
           ELSE fd' = FALSE /\ UNCHANGED pc
        /\ pending' = Tail(pending)
     \/ /\ pending # <<>> /\ Goto("exit") /\ UNCHANGED <<fd, pending>>
  /\ UNCHANGED <<opts, Flags, polls, lib>>

\* Seeded fault: the library is shut down on the way that ends well only.
ExitCloses ==
  /\ pc = "exit"
  /\ Goto(IF terminate THEN "shutdown" ELSE "gone") /\ fd' = FALSE
  /\ UNCHANGED <<opts, Flags, polls, pending, lib>>

\* at_exit: ofd_close, whose failure is an exit within the exit
AtExit ==
  /\ pc = "exit"
  /\ IF fd /\ opts.format \in Events /\ ~opts.device
     THEN Goto("gone") /\ UNCHANGED fd
     ELSE Goto("shutdown") /\ fd' = FALSE
  /\ UNCHANGED <<opts, Flags, polls, pending, lib>>

\* at_exit: linuxtrack_shutdown
Shutdown ==
  /\ pc = "shutdown" /\ Goto("gone") /\ lib' = "off"
  /\ UNCHANGED <<opts, Flags, fd, polls, pending>>

PipeNext ==
  \/ ParseOpts \/ Sighup \/ Sigusr1 \/ Sigterm
  \/ InitLibrary \/ Poll \/ Top \/ Suspended \/ SetRunState \/ Recentering
  \/ SetupOutput \/ GetPose \/ Select \/ Write \/ AtExit \/ Shutdown

PipeSpec == Init /\ [][PipeNext]_pipeVars

------------------------------------------------------------------------------
\* A SIGHUP is remembered until a recentering begins that comes after it; the
\* library is paused when the program thinks so, whenever signals come; and the
\* program ends with the library shut down, unless it made a wrong file a
\* device (ltr_pipe.c:505-532, :1156-1218, :814).
SignalsKept ==
  /\ asked => recenter \/ pc = "call"
  /\ pc = "top" => (lib = "paused" <=> run \in {"stopped", "wakeup"})
  /\ pc = "gone" => lib = "off" \/ (opts.format \in Events /\ ~opts.device)
================================================================================
