---------------------------- MODULE DeviceControl ----------------------------
(***************************************************************************)
(* The camera abstraction layer: cal.c (the request word, the published    *)
(* status, the loading of the driver library), runloop.c (the loop every   *)
(* driver library runs) and the thread ltlib_int.c puts under them.        *)
(*                                                                         *)
(* Threads: the device thread (cal_thread_fun), the thread that runs       *)
(* ltr_int_master and owns init and shutdown (Main), and the other threads *)
(* of that process that call suspend and wakeup (Callers: the windows of   *)
(* ltr_gui; none in the standalone server).                                *)
(*                                                                         *)
(* The request word is written without the mutex, and read and cleared in  *)
(* two steps under it, so every access to it is a step of its own.  What a *)
(* caller does under state_mx touches only change_flag and the condition   *)
(* variable and is one step; the mutex itself is the guard of that step.   *)
(* new_request_received, which only shortens the wait of the TrackIR       *)
(* driver for a frame, is abstracted into that wait ending at any time.    *)
(***************************************************************************)

CONSTANTS
  Main,     \* the thread of ltr_int_master
  Callers   \* other threads of its process that suspend and wake the device

ASSUME MainAssumption == Main \notin Callers

Threads == Callers \cup {Main}

VARIABLES
  request,     \* cal.c: the request word
  erased,      \* history: the requests overwritten before they were read
  state,       \* cal.c: ltr_int_cal_device_state
  loaded,      \* cal.c: the pointers of iface are set
  changeFlag,  \* runloop.c: change_flag
  tracker,     \* the camera behind ltr_int_tracker_*
  taken,       \* runloop.c: my_request
  dpc,         \* where the device thread is
  pc,          \* where each calling thread is
  closing,     \* Main is inside ltr_int_shutdown
  crashed      \* a thread called into an unloaded library

word    == <<request, erased>>
library == <<loaded, changeFlag>>
device  == <<state, tracker, taken>>
callers == <<pc, closing>>
vars    == <<word, library, device, dpc, callers, crashed>>

Requests == {"CONTINUE", "RUN", "PAUSE", "SHUTDOWN"}
Statuses == {"INITIALIZING", "RUNNING", "PAUSED", "STOPPED",
             "err_NOT_INITIALIZED", "err_PROCESSING_FRAME"}
Cameras  == {"closed", "streaming", "paused"}

DevicePcs ==
  {"none", "start", "load", "check", "setRun", "trackerInit", "announce",
   "loop", "asleep", "awake", "read", "clear", "act", "pause", "grab",
   "resumed", "close", "stopped", "unload", "dlclose", "done"}

CallerPcs == {"off", "idle", "check", "call", "inside", "join"}

TypeOK ==
  /\ request \in Requests
  /\ erased \subseteq Requests
  /\ state \in Statuses
  /\ loaded \in BOOLEAN
  /\ changeFlag \in BOOLEAN
  /\ tracker \in Cameras
  /\ taken \in Requests
  /\ dpc \in DevicePcs
  /\ pc \in [Threads -> CallerPcs]
  /\ closing \in BOOLEAN
  /\ crashed \in BOOLEAN

Init ==
  /\ request = "RUN"
  /\ erased = {}
  /\ state = "STOPPED"
  /\ loaded = FALSE
  /\ changeFlag = FALSE
  /\ tracker = "closed"
  /\ taken = "CONTINUE"
  /\ dpc = "none"
  /\ pc = [t \in Threads |-> IF t = Main THEN "off" ELSE "idle"]
  /\ closing = FALSE
  /\ crashed = FALSE

------------------------------------------------------------------------------
(* The calling threads.                                                    *)

Caller(t, from, to) ==
  /\ ~crashed
  /\ pc[t] = from
  /\ pc' = [pc EXCEPT ![t] = to]
  /\ UNCHANGED device

\* Where a thread is when cal_shutdown, cal_suspend or cal_wakeup returns.
After(t) == IF t = Main /\ closing THEN "join" ELSE "idle"

\* request = new_req in ltr_int_change_state.
SetRequest(r) ==
  /\ request' = r
  /\ erased' = erased \cup ({request} \ {"CONTINUE", r})

\* ltr_int_init: the thread is created; nothing resets the request word.
InitTracking ==
  /\ Caller(Main, "off", "idle")
  /\ dpc' = "start"
  /\ erased' = {}
  /\ UNCHANGED <<request, library, closing, crashed>>

\* ltr_int_cal_suspend (PAUSE) and ltr_int_cal_wakeup (RUN), from the loop of
\* the master or from a window of the GUI.
Ask(t, r) ==
  /\ Caller(t, "idle", "check")
  /\ SetRequest(r)
  /\ UNCHANGED <<library, dpc, closing, crashed>>

\* ltr_int_shutdown, once the loop of the master has ended.
Shutdown ==
  /\ Caller(Main, "idle", "check")
  /\ SetRequest("SHUTDOWN")
  /\ closing' = TRUE
  /\ UNCHANGED <<library, dpc, crashed>>

\* Seeded fault: the request is left in the word and nobody is called.
CheckAndReturn(t) ==
  /\ Caller(t, "check", After(t))
  /\ UNCHANGED <<word, library, dpc, closing, crashed>>

\* if(iface.device_... == NULL) return -1
CheckLoaded(t) ==
  /\ Caller(t, "check", IF loaded THEN "call" ELSE After(t))
  /\ UNCHANGED <<word, library, dpc, closing, crashed>>

\* (iface.device_...)(): the pointer is read again, after the check.
Call(t) ==
  /\ Caller(t, "call", "inside")
  /\ crashed' = ~loaded
  /\ UNCHANGED <<word, library, dpc, closing>>

\* Seeded fault: the flag is set without the broadcast.
SignalWithoutBroadcast(t) ==
  /\ Caller(t, "inside", After(t))
  /\ dpc \notin {"read", "clear"}
  /\ changeFlag' = TRUE
  /\ UNCHANGED <<word, loaded, dpc, closing, crashed>>

\* signal_request, which waits while the device thread holds state_mx; the
\* broadcast sends the sleeper of pthread_cond_wait back to its test.
Signal(t) ==
  /\ Caller(t, "inside", After(t))
  /\ dpc \notin {"read", "clear"}
  /\ changeFlag' = TRUE
  /\ dpc' = IF dpc = "asleep" THEN "awake" ELSE dpc
  /\ UNCHANGED <<word, loaded, closing, crashed>>

\* pthread_join in ltr_int_shutdown.
Join ==
  /\ Caller(Main, "join", "off")
  /\ dpc = "done"
  /\ dpc' = "none"
  /\ closing' = FALSE
  /\ UNCHANGED <<word, library, crashed>>

\* What a thread goes on doing; nothing obliges it to begin a call.
CallerStep(t) == CheckLoaded(t) \/ Call(t) \/ Signal(t)

------------------------------------------------------------------------------
(* The device thread.                                                      *)

Device(from, to) ==
  /\ ~crashed
  /\ dpc = from
  /\ dpc' = to
  /\ UNCHANGED callers

\* cal_thread_fun: ltr_int_get_device, then the head of ltr_int_cal_run.
GetDevice ==
  /\ \/ Device("start", "load") /\ state' = "INITIALIZING"
     \/ Device("start", "done") /\ UNCHANGED state
  /\ UNCHANGED <<word, library, tracker, taken, crashed>>

\* ltr_int_load_library: the statics of the library are fresh, unless the
\* loader kept it mapped since the last run.
LoadLibrary ==
  /\ \/ /\ Device("load", "check")
        /\ loaded' = TRUE
        /\ changeFlag' \in {FALSE, changeFlag}
     \/ /\ Device("load", "done")
        /\ UNCHANGED library
  /\ UNCHANGED <<word, device, crashed>>

\* if(request != PAUSE) in ltr_int_cal_run ...
CheckPause ==
  /\ Device("check", IF request = "PAUSE" THEN "trackerInit" ELSE "setRun")
  /\ UNCHANGED <<word, library, device, crashed>>

\* ... ltr_int_change_state(RUN): a request made since the start is erased.
SetRun ==
  /\ Device("setRun", "trackerInit")
  /\ SetRequest("RUN")
  /\ UNCHANGED <<library, device, crashed>>

\* ltr_int_rl_run: INITIALIZING again, then ltr_int_tracker_init.
TrackerInit ==
  /\ \/ /\ Device("trackerInit", "announce")
        /\ tracker' = "streaming"
        /\ UNCHANGED state
     \/ /\ Device("trackerInit", "unload")
        /\ state' = "err_NOT_INITIALIZED"
        /\ UNCHANGED tracker
  /\ UNCHANGED <<word, library, taken, crashed>>

\* ltr_int_cal_set_state(RUNNING), after the initialization or after a resume.
AnnounceRunning ==
  /\ Device("announce", "loop") \/ Device("resumed", "loop")
  /\ state' = "RUNNING"
  /\ UNCHANGED <<word, library, tracker, taken, crashed>>

\* The switch on the state at the head of the loop; its default is assert(0).
LoopHead ==
  /\ \/ state = "RUNNING" /\ Device("loop", "read")
     \/ state = "PAUSED" /\ Device("loop", "awake")
  /\ UNCHANGED <<word, library, device, crashed>>

\* while(!change_flag) pthread_cond_wait
TestFlag ==
  /\ Device("awake", IF changeFlag THEN "read" ELSE "asleep")
  /\ UNCHANGED <<word, library, device, crashed>>

SpuriousWakeup ==
  /\ Device("asleep", "awake")
  /\ UNCHANGED <<word, library, device, crashed>>

\* ltr_int_get_state_request, under the mutex the writers do not take:
\* res = request ...
ReadRequest ==
  /\ Device("read", "clear")
  /\ taken' = request
  /\ UNCHANGED <<word, library, state, tracker, crashed>>

\* ... request = CONTINUE, which erases what was written in between.  In the
\* paused branch change_flag is cleared before the mutex is released.
ClearRequest ==
  /\ Device("clear", "act")
  /\ request' = "CONTINUE"
  /\ erased' = erased \cup ({request} \ {"CONTINUE", taken})
  /\ changeFlag' = (changeFlag /\ state # "PAUSED")
  /\ UNCHANGED <<loaded, device, crashed>>

\* Seeded fault: the request PAUSE is published where the status PAUSED belongs.
PublishRequest ==
  /\ state = "RUNNING" /\ taken = "PAUSE"
  /\ Device("act", "pause")
  /\ state' = "PAUSE"
  /\ UNCHANGED <<word, library, tracker, taken, crashed>>

\* The status is published before the camera is paused.
ActPause ==
  /\ state = "RUNNING" /\ taken = "PAUSE"
  /\ Device("act", "pause")
  /\ state' = "PAUSED"
  /\ UNCHANGED <<word, library, tracker, taken, crashed>>

PauseTracker ==
  /\ Device("pause", "loop")
  /\ tracker' = "paused"
  /\ UNCHANGED <<word, library, state, taken, crashed>>

ActGrab ==
  /\ state = "RUNNING" /\ taken \notin {"PAUSE", "SHUTDOWN"}
  /\ Device("act", "grab")
  /\ UNCHANGED <<word, library, device, crashed>>

\* ltr_int_tracker_get_frame and the frame callback: a frame or none, or an
\* error of either.
Grab ==
  /\ \/ Device("grab", "loop") /\ UNCHANGED state
     \/ Device("grab", "close") /\ state' = "err_PROCESSING_FRAME"
  /\ UNCHANGED <<word, library, tracker, taken, crashed>>

\* Seeded fault: the status says RUNNING again, the camera was not resumed.
ForgetResume ==
  /\ state = "PAUSED" /\ taken = "RUN"
  /\ Device("act", "resumed")
  /\ UNCHANGED <<word, library, device, crashed>>

ActResume ==
  /\ state = "PAUSED" /\ taken = "RUN"
  /\ Device("act", "resumed")
  /\ tracker' = "streaming"
  /\ UNCHANGED <<word, library, state, taken, crashed>>

\* While paused anything but RUN and SHUTDOWN is dropped.
ActIgnore ==
  /\ state = "PAUSED" /\ taken \in {"CONTINUE", "PAUSE"}
  /\ Device("act", "loop")
  /\ UNCHANGED <<word, library, device, crashed>>

\* Seeded faults: a paused camera is closed as it is, and a paused device
\* takes SHUTDOWN for something it may drop.
StopWithoutResume ==
  /\ taken = "SHUTDOWN"
  /\ Device("act", "close")
  /\ UNCHANGED <<word, library, device, crashed>>

DropWhilePaused ==
  /\ taken = "SHUTDOWN"
  /\ Device("act", IF state = "PAUSED" THEN "loop" ELSE "close")
  /\ UNCHANGED <<word, library, device, crashed>>

\* SHUTDOWN in either branch; a paused camera is resumed first.
ActStop ==
  /\ taken = "SHUTDOWN"
  /\ Device("act", "close")
  /\ tracker' = "streaming"
  /\ UNCHANGED <<word, library, state, taken, crashed>>

\* Seeded faults: the loop is left with the camera on, and the pointers of
\* iface are cleared while the loop has yet to publish its end.
ClearPointersEarly ==
  /\ Device("close", "stopped")
  /\ tracker' = "closed"
  /\ loaded' = FALSE
  /\ UNCHANGED <<word, changeFlag, state, taken, crashed>>

ForgetClose ==
  /\ Device("close", "stopped")
  /\ UNCHANGED <<word, library, device, crashed>>

CloseTracker ==
  /\ Device("close", "stopped")
  /\ tracker' = "closed"
  /\ UNCHANGED <<word, library, state, taken, crashed>>

\* Seeded fault: the thread ends without publishing that it did.
ForgetStopped ==
  /\ Device("stopped", "unload")
  /\ UNCHANGED <<word, library, device, crashed>>

\* ltr_int_cal_set_state(STOPPED): it replaces err_PROCESSING_FRAME too.
AnnounceStopped ==
  /\ Device("stopped", "unload")
  /\ state' = "STOPPED"
  /\ UNCHANGED <<word, library, tracker, taken, crashed>>

\* ltr_int_unload_library: the pointers of iface are cleared ...
ClearPointers ==
  /\ Device("unload", "dlclose")
  /\ loaded' = FALSE
  /\ UNCHANGED <<word, changeFlag, device, crashed>>

\* ... and dlclose unmaps the code, unless the loader keeps it; a thread that
\* is inside signal_request then has nothing to return to.
CloseLibrary ==
  /\ Device("dlclose", "done")
  /\ crashed' \in {FALSE, \E t \in Threads : pc[t] = "inside"}
  /\ UNCHANGED <<word, library, device>>

DeviceStep ==
  \/ GetDevice \/ LoadLibrary \/ CheckPause \/ SetRun \/ TrackerInit
  \/ AnnounceRunning \/ LoopHead \/ TestFlag \/ ReadRequest \/ ClearRequest
  \/ ActPause \/ PauseTracker \/ ActGrab \/ Grab \/ ActResume \/ ActIgnore
  \/ ActStop \/ CloseTracker \/ AnnounceStopped \/ ClearPointers
  \/ CloseLibrary

------------------------------------------------------------------------------

Next ==
  \/ InitTracking
  \/ \E t \in Threads, r \in {"PAUSE", "RUN"} : Ask(t, r)
  \/ Shutdown
  \/ \E t \in Threads : CallerStep(t)
  \/ Join
  \/ DeviceStep
  \/ SpuriousWakeup

\* A thread that has begun a call goes on with it, pthread_join returns once
\* its thread has ended, and the device thread runs: a camera that is asked
\* for a frame answers or fails.  Nobody has to make a request, and no wakeup
\* of a condition variable is taken for granted but that of a broadcast.
Fairness ==
  /\ \A t \in Threads : WF_vars(CallerStep(t))
  /\ WF_vars(Join)
  /\ WF_vars(DeviceStep)

Safety == Init /\ [][Next]_vars

Spec == Safety /\ Fairness

------------------------------------------------------------------------------
(* Properties.                                                             *)

\* At the head of the loop the status is one the loop knows, so the assert(0)
\* of its default branch cannot fire, and the camera does what it says.
LoopKnowsState ==
  dpc = "loop" => \/ state = "RUNNING" /\ tracker = "streaming"
                  \/ state = "PAUSED" /\ tracker = "paused"

\* cal.h of shutdown: "turns all leds off".  Once clients are told that
\* tracking has stopped, or never started, no camera is left on.
CameraOffWhenDown ==
  state \in {"STOPPED", "err_NOT_INITIALIZED"} => tracker = "closed"

\* A status that says the device works has a device thread behind it: nobody
\* is left waiting for poses that no thread will make.
LiveStatusHasThread ==
  state \in {"RUNNING", "PAUSED"} =>
    dpc \notin {"none", "start", "load", "unload", "dlclose", "done"}

\* No lost wakeup: while the loop sleeps in pthread_cond_wait no signal is
\* waiting for it in change_flag.
NoLostWakeup == dpc = "asleep" => ~changeFlag

\* The library is mapped, and iface points into it, from the moment the run
\* loop is entered until it has published its last status: only after that
\* can a caller of suspend, wakeup or shutdown fall into the unloaded code.
CrashOnlyAfterLastStatus ==
  crashed => dpc \in {"dlclose", "done", "none", "start", "load"}

\* The published status and the camera follow the lifecycle of DeviceLifecycle,
\* whatever the threads do.
Lifecycle == INSTANCE DeviceLifecycle WITH status <- state, camera <- tracker
LifecycleSpec == Lifecycle!Spec

\* ltr_int_shutdown returns, unless the request it made was overwritten before
\* the loop had read it.
ShutdownReturnsUnlessErased ==
  pc[Main] = "join" ~> (pc[Main] = "off" \/ "SHUTDOWN" \in erased \/ crashed)

\* A request found in the word while the loop runs is taken by it, and a paused
\* loop is woken for it, unless it was overwritten or the camera failed first.
RequestIsTaken ==
  \A r \in Requests \ {"CONTINUE"} :
    (request = r /\ dpc \in {"loop", "asleep", "awake", "act", "grab"})
      ~> (\/ dpc = "clear" /\ taken = r
          \/ r \in erased
          \/ dpc = "done"
          \/ crashed)

\* cal.c in ltr_int_cal_run: "Runloop blocks until shutdown is called".  Once
\* it is called the run loop ends, and the thread that joins it goes on.
ShutdownReturns ==
  pc[Main] = "join" ~> (pc[Main] = "off" \/ crashed)
==============================================================================
