------------------------------- MODULE WiiServer -------------------------------
(***************************************************************************)
(* The driver of the Wiimote (macwii_driver.c, wii_com.c), the server      *)
(* program it works with (wii_server/) and the memory they share           *)
(* (com_proc.c): a command for the server, the blobs of the newest report  *)
(* under a lock, and a picture of them under a flag and no lock.           *)
(*                                                                         *)
(* The server has three threads: the window with its timer, the thread     *)
(* that owns the Wiimote, and the one libcwiid calls back with reports.    *)
(* The lights of the Wiimote are left out.                                 *)
(***************************************************************************)
EXTENDS Integers, Sequences

CONSTANTS
  PictureParts, \* the parts of the picture
  MaxPoints,    \* the blobs of a report at most; the room of the runloop
  MaxReports,   \* bound: reports of the Wiimote
  MaxOrders,    \* bound: commands of the driver
  MaxLinks      \* bound: connections of the Wiimote

PointsAssumption ==
  /\ MaxPoints \in Nat \ {0} /\ MaxReports \in Nat
  /\ MaxOrders \in Nat /\ MaxLinks \in Nat

Points == 1 .. MaxPoints

VARIABLES
  command,   \* cs->command
  counter,   \* cs->frame_counter, the number of the newest report
  points,    \* cs->num_blobs, cs->blobs: the report each blob is of
  filled,    \* cs->frame_filled
  picture,   \* cs->frame: the report each part is of
  driver,    \* what the device thread does
  lastVal,   \* last_val of com_proc.c
  got,       \* frame->bloblist
  copied,    \* the picture of the master, and the parts still to copy
  delivered, \* history: the report delivered last
  orders,    \* commands given
  overruled, \* history: the server took the last command back
  window,    \* the window of the server
  signals,   \* change_state signals on their way to it
  thread,    \* where WiiThread::run is, and its exit_flag
  mode,      \* what the Wiimote reports
  callback,  \* where pass_ir_data is
  links      \* connections made

shared  == <<command, counter, points, filled, picture>>
master  == <<driver, lastVal, got, copied, delivered, orders>>
server  == <<window, signals, thread, mode, links>>
wiiVars == <<shared, master, overruled, server, callback>>

Reports == 0 .. MaxReports

TypeOK ==
  /\ command \in {"STOP", "SLEEP", "WAKEUP"}
  /\ counter \in Reports
  /\ points \in [num : 0 .. MaxPoints, of : [Points -> Reports]]
  /\ filled \in BOOLEAN
  /\ picture \in [PictureParts -> Reports]
  /\ driver \in {"closed", "init", "paused", "run", "copy", "new", "get", "count"}
  /\ lastVal \in Reports
  /\ got \in [num : 0 .. MaxPoints, of : [Points -> Reports]]
  /\ copied \in [part : [PictureParts -> Reports], left : SUBSET PictureParts]
  /\ delivered \in Reports
  /\ orders \in 0 .. MaxOrders
  /\ overruled \in BOOLEAN
  /\ window \in [state : {"gone", "DISCONNECTED", "CONNECTING", "CONNECTED"},
                 timer : BOOLEAN, oldCmd : {"STOP", "SLEEP", "WAKEUP"},
                 slot : {"none", "STOP", "SLEEP", "WAKEUP"}]
  /\ signals \in Seq({"DISCONNECTED", "CONNECTING", "CONNECTED"})
  /\ thread \in [at : {"ended", "open", "loop", "close"}, exit : BOOLEAN]
  /\ mode \in {"none", "status", "ir"}
  /\ callback \in [at : {"idle", "draw", "blobs", "flag"}, fresh : BOOLEAN,
                   left : SUBSET PictureParts]
  /\ links \in 0 .. MaxLinks

Rest == [at |-> "idle", fresh |-> FALSE, left |-> {}]

Init ==
  /\ command = "STOP" /\ counter = 0
  /\ points = [num |-> 0, of |-> [i \in Points |-> 0]]
  /\ filled = FALSE
  /\ picture = [p \in PictureParts |-> 0]
  /\ driver = "closed" /\ lastVal = 0
  /\ got = [num |-> MaxPoints, of |-> [i \in Points |-> 0]]
  /\ copied = [part |-> picture, left |-> {}]
  /\ delivered = 0 /\ orders = 0 /\ overruled = FALSE
  /\ window = [state |-> "DISCONNECTED", timer |-> FALSE, oldCmd |-> "STOP",
               slot |-> "none"]
  /\ signals = <<>>
  /\ thread = [at |-> "ended", exit |-> FALSE]
  /\ mode = "none" /\ callback = Rest /\ links = 0

------------------------------------------------------------------------------
(* The driver, called by the loop of the device thread.                    *)

Command(c) == command' = c /\ overruled' = FALSE

\* ltr_int_tracker_init: the flag is reset and the server woken up; the
\* runloop has made room for all blobs.
DriverInit ==
  /\ driver = "closed" /\ orders < MaxOrders
  /\ driver' = "init" /\ filled' = FALSE
  /\ orders' = orders + 1
  /\ got' = [got EXCEPT !.num = MaxPoints]
  /\ UNCHANGED <<command, counter, points, picture, lastVal, copied, delivered,
                 overruled, server, callback>>

\* ltr_int_resumeWii, of ltr_int_tracker_init and of ltr_int_tracker_resume
DriverWakeup ==
  /\ \/ driver = "init" /\ UNCHANGED orders
     \/ driver = "paused" /\ orders < MaxOrders /\ orders' = orders + 1
  /\ driver' = "run" /\ Command("WAKEUP")
  /\ UNCHANGED <<counter, points, filled, picture, lastVal, got, copied,
                 delivered, server, callback>>

\* ltr_int_tracker_pause
DriverPause ==
  /\ driver = "run" /\ orders < MaxOrders
  /\ driver' = "paused" /\ Command("SLEEP") /\ orders' = orders + 1
  /\ UNCHANGED <<counter, points, filled, picture, lastVal, got, copied,
                 delivered, server, callback>>

\* ltr_int_tracker_close, ltr_int_closeWiiCom
DriverClose ==
  /\ driver \in {"run", "paused"}
  /\ driver' = "closed" /\ Command("STOP")
  /\ UNCHANGED <<counter, points, filled, picture, lastVal, got, copied,
                 delivered, orders, server, callback>>

\* ltr_int_tracker_get_frame looks at the flag; there may be no bitmap.
LookAtFlag ==
  /\ driver = "run"
  /\ IF filled THEN driver' = "copy" /\ \E s \in {{}, PictureParts} :
                                          copied' = [copied EXCEPT !.left = s]
               ELSE driver' = "new" /\ UNCHANGED copied
  /\ UNCHANGED <<shared, lastVal, got, delivered, orders, overruled, server, callback>>

\* its memcpy, a part at a time
CopyPicture(p) ==
  /\ driver = "copy" /\ p \in copied.left
  /\ copied' = [part |-> [copied.part EXCEPT ![p] = picture[p]],
                left |-> copied.left \ {p}]
  /\ UNCHANGED <<shared, driver, lastVal, got, delivered, orders, overruled,
                 server, callback>>

\* ltr_int_resetFrameFlag
PictureCopied ==
  /\ driver = "copy" /\ copied.left = {}
  /\ driver' = "new" /\ filled' = FALSE
  /\ UNCHANGED <<command, counter, points, picture, lastVal, got, copied,
                 delivered, orders, overruled, server, callback>>

\* ltr_int_haveNewBlobs, without the lock
HaveNewBlobs ==
  /\ driver = "new"
  /\ driver' = IF counter # lastVal THEN "get" ELSE "run"
  /\ lastVal' = counter
  /\ UNCHANGED <<shared, got, copied, delivered, orders, overruled, server, callback>>

\* Seeded fault: the number of the frame that was read is not remembered.
GetBlobsForgets ==
  /\ driver = "get"
  /\ driver' = "count" /\ delivered' = counter
  /\ got' = [got EXCEPT !.of = [i \in Points |->
               IF i <= points.num /\ i <= got.num THEN points.of[i] ELSE @[i]]]
  /\ UNCHANGED <<shared, lastVal, copied, orders, overruled, server, callback>>

\* ltr_int_getBlobs: as many blobs are copied, under the lock, as there were
\* in the frame before; the others keep what they were.
GetBlobs ==
  /\ driver = "get"
  /\ driver' = "count" /\ delivered' = counter /\ lastVal' = counter
  /\ got' = [got EXCEPT !.of = [i \in Points |->
               IF i <= points.num /\ i <= got.num THEN points.of[i] ELSE @[i]]]
  /\ UNCHANGED <<shared, copied, orders, overruled, server, callback>>

\* ... and their number, read again after the lock was released, returned.
CountBlobs ==
  /\ driver = "count"
  /\ driver' = "run" /\ got' = [got EXCEPT !.num = points.num]
  /\ UNCHANGED <<shared, lastVal, copied, delivered, orders, overruled, server, callback>>

------------------------------------------------------------------------------
(* The window of the server.                                               *)

\* Wiimote::connect and disconnect by the button
PressButton ==
  /\ window.slot = "none"
  /\ \/ /\ window.state = "DISCONNECTED" /\ thread.at = "ended"
        /\ links < MaxLinks /\ links' = links + 1
        /\ thread' = [at |-> "open", exit |-> FALSE]
        /\ signals' = Append(signals, "CONNECTING")
     \/ /\ window.state = "CONNECTED" /\ thread.at # "ended"
        /\ thread' = [thread EXCEPT !.exit = TRUE]
        /\ UNCHANGED <<signals, links>>
  /\ UNCHANGED <<shared, master, overruled, window, mode, callback>>

\* Seeded fault: the command seen last is kept when the Wiimote is lost.
UpdateStateKeepsCommand ==
  /\ signals # <<>> /\ window.slot = "none" /\ window.state # "gone"
  /\ signals' = Tail(signals)
  /\ window' = [window EXCEPT
       !.state = Head(signals),
       !.timer = IF Head(signals) = "CONNECTING" THEN @ ELSE Head(signals) = "CONNECTED"]
  /\ UNCHANGED <<shared, master, overruled, thread, mode, callback, links>>

\* changed_state, update_state
UpdateState ==
  /\ signals # <<>> /\ window.slot = "none" /\ window.state # "gone"
  /\ signals' = Tail(signals)
  /\ window' = [window EXCEPT
       !.state  = Head(signals),
       !.timer  = IF Head(signals) = "CONNECTING" THEN @ ELSE Head(signals) = "CONNECTED",
       !.oldCmd = IF Head(signals) = "DISCONNECTED" THEN "STOP" ELSE @]
  /\ UNCHANGED <<shared, master, overruled, thread, mode, callback, links>>

\* handle_command, and the test of gWiimote of the slot it calls
HandleCommand ==
  /\ window.timer /\ window.slot = "none" /\ command # window.oldCmd
  /\ window' = [window EXCEPT !.oldCmd = command,
                              !.slot = IF mode = "none" THEN "none" ELSE command]
  /\ UNCHANGED <<shared, master, overruled, signals, thread, mode, callback, links>>

\* WiiThread::pause, wakeup and stop: the Wiimote may be closed since the test.
Slot ==
  /\ window.slot # "none"
  /\ window' = [window EXCEPT !.slot = "none"]
  /\ mode' = IF mode = "none" THEN "none" ELSE IF window.slot = "WAKEUP" THEN "ir" ELSE "status"
  /\ UNCHANGED <<shared, master, overruled, signals, thread, callback, links>>

Gone ==
  /\ thread' = [at |-> "ended", exit |-> FALSE]
  /\ mode' = "none" /\ callback' = Rest /\ signals' = <<>>

\* ... which ends the program.
SlotCrashes ==
  /\ window.slot # "none" /\ mode = "none"
  /\ window' = [window EXCEPT !.state = "gone", !.timer = FALSE, !.slot = "none"]
  /\ Gone
  /\ UNCHANGED <<shared, master, overruled, links>>

\* ~WiiServerWindow: closeWiiCom of the server too commands a stop.
Quit ==
  /\ window.state # "gone" /\ window.slot = "none"
  /\ window' = [window EXCEPT !.state = "gone", !.timer = FALSE]
  /\ command' = "STOP"
  /\ overruled' = (driver \notin {"closed", "init"})
  /\ Gone
  /\ UNCHANGED <<counter, points, filled, picture, master, links>>

\* The program is started again.
Restart ==
  /\ window.state = "gone"
  /\ window' = [window EXCEPT !.state = "DISCONNECTED", !.oldCmd = "STOP"]
  /\ UNCHANGED <<shared, master, overruled, signals, thread, mode, callback, links>>

------------------------------------------------------------------------------
(* The thread of the Wiimote.                                              *)

\* run: cwiid_open finds a Wiimote, or none.
Open ==
  /\ thread.at = "open"
  /\ \/ /\ thread' = [thread EXCEPT !.at = "loop"] /\ mode' = "status"
        /\ signals' = Append(signals, "CONNECTED")
     \/ /\ thread' = [thread EXCEPT !.at = "ended"] /\ UNCHANGED mode
        /\ signals' = Append(signals, "DISCONNECTED")
  /\ UNCHANGED <<shared, master, overruled, window, callback, links>>

\* stop_it, when the connection is lost
ConnectionLost ==
  /\ thread.at = "loop" /\ ~thread.exit /\ callback = Rest
  /\ thread' = [thread EXCEPT !.exit = TRUE]
  /\ UNCHANGED <<shared, master, overruled, window, signals, mode, callback, links>>

\* run is told to end: libcwiid ends its thread, and the Wiimote is closed.
Close ==
  /\ thread.at = "loop" /\ thread.exit
  /\ thread' = [thread EXCEPT !.at = "close"]
  /\ mode' = "none" /\ callback' = Rest
  /\ UNCHANGED <<shared, master, overruled, window, signals, links>>

Ended ==
  /\ thread.at = "close"
  /\ thread' = [thread EXCEPT !.at = "ended"]
  /\ signals' = Append(signals, "DISCONNECTED")
  /\ UNCHANGED <<shared, master, overruled, window, mode, callback, links>>

------------------------------------------------------------------------------
(* pass_ir_data, called back by libcwiid.                                  *)

\* Seeded fault: the flag tells of the picture before it is drawn.
ReportSetsFlag ==
  /\ mode = "ir" /\ callback = Rest /\ counter < MaxReports
  /\ filled' = TRUE
  /\ callback' = IF filled THEN [at |-> "blobs", fresh |-> FALSE, left |-> {}]
                 ELSE [at |-> "draw", fresh |-> TRUE, left |-> PictureParts]
  /\ UNCHANGED <<command, counter, points, picture, master, overruled, server>>

\* A report comes; the picture is drawn if the last one was taken.
Report ==
  /\ mode = "ir" /\ callback = Rest /\ counter < MaxReports
  /\ callback' = IF filled THEN [at |-> "blobs", fresh |-> FALSE, left |-> {}]
                 ELSE [at |-> "draw", fresh |-> TRUE, left |-> PictureParts]
  /\ UNCHANGED <<shared, master, overruled, server>>

\* memset, ltr_int_draw_square, ltr_int_draw_cross, a part at a time
DrawPicture(p) ==
  /\ callback.at = "draw" /\ p \in callback.left
  /\ picture' = [picture EXCEPT ![p] = counter + 1]
  /\ callback' = [callback EXCEPT !.left = @ \ {p},
                                  !.at = IF callback.left = {p} THEN "blobs" ELSE @]
  /\ UNCHANGED <<command, counter, points, filled, master, overruled, server>>

\* ltr_int_setBlobs, under the lock
SetBlobs ==
  /\ callback.at = "blobs"
  /\ counter' = counter + 1
  /\ \E n \in 0 .. MaxPoints :
       points' = [num |-> n, of |-> [i \in Points |->
                    IF i <= n THEN counter + 1 ELSE points.of[i]]]
  /\ callback' = IF callback.fresh THEN [callback EXCEPT !.at = "flag"] ELSE Rest
  /\ UNCHANGED <<command, filled, picture, master, overruled, server>>

\* ltr_int_setFrameFlag
SetFrameFlag ==
  /\ callback.at = "flag"
  /\ filled' = TRUE /\ callback' = Rest
  /\ UNCHANGED <<command, counter, points, picture, master, overruled, server>>

------------------------------------------------------------------------------
Window == PressButton \/ UpdateState \/ HandleCommand \/ Slot \/ SlotCrashes \/ Quit \/ Restart
Thread == Open \/ ConnectionLost \/ Close \/ Ended
Callback == Report \/ (\E p \in PictureParts : DrawPicture(p)) \/ SetBlobs \/ SetFrameFlag
Driver == \/ DriverInit \/ DriverWakeup \/ DriverPause \/ DriverClose
          \/ LookAtFlag \/ (\E p \in PictureParts : CopyPicture(p)) \/ PictureCopied
          \/ HaveNewBlobs \/ GetBlobs \/ CountBlobs

WiiNext == Window \/ Thread \/ Callback \/ Driver

\* The event loop of the window goes on, and the end of the thread.
WindowGoes == UpdateState \/ HandleCommand \/ Slot
ThreadEnds == Close \/ Ended
WiiFairness == WF_wiiVars(WindowGoes) /\ WF_wiiVars(ThreadEnds)

Spec == Init /\ [][WiiNext]_wiiVars /\ WiiFairness

------------------------------------------------------------------------------
(* Properties.                                                             *)

\* The picture the driver copied is of one report, although the two programs
\* share it without a lock and the server is closed and started at any time.
PictureIsWhole ==
  copied.left = {} => \E r \in Reports : copied.part = [p \in PictureParts |-> r]

DeliversNewer == driver = "get" /\ driver' = "count" => delivered' > delivered

\* No report is delivered twice, however reports come between the test for a
\* new one and the copy.
ReportDeliveredOnce == [][DeliversNewer]_wiiVars

Connected ==
  /\ driver \in {"run", "copy", "new", "get", "count"} /\ ~overruled
  /\ thread.at = "loop" /\ ~thread.exit
Reporting == mode = "ir"

\* While the driver runs and the Wiimote is connected, it comes to report the
\* infrared sources, after any number of lost connections, unless the server
\* was closed meanwhile, which takes the driver's command back.
RunningReports == <>[]Connected => <>[]Reporting
==============================================================================
