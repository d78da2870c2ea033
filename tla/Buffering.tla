------------------------------- MODULE Buffering -------------------------------
(***************************************************************************)
(* The buffers in which ltr_gui shows the images of the camera             *)
(* (qt_gui/buffering.cpp): the master thread fills one while the thread of *)
(* the windows shows another (tracker.cpp, ltr_show.cpp).                  *)
(*                                                                         *)
(* The calls of the class are made under its lock, except init(), which a  *)
(* start makes before it starts the master thread - or finds it running,   *)
(* when the button was pressed twice.  The buffers are allocated anew when *)
(* the first image of a run has another size.  A buffer holds the number   *)
(* of the image, or Torn while it is drawn.                                *)
(***************************************************************************)
EXTENDS Integers

CONSTANTS
  noBuffers,    \* buffers
  Resolutions,  \* sizes of the images
  MaxShots,     \* bound: images taken
  MaxRuns       \* bound: starts of the master thread

BuffersAssumption ==
  /\ noBuffers \in Nat /\ noBuffers >= 3 /\ Resolutions # {}
  /\ MaxShots \in Nat /\ MaxRuns \in Nat

BufferIds == 0 .. noBuffers - 1
None == -1
Torn == 0

VARIABLES
  current, writeChecked, readChecked,
  buffers,     \* the size and the image of each buffer
  initBuffers, \* initBuffers of tracker.cpp
  resolution,  \* the size in the preferences
  initing,     \* what init() of the window has still to set
  master,      \* what the master thread does, and the size of its images
  target,      \* frame->bitmap
  shots,       \* images taken
  runs,        \* starts of the master thread
  viewer,      \* what the thread of the windows does
  lost         \* history: a buffer was freed, or drawn beyond its end, in use

bufVars == <<current, writeChecked, readChecked, buffers, initBuffers, resolution, initing,
             master, target, shots, runs, viewer, lost>>

TypeOK ==
  /\ {current, writeChecked, readChecked, target} \subseteq BufferIds \cup {None}
  /\ buffers \in [BufferIds -> [size : Resolutions \cup {0}, shot : 0 .. MaxShots]]
  /\ initBuffers \in BOOLEAN /\ resolution \in Resolutions
  /\ initing \subseteq {"read", "write", "current"}
  /\ master \in [at : {"ended", "draw", "resize", "written", "write"}, size : Resolutions \cup {0}]
  /\ shots \in 0 .. MaxShots /\ runs \in 0 .. MaxRuns
  /\ viewer \in {"idle", "init", "start", "show", "stop"}
  /\ lost \in BOOLEAN

Init ==
  /\ current = None /\ writeChecked = None /\ readChecked = None
  /\ buffers = [b \in BufferIds |-> [size |-> 0, shot |-> Torn]]
  /\ initBuffers = TRUE /\ initing = {}
  /\ resolution = CHOOSE s \in Resolutions : TRUE
  /\ master = [at |-> "ended", size |-> 0]
  /\ target = None /\ shots = 0 /\ runs = 0
  /\ viewer = "idle" /\ lost = FALSE

------------------------------------------------------------------------------
(* The thread of the windows.                                              *)

\* Seeded fault: the buffers of the run before stay checked out.
StartKeepsBuffers ==
  /\ viewer = "idle" /\ runs < MaxRuns
  /\ viewer' = "start" /\ initBuffers' = TRUE
  /\ UNCHANGED <<current, writeChecked, readChecked, buffers, resolution, initing, master, target,
                 shots, runs, lost>>

\* Tracker::start: the buffers are to be set up anew ...
Start ==
  /\ viewer = "idle" /\ runs < MaxRuns
  /\ viewer' = "init" /\ initBuffers' = TRUE
  /\ initing' = {"read", "write", "current"}
  /\ UNCHANGED <<current, writeChecked, readChecked, buffers, resolution, master, target, shots,
                 runs, lost>>

\* ... which init() does without the lock, in this order ...
InitBuffers ==
  /\ viewer = "init"
  /\ \/ /\ "read" \in initing
        /\ readChecked' = None /\ initing' = initing \ {"read"}
        /\ UNCHANGED <<current, writeChecked, viewer>>
     \/ /\ initing = {"write", "current"}
        /\ writeChecked' = None /\ initing' = {"current"}
        /\ UNCHANGED <<current, readChecked, viewer>>
     \/ /\ initing = {"current"}
        /\ current' = None /\ initing' = {} /\ viewer' = "start"
        /\ UNCHANGED <<readChecked, writeChecked>>
  /\ UNCHANGED <<buffers, initBuffers, resolution, master, target, shots, runs, lost>>

\* ... and the master thread started, if it does not run.
StartMaster ==
  /\ viewer = "start"
  /\ viewer' = "idle" /\ runs' = runs + 1
  /\ IF master.at = "ended"
       THEN master' = [at |-> "draw", size |-> resolution] /\ target' = None
       ELSE UNCHANGED <<master, target>>
  /\ UNCHANGED <<current, writeChecked, readChecked, buffers, initBuffers, resolution, initing,
                 shots, lost>>

\* The user sets another resolution; the code assumes that this happens while
\* nothing is tracked (ltr_show.cpp:75).
ChangeResolution ==
  /\ viewer = "idle" /\ master.at = "ended"
  /\ resolution' \in Resolutions \ {resolution}
  /\ UNCHANGED <<current, writeChecked, readChecked, buffers, initBuffers, initing,
                 master, target, shots, runs, viewer, lost>>

\* Tracker::stop waits for the master thread.
Stop ==
  /\ viewer = "idle" /\ master.at # "ended"
  /\ viewer' = "stop"
  /\ UNCHANGED <<current, writeChecked, readChecked, buffers, initBuffers, resolution, initing,
                 master, target, shots, runs, lost>>

Stopped ==
  /\ viewer = "stop" /\ master.at = "ended"
  /\ viewer' = "idle"
  /\ UNCHANGED <<current, writeChecked, readChecked, buffers, initBuffers, resolution, initing,
                 master, target, shots, runs, lost>>

\* CameraView::redraw: readBuffer ...
Redraw ==
  /\ viewer = "idle" /\ readChecked = None /\ current # None
  /\ readChecked' = current /\ viewer' = "show"
  /\ UNCHANGED <<current, writeChecked, buffers, initBuffers, resolution, initing, master, target,
                 shots, runs, lost>>

\* ... and bufferRead, after the image was shown.
Redrawn ==
  /\ viewer = "show"
  /\ readChecked' = None /\ viewer' = "idle"
  /\ UNCHANGED <<current, writeChecked, buffers, initBuffers, resolution, initing, master, target,
                 shots, runs, lost>>

------------------------------------------------------------------------------
(* The master thread: the driver draws into frame->bitmap, and             *)
(* ltr_int_new_frame is called.                                            *)

Draw ==
  /\ master.at = "draw" /\ shots < MaxShots
  /\ shots' = shots + 1
  /\ master' = [master EXCEPT !.at = "resize"]
  /\ IF target = None THEN UNCHANGED <<buffers, lost>>
     ELSE /\ buffers' = [buffers EXCEPT ![target].shot = shots + 1]
          /\ lost' = (lost \/ buffers[target].size # master.size)
  /\ UNCHANGED <<current, writeChecked, readChecked, initBuffers, resolution, initing, target, runs,
                 viewer>>

\* resizeBuffers frees the buffers of another size.
Resize ==
  /\ master.at = "resize"
  /\ master' = [master EXCEPT !.at = "written"]
  /\ initBuffers' = FALSE
  /\ buffers' = [b \in BufferIds |->
       IF initBuffers /\ buffers[b].size # master.size
         THEN [size |-> master.size, shot |-> Torn] ELSE buffers[b]]
  /\ lost' = (lost \/ (/\ readChecked # None
                     /\ buffers'[readChecked].size # buffers[readChecked].size))
  /\ UNCHANGED <<current, writeChecked, readChecked, resolution, initing, target, shots, runs, viewer>>

\* bufferWritten
BufferWritten ==
  /\ master.at = "written"
  /\ master' = [master EXCEPT !.at = "write"]
  /\ IF target # None /\ writeChecked # None
       THEN current' = writeChecked /\ writeChecked' = None
       ELSE UNCHANGED <<current, writeChecked>>
  /\ UNCHANGED <<readChecked, buffers, initBuffers, resolution, initing, target, shots, runs, viewer,
                 lost>>

\* How far after the current one the buffers are that are not shown.
Free(c) == {i \in 1 .. noBuffers - 1 : (c + i) % noBuffers # readChecked}

\* The first of them.
NextFree(c) == (c + (CHOOSE i \in Free(c) : \A o \in Free(c) : i <= o)) % noBuffers

\* writeBuffer: another buffer is wiped and drawn into.
WriteBuffer ==
  /\ master.at = "write"
  /\ master' = [master EXCEPT !.at = "draw"]
  /\ IF writeChecked # None
       THEN target' = None /\ UNCHANGED <<writeChecked, buffers>>
       ELSE /\ writeChecked' = NextFree(current)
            /\ target' = NextFree(current)
            /\ buffers' = [buffers EXCEPT ![NextFree(current)].shot = Torn]
  /\ UNCHANGED <<current, readChecked, initBuffers, resolution, initing, shots, runs, viewer, lost>>

\* The tracking ends.
MasterEnds ==
  /\ master.at = "draw"
  /\ master' = [at |-> "ended", size |-> 0] /\ target' = None
  /\ UNCHANGED <<current, writeChecked, readChecked, buffers, initBuffers, resolution, initing,
                 shots, runs, viewer, lost>>

BufNext ==
  \/ Start \/ InitBuffers \/ StartMaster \/ ChangeResolution \/ Stop \/ Stopped \/ Redraw \/ Redrawn
  \/ Draw \/ Resize \/ BufferWritten \/ WriteBuffer \/ MasterEnds

Spec == Init /\ [][BufNext]_bufVars

------------------------------------------------------------------------------
(* Properties.                                                             *)

\* The image on show is complete and stays so; no buffer is freed while it is
\* shown or drawn beyond its end, whatever the sizes of the runs and although
\* init() takes no lock.
ShownIsWhole ==
  /\ ~lost
  /\ viewer = "show" => /\ buffers[readChecked].shot # Torn
                        /\ master.at = "draw" => readChecked # target
==============================================================================
