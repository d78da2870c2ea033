---------------------------- MODULE FrameExchange ----------------------------
(***************************************************************************)
(* The file of camera images a master shares with the clients that asked   *)
(* for them: publish_frame of ltlib_int.c writes, ltr_get_frame of         *)
(* ltlib.c, in another process, reads, and no lock is between them.        *)
(*                                                                         *)
(* The file has room for FRAME_BUFFERS images and a flag that tells which  *)
(* one to read.  The driver draws the next image into the buffer after     *)
(* that one.  Images are copied, wiped and drawn in parts; a part holds    *)
(* the number of the frame it belongs to, or Blank.  The size of the       *)
(* images does not change (a change maps the file anew).                   *)
(***************************************************************************)
EXTENDS Naturals

CONSTANTS
  FRAME_BUFFERS,
  NoBuffer,  \* frame->bitmap == NULL
  Parts,     \* the parts of an image
  MaxFrames  \* bound: frames the camera takes

ASSUME BuffersAssumption == FRAME_BUFFERS \in Nat /\ FRAME_BUFFERS >= 2
ASSUME FramesAssumption  == MaxFrames \in Nat

Buffers == 0 .. FRAME_BUFFERS - 1
Blank   == 0

ASSUME NoBufferAssumption == NoBuffer \notin Buffers

VARIABLES
  buffer,   \* the images of the file
  flag,     \* the buffer to read
  bitmap,   \* frame->bitmap, the buffer to draw into
  writer,   \* what the device thread does
  unwiped,  \* the parts its memset has not come to
  frames,   \* how many frames were taken
  shown,    \* history: the frame the flag points to
  reader,   \* what the client does
  current,  \* the flag it has read
  uncopied, \* the parts its memcpy has not come to
  copy,     \* the buffer of the client
  wanted,   \* history: the frame shown when the flag was read
  passed,   \* history: frames published since then
  restarted \* history: the tracking began anew meanwhile

file      == <<buffer, flag, bitmap, shown>>
writing   == <<writer, unwiped, frames>>
reading   == <<reader, current, uncopied, copy, wanted>>
histories == <<passed, restarted>>
vars      == <<file, writing, reading, histories>>

TypeOK ==
  /\ buffer \in [Buffers -> [Parts -> 0 .. MaxFrames]]
  /\ flag \in Buffers
  /\ bitmap \in Buffers \cup {NoBuffer}
  /\ writer \in {"draw", "first", "wipe"}
  /\ unwiped \subseteq Parts
  /\ frames \in 0 .. MaxFrames
  /\ shown \in 0 .. MaxFrames
  /\ reader \in {"idle", "copy", "done"}
  /\ current \in Buffers
  /\ uncopied \subseteq Parts
  /\ copy \in [Parts -> 0 .. MaxFrames]
  /\ wanted \in 0 .. MaxFrames
  /\ passed \in 0 .. FRAME_BUFFERS
  /\ restarted \in BOOLEAN

Init ==
  /\ buffer = [b \in Buffers |-> [p \in Parts |-> Blank]]
  /\ flag = 0
  /\ bitmap = NoBuffer
  /\ writer = "draw"
  /\ unwiped = {}
  /\ frames = 0
  /\ shown = Blank
  /\ reader = "idle"
  /\ current = 0
  /\ uncopied = {}
  /\ copy = [p \in Parts |-> Blank]
  /\ wanted = Blank
  /\ passed = 0
  /\ restarted = FALSE

------------------------------------------------------------------------------
(* The master.                                                             *)

\* Seeded fault: the index does not wrap around.
NextUnbounded(b) == b + 1

\* inc_frame_index
NextBuffer(b) == IF b + 1 = FRAME_BUFFERS THEN 0 ELSE b + 1

Put(b, p, n) == buffer' = [buffer EXCEPT ![b] = [@ EXCEPT ![p] = n]]

\* The driver draws a part of the frame it is taking.
Draw(p) ==
  /\ writer = "draw" /\ bitmap # NoBuffer
  /\ frames < MaxFrames
  /\ Put(bitmap, p, frames + 1)
  /\ UNCHANGED <<flag, bitmap, shown, writing, reading, histories>>

\* The histories of a copy that is under way.
Passed == passed' = IF passed < FRAME_BUFFERS THEN passed + 1 ELSE passed

\* Seeded fault: the buffer shown before is drawn into, as with two buffers.
PublishAndSwap ==
  /\ writer = "draw" /\ bitmap # NoBuffer
  /\ frames < MaxFrames
  /\ \A p \in Parts : buffer[bitmap][p] = frames + 1
  /\ frames' = frames + 1
  /\ shown' = frames + 1
  /\ flag' = NextBuffer(flag)
  /\ bitmap' = flag
  /\ writer' = "wipe" /\ unwiped' = Parts
  /\ Passed
  /\ UNCHANGED <<buffer, reading, restarted>>

\* publish_frame: the frame is drawn; the flag is set to it and the buffer
\* after it wiped for the next one.
Publish ==
  /\ writer = "draw" /\ bitmap # NoBuffer
  /\ frames < MaxFrames
  /\ \A p \in Parts : buffer[bitmap][p] = frames + 1
  /\ frames' = frames + 1
  /\ shown' = frames + 1
  /\ flag' = NextBuffer(flag)
  /\ bitmap' = NextBuffer(NextBuffer(flag))
  /\ writer' = "wipe" /\ unwiped' = Parts
  /\ Passed
  /\ UNCHANGED <<buffer, reading, restarted>>

\* publish_frame with the first frame, which was drawn nowhere: the flag is
\* set to the first buffer and that one wiped, and then the second.
PublishFirst ==
  /\ writer = "draw" /\ bitmap = NoBuffer
  /\ frames < MaxFrames
  /\ frames' = frames + 1
  /\ shown' = Blank
  /\ flag' = 0
  /\ bitmap' = 1
  /\ writer' = "first" /\ unwiped' = Parts
  /\ restarted' = TRUE
  /\ UNCHANGED <<buffer, reading, passed>>

\* memset, a part at a time.
Wipe(p) ==
  /\ writer \in {"first", "wipe"} /\ p \in unwiped
  /\ Put(IF writer = "first" THEN flag ELSE bitmap, p, Blank)
  /\ unwiped' = unwiped \ {p}
  /\ UNCHANGED <<flag, bitmap, shown, writer, frames, reading, histories>>

Wiped ==
  /\ writer \in {"first", "wipe"} /\ unwiped = {}
  /\ IF writer = "first"
       THEN writer' = "wipe" /\ unwiped' = Parts
       ELSE writer' = "draw" /\ UNCHANGED unwiped
  /\ UNCHANGED <<file, frames, reading, histories>>

\* ltr_int_rl_run begins anew, without a bitmap.
Restart ==
  /\ writer = "draw" /\ bitmap # NoBuffer
  /\ bitmap' = NoBuffer
  /\ UNCHANGED <<buffer, flag, shown, writing, reading, histories>>

------------------------------------------------------------------------------
(* A client.                                                               *)

\* ltr_get_frame reads the flag and finds the buffer by it.
ReadFlag ==
  /\ reader # "copy"
  /\ reader' = "copy"
  /\ current' = flag
  /\ uncopied' = Parts
  /\ wanted' = shown
  /\ passed' = 0
  /\ restarted' = (writer = "first")
  /\ UNCHANGED <<file, writing, copy>>

\* memcpy, a part at a time.
Copy(p) ==
  /\ reader = "copy" /\ p \in uncopied
  /\ copy' = [copy EXCEPT ![p] = buffer[current][p]]
  /\ uncopied' = uncopied \ {p}
  /\ UNCHANGED <<file, writing, reader, current, wanted, histories>>

Copied ==
  /\ reader = "copy" /\ uncopied = {}
  /\ reader' = "done"
  /\ UNCHANGED <<file, writing, current, uncopied, copy, wanted, histories>>

Next ==
  \/ \E p \in Parts : Draw(p) \/ Wipe(p) \/ Copy(p)
  \/ Publish \/ PublishFirst \/ Wiped \/ Restart
  \/ ReadFlag \/ Copied

Spec == Init /\ [][Next]_vars

------------------------------------------------------------------------------
(* Properties.                                                             *)

\* A client that is slow, but not so slow that FRAME_BUFFERS - 1 frames are
\* published while it copies, gets every part of the frame the flag showed
\* it, although nothing keeps the master from writing meanwhile.
CopyIsWhole ==
  reader = "done" /\ passed <= FRAME_BUFFERS - 2 /\ ~restarted =>
    \A p \in Parts : copy[p] = wanted
==============================================================================
