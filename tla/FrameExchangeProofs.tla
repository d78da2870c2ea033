------------------------- MODULE FrameExchangeProofs -------------------------
(***************************************************************************)
(* Proofs about FrameExchange, for any number of buffers from two on, any  *)
(* division of an image into parts and any number of frames.  The buffer   *)
(* drawn into is always the one after the flag; it comes round to the one  *)
(* a client copies from when FRAME_BUFFERS - 1 frames have passed.         *)
(***************************************************************************)
EXTENDS FrameExchange, TLAPS

\* The buffer drawn into is the one after the flag.
DrawnIsNext ==
  /\ bitmap # NoBuffer => bitmap = NextBuffer(flag)
  /\ writer # "draw" => bitmap # NoBuffer

\* The buffer the flag points to has the frame it shows, but while the first
\* buffer is wiped: then it has it where the wiping has been.
ShownIsWhole ==
  /\ writer = "first" => shown = Blank
  /\ \A p \in Parts :
       (writer = "first" /\ p \in unwiped) \/ buffer[flag][p] = shown

\* A client that nothing has overtaken.
Safe == reader # "idle" /\ passed <= FRAME_BUFFERS - 2 /\ ~restarted

\* The flag is as many buffers further as frames have passed.
FlagIsAhead ==
  reader = "copy" /\ Safe =>
    /\ writer # "first"
    /\ flag = current + passed \/ flag = current + passed - FRAME_BUFFERS

\* Its buffer still has the frame it wants.
SourceIsWhole ==
  reader = "copy" /\ Safe => \A p \in Parts : buffer[current][p] = wanted

CopyIsRight ==
  Safe => \A p \in Parts : p \in uncopied \/ copy[p] = wanted

IInv ==
  /\ TypeOK
  /\ DrawnIsNext
  /\ ShownIsWhole
  /\ FlagIsAhead
  /\ SourceIsWhole
  /\ CopyIsRight
  /\ reader = "done" => uncopied = {}

------------------------------------------------------------------------------

\* The next buffer is another one.
LEMMA NextIsABuffer ==
  ASSUME NEW b \in Buffers
  PROVE  NextBuffer(b) \in Buffers /\ NextBuffer(b) # b /\ NextBuffer(b) # NoBuffer
BY BuffersAssumption, NoBufferAssumption DEF Buffers, NextBuffer

\* The buffer drawn into is neither the one shown nor the one copied.
LEMMA DrawnIsApart ==
  ASSUME IInv, bitmap # NoBuffer
  PROVE  /\ bitmap \in Buffers
         /\ bitmap # flag
         /\ reader = "copy" /\ Safe => bitmap # current
<1>1. bitmap = NextBuffer(flag) /\ flag \in Buffers /\ current \in Buffers
  BY DEF IInv, TypeOK, DrawnIsNext
<1>2. bitmap \in Buffers /\ bitmap # flag
  BY <1>1, NextIsABuffer
<1>3. reader = "copy" /\ Safe => bitmap # current
  BY <1>1, BuffersAssumption
     DEF IInv, TypeOK, FlagIsAhead, Safe, NextBuffer, Buffers
<1> QED
  BY <1>2, <1>3

\* What is put into a buffer leaves the others, and the rest of it, alone.
LEMMA PutOnePart ==
  ASSUME TypeOK, NEW b \in Buffers, NEW p \in Parts, NEW n \in 0 .. MaxFrames,
         Put(b, p, n)
  PROVE  /\ buffer' \in [Buffers -> [Parts -> 0 .. MaxFrames]]
         /\ \A c \in Buffers \ {b} : buffer'[c] = buffer[c]
         /\ \A q \in Parts : buffer'[b][q] = IF q = p THEN n ELSE buffer[b][q]
BY DEF Put, TypeOK

\* Parts put into the buffer that is drawn into disturb nobody.
LEMMA DrawnPartKeeps ==
  ASSUME IInv, bitmap # NoBuffer, NEW p \in Parts, NEW n \in 0 .. MaxFrames,
         Put(bitmap, p, n), unwiped' \subseteq unwiped, writer # "first",
         UNCHANGED <<flag, bitmap, shown, writer, frames, reading, histories>>
  PROVE  IInv'
<1> USE DEF reading, histories
<1>1. /\ buffer' \in [Buffers -> [Parts -> 0 .. MaxFrames]]
      /\ \A c \in Buffers \ {bitmap} : buffer'[c] = buffer[c]
  BY PutOnePart, DrawnIsApart DEF IInv
<1>2. buffer'[flag] = buffer[flag]
  BY <1>1, DrawnIsApart DEF IInv, TypeOK
<1>3. reader = "copy" /\ Safe => buffer'[current] = buffer[current]
  BY <1>1, DrawnIsApart DEF IInv, TypeOK
<1>4. TypeOK'
  BY <1>1 DEF IInv, TypeOK
<1>5. ShownIsWhole'
  BY <1>2 DEF IInv, ShownIsWhole
<1>6. SourceIsWhole'
  BY <1>3 DEF IInv, SourceIsWhole, Safe
<1>7. DrawnIsNext' /\ FlagIsAhead' /\ CopyIsRight'
  BY DEF IInv, DrawnIsNext, NextBuffer, FlagIsAhead, CopyIsRight, Safe
<1> QED
  BY <1>4, <1>5, <1>6, <1>7 DEF IInv

\* A part of a picture is drawn.
LEMMA DrawKeeps ==
  ASSUME IInv, NEW p \in Parts, Draw(p)
  PROVE  IInv'
<1>1. frames + 1 \in 0 .. MaxFrames
  BY FramesAssumption DEF Draw, IInv, TypeOK
<1> QED
  BY <1>1, DrawnPartKeeps DEF Draw, writing

\* A part is wiped before the next picture.
LEMMA WipeKeeps ==
  ASSUME IInv, NEW p \in Parts, Wipe(p)
  PROVE  IInv'
<1>1. Blank \in 0 .. MaxFrames
  BY FramesAssumption DEF Blank
<1>2. CASE writer = "wipe"
  <2>1. bitmap # NoBuffer
    BY <1>2 DEF IInv, DrawnIsNext
  <2> QED
    BY <1>1, <1>2, <2>1, DrawnPartKeeps DEF Wipe
<1>3. CASE writer = "first"
  <2> USE DEF reading, histories
  <2>1. /\ buffer' \in [Buffers -> [Parts -> 0 .. MaxFrames]]
        /\ \A q \in Parts :
             buffer'[flag][q] = IF q = p THEN Blank ELSE buffer[flag][q]
    BY <1>1, <1>3, PutOnePart DEF Wipe, IInv, TypeOK
  <2>2. TypeOK'
    BY <2>1 DEF Wipe, IInv, TypeOK
  <2>3. ShownIsWhole'
    BY <1>3, <2>1 DEF Wipe, IInv, ShownIsWhole
  <2>4. ~ (reader = "copy" /\ Safe)
    BY <1>3 DEF IInv, FlagIsAhead
  <2>5. DrawnIsNext' /\ FlagIsAhead' /\ SourceIsWhole' /\ CopyIsRight'
    BY <2>4 DEF Wipe, IInv, DrawnIsNext, NextBuffer, FlagIsAhead, SourceIsWhole,
                CopyIsRight, Safe
  <2> QED
    BY <2>2, <2>3, <2>5 DEF Wipe, IInv
<1> QED
  BY <1>2, <1>3 DEF Wipe

\* The flag goes on to the buffer that was drawn.
LEMMA PublishKeeps ==
  ASSUME IInv, Publish
  PROVE  IInv'
<1> USE DEF reading
<1>1. bitmap \in Buffers /\ bitmap = NextBuffer(flag) /\ flag' = bitmap
  BY DrawnIsApart DEF Publish, IInv, DrawnIsNext
<1>2. flag' \in Buffers /\ bitmap' = NextBuffer(flag') /\ bitmap' \in Buffers
  BY <1>1, NextIsABuffer DEF Publish
<1>3. frames + 1 \in 0 .. MaxFrames
  BY FramesAssumption DEF Publish, IInv, TypeOK
<1>4. passed' \in 0 .. FRAME_BUFFERS
  BY BuffersAssumption DEF Publish, Passed, IInv, TypeOK
<1>5. Safe' => Safe /\ passed' = passed + 1
  BY BuffersAssumption DEF Publish, Passed, Safe, IInv, TypeOK
<1>6. TypeOK'
  BY <1>2, <1>3, <1>4 DEF Publish, IInv, TypeOK
<1>7. DrawnIsNext'
  BY <1>2, NextIsABuffer DEF DrawnIsNext, NextBuffer
<1>8. ShownIsWhole'
  BY <1>1 DEF Publish, ShownIsWhole
<1>9. FlagIsAhead'
  <2> SUFFICES ASSUME reader = "copy", Safe'
               PROVE  \/ flag' = current + passed'
                      \/ flag' = current + passed' - FRAME_BUFFERS
    BY DEF FlagIsAhead, Publish
  <2>1. \/ flag = current + passed
        \/ flag = current + passed - FRAME_BUFFERS
    BY <1>5 DEF IInv, FlagIsAhead
  <2>2. passed' = passed + 1 /\ passed \in Nat /\ current \in Nat /\ flag \in Nat
    BY <1>5, BuffersAssumption DEF IInv, TypeOK, Buffers
  <2>3. flag < FRAME_BUFFERS /\ passed <= FRAME_BUFFERS /\ current < FRAME_BUFFERS
    BY BuffersAssumption DEF IInv, TypeOK, Buffers
  <2>4. passed + 1 <= FRAME_BUFFERS - 2
    BY <1>5 DEF Safe
  <2>5. flag' = IF flag + 1 = FRAME_BUFFERS THEN 0 ELSE flag + 1
    BY <1>1 DEF NextBuffer
  <2>6. CASE flag + 1 = FRAME_BUFFERS
    BY <2>1, <2>2, <2>3, <2>4, <2>5, <2>6, BuffersAssumption
  <2>7. CASE flag + 1 # FRAME_BUFFERS
    BY <2>1, <2>2, <2>3, <2>4, <2>5, <2>7, BuffersAssumption
  <2> QED
    BY <2>6, <2>7
<1>10. SourceIsWhole' /\ CopyIsRight'
  BY <1>5 DEF Publish, IInv, SourceIsWhole, CopyIsRight, Safe
<1> QED
  BY <1>6, <1>7, <1>8, <1>9, <1>10 DEF IInv, Publish

\* The first frame, which was drawn nowhere, is published.
LEMMA PublishFirstKeeps ==
  ASSUME IInv, PublishFirst
  PROVE  IInv'
<1> USE DEF reading
<1>2. 0 \in Buffers /\ 1 \in Buffers /\ NextBuffer(0) = 1
  BY BuffersAssumption DEF Buffers, NextBuffer
<1>3. frames + 1 \in 0 .. MaxFrames /\ Blank \in 0 .. MaxFrames
  BY FramesAssumption DEF PublishFirst, IInv, TypeOK, Blank
<1>4. TypeOK'
  BY <1>2, <1>3 DEF PublishFirst, IInv, TypeOK
<1>5. DrawnIsNext'
  BY <1>2, NextIsABuffer DEF PublishFirst, DrawnIsNext, NextBuffer
<1>6. ShownIsWhole'
  BY DEF PublishFirst, ShownIsWhole
<1>7. FlagIsAhead' /\ SourceIsWhole' /\ CopyIsRight'
  BY DEF PublishFirst, FlagIsAhead, SourceIsWhole, CopyIsRight, Safe
<1> QED
  BY <1>4, <1>5, <1>6, <1>7 DEF IInv, PublishFirst

\* All parts are wiped.
LEMMA WipedKeeps ==
  ASSUME IInv, Wiped
  PROVE  IInv'
BY DEF Wiped, file, reading, histories, IInv, TypeOK, DrawnIsNext, NextBuffer,
       ShownIsWhole, FlagIsAhead, SourceIsWhole, CopyIsRight, Safe

\* The loop begins anew, without a bitmap.
LEMMA RestartKeeps ==
  ASSUME IInv, Restart
  PROVE  IInv'
BY DEF Restart, writing, reading, histories, IInv, TypeOK, DrawnIsNext,
       NextBuffer, ShownIsWhole, FlagIsAhead, SourceIsWhole, CopyIsRight, Safe

\* At the moment the flag is read no frame has gone by.
LEMMA NoFrameIsPassed ==
  ASSUME NEW f \in Nat, NEW c, NEW n, c = f, n = 0
  PROVE  f = c + n
OBVIOUS

\* The client reads the flag.
LEMMA ReadFlagKeeps ==
  ASSUME IInv, ReadFlag
  PROVE  IInv'
<1> USE DEF file, writing
<1>1. TypeOK'
  BY BuffersAssumption DEF ReadFlag, IInv, TypeOK
<1>2. current' = flag'
  BY DEF ReadFlag
<1>3. passed' = 0
  BY DEF ReadFlag
<1>4. wanted' = shown' /\ uncopied' = Parts /\ reader' = "copy"
  BY DEF ReadFlag
<1>5. ~restarted' => writer' # "first"
  BY DEF ReadFlag
<1>6. flag' \in Nat /\ current' \in Nat
  BY <1>1, BuffersAssumption DEF TypeOK, Buffers
<1>7. flag' = current' + passed'
  BY <1>2, <1>3, <1>6, NoFrameIsPassed
<1>8. FlagIsAhead'
  BY <1>5, <1>7 DEF FlagIsAhead, Safe
<1>9. DrawnIsNext' /\ ShownIsWhole'
  BY DEF ReadFlag, IInv, DrawnIsNext, NextBuffer, ShownIsWhole
<1>10. SourceIsWhole'
  BY <1>2, <1>4, <1>5, <1>9 DEF SourceIsWhole, ShownIsWhole, Safe
<1>11. CopyIsRight'
  BY <1>4 DEF CopyIsRight
<1> QED
  BY <1>1, <1>4, <1>8, <1>9, <1>10, <1>11 DEF IInv

\* The client copies a part, or has copied all.
LEMMA CopyKeeps ==
  ASSUME IInv, Copied \/ \E p \in Parts : Copy(p)
  PROVE  IInv'
<1> USE DEF file, writing, histories, IInv, TypeOK, DrawnIsNext, NextBuffer,
            ShownIsWhole, FlagIsAhead, SourceIsWhole, CopyIsRight, Safe
<1>1. CASE \E p \in Parts : Copy(p)
  BY <1>1 DEF Copy
<1>2. CASE Copied
  BY <1>2 DEF Copied
<1> QED
  BY <1>1, <1>2

\* The invariant holds in every state.
THEOREM Invariance == Spec => []IInv
<1>1. Init => IInv
  <2> SUFFICES ASSUME Init
               PROVE  IInv
    OBVIOUS
  <2>1. 0 \in Buffers /\ 0 \in 0 .. MaxFrames /\ 0 \in 0 .. FRAME_BUFFERS
    BY BuffersAssumption, FramesAssumption DEF Buffers
  <2>2. TypeOK
    BY <2>1 DEF Init, TypeOK, Blank
  <2>3. ShownIsWhole
    BY <2>1 DEF Init, ShownIsWhole
  <2>4. DrawnIsNext /\ FlagIsAhead /\ SourceIsWhole /\ CopyIsRight
    BY DEF Init, DrawnIsNext, FlagIsAhead, SourceIsWhole, CopyIsRight, Safe
  <2> QED
    BY <2>2, <2>3, <2>4 DEF Init, IInv
<1>2. IInv /\ [Next]_vars => IInv'
  <2> SUFFICES ASSUME IInv, [Next]_vars
               PROVE  IInv'
    OBVIOUS
  <2>1. CASE \E p \in Parts : Draw(p)
    BY <2>1, DrawKeeps
  <2>2. CASE \E p \in Parts : Wipe(p)
    BY <2>2, WipeKeeps
  <2>3. CASE Publish
    BY <2>3, PublishKeeps
  <2>4. CASE PublishFirst
    BY <2>4, PublishFirstKeeps
  <2>5. CASE Wiped
    BY <2>5, WipedKeeps
  <2>6. CASE Restart
    BY <2>6, RestartKeeps
  <2>7. CASE ReadFlag \/ Copied \/ \E p \in Parts : Copy(p)
    BY <2>7, ReadFlagKeeps, CopyKeeps
  <2>8. CASE UNCHANGED vars
    BY <2>8
       DEF vars, file, writing, reading, histories, IInv, TypeOK, DrawnIsNext,
           NextBuffer, ShownIsWhole, FlagIsAhead, SourceIsWhole, CopyIsRight,
           Safe
  <2> QED
    BY <2>1, <2>2, <2>3, <2>4, <2>5, <2>6, <2>7, <2>8 DEF Next
<1> QED
  BY <1>1, <1>2, PTL DEF Spec

\* Every variable has its type: the indices of publish_frame stay within the
\* file.
THEOREM TypeCorrect == Spec => []TypeOK
<1>1. IInv => TypeOK
  BY DEF IInv
<1> QED
  BY <1>1, Invariance, PTL

\* What ltr_get_frame copies while fewer than FRAME_BUFFERS - 1 frames are
\* published is the one frame the flag showed it, whatever is written at the
\* same time and whichever way an image is divided.
THEOREM CopiesAreWhole == Spec => []CopyIsWhole
<1>1. IInv => CopyIsWhole
  BY DEF IInv, CopyIsRight, Safe, CopyIsWhole
<1> QED
  BY <1>1, Invariance, PTL
==============================================================================
