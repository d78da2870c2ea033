------------------------------ MODULE TirPackets -------------------------------
(***************************************************************************)
(* The driver's reader of the packets of a TrackIR or SmartNav (tir_img.c, *)
(* with tir_driver.c and the requests of cal.c): stripes are taken out of  *)
(* the packets of a transfer until a frame is complete, and what is left   *)
(* of the transfer, of the packet and of the stripes is kept for the next  *)
(* call, across a pause, too.                                              *)
(*                                                                         *)
(* A stripe is the scan of the camera it is of and its line; how its ends  *)
(* are packed into bytes is left out. A packet of a TrackIR 2 or 4 is      *)
(* words: stripes, and line 0 for the end of the scan. One of a TrackIR 5  *)
(* or a SmartNav 4 has all stripes of a scan.                              *)
(***************************************************************************)
EXTENDS Integers, Sequences

CONSTANTS
  Lines,      \* bound: the last line of the picture
  MaxScans,   \* bound: scans of the camera
  MaxPauses   \* bound: requests to pause

PacketAssumption == Lines \in Nat \ {0} /\ MaxScans \in Nat /\ MaxPauses \in Nat

PacketFamilies == {"words", "tir5", "sn4"}

VARIABLES
  family,      \* the packets of this device
  scanner,     \* the camera: scan, line it is at, and whether it sends
  transfer,    \* ltr_int_packet from ptr on: packets, and words of the first
  packetType,  \* type of process_packet: a packet is open, or -1
  currentLine, \* current_line
  collected,   \* the stripes that were added since the last frame
  blobList,    \* the stripes the blobs of the frame were made from
  readState,   \* where ltr_int_read_blobs_tir is
  newRequest,  \* new_request_received
  buttons,     \* prev_btns, which is what went to the pipe last
  cut,         \* history: scans the camera was stopped in
  pauses

packetVars == <<family, scanner, transfer, packetType, currentLine, collected,
                blobList, readState, newRequest, buttons, cut, pauses>>

Scans == 1 .. MaxScans
Word == [scan : Scans, line : 0 .. Lines]

TypeOK ==
  /\ family \in PacketFamilies
  /\ scanner \in [scan : 1 .. MaxScans + 1, line : 0 .. Lines, on : BOOLEAN]
  /\ \A i \in DOMAIN transfer :
       /\ transfer[i].kind \in {"info", "unknown", "short", "gray", "bad"} \cup PacketFamilies
       /\ \A j \in DOMAIN transfer[i].words : transfer[i].words[j] \in Word
  /\ packetType \in {"none", "open"}
  /\ currentLine \in 0 .. Lines
  /\ collected \subseteq Word /\ blobList \subseteq Word
  /\ readState \in {"run", "packets", "request", "paused", "failed"}
  /\ newRequest \in BOOLEAN
  /\ buttons \in 0 .. 3 /\ cut \subseteq Scans /\ pauses \in 0 .. MaxPauses

Init ==
  /\ family \in PacketFamilies
  /\ scanner = [scan |-> 1, line |-> 0, on |-> TRUE]
  /\ transfer = <<>> /\ packetType = "none" /\ currentLine = 0
  /\ collected = {} /\ blobList = {}
  /\ readState = "run" /\ newRequest = FALSE
  /\ buttons = 3 /\ cut = {} /\ pauses = 0

------------------------------------------------------------------------------
(* What the device sends.                                                  *)

\* The next line with a stripe, the end of the scan, or, where the end was not
\* sent, a line of the next scan above the last one
NextWords(s) ==
  {[scan |-> s.scan, line |-> l] : l \in {0} \cup s.line + 1 .. Lines}
  \cup {[scan |-> s.scan + 1, line |-> l] : l \in 1 .. s.line - 1}
After(s, w) == IF w.line = 0 THEN [s EXCEPT !.scan = @ + 1, !.line = 0]
               ELSE [s EXCEPT !.scan = w.scan, !.line = w.line]

Packet(kind, words) == [kind |-> kind, words |-> words, btns |-> buttons]

\* The packets a device can send next, each with the state it leaves it in
Sent ==
  LET whole == {<<>>, <<[scan |-> scanner.scan, line |-> 1]>>,
                <<[scan |-> scanner.scan, line |-> 1], [scan |-> scanner.scan, line |-> Lines]>>}
      done  == [scanner EXCEPT !.scan = @ + 1]
  IN  CASE family = "words" ->
             UNION {LET s == After(scanner, w)
                    IN  {<<Packet("words", <<w>>), s>>}
                        \cup {<<Packet("words", <<w, v>>), After(s, v)>> : v \in NextWords(s)} :
                    w \in NextWords(scanner)}
        [] family = "tir5" ->
             {<<Packet(k, s), done>> : k \in {"tir5", "gray", "bad"}, s \in whole}
        [] family = "sn4" ->
             {<<[Packet(k, s) EXCEPT !.btns = b], done>> :
                k \in {"sn4", "bad"}, s \in whole, b \in {1, 3}}

------------------------------------------------------------------------------
(* The reader.                                                             *)

\* ltr_int_receive_data at the end of a transfer; nothing may come for a
\* second, or the device is gone. A packet may be preceded by information that
\* was asked for earlier.
Receive ==
  /\ readState = "packets" /\ transfer = <<>>
  /\ \/ /\ scanner.on /\ scanner.scan <= MaxScans
        /\ \E s \in Sent :
             /\ \A i \in DOMAIN s[1].words : s[1].words[i].scan <= MaxScans
             /\ transfer' \in {<<s[1]>>, <<Packet("info", <<>>), s[1]>>}
             /\ scanner' = s[2]
        /\ UNCHANGED readState
     \/ readState' = "request" /\ UNCHANGED <<transfer, scanner>>
     \/ readState' = "failed" /\ UNCHANGED <<transfer, scanner>>
  /\ UNCHANGED <<family, packetType, currentLine, collected, blobList, newRequest,
                 buttons, cut, pauses>>

\* A transfer of something else, or one that ends inside a packet
ReceiveOdd ==
  /\ readState = "packets" /\ transfer = <<>> /\ scanner.on
  /\ transfer' \in {<<Packet(k, <<>>)>> : k \in {"unknown", "short"}}
  /\ UNCHANGED <<family, scanner, packetType, currentLine, collected, blobList,
                 readState, newRequest, buttons, cut, pauses>>

\* ltr_int_stripes_to_blobs, with all stripes there are; the frame is handed over.
HaveFrame(stripes) ==
  /\ blobList' = stripes /\ collected' = {}
  /\ readState' = "run"

\* process_packet goes on with the transfer, or returns at its end.
GoOn(rest) ==
  /\ transfer' = rest
  /\ readState' = IF rest = <<>> THEN "request" ELSE "packets"

\* Seeded fault: process_packet tries on at a packet it cannot get past.
SkipPacketInLoop ==
  /\ readState = "packets" /\ transfer # <<>>
  /\ LET p == Head(transfer)
     IN  \/ /\ p.kind = "info" \/ (family = "tir5" /\ p.kind \in {"gray", "bad"})
               \/ (family = "sn4" /\ p.kind = "bad")
            /\ GoOn(Tail(transfer)) /\ UNCHANGED packetType
         \/ /\ p.kind = "unknown" /\ GoOn(<<>>) /\ UNCHANGED packetType
         \/ /\ p.kind = "short" /\ packetType' = "open"
            /\ UNCHANGED <<transfer, readState>>
  /\ UNCHANGED <<family, scanner, currentLine, collected, blobList, newRequest,
                 buttons, cut, pauses>>

\* Packets without stripes: status and information, raw pictures, and those with
\* a wrong checksum or size. What cannot be told is dropped with its transfer.
\* process_packet does not get past one that is longer than the transfer.
SkipPacket ==
  /\ readState = "packets" /\ transfer # <<>>
  /\ LET p == Head(transfer)
     IN  \/ /\ p.kind = "info" \/ (family = "tir5" /\ p.kind \in {"gray", "bad"})
               \/ (family = "sn4" /\ p.kind = "bad")
            /\ GoOn(Tail(transfer)) /\ UNCHANGED packetType
         \/ /\ p.kind = "unknown" /\ GoOn(<<>>) /\ UNCHANGED packetType
         \/ /\ p.kind = "short" /\ packetType' = "open"
            /\ readState' = "request" /\ UNCHANGED transfer
  /\ UNCHANGED <<family, scanner, currentLine, collected, blobList, newRequest,
                 buttons, cut, pauses>>

\* Seeded fault: a word of the next scan is taken into the frame.
WordOfScan(w) == w.line # 0

WordOfFrame(w) == w.line # 0 /\ w.line >= currentLine

\* A turn of the loop of process_packet_tir4 and process_packet_tir2: the end
\* of the scan, a stripe above the last one, which is left for the next frame,
\* or a stripe of this frame
ProcessWord ==
  /\ readState = "packets" /\ transfer # <<>> /\ Head(transfer).kind = "words"
  /\ LET p    == Head(transfer)
         w    == Head(p.words)
         rest == IF Len(p.words) = 1 THEN Tail(transfer)
                 ELSE <<[p EXCEPT !.words = Tail(@)]>> \o Tail(transfer)
     IN  /\ currentLine' = w.line
         /\ packetType' = IF Len(p.words) = 1 /\ (w.line = 0 \/ WordOfFrame(w))
                          THEN "none" ELSE "open"
         /\ \/ /\ w.line = 0
               /\ HaveFrame(collected) /\ transfer' = rest
            \/ /\ w.line # 0 /\ ~WordOfFrame(w)
               /\ HaveFrame(collected) /\ UNCHANGED transfer
            \/ /\ WordOfFrame(w)
               /\ collected' = collected \cup {w} /\ GoOn(rest)
               /\ UNCHANGED blobList
  /\ UNCHANGED <<family, scanner, newRequest, buttons, cut, pauses>>

\* process_packet_tir5, process_packet_sn4: the stripes of a whole scan. A
\* change of the buttons of a SmartNav is sent to its pipe first.
ProcessScan ==
  /\ readState = "packets" /\ transfer # <<>>
  /\ LET p == Head(transfer)
     IN  /\ p.kind \in {"tir5", "sn4"}
         /\ HaveFrame(collected \cup {p.words[i] : i \in DOMAIN p.words})
         /\ buttons' = IF p.kind = "sn4" /\ p.btns # buttons
                       THEN p.btns ELSE buttons
  /\ transfer' = Tail(transfer)
  /\ UNCHANGED <<family, scanner, packetType, currentLine, newRequest, cut, pauses>>

\* Without a frame the reader looks for a request; it leaves on one, and the
\* frame before is handed over again: ltr_int_tracker_get_frame says that it
\* acquired a frame in any case.
LookForRequest ==
  /\ readState = "request"
  /\ IF newRequest THEN readState' = "run"
                   ELSE readState' = "packets"
  /\ UNCHANGED <<family, scanner, transfer, packetType, currentLine, collected,
                 blobList, newRequest, buttons, cut, pauses>>

------------------------------------------------------------------------------
(* The loop of the device thread, and the other threads.                   *)

\* ltr_int_change_state
Request ==
  /\ pauses < MaxPauses /\ pauses' = pauses + 1
  /\ newRequest' = TRUE
  /\ UNCHANGED <<family, scanner, transfer, packetType, currentLine, collected,
                 blobList, readState, buttons, cut>>

\* The loop takes the request: a pause stops the camera within a scan; or it
\* asks for a frame.
NextTurn ==
  /\ readState = "run" /\ newRequest' = FALSE
  /\ \/ /\ newRequest /\ readState' = "paused"
        /\ scanner' = [scanner EXCEPT !.on = FALSE]
        /\ cut' = cut \cup ({scanner.scan} \cap Scans)
     \/ readState' = "packets" /\ UNCHANGED <<scanner, cut>>
  /\ UNCHANGED <<family, transfer, packetType, currentLine, collected, blobList,
                 buttons, pauses>>

\* ltr_int_resume_tir starts the camera with a new scan.
Resume ==
  /\ readState = "paused" /\ readState' = "run"
  /\ scanner' = [scan |-> IF scanner.scan > MaxScans THEN scanner.scan ELSE scanner.scan + 1,
                 line |-> 0, on |-> TRUE]
  /\ UNCHANGED <<family, transfer, packetType, currentLine, collected, blobList,
                 newRequest, buttons, cut, pauses>>

PacketNext ==
  \/ Receive \/ ReceiveOdd \/ SkipPacket \/ ProcessWord \/ ProcessScan
  \/ LookForRequest \/ Request \/ NextTurn \/ Resume

\* The device thread runs; the time-out of a read ends it when nothing comes.
ReaderStep == Receive \/ SkipPacket \/ ProcessWord \/ ProcessScan \/ LookForRequest

PacketFairness == WF_packetVars(ReaderStep) /\ WF_packetVars(NextTurn)

PacketSpec == Init /\ [][PacketNext]_packetVars /\ PacketFairness

------------------------------------------------------------------------------
\* The blobs of a frame come from one scan of the camera, unless it was paused
\* in an earlier one of those they come from: whether the end of a scan is a
\* word of its own or the next scan begins above (tir_img.c:359, 365), and
\* however its stripes are spread over packets, transfers and calls.
FrameIsOneScan ==
  \A s, t \in blobList : s.scan < t.scan => s.scan \in cut

RequestWaits  == newRequest
TakenOrFailed == ~newRequest \/ readState = "failed"

\* A request to the device is taken, or reading has failed, whatever the camera
\* sends and when it sends nothing: the reader leaves a packet it cannot get
\* past (tir_img.c:483), and the wait for a frame, to look for it (tir_img.c:556).
RequestTaken == RequestWaits ~> TakenOrFailed

================================================================================
