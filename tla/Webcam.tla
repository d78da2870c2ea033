------------------------------- MODULE Webcam -------------------------------
(***************************************************************************)
(* The V4L2 webcam driver (webcam_driver.c): the buffers it shares with    *)
(* the kernel.  The kernel fills the buffers that are queued, in order,    *)
(* and hands them over full; the thread of the device takes one, converts  *)
(* it to the black and white image and queues it again, while the camera   *)
(* goes on with the others.  An image is two parts, and a buffer holds the *)
(* number of the exposure each of its parts is of.                         *)
(***************************************************************************)
EXTENDS Naturals, Sequences

CONSTANTS MaxBuffers,   \* NUM_OF_BUFFERS
          MaxExposures  \* bound: images the camera sends

StreamAssumption == MaxBuffers \in Nat /\ MaxExposures \in Nat

Halves == {"top", "bottom"}

VARIABLES
  granted,    \* wc_info.buffers while the device is open, 0 when it is closed
  streaming,  \* between VIDIOC_STREAMON and VIDIOC_STREAMOFF
  queued,     \* the buffers the kernel may fill, in order
  full,       \* the buffers that wait for VIDIOC_DQBUF, in order
  content,    \* for each buffer the exposure each half is of
  written,    \* halves of the first queued buffer that are written
  exposures,  \* exposures begun
  wcStep,     \* where the thread of the device is
  taken,      \* the buffer get_frame has dequeued
  bitmap,     \* the converted image, 0 for a half not converted yet
  handed      \* the exposure of the image handed over last

kernelVars == <<streaming, queued, full, content, written, exposures>>
webcamVars == <<granted, kernelVars, wcStep, taken, bitmap, handed>>

Indices == 1 .. MaxBuffers
Unconverted == [half \in Halves |-> 0]
Owned == {queued[i] : i \in DOMAIN queued} \cup {full[i] : i \in DOMAIN full}

WebcamTypeOK ==
  /\ granted \in 0 .. MaxBuffers
  /\ streaming \in BOOLEAN
  /\ queued \in Seq(Indices) /\ full \in Seq(Indices)
  /\ Len(queued) + Len(full) <= MaxBuffers
  /\ content \in [Indices -> [Halves -> 0 .. MaxExposures]]
  /\ written \in SUBSET Halves
  /\ exposures \in 0 .. MaxExposures
  /\ wcStep \in {"closed", "idle", "paused", "poll", "dequeue", "convert",
                 "requeue", "process", "failed"}
  /\ taken \in 0 .. MaxBuffers
  /\ bitmap \in [Halves -> 0 .. MaxExposures]
  /\ handed \in 0 .. MaxExposures

WebcamInit ==
  /\ granted = 0 /\ streaming = FALSE
  /\ queued = <<>> /\ full = <<>> /\ written = {}
  /\ content = [b \in Indices |-> Unconverted]
  /\ exposures = 0
  /\ wcStep = "closed" /\ taken = 0
  /\ bitmap = Unconverted /\ handed = 0

(***************************************************************************)
(* The kernel.                                                             *)
(***************************************************************************)

\* The camera sends half of an image, into the first buffer of the queue.
\* A half of the next exposure goes to the next buffer.
Expose(half) ==
  /\ streaming /\ queued # <<>> /\ half \notin written
  /\ LET number == IF written = {} THEN exposures + 1 ELSE exposures
         buffer == Head(queued)
     IN  /\ number <= MaxExposures
         /\ exposures' = number
         /\ content' = [content EXCEPT ![buffer][half] = number]
         /\ IF written \cup {half} = Halves
              THEN /\ queued' = Tail(queued)
                   /\ full' = Append(full, buffer)
                   /\ written' = {}
              ELSE written' = written \cup {half} /\ UNCHANGED <<queued, full>>
  /\ UNCHANGED <<granted, streaming, wcStep, taken, bitmap, handed>>

\* VIDIOC_STREAMOFF and the close of the device give every buffer back.
StreamOff ==
  /\ streaming' = FALSE
  /\ queued' = <<>> /\ full' = <<>> /\ written' = {}
  /\ UNCHANGED <<content, exposures>>

\* ltr_int_tracker_resume with n buffers: VIDIOC_QBUF for each, which the
\* kernel refuses for a buffer it has already, then VIDIOC_STREAMON.  The
\* first call that is refused ends it; done says whether none was.
QueueAndStream(n, done) ==
  \E k \in 0 .. n :
    /\ \A b \in 1 .. k : b \notin Owned
    /\ queued' = queued \o [b \in 1 .. k |-> b]
    /\ done => k = n
    /\ streaming' = (streaming \/ done)
    /\ UNCHANGED <<full, content, written, exposures>>

(***************************************************************************)
(* The thread of the device.                                               *)
(***************************************************************************)

\* ltr_int_tracker_init: the format, the rate, the buffers and the start of
\* the stream.  The kernel may grant fewer buffers than the driver asks for.
\* Whatever fails, the device is closed again and the init fails.
Open ==
  /\ wcStep = "closed"
  /\ \E n \in 1 .. MaxBuffers : granted' = n /\ QueueAndStream(n, TRUE)
  /\ wcStep' = "idle"
  /\ UNCHANGED <<taken, bitmap, handed>>

\* ltr_int_tracker_pause; the run loop pauses whatever it returns.
PauseStream ==
  /\ wcStep = "idle"
  /\ StreamOff \/ UNCHANGED kernelVars
  /\ wcStep' = "paused"
  /\ UNCHANGED <<granted, taken, bitmap, handed>>

\* ltr_int_tracker_resume; the run loop runs on whatever it returns.
ResumeStream ==
  /\ wcStep = "paused"
  /\ \E done \in BOOLEAN : QueueAndStream(granted, done)
  /\ wcStep' = "idle"
  /\ UNCHANGED <<granted, taken, bitmap, handed>>

\* ltr_int_tracker_close, on a shutdown or after a get_frame that failed.
CloseDevice ==
  /\ wcStep \in {"idle", "paused", "failed"}
  /\ StreamOff
  /\ granted' = 0 /\ wcStep' = "closed"
  /\ UNCHANGED <<taken, bitmap, handed>>

\* ltr_int_tracker_get_frame begins, with a bitmap that is to be written.
GetFrame ==
  /\ wcStep = "idle"
  /\ wcStep' = "poll" /\ bitmap' = Unconverted
  /\ UNCHANGED <<granted, kernelVars, taken, handed>>

\* The wait: it ends when a buffer is full, or by an error of poll.  It goes
\* on after a timeout and after any other event, for as long as it takes.
Poll ==
  /\ wcStep = "poll"
  /\ \/ full # <<>> /\ wcStep' = "dequeue"
     \/ wcStep' = "failed"
  /\ UNCHANGED <<granted, kernelVars, taken, bitmap, handed>>

\* Seeded fault: the buffer goes back to the kernel before its conversion.
DequeueAndRequeue ==
  /\ wcStep = "dequeue" /\ full # <<>>
  /\ taken' = Head(full) /\ full' = Tail(full)
  /\ queued' = Append(queued, Head(full))
  /\ wcStep' = "convert"
  /\ UNCHANGED <<granted, streaming, content, written, exposures,
                 bitmap, handed>>

\* VIDIOC_DQBUF, again and again while it says EAGAIN.
Dequeue ==
  /\ wcStep = "dequeue" /\ full # <<>>
  /\ \/ /\ taken' = Head(full) /\ full' = Tail(full)
        /\ wcStep' = "convert"
     \/ wcStep' = "failed" /\ UNCHANGED <<taken, full>>
  /\ UNCHANGED <<granted, streaming, queued, content, written, exposures,
                 bitmap, handed>>

\* get_bw_image, half by half.
Convert(half) ==
  /\ wcStep = "convert" /\ bitmap[half] = 0
  /\ bitmap' = [bitmap EXCEPT ![half] = content[taken][half]]
  /\ wcStep' = IF \A h \in Halves : bitmap'[h] # 0 THEN "requeue" ELSE "convert"
  /\ UNCHANGED <<granted, kernelVars, taken, handed>>

\* VIDIOC_QBUF; a buffer that is refused is lost until the stream is paused.
Requeue ==
  /\ wcStep = "requeue"
  /\ \/ taken \notin Owned /\ queued' = Append(queued, taken)
     \/ UNCHANGED queued
  /\ wcStep' = "process"
  /\ UNCHANGED <<granted, streaming, full, content, written, exposures, taken,
                 bitmap, handed>>

\* The image becomes stripes and blobs, or goes to the face detector.
Process ==
  /\ wcStep = "process"
  /\ handed' = bitmap["top"] /\ wcStep' = "idle"
  /\ UNCHANGED <<granted, kernelVars, taken, bitmap>>

WebcamNext ==
  \/ \E half \in Halves : Expose(half) \/ Convert(half)
  \/ Open \/ PauseStream \/ ResumeStream \/ CloseDevice
  \/ GetFrame \/ Poll \/ Dequeue \/ Requeue \/ Process

WebcamSpec == WebcamInit /\ [][WebcamNext]_webcamVars

(***************************************************************************)
(* Properties.                                                             *)
(***************************************************************************)

\* The image that is processed is of one exposure, and of a later one than
\* the image before it: the camera does not write the buffer while it is
\* converted, however many buffers were granted or lost and wherever a pause
\* stopped the stream (webcam_driver.c:783-800).
ConvertedIsOneExposure ==
  wcStep = "process" =>
    /\ \A h \in Halves : bitmap[h] = bitmap["top"]
    /\ bitmap["top"] > handed
=============================================================================
