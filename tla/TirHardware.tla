------------------------------ MODULE TirHardware ------------------------------
(***************************************************************************)
(* A TrackIR or SmartNav and the driver that opens, pauses and closes it   *)
(* (tir_hw.c, libusb_ifc.c, tir_driver.c): each exchange with the device   *)
(* is a step, which can fail or stay without an answer. The driver reads   *)
(* answers from ltr_int_packet, where the last packet stays when none came.*)
(* Of a firmware the model keeps whether it is that of the driver's file,  *)
(* of thresholds, exposures and the order of the lights nothing.           *)
(***************************************************************************)
EXTENDS Integers

CONSTANT
  MaxOpens    \* bound: calls of ltr_int_tracker_init

OpensAssumption == MaxOpens \in Nat

Models == {"tir2", "tir4", "tir5", "sn4"}   \* "tir2": TrackIR 2, 3, SmartNav 3
Cameras == [fw : {"none", "old", "file"}, cfg : 0 .. 2, video : BOOLEAN, ir : BOOLEAN]
Status == [loaded : BOOLEAN, cksum : {"none", "old", "file"}, cfg : 0 .. 2]
NoStatus == [loaded |-> FALSE, cksum |-> "none", cfg |-> 0]

VARIABLES
  tirModel,   \* the device that is plugged in
  camera,     \* its firmware, configuration, video and infrared light
  usb,        \* what of libusb is held: context, handle, interface
  pc,         \* what the driver does next
  answer,     \* ltr_int_packet: a status, or NoStatus for another packet
  devStatus,  \* status of init_camera_tir4
  sn4Pipe,    \* sn4_pipe is open
  irOn,       \* ir_on
  opens

hwVars == <<tirModel, camera, usb, pc, answer, devStatus, sn4Pipe, irOn, opens>>

Steps == {"find", "prepare", "stop", "rom", "status", "firmware", "upload",
          "reread", "check", "config", "start"}

TypeOK ==
  /\ tirModel \in Models
  /\ camera \in Cameras
  /\ usb \in [context : BOOLEAN, handle : BOOLEAN, claimed : BOOLEAN]
  /\ pc \in {"closed", "failed", "running", "paused"} \cup Steps
  /\ answer \in Status /\ devStatus \in Status
  /\ sn4Pipe \in BOOLEAN /\ irOn \in BOOLEAN /\ opens \in 0 .. MaxOpens

\* The device as another program or the last run may have left it
Init ==
  /\ tirModel = "tir4" /\ camera = [fw |-> "none", cfg |-> 1, video |-> FALSE, ir |-> FALSE]
  /\ usb = [context |-> FALSE, handle |-> FALSE, claimed |-> FALSE]
  /\ pc = "closed" /\ answer = NoStatus /\ devStatus = NoStatus
  /\ sn4Pipe = FALSE /\ irOn = TRUE /\ opens = 0

Fail == pc' = "failed"

\* Before the first ltr_int_tracker_init
PlugIn ==
  /\ opens = 0 /\ pc = "closed"
  /\ tirModel' \in Models
  /\ \E fw \in {"none", "old", "file"}, cfg \in 0 .. 2 :
       camera' = [camera EXCEPT !.fw = fw, !.cfg = cfg]
  /\ UNCHANGED <<usb, pc, answer, devStatus, sn4Pipe, irOn, opens>>

------------------------------------------------------------------------------
(* ltr_int_open_tir.                                                       *)

\* ltr_int_tracker_init up to ltr_int_init_usb. What an init that failed holds
\* it holds still: nothing on that way calls ltr_int_finish_usb.
Open ==
  /\ pc \in {"closed", "failed"} /\ opens < MaxOpens /\ opens' = opens + 1
  /\ irOn' \in BOOLEAN
  /\ \/ usb' = [usb EXCEPT !.context = TRUE] /\ pc' = "find"
     \/ Fail /\ UNCHANGED usb
  /\ UNCHANGED <<tirModel, camera, answer, devStatus, sn4Pipe>>

\* ltr_int_find_tir; a device it may not open is taken for one it knows, and
\* its handle is NULL.
Find ==
  /\ pc = "find"
  /\ \/ usb' \in {[usb EXCEPT !.handle = TRUE], usb} /\ pc' = "prepare"
     \/ Fail /\ UNCHANGED usb
  /\ UNCHANGED <<tirModel, camera, answer, devStatus, sn4Pipe, irOn, opens>>

\* ltr_int_prepare_device: an interface that is claimed cannot be again,
\* and without a handle the call crashes.
Prepare ==
  /\ pc = "prepare"
  /\ \/ /\ usb.handle /\ ~usb.claimed
        /\ usb' = [usb EXCEPT !.claimed = TRUE]
        /\ pc' \in {"stop", "failed"}
     \/ Fail /\ UNCHANGED usb
  /\ UNCHANGED <<tirModel, camera, answer, devStatus, sn4Pipe, irOn, opens>>

\* stop_camera_*: that a packet was not sent is not looked at.
Stopped(c) ==
  {[c EXCEPT !.video = v, !.ir = i] : v \in {FALSE, c.video}, i \in {FALSE, c.ir}}

StopCamera ==
  /\ pc = "stop" /\ camera' \in Stopped(camera)
  /\ pc' = "rom"
  /\ UNCHANGED <<tirModel, usb, answer, devStatus, sn4Pipe, irOn, opens>>

\* Pending packets are thrown away, and read_rom_data_tir asks for information,
\* ten times, and then goes on in any case. A TrackIR 5 goes on when that
\* failed, too, and lights up before its firmware is loaded.
ReadRom ==
  /\ pc = "rom"
  /\ answer' \in {NoStatus, answer}
  /\ \/ pc' = IF tirModel = "tir2" THEN "start" ELSE "status"
     \/ tirModel # "tir5" /\ Fail
  /\ camera' = IF tirModel = "tir5" THEN [camera EXCEPT !.ir = TRUE] ELSE camera
  /\ UNCHANGED <<tirModel, usb, devStatus, sn4Pipe, irOn, opens>>

\* The status a device sends
StatusOf(c) == [loaded |-> c.fw # "none", cksum |-> c.fw, cfg |-> c.cfg]

\* read_status_tir: one of twenty requests is answered, or the status is read
\* out of the packet that came before them.
AskStatus ==
  /\ answer' \in {answer, StatusOf(camera)}
  /\ devStatus' = answer'

ReadStatus ==
  /\ pc = "status"
  /\ \/ AskStatus /\ pc' = "firmware"
     \/ tirModel # "tir5" /\ Fail /\ UNCHANGED <<answer, devStatus>>
     \/ tirModel = "tir5" /\ pc' = "firmware" /\ UNCHANGED <<answer, devStatus>>
  /\ UNCHANGED <<tirModel, camera, usb, sn4Pipe, irOn, opens>>

NeedsUpload(s) == tirModel = "tir5" \/ ~s.loaded \/ s.cksum # "file"

\* load_firmware, from the file; and whether the device has it already. A
\* SmartNav 4 that has it is not looked at further.
LoadFirmware ==
  /\ pc = "firmware"
  /\ \/ Fail
     \/ pc' = IF NeedsUpload(devStatus) THEN "upload"
              ELSE IF tirModel = "sn4" THEN "start" ELSE "reread"
  /\ UNCHANGED <<tirModel, camera, usb, answer, devStatus, sn4Pipe, irOn, opens>>

\* Seeded fault: no status is read after an upload, as for a TrackIR 5.
UploadUnchecked ==
  /\ pc = "upload"
  /\ \E fw \in {"file", "none", camera.fw} :
       camera' = [camera EXCEPT !.fw = fw, !.cfg = IF fw = camera.fw THEN @ ELSE 1]
  /\ pc' = "start"
  /\ UNCHANGED <<tirModel, usb, answer, devStatus, sn4Pipe, irOn, opens>>

\* upload_firmware: Fpga_init empties the device, then the firmware is sent in
\* parts. It stops at the first packet that is not sent, and no caller looks at
\* its result. A TrackIR 5 is started without another look at its firmware.
UploadFirmware ==
  /\ pc = "upload"
  /\ \E fw \in {"file", "none", camera.fw} :
       camera' = [camera EXCEPT !.fw = fw, !.cfg = IF fw = camera.fw THEN @ ELSE 1]
  /\ pc' = IF tirModel = "tir5" THEN "start" ELSE "reread"
  /\ UNCHANGED <<tirModel, usb, answer, devStatus, sn4Pipe, irOn, opens>>

Reread ==
  /\ pc = "reread"
  /\ \/ AskStatus /\ pc' = "check"
     \/ Fail /\ UNCHANGED <<answer, devStatus>>
  /\ UNCHANGED <<tirModel, camera, usb, sn4Pipe, irOn, opens>>

\* The firmware and the configuration are right, or the latter is loaded again.
CheckFirmware ==
  /\ pc = "check"
  /\ pc' = CASE devStatus.cksum # "file" \/ devStatus.cfg = 0 -> "failed"
             [] devStatus.cksum = "file" /\ devStatus.cfg = 1 -> "config"
             [] OTHER -> "start"
  /\ UNCHANGED <<tirModel, camera, usb, answer, devStatus, sn4Pipe, irOn, opens>>

\* Cfg_reload, and the loop that waits for it, without a look at the requests
\* and without an end if the device stays as it is
WaitConfig ==
  /\ pc = "config"
  /\ camera' \in {camera, [camera EXCEPT !.cfg = 2]}
  /\ \/ /\ answer' \in {answer, StatusOf(camera')}
        /\ devStatus' = answer' /\ pc' = IF devStatus'.cfg = 2 THEN "start" ELSE "config"
     \/ Fail /\ UNCHANGED <<answer, devStatus>>
  /\ UNCHANGED <<tirModel, usb, sn4Pipe, irOn, opens>>

\* start_camera_*: that of a TrackIR 4 or 5 stops the camera first. The infrared
\* light is lit when the user tracks a reflector.
Lit(c) ==
  {d \in {[c EXCEPT !.video = v, !.ir = i] : v \in {TRUE, c.video}, i \in {TRUE, c.ir}} :
     irOn \/ d.ir = c.ir}
Started(c) == UNION {Lit(d) : d \in IF tirModel \in {"tir4", "tir5"} THEN Stopped(c) ELSE {c}}

\* The end of init_camera_*, which opens the pipe of the buttons, and the start
StartCamera ==
  /\ pc = "start" /\ pc' = "running"
  /\ camera' \in Started(camera)
  /\ IF tirModel = "sn4" THEN sn4Pipe' \in {TRUE, sn4Pipe} ELSE UNCHANGED sn4Pipe
  /\ UNCHANGED <<tirModel, usb, answer, devStatus, irOn, opens>>

------------------------------------------------------------------------------
(* The open device.                                                        *)

\* Packets with stripes overwrite ltr_int_packet.
Frame ==
  /\ pc = "running" /\ camera.video /\ answer' = NoStatus
  /\ UNCHANGED <<tirModel, camera, usb, pc, devStatus, sn4Pipe, irOn, opens>>

Pause ==
  /\ pc = "running" /\ pc' = "paused" /\ camera' \in Stopped(camera)
  /\ UNCHANGED <<tirModel, usb, answer, devStatus, sn4Pipe, irOn, opens>>

Resume ==
  /\ pc = "paused" /\ pc' = "running" /\ camera' \in Started(camera)
  /\ UNCHANGED <<tirModel, usb, answer, devStatus, sn4Pipe, irOn, opens>>

\* close_camera_*, ltr_int_finish_usb; a TrackIR 5 loses its firmware.
Close ==
  /\ pc \in {"running", "paused"} /\ pc' = "closed"
  /\ \E c \in Stopped(camera) :
       camera' \in {c} \cup (IF tirModel = "tir5" THEN {[c EXCEPT !.fw = "none"]} ELSE {})
  /\ usb' = [context |-> FALSE, handle |-> FALSE, claimed |-> FALSE]
  /\ sn4Pipe' = IF tirModel = "sn4" THEN FALSE ELSE sn4Pipe
  /\ UNCHANGED <<tirModel, answer, devStatus, irOn, opens>>

TirNext ==
  \/ PlugIn \/ Open \/ Find \/ Prepare \/ StopCamera \/ ReadRom \/ ReadStatus
  \/ LoadFirmware \/ UploadFirmware \/ Reread \/ CheckFirmware \/ WaitConfig
  \/ StartCamera \/ Frame \/ Pause \/ Resume \/ Close

TirSpec == Init /\ [][TirNext]_hwVars

------------------------------------------------------------------------------
\* A TrackIR 4 or SmartNav 4 runs with the firmware of the driver's file and no
\* other, although the upload may stop half way and nobody looks at its result
\* (tir_hw.c:821), and a status that was not answered is read out of an older
\* packet (tir_hw.c:196).
StartedWithFirmware ==
  pc \in {"running", "paused"} /\ tirModel \in {"tir4", "sn4"} => camera.fw = "file"

================================================================================
