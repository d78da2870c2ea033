----------------------------- MODULE MacWiimote -----------------------------
(***************************************************************************)
(* The Wiimote server of macOS: the window (mac/wiimote_server.m) and the  *)
(* link to the Wiimote (mac/wiimote.m), which is found by an inquiry and   *)
(* has two L2CAP channels, one for control and one for data.  All of it is *)
(* callbacks of one thread.  The shared memory, and what a report puts     *)
(* there, are in WiiServer.                                                *)
(*                                                                         *)
(* Of the Bluetooth library it is assumed that the callback for a channel  *)
(* that opened comes after the call that opened it has returned.           *)
(***************************************************************************)
EXTENDS Naturals

CONSTANTS
  MaxPushes,    \* bound: presses of the button
  MaxCommands,  \* bound: commands of the driver
  MaxLosses     \* bound: channels the Wiimote closes

Channels == {"control", "interrupt"}    \* cChan, iChan

VARIABLES
  server_state,  \* of the window
  inquiry,       \* of WiiDiscover
  state,         \* of Wii
  device,        \* it is not nil
  opened,
  channel,       \* nil, opening, open, failed, or closing
  connected_channels,
  timers,        \* calls of initializeWii that are to come
  irOn,
  mode,          \* what the Wiimote reports: its camera, or not
  polls,         \* timers of the window that are valid: wiiConnected starts one more each time
  held,          \* the one that the window knows is valid
  indicate,
  command,       \* in the shared memory
  old_cmd,
  late,          \* history: initializeWii came when the link was gone, or a second time
  missed,        \* history: the button was pressed while the link was still being closed
  refused,       \* history: the camera could not be switched on
  pushes, commands, losses

macVars == <<server_state, inquiry, state, device, opened, channel, connected_channels,
             timers, irOn, mode, polls, held, indicate, command, old_cmd, late, missed, refused,
             pushes, commands, losses>>
window == <<server_state, polls, held, indicate, old_cmd>>
link == <<state, opened, channel, timers>>
history == <<late, missed, refused>>
bounds == <<pushes, commands, losses>>

MacAssumption == MaxPushes \in Nat /\ MaxCommands \in Nat /\ MaxLosses \in Nat

Orders == {"STOP", "SLEEP", "WAKEUP"}
TypeOK ==
  /\ server_state \in {"WII_DISCONNECTED", "WII_CONNECTING", "WII_CONNECTED"}
  /\ inquiry \in {"IDLE", "REQUEST_DISCOVERY", "DISCOVERING"}
  /\ state \in {"DISCONNECTED", "CONNECTING", "CONNECTED", "DISCONNECTING"}
  /\ device \in BOOLEAN /\ opened \in BOOLEAN
  /\ channel \in [Channels -> {"nil", "opening", "open", "failed", "closing"}]
  /\ connected_channels \subseteq Channels /\ timers \in 0 .. MaxPushes
  /\ irOn \in BOOLEAN /\ mode \in {"none", "ir"} /\ polls \in 0 .. MaxPushes /\ held \in BOOLEAN /\ indicate \in BOOLEAN
  /\ command \in Orders /\ old_cmd \in Orders
  /\ late \in BOOLEAN /\ missed \in BOOLEAN /\ refused \in BOOLEAN
  /\ pushes \in 0 .. MaxPushes /\ commands \in 0 .. MaxCommands /\ losses \in 0 .. MaxLosses

\* The new Wii
LinkInit ==
  /\ state = "DISCONNECTED" /\ device = FALSE /\ opened = FALSE
  /\ channel = [c \in Channels |-> "nil"] /\ connected_channels = {}
  /\ timers = 0 /\ irOn = FALSE /\ mode = "none"

\* After awakeFromNib
Init ==
  /\ LinkInit /\ inquiry = "IDLE" /\ server_state = "WII_DISCONNECTED"
  /\ polls = 0 /\ held = FALSE /\ indicate = FALSE /\ command = "STOP" /\ old_cmd = "STOP"
  /\ late = FALSE /\ missed = FALSE /\ refused = FALSE
  /\ pushes = 0 /\ commands = 0 /\ losses = 0

------------------------------------------------------------------------------
(* The link, in the state wiiFSM is in, with the channels ch               *)

\* close: one channel after the other, each when the one before is closed
Close(ch) ==
  IF ch["interrupt"] # "nil"
  THEN /\ channel' = [ch EXCEPT !["interrupt"] = "closing"]
       /\ state' = "DISCONNECTING" /\ UNCHANGED <<opened, timers>>
  ELSE IF ch["control"] # "nil"
  THEN /\ channel' = [ch EXCEPT !["control"] = "closing"]
       /\ state' = "DISCONNECTING" /\ UNCHANGED <<opened, timers>>
  ELSE channel' = ch /\ opened' = FALSE /\ state' = "DISCONNECTED" /\ UNCHANGED timers

\* invalidate, of the timer the window knows
Invalidate == held' = FALSE /\ polls' = IF held THEN polls - 1 ELSE polls

\* wiiDisconnected
WiiDisconnected ==
  /\ server_state' = "WII_DISCONNECTED" /\ Invalidate /\ indicate' = FALSE /\ old_cmd' = "STOP"

\* wiiFSM, for DISCONNECT_REQUEST
DisconnectRequest(ch) ==
  CASE state \in {"CONNECTING", "CONNECTED"} -> WiiDisconnected /\ Close(ch)
    [] state = "DISCONNECTING" -> Close(ch) /\ UNCHANGED window
    [] OTHER -> channel' = ch /\ UNCHANGED <<state, opened, timers, window>>

\* The channel that is opened next
Next1(ch) == IF ch["control"] = "nil" THEN "control" ELSE "interrupt"

\* connect.  Without a device the messages to it do nothing, and there is no channel.
Connect(ch, connected, dev) ==
  \/ /\ state \notin {"CONNECTING", "CONNECTED"}
     /\ channel' = ch /\ UNCHANGED <<state, opened, timers, window>>
  \/ /\ state \in {"CONNECTING", "CONNECTED"} /\ "nil" \in {ch[c] : c \in Channels}
     /\ \/ /\ channel' = IF dev THEN [ch EXCEPT ![Next1(ch)] = "opening"] ELSE ch
           /\ opened' = TRUE /\ UNCHANGED <<state, timers, window>>
        \/ dev /\ DisconnectRequest(ch)
  \/ /\ state \in {"CONNECTING", "CONNECTED"} /\ "nil" \notin {ch[c] : c \in Channels}
     /\ channel' = ch /\ opened' = TRUE /\ UNCHANGED window
     /\ IF connected = Channels /\ state = "CONNECTING"
        THEN state' = "CONNECTED" /\ timers' = timers + 1 ELSE UNCHANGED <<state, timers>>

\* updateReportMode, sendCommand: only over a link that is connected.  A message to a channel
\* that is nil does nothing.
Reports(ir, ch) ==
  mode' = IF state = "CONNECTED" /\ ch["control"] = "open"
          THEN IF ir THEN "ir" ELSE "none" ELSE mode

\* disableIR
DisableIR == irOn' = FALSE /\ Reports(FALSE, channel) /\ UNCHANGED refused

\* enableIR, which may fail if there is a channel to write to, and then leaves all as it was
EnableIR ==
  \/ irOn' = TRUE /\ Reports(TRUE, channel) /\ UNCHANGED refused
  \/ /\ state = "CONNECTED" /\ channel["control"] # "nil"
     /\ refused' = TRUE /\ UNCHANGED <<irOn, mode>>

\* wiiConnected
WiiConnected ==
  server_state' = "WII_CONNECTED" /\ polls' = polls + 1 /\ held' = TRUE /\ indicate' = TRUE

------------------------------------------------------------------------------
(* The callbacks *)

\* WiiDiscover start, which may not succeed
DiscoveryStarts ==
  IF inquiry = "IDLE" THEN inquiry' \in {"IDLE", "REQUEST_DISCOVERY"} ELSE UNCHANGED inquiry

\* connectPressed
ConnectPressed ==
  /\ pushes < MaxPushes /\ pushes' = pushes + 1
  /\ \/ /\ server_state = "WII_DISCONNECTED" /\ server_state' = "WII_CONNECTING"
        /\ IF state = "DISCONNECTED" THEN state' = "CONNECTING" /\ DiscoveryStarts
           ELSE UNCHANGED <<state, inquiry>>
        /\ missed' = (missed \/ state # "DISCONNECTED")
        /\ UNCHANGED <<opened, channel, timers, polls, held, indicate, old_cmd>>
     \/ /\ server_state = "WII_CONNECTED"
        /\ IF state \in {"CONNECTING", "CONNECTED"} THEN DisconnectRequest(channel)
           ELSE /\ Invalidate /\ UNCHANGED <<server_state, indicate, old_cmd>>
                /\ IF state = "DISCONNECTING" THEN Close(channel) ELSE UNCHANGED link
        /\ UNCHANGED <<inquiry, missed>>
  /\ UNCHANGED <<device, connected_channels, irOn, mode, command, late, refused, commands,
                 losses>>

\* deviceInquiryStarted
DiscoveryStarted ==
  /\ inquiry = "REQUEST_DISCOVERY" /\ inquiry' = "DISCOVERING"
  /\ UNCHANGED <<link, window, device, connected_channels, irOn, mode, command, history, bounds>>

\* deviceInquiryComplete, WiimoteDiscoveryResult
DiscoveryComplete ==
  /\ inquiry = "DISCOVERING" /\ inquiry' = "IDLE"
  /\ \/ UNCHANGED <<device, link, window>>
     \/ \E found \in BOOLEAN : device' = found /\ Connect(channel, connected_channels, found)
  /\ UNCHANGED <<connected_channels, irOn, mode, command, history, bounds>>

\* l2capChannelOpenComplete: an error is written to the log.
OpenComplete(c) ==
  /\ channel[c] = "opening"
  /\ \/ /\ connected_channels' = connected_channels \cup {c}
        /\ LET ch == [channel EXCEPT ![c] = "open"]
           IN /\ Connect(ch, connected_channels', device)
              /\ IF c = "control" THEN Reports(FALSE, ch) ELSE UNCHANGED mode
     \/ /\ channel' = [channel EXCEPT ![c] = "failed"]
        /\ UNCHANGED <<state, opened, timers, window, connected_channels, mode>>
  /\ UNCHANGED <<inquiry, device, irOn, command, history, bounds>>

\* l2capChannelClosed, because of close or by the Wiimote
ChannelClosed(c) ==
  /\ \/ channel[c] = "closing" /\ UNCHANGED losses
     \/ channel[c] \in {"open", "failed"} /\ losses < MaxLosses /\ losses' = losses + 1
  /\ connected_channels' = connected_channels \ {c}
  /\ LET ch == [channel EXCEPT ![c] = "nil"]
     IN IF state \in {"CONNECTING", "CONNECTED"}
        THEN Connect(ch, connected_channels', device) ELSE DisconnectRequest(ch)
  /\ UNCHANGED <<inquiry, device, irOn, mode, command, history, pushes, commands>>

\* initializeWii, a second after the link is there
InitializeWii ==
  /\ timers > 0 /\ timers' = timers - 1
  /\ DisableIR /\ WiiConnected
  /\ late' = (late \/ state # "CONNECTED" \/ server_state = "WII_CONNECTED")
  /\ UNCHANGED <<inquiry, state, device, opened, channel, connected_channels, command, old_cmd,
                 missed, bounds>>

\* timerCallback, with pause and resume
TimerCallback ==
  /\ polls > 0 /\ command # old_cmd /\ old_cmd' = command
  /\ indicate' = (command = "STOP")
  /\ IF command = "WAKEUP" THEN EnableIR ELSE DisableIR
  /\ UNCHANGED <<server_state, inquiry, link, device, connected_channels, polls, held, command,
                 late, missed, bounds>>

\* l2capChannelData: at a status report, and once in a thousand, the mode is set anew.
ReportsAgain ==
  /\ state = "CONNECTED" /\ channel["interrupt"] = "open" /\ Reports(irOn, channel)
  /\ UNCHANGED <<window, inquiry, link, device, connected_channels, irOn, command, history,
                 bounds>>

\* The driver: ltr_int_pauseWii, ltr_int_resumeWii, ltr_int_closeWiiCom
Order(c) ==
  /\ commands < MaxCommands /\ commands' = commands + 1 /\ command' = c
  /\ UNCHANGED <<window, inquiry, link, device, connected_channels, irOn, mode, history, pushes,
                 losses>>

MacNext ==
  \/ ConnectPressed \/ DiscoveryStarted \/ DiscoveryComplete
  \/ \E c \in Channels : OpenComplete(c) \/ ChannelClosed(c)
  \/ InitializeWii \/ TimerCallback \/ ReportsAgain
  \/ \E c \in Orders : Order(c)

MacSpec == Init /\ [][MacNext]_macVars

------------------------------------------------------------------------------
\* The window shows a Wiimote that is connected, and polls for it, when there is one, and does
\* not show one that is not; the camera of the Wiimote is on if that was the last command, and
\* if it was not the Wiimote does not report what it sees.  But for an initializeWii that came
\* too late (wiimote.m:178), a button pressed too early (wiimote.m:202-210) and a camera
\* that could not be switched on, after which nothing tries again (wiimote_server.m:69).
WindowAgrees ==
  /\ server_state = "WII_CONNECTED" => late \/ state = "CONNECTED"
  /\ state = "DISCONNECTED" => late \/ missed \/ server_state = "WII_DISCONNECTED"
  /\ polls > 0 => late \/ server_state = "WII_CONNECTED"
  /\ connected_channels \subseteq {c \in Channels : channel[c] # "nil"}
  /\ server_state = "WII_CONNECTED" /\ ~late /\ ~refused =>
       /\ irOn = (old_cmd = "WAKEUP")
       /\ mode = "ir" /\ channel["control"] = "open" => irOn
==============================================================================
