---------------------------- MODULE RequestsProofs ----------------------------
(***************************************************************************)
(* Proofs about Requests, for any number of commands and any size of the   *)
(* uplink.  The commands on their way form an ascending chain: the last    *)
(* one carried out, those in the uplink, the one the slave is sending and  *)
(* the one in ltr_comm.  Each step moves a command one place along it,     *)
(* except that it is in two places between its taking and its clearing,    *)
(* when the client may already have put another one there.                 *)
(***************************************************************************)
EXTENDS Requests, TLAPS

\* The places a command can be in.
Places ==
  /\ comCmd \in 0 .. STOP_CMD
  /\ given \in 0 .. MaxRequests
  /\ cmd \in 0 .. STOP_CMD
  /\ uplink \in Seq(0 .. MaxRequests)
  /\ done \in 0 .. MaxRequests

\* What is in the uplink was given, and not yet carried out.
UplinkIsDue ==
  \A i \in 1 .. Len(uplink) :
    uplink[i] # CMD_RECENTER => done < uplink[i] /\ uplink[i] <= given

UplinkAscends ==
  \A i, j \in 1 .. Len(uplink) :
    i < j /\ uplink[j] # CMD_RECENTER => uplink[i] < uplink[j]

\* The command numbered n comes after what is carried out or in the uplink.
After(n) ==
  /\ done < n
  /\ n <= given
  /\ \A i \in 1 .. Len(uplink) : uplink[i] < n

Chain ==
  /\ done <= given
  /\ UplinkIsDue
  /\ UplinkAscends
  /\ cmd \in Forwarded => After(cmd)
  /\ comCmd \in Forwarded => After(comCmd)
  /\ cmd \in Forwarded /\ comCmd \in Forwarded =>
       cmd < comCmd \/ (main = "clear" /\ cmd = comCmd)

IInv == Places /\ Chain

------------------------------------------------------------------------------

\* What is in the uplink can be compared.
LEMMA Elements ==
  ASSUME uplink \in Seq(0 .. MaxRequests)
  PROVE  /\ Len(uplink) \in Nat
         /\ \A i \in 1 .. Len(uplink) : uplink[i] \in 0 .. MaxRequests
BY RequestsAssumption

\* What a message that is written does to the uplink.
LEMMA Appended ==
  ASSUME uplink \in Seq(0 .. MaxRequests), NEW m \in 0 .. MaxRequests,
         uplink' = Append(uplink, m)
  PROVE  /\ uplink' \in Seq(0 .. MaxRequests)
         /\ Len(uplink') = Len(uplink) + 1
         /\ \A i \in 1 .. Len(uplink) : uplink'[i] = uplink[i]
         /\ uplink'[Len(uplink) + 1] = m
         /\ Len(uplink) \in Nat
BY RequestsAssumption

\* What a message that is taken does to the uplink.
LEMMA Taken ==
  ASSUME uplink \in Seq(0 .. MaxRequests), uplink # <<>>,
         uplink' = Tail(uplink)
  PROVE  /\ uplink' \in Seq(0 .. MaxRequests)
         /\ Len(uplink') = Len(uplink) - 1
         /\ \A i \in 1 .. Len(uplink) - 1 : uplink'[i] = uplink[i + 1]
         /\ Head(uplink) = uplink[1]
         /\ Head(uplink) \in 0 .. MaxRequests
         /\ Len(uplink) \in Nat \ {0}
BY RequestsAssumption

\* Steps that move no command, and may lose the whole uplink.
LEMMA Untouched ==
  ASSUME IInv, UNCHANGED <<comCmd, given, cmd, done>>,
         main # "clear" \/ main' = main,
         uplink' \in {uplink, <<>>}
  PROVE  IInv'
<1> USE DEF IInv, Places, Chain, UplinkIsDue, UplinkAscends, After
<1>1. CASE uplink' = uplink
  BY <1>1
<1>2. CASE uplink' = <<>>
  BY <1>2, RequestsAssumption DEF Forwarded, CMD_RECENTER
<1> QED
  BY <1>1, <1>2

\* The calls of the client.
LEMMA ClientKeeps ==
  ASSUME IInv, Command \/ Recenter \/ NotificationOn \/ Shutdown \/ Die
  PROVE  IInv'
<1> USE RequestsAssumption
    DEF IInv, Places, Forwarded, STOP_CMD, mainVars, masterVars
<1>1. CASE Command
  <2>1. /\ comCmd' = given + 1
        /\ given' = given + 1
        /\ given < MaxRequests
        /\ UNCHANGED <<cmd, main, uplink, done>>
    BY <1>1 DEF Command
  <2>2. Places'
    BY <2>1
  <2>3. \A i \in 1 .. Len(uplink) : uplink[i] <= given
    BY Elements DEF Chain, UplinkIsDue, CMD_RECENTER
  <2>4. Chain'
    BY <2>1, <2>3, Elements
       DEF Chain, UplinkIsDue, UplinkAscends, After, CMD_RECENTER
  <2> QED
    BY <2>2, <2>4
<1>2. CASE Recenter
  BY <1>2, Untouched DEF Recenter
<1>3. CASE NotificationOn
  BY <1>3, Untouched DEF NotificationOn
<1>4. CASE Shutdown
  BY <1>4 DEF Shutdown, Chain, UplinkIsDue, UplinkAscends, After
<1>5. CASE Die
  BY <1>5, Untouched DEF Die, com
<1> QED
  BY <1>1, <1>2, <1>3, <1>4, <1>5

\* The slave takes a command, and clears what is in ltr_comm then.
LEMMA TakingKeeps ==
  ASSUME IInv, Look \/ TakeCommand \/ ClearCommand \/ ClearRecenter
  PROVE  IInv'
<1> USE RequestsAssumption DEF clientVars, com, Forwarded, NOP_CMD, STOP_CMD
<1>1. CASE Look
  BY <1>1, Untouched DEF Look, masterVars
<1>2. CASE TakeCommand
  <2>1. /\ main' = "clear" /\ cmd' = comCmd
        /\ UNCHANGED <<comCmd, given, uplink, done>>
    BY <1>2 DEF TakeCommand, masterVars
  <2> QED
    BY <2>1 DEF IInv, Places, Chain, UplinkIsDue, UplinkAscends, After
<1>3. CASE ClearCommand
  <2>1. comCmd' = NOP_CMD /\ UNCHANGED <<cmd, given, uplink, done>>
    BY <1>3 DEF ClearCommand, TakeFlags
  <2> QED
    BY <2>1 DEF IInv, Places, Chain, UplinkIsDue, UplinkAscends, After
<1>4. CASE ClearRecenter
  BY <1>4, Untouched DEF ClearRecenter
<1> QED
  BY <1>1, <1>2, <1>3, <1>4

\* A message that is written and comes after the others keeps the order.
LEMMA OrderKept ==
  ASSUME IInv, NEW m \in 0 .. MaxRequests, uplink' = Append(uplink, m),
         UNCHANGED <<given, done>>, m # CMD_RECENTER => After(m)
  PROVE  /\ uplink' \in Seq(0 .. MaxRequests)
         /\ UplinkIsDue'
         /\ UplinkAscends'
         /\ \A n \in Forwarded : After(n) /\ m < n => After(n)'
<1> USE RequestsAssumption DEF IInv, Places, CMD_RECENTER
<1>1. /\ uplink' \in Seq(0 .. MaxRequests)
      /\ Len(uplink') = Len(uplink) + 1
      /\ \A i \in 1 .. Len(uplink) : uplink'[i] = uplink[i]
      /\ uplink'[Len(uplink) + 1] = m
      /\ Len(uplink) \in Nat
  BY Appended
<1>2. \A i \in 1 .. Len(uplink') :
        \/ i = Len(uplink) + 1 /\ uplink'[i] = m
        \/ i \in 1 .. Len(uplink) /\ uplink'[i] = uplink[i]
  BY <1>1
<1>3. UplinkIsDue'
  BY <1>2, Elements DEF Chain, UplinkIsDue, After
<1>4. UplinkAscends'
  BY <1>1, <1>2, Elements DEF Chain, UplinkAscends, After
<1>5. \A n \in Forwarded : After(n) /\ m < n => After(n)'
  BY <1>2, Elements DEF After, Forwarded
<1> QED
  BY <1>1, <1>3, <1>4, <1>5

\* The slave sends a command, or ends its attempts: the command leaves cmd.
LEMMA SendKeeps ==
  ASSUME IInv, Send
  PROVE  IInv'
<1> USE RequestsAssumption DEF Forwarded, NOP_CMD, STOP_CMD
<1>1. main = "send" /\ UNCHANGED <<comCmd, given, done>> /\ cmd' = 0
  BY DEF Send, Sent, com, masterVars
<1>2. CASE cmd \in Forwarded /\ uplink' = Append(uplink, cmd)
  <2>1. After(cmd)
    BY <1>2 DEF IInv, Chain
  <2>2. /\ uplink' \in Seq(0 .. MaxRequests)
        /\ UplinkIsDue'
        /\ UplinkAscends'
        /\ \A n \in Forwarded : After(n) /\ cmd < n => After(n)'
    BY <1>1, <1>2, <2>1, OrderKept
  <2>3. comCmd \in Forwarded => After(comCmd) /\ cmd < comCmd
    BY <1>1, <1>2 DEF IInv, Chain
  <2>4. (comCmd \in Forwarded => After(comCmd))'
    <3> SUFFICES ASSUME NEW n \in Forwarded, n = comCmd
                 PROVE  After(n)'
      BY <1>1
    <3> QED
      BY <2>2, <2>3
  <2> QED
    BY <1>1, <2>2, <2>4 DEF IInv, Places, Chain
<1>3. CASE UNCHANGED uplink
  BY <1>1, <1>3
     DEF IInv, Places, Chain, UplinkIsDue, UplinkAscends, After
<1> QED
  BY <1>2, <1>3 DEF Send

\* A recentering has no number.
LEMMA SendRecenterKeeps ==
  ASSUME IInv, SendRecenter
  PROVE  IInv'
<1> USE RequestsAssumption DEF Forwarded
<1>1. main = "recenter" /\ UNCHANGED <<comCmd, given, cmd, done>>
  BY DEF SendRecenter, EndTurn, clientVars, com, masterVars
<1>2. CASE uplink' = Append(uplink, CMD_RECENTER)
  <2>1. /\ uplink' \in Seq(0 .. MaxRequests)
        /\ UplinkIsDue'
        /\ UplinkAscends'
        /\ \A n \in Forwarded : After(n) => After(n)'
    BY <1>1, <1>2, OrderKept DEF CMD_RECENTER
  <2> QED
    BY <1>1, <2>1 DEF IInv, Places, Chain
<1>3. CASE UNCHANGED uplink
  BY <1>1, <1>3, Untouched
<1> QED
  BY <1>2, <1>3 DEF SendRecenter

\* The master carries the first command out: it leaves the uplink.
LEMMA ReceiveKeeps ==
  ASSUME IInv, Receive
  PROVE  IInv'
<1> USE RequestsAssumption DEF CMD_RECENTER, Forwarded
<1>1. UNCHANGED <<comCmd, given, cmd, main>>
  BY DEF Receive, clientVars, com, mainVars
<1>2. /\ uplink' \in Seq(0 .. MaxRequests)
      /\ Len(uplink') = Len(uplink) - 1
      /\ \A i \in 1 .. Len(uplink) - 1 : uplink'[i] = uplink[i + 1]
      /\ Head(uplink) = uplink[1]
      /\ Head(uplink) \in 0 .. MaxRequests
      /\ Len(uplink) \in Nat \ {0}
  BY Taken DEF Receive, IInv, Places
<1>3. done' = IF uplink[1] = 0 THEN done ELSE uplink[1]
  BY <1>2 DEF Receive
<1>4. \A i \in 1 .. Len(uplink') :
        /\ i + 1 \in 1 .. Len(uplink)
        /\ uplink'[i] = uplink[i + 1]
        /\ uplink[i + 1] # 0 => uplink[1] < uplink[i + 1]
  <2>1. UplinkAscends
    BY DEF IInv, Chain
  <2>2. \A j \in 2 .. Len(uplink) : uplink[j] # 0 => uplink[1] < uplink[j]
    BY <1>2, <2>1 DEF UplinkAscends
  <2> QED
    BY <1>2, <2>2
<1>5. Places' /\ done' <= given'
  BY <1>1, <1>2, <1>3 DEF IInv, Places, Chain, UplinkIsDue
<1>6. UplinkIsDue'
  BY <1>1, <1>2, <1>3, <1>4 DEF IInv, Chain, UplinkIsDue
<1>7. UplinkAscends'
  <2> SUFFICES ASSUME NEW i \in 1 .. Len(uplink'), NEW j \in 1 .. Len(uplink'),
                      i < j, uplink'[j] # 0
               PROVE  uplink'[i] < uplink'[j]
    BY DEF UplinkAscends
  <2>1. /\ i + 1 \in 1 .. Len(uplink) /\ uplink'[i] = uplink[i + 1]
        /\ j + 1 \in 1 .. Len(uplink) /\ uplink'[j] = uplink[j + 1]
    BY <1>4
  <2>2. i + 1 < j + 1
    BY <1>2
  <2>3. uplink[i + 1] < uplink[j + 1]
    BY <2>1, <2>2 DEF IInv, Chain, UplinkAscends
  <2> QED
    BY <2>1, <2>3
<1>8. \A n \in Forwarded : After(n) => After(n)'
  <2> SUFFICES ASSUME NEW n \in Forwarded, After(n)
               PROVE  After(n)'
    OBVIOUS
  <2>1. done' < n /\ n <= given'
    BY <1>1, <1>2, <1>3 DEF After
  <2>2. \A i \in 1 .. Len(uplink') : uplink'[i] < n
    BY <1>4 DEF After
  <2> QED
    BY <2>1, <2>2 DEF After
<1> QED
  BY <1>1, <1>5, <1>6, <1>7, <1>8 DEF IInv, Chain

\* The chain is kept by every step.
THEOREM Invariance == Spec => []IInv
<1>1. Init => IInv
  BY RequestsAssumption
     DEF Init, IInv, Places, Chain, UplinkIsDue, UplinkAscends, After,
         Forwarded, NOP_CMD, STOP_CMD
<1>2. IInv /\ [Next]_vars => IInv'
  <2> SUFFICES ASSUME IInv, [Next]_vars
               PROVE  IInv'
    OBVIOUS
  <2> USE DEF clientVars, com, mainVars, masterVars
  <2>1. CASE Command \/ Recenter \/ NotificationOn \/ Shutdown \/ Die
    BY <2>1, ClientKeeps
  <2>2. CASE MainStep
    BY <2>2, TakingKeeps, SendKeeps, SendRecenterKeeps, Untouched
       DEF MainStep, Join
  <2>3. CASE ReaderStep \/ StorePose
    BY <2>3, Untouched
       DEF ReaderStep, TryStartMaster, Hangup, StorePose, ParentGone,
           LostOrKept
  <2>4. CASE Receive
    BY <2>4, ReceiveKeeps
  <2>5. CASE Leave
    BY <2>5, Untouched DEF Leave, LostOrKept
  <2>6. CASE Arrive
    BY <2>6, Untouched DEF Arrive
  <2>7. CASE UNCHANGED vars
    BY <2>7, Untouched DEF vars
  <2> QED
    BY <2>1, <2>2, <2>3, <2>4, <2>5, <2>6, <2>7 DEF Next
<1> QED
  BY <1>1, <1>2, PTL DEF Spec

\* Whatever is given, lost, tried again and taken by whatever masters, no
\* command is carried out twice, or after one given later: the taking and the
\* clearing of com->cmd in ltr_int_slave_main_loop, and the retries there.
THEOREM CommandsInOrder == Spec => CarriedOutInOrder
<1>1. IInv /\ [Next]_vars =>
        [Receive => Head(uplink) = CMD_RECENTER \/ Head(uplink) > done]_vars
  <2> SUFFICES ASSUME IInv, Receive, Head(uplink) # CMD_RECENTER
               PROVE  Head(uplink) > done
    OBVIOUS
  <2>1. Head(uplink) = uplink[1] /\ Len(uplink) \in Nat \ {0}
    BY Taken DEF IInv, Places, Receive
  <2> QED
    BY <2>1 DEF IInv, Chain, UplinkIsDue
<1> QED
  BY <1>1, Invariance, PTL DEF Spec, CarriedOutInOrder
------------------------------------------------------------------------------
(* The types of the other variables.                                       *)

\* Where the client, the threads of the slave and the master are, with their flags.
Controls ==
  /\ client \in {"running", "shut", "dead"}
  /\ main \in {"look", "take", "clear", "unlock", "send", "recenter", "join", "ended"}
  /\ reader \in {"retry", "poll", "ended"}
  /\ server \in {"none", "gui", "up"}
  /\ erased \in 0 .. MaxRequests
  /\ due \in 0 .. MaxRequests

Flags ==
  /\ comRecenter \in BOOLEAN /\ comNotify \in BOOLEAN
  /\ recenter \in BOOLEAN /\ notify \in BOOLEAN /\ quit \in BOOLEAN
  /\ locked \in BOOLEAN /\ linked \in BOOLEAN /\ awaited \in BOOLEAN

\* The type invariant from its three parts.
LEMMA TypesAreParts == Places /\ Controls /\ Flags => TypeOK
<1>1. {CMD_RECENTER} \cup Forwarded = 0 .. MaxRequests
  BY RequestsAssumption DEF CMD_RECENTER, Forwarded
<1> QED
  BY <1>1 DEF Places, Controls, Flags, TypeOK

\* The threads and the master go on.
LEMMA ControlsKept ==
  ASSUME IInv, Controls, Next
  PROVE  Controls'
<1> USE RequestsAssumption DEF Controls, clientVars, com, mainVars, masterVars
<1>1. CASE Command
  BY <1>1 DEF Command, IInv, Places
<1>2. CASE Recenter \/ NotificationOn \/ Shutdown \/ Die
  BY <1>2 DEF Recenter, NotificationOn, Shutdown, Die
<1>3. CASE Look \/ TakeCommand \/ ClearRecenter \/ Join
  BY <1>3 DEF Look, TakeCommand, ClearRecenter, Join
<1>4. CASE ClearCommand
  BY <1>4 DEF ClearCommand, TakeFlags, Forwarded
<1>5. CASE Send \/ SendRecenter
  BY <1>5 DEF Send, Sent, SendRecenter, EndTurn
<1>6. CASE ReaderStep \/ StorePose
  BY <1>6 DEF ReaderStep, TryStartMaster, Hangup, ParentGone, StorePose
<1>7. CASE Receive \/ Leave \/ Arrive
  BY <1>7 DEF Receive, Leave, Arrive
<1> QED
  BY <1>1, <1>2, <1>3, <1>4, <1>5, <1>6, <1>7 DEF Next, MainStep

\* The flags stay flags.
LEMMA FlagsKept ==
  ASSUME Flags, Next
  PROVE  Flags'
<1> USE DEF Flags, clientVars, com, mainVars, masterVars
<1>1. CASE Command \/ Recenter \/ NotificationOn \/ Shutdown \/ Die
  BY <1>1 DEF Command, Recenter, NotificationOn, Shutdown, Die
<1>2. CASE Look \/ TakeCommand \/ Join
  BY <1>2 DEF Look, TakeCommand, Join
<1>3. CASE ClearCommand
  BY <1>3, Zenon DEF ClearCommand, TakeFlags
<1>4. CASE ClearRecenter
  BY <1>4, Zenon DEF ClearRecenter
<1>5. CASE Send
  BY <1>5, Zenon DEF Send, Sent
<1>6. CASE SendRecenter
  BY <1>6 DEF SendRecenter, EndTurn
<1>7. CASE ReaderStep \/ StorePose
  BY <1>7 DEF ReaderStep, TryStartMaster, Hangup, ParentGone, StorePose
<1>8. CASE Receive
  BY <1>8, Zenon DEF Receive
<1>9. CASE Leave
  BY <1>9, Zenon DEF Leave
<1>10. CASE Arrive
  BY <1>10 DEF Arrive
<1> QED
  BY <1>1, <1>2, <1>3, <1>4, <1>5, <1>6, <1>7, <1>8, <1>9, <1>10 DEF Next, MainStep

\* Every variable keeps its type, for any number of commands and any size of the uplink;
\* what is in the uplink is always a message the master knows.
THEOREM TypeCorrect == Spec => []TypeOK
<1>1. Init => Controls /\ Flags
  <2>1. Init => Controls
    BY RequestsAssumption DEF Init, Controls
  <2>2. Init => Flags
    BY Zenon DEF Init, Flags
  <2> QED
    BY <2>1, <2>2
<1>2. IInv /\ Controls /\ Flags /\ [Next]_vars => (Controls /\ Flags)'
  <2>1. CASE Next
    BY <2>1, ControlsKept, FlagsKept
  <2>2. CASE UNCHANGED vars
    BY <2>2 DEF vars, clientVars, com, mainVars, masterVars, Controls, Flags
  <2> QED
    BY <2>1, <2>2
<1>3. IInv /\ Controls /\ Flags => TypeOK
  BY TypesAreParts DEF IInv
<1> QED
  BY <1>1, <1>2, <1>3, Invariance, PTL DEF Spec
==============================================================================
