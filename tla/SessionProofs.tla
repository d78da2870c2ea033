---------------------------- MODULE SessionProofs ----------------------------
(***************************************************************************)
(* Proofs about Session, for any number of clients, of standalone masters  *)
(* and of downlinks.  That one process at a time uses the camera follows   *)
(* from the lock of the uplink being held from the lock to the close, by   *)
(* servers and by slaves that probe; that no downlink has two readers from *)
(* the locks of the numbers, which outlive every open downlink.            *)
(***************************************************************************)
EXTENDS Session, TLAPS

\* Where a process must have the lock of the uplink.
Locked == {"probe", "init", "poll", "check", "stop", "closing"}

HoldsLock == \A p \in Processes : pc[p] \in Locked => masterLock = p

\* A slave has the lock of the downlink it reads.
HoldsNumber == \A s \in Slaves :
                 link[s] # NoLink => link[s] \in Downlinks /\ numberLock[link[s]] = s

Shapes ==
  /\ pc \in [Processes -> SlavePcs \cup ServerPcs]
  /\ link \in [Slaves -> Downlinks \cup {NoLink}]
  /\ numberLock \in [Downlinks -> Slaves \cup {Nobody}]

IInv == Shapes /\ HoldsLock /\ HoldsNumber

------------------------------------------------------------------------------

\* The steps of a slave keep the invariant.
LEMMA SlaveKeeps ==
  ASSUME IInv, NEW s \in Slaves, SlaveStep(s) \/ Exit(s)
  PROVE  IInv'
<1> USE NamesAssumption, NumbersAssumption
    DEF IInv, Shapes, Processes, Servers
<1>1. CASE LookForMaster(s)
  BY <1>1 DEF LookForMaster, GoTo, HoldsLock, Locked, HoldsNumber, locks,
              SlavePcs, ServerPcs
<1>2. CASE Probe(s)
  BY <1>2 DEF Probe, GoTo, HoldsLock, Locked, HoldsNumber, SlavePcs, ServerPcs
<1>3. CASE StartMaster(s)
  BY <1>3 DEF StartMaster, HoldsLock, Locked, HoldsNumber, SlavePcs, ServerPcs
<1>4. CASE OpenUplink(s)
  BY <1>4 DEF OpenUplink, GoTo, HoldsLock, Locked, HoldsNumber, slaveVars,
              locks, SlavePcs, ServerPcs
<1>5. CASE SendNewFifo(s)
  <2>1. Shapes' /\ HoldsLock'
    BY <1>5 DEF SendNewFifo, FreeNumbers, FailsToLink, GoTo, HoldsLock,
                Locked, locks, SlavePcs, ServerPcs
  <2>2. HoldsNumber'
    BY <1>5 DEF SendNewFifo, FreeNumbers, FailsToLink, HoldsNumber,
                Downlinks, NoLink
  <2> QED
    BY <2>1, <2>2
<1>6. CASE MasterLeft(s)
  BY <1>6 DEF MasterLeft, GoTo, HoldsLock, Locked, HoldsNumber, locks,
              SlavePcs, ServerPcs
<1>7. CASE Exit(s)
  BY <1>7 DEF Exit, HoldsLock, Locked, HoldsNumber, SlavePcs, ServerPcs
<1> QED
  BY <1>1, <1>2, <1>3, <1>4, <1>5, <1>6, <1>7 DEF SlaveStep

\* A process that ends leaves its places and its lock.
LEMMA GoneKeeps ==
  ASSUME IInv, NEW p \in Servers, Gone(p), UNCHANGED slaveVars
  PROVE  IInv'
<1> USE NamesAssumption DEF IInv, Shapes, Processes, Servers
<1>1. Shapes'
  BY DEF Gone, slaveVars, SlavePcs, ServerPcs
<1>2. HoldsLock'
  BY DEF Gone, HoldsLock, Locked
<1>3. HoldsNumber'
  BY DEF slaveVars, HoldsNumber
<1> QED
  BY <1>1, <1>2, <1>3

\* A server that goes to another place, with the lock where it needs it, and
\* that takes the lock from nobody.
LEMMA MoveKeeps ==
  ASSUME IInv, NEW p \in Servers, NEW from, NEW to \in ServerPcs,
         GoTo(p, from, to), UNCHANGED <<link, numberLock>>,
         to \in Locked => masterLock' = p,
         masterLock' # masterLock => masterLock \in {Nobody, p}
  PROVE  IInv'
<1> USE NamesAssumption DEF IInv, Shapes, Processes, Servers
<1>1. Shapes'
  BY DEF GoTo
<1>2. HoldsLock'
  BY DEF GoTo, HoldsLock
<1>3. HoldsNumber'
  BY DEF HoldsNumber
<1> QED
  BY <1>1, <1>2, <1>3

\* A step that leaves the places and the locks as they are.
LEMMA QuietKeeps ==
  ASSUME IInv, UNCHANGED <<pc, masterLock, link, numberLock>>
  PROVE  IInv'
BY DEF IInv, Shapes, HoldsLock, HoldsNumber

\* The steps of a server keep the invariant.
LEMMA ServerKeeps ==
  ASSUME IInv, NEW p \in Servers,
         ServerStep(p) \/ Broadcast(p) \/ InitFails(p) \/ DeviceFails(p)
  PROVE  IInv'
<1> USE DEF slaveVars, serverVars, locks
<1>0. \A q \in Servers : pc[q] \in Locked => masterLock = q
  BY DEF IInv, HoldsLock, Processes
<1>1. CASE p \in Masters /\ CheckGui(p)
  <2>1. CASE guiLock
    BY <1>1, <2>1, GoneKeeps DEF CheckGui
  <2>2. CASE ~guiLock
    BY <1>1, <2>2, MoveKeeps DEF CheckGui, GoTo, ServerPcs, Locked
  <2> QED
    BY <2>1, <2>2
<1>2. CASE p \in Masters /\ LockUplink(p)
  <2>1. CASE masterLock # Nobody
    BY <1>2, <2>1, GoneKeeps DEF LockUplink
  <2>2. CASE masterLock = Nobody
    BY <1>2, <2>2, MoveKeeps DEF LockUplink, GoTo, ServerPcs, Locked
  <2> QED
    BY <2>1, <2>2
<1>3. CASE InitDevice(p)
  BY <1>0, <1>3, MoveKeeps DEF InitDevice, GoTo, ServerPcs, Locked
<1>4. CASE InitFails(p)
  <2>1. CASE p \in Masters
    BY <1>4, <2>1, GoneKeeps DEF InitFails
  <2>2. CASE p \notin Masters
    BY <1>4, <2>2, MoveKeeps DEF InitFails, GoTo, ServerPcs, Locked
  <2> QED
    BY <2>1, <2>2
<1>5. CASE Receive(p)
  <2>1. UNCHANGED <<link, numberLock, masterLock>>
    BY <1>5 DEF Receive
  <2> QED
    BY <1>0, <1>5, <2>1, MoveKeeps DEF Receive, GoTo, ServerPcs, Locked
<1>6. CASE Idle(p)
  <2>1. UNCHANGED <<link, numberLock, masterLock>>
    BY <1>6 DEF Idle
  <2> QED
    BY <1>0, <1>6, <2>1, MoveKeeps DEF Idle, GoTo, ServerPcs, Locked
<1>7. CASE Broadcast(p)
  BY <1>7, QuietKeeps DEF Broadcast
<1>8. CASE CheckLeave(p)
  BY <1>0, <1>8, MoveKeeps DEF CheckLeave, GoTo, ServerPcs, Locked
<1>9. CASE DeviceFails(p)
  BY <1>0, <1>9, MoveKeeps DEF DeviceFails, GoTo, ServerPcs, Locked
<1>10. CASE ShutDevice(p)
  BY <1>0, <1>10, MoveKeeps DEF ShutDevice, GoTo, ServerPcs, Locked
<1>11. CASE CloseUplink(p)
  BY <1>0, <1>11, MoveKeeps DEF CloseUplink, GoTo, ServerPcs, Locked
<1>12. CASE Leave(p)
  <2>1. CASE p \in Masters
    BY <1>12, <2>1, GoneKeeps DEF Leave
  <2>2. CASE p \notin Masters
    BY <1>12, <2>2, MoveKeeps DEF Leave, GoTo, ServerPcs, Locked
  <2> QED
    BY <2>1, <2>2
<1> QED
  BY <1>1, <1>2, <1>3, <1>4, <1>5, <1>6, <1>7, <1>8, <1>9, <1>10, <1>11, <1>12
     DEF ServerStep

\* The steps of ltr_gui as the user sees it keep the invariant.
LEMMA GuiKeeps ==
  ASSUME IInv,
         OpenWindow \/ Start \/ Claim \/ GiveUp \/ Stop \/ Quit
  PROVE  IInv'
<1> USE DEF slaveVars, serverVars, locks
<1>0. Gui \in Servers /\ (pc[Gui] \in Locked => masterLock = Gui)
  BY DEF IInv, HoldsLock, Processes, Servers
<1>1. CASE OpenWindow
  BY <1>0, <1>1, MoveKeeps DEF OpenWindow, ServerPcs, Locked
<1>2. CASE Start
  BY <1>0, <1>2, MoveKeeps DEF Start, ServerPcs, Locked
<1>3. CASE Claim
  BY <1>0, <1>3, MoveKeeps DEF Claim, ServerPcs, Locked
<1>4. CASE GiveUp
  BY <1>0, <1>4, MoveKeeps DEF GiveUp, ServerPcs, Locked
<1>5. CASE Stop
  BY <1>0, <1>5, MoveKeeps DEF Stop, GoTo, ServerPcs, Locked
<1>6. CASE Quit
  BY <1>0, <1>6, GoneKeeps DEF Quit
<1> QED
  BY <1>1, <1>2, <1>3, <1>4, <1>5, <1>6

\* The invariant holds in every state.
THEOREM Invariance == Spec => []IInv
<1>1. Init => IInv
  BY NamesAssumption
     DEF Init, IInv, Shapes, HoldsLock, HoldsNumber, Locked, Processes,
         Servers, SlavePcs, ServerPcs
<1>2. IInv /\ [Next]_vars => IInv'
  <2> SUFFICES ASSUME IInv, [Next]_vars
               PROVE  IInv'
    OBVIOUS
  <2>1. CASE \E s \in Slaves : SlaveStep(s) \/ Exit(s)
    BY <2>1, SlaveKeeps
  <2>2. CASE \E p \in Servers : ServerStep(p) \/ Broadcast(p) \/ InitFails(p)
                                  \/ DeviceFails(p)
    BY <2>2, ServerKeeps
  <2>3. CASE OpenWindow \/ Start \/ Claim \/ GiveUp \/ Stop \/ Quit
    BY <2>3, GuiKeeps
  <2>4. CASE UNCHANGED vars
    BY <2>4, QuietKeeps DEF vars, slaveVars, locks
  <2> QED
    BY <2>1, <2>2, <2>3, <2>4 DEF Next
<1> QED
  BY <1>1, <1>2, PTL DEF Spec

\* Of any number of standalone masters and ltr_gui, one at a time uses the
\* camera and reads the uplink: ltr_int_open_fifo_exclusive before
\* ltr_int_init, and the unlocking after ltr_int_shutdown.
THEOREM OneMasterAtATime == Spec => []OneMaster
<1>1. IInv => OneMaster
  BY DEF IInv, HoldsLock, OneMaster, UsesDevice, Locked, Processes
<1> QED
  BY <1>1, Invariance, PTL

\* No downlink has two readers, for any number of clients: the lock of a
\* number is with the slave that reads the downlink (ltr_int_open_unique_fifo).
THEOREM OneReaderPerDownlink == Spec => []OneReader
<1>1. IInv => OneReader
  BY DEF IInv, HoldsNumber, OneReader
<1> QED
  BY <1>1, Invariance, PTL
------------------------------------------------------------------------------
(***************************************************************************)
(* The types.  A slave counts its tries down without looking: that they    *)
(* stay numbers is due to the look that led to the start of a master.      *)
(***************************************************************************)

TriesLeft == \A s \in Slaves : pc[s] \in {"start", "probe"} => tries[s] > 0

TInv == TypeOK /\ TriesLeft

Entries == Slaves \X Downlinks

\* What is left in a fifo is of its kind.
LEMMA KeptTyped == \A m \in Seq(Entries) : Kept(m) \in Seq(Entries)
BY DEF Kept

\* The steps of a slave keep the types.
LEMMA SlaveTyped ==
  ASSUME TInv, NEW s \in Slaves, SlaveStep(s) \/ Exit(s)
  PROVE  TInv'
<1> USE NamesAssumption, NumbersAssumption
    DEF TInv, TypeOK, TriesLeft, Processes, Servers, slaveVars, serverVars, locks
<1>0. Kept(uplink) \in Seq(Entries)
  BY KeptTyped DEF Entries
<1>1. CASE LookForMaster(s)
  <2>1. pc' \in [Processes -> SlavePcs \cup ServerPcs]
    BY <1>1 DEF LookForMaster, GoTo, SlavePcs
  <2>2. tries' \in [Slaves -> 0 .. Retries]
    <3>1. Retries \in 0 .. Retries
      OBVIOUS
    <3> QED
      BY <1>1, <3>1 DEF LookForMaster
  <2>3. TriesLeft'
    BY <1>1 DEF LookForMaster, GoTo
  <2> QED
    BY <1>1, <2>1, <2>2, <2>3 DEF LookForMaster
<1>2. CASE Probe(s)
  <2>1. tries[s] - 1 \in 0 .. Retries /\ s \in Processes
    BY <1>2 DEF Probe, GoTo
  <2>2. pc' \in [Processes -> SlavePcs \cup ServerPcs]
    BY <1>2 DEF Probe, GoTo, SlavePcs
  <2>3. tries' \in [Slaves -> 0 .. Retries] /\ masterLock' \in Processes \cup {Nobody}
    <3>1. tries' = tries \/ tries' = [tries EXCEPT ![s] = tries[s] - 1]
      BY <1>2, Zenon DEF Probe
    <3>2. masterLock' \in {s, masterLock}
      BY <1>2, Zenon DEF Probe
    <3>3. tries' \in [Slaves -> 0 .. Retries]
      BY <2>1, <3>1
    <3> QED
      BY <2>1, <3>2, <3>3
  <2>4. TriesLeft'
    BY <1>2 DEF Probe, GoTo
  <2> QED
    BY <1>2, <2>2, <2>3, <2>4 DEF Probe
<1>3. CASE StartMaster(s)
  <2>1. tries[s] - 1 \in 0 .. Retries
    BY <1>3 DEF StartMaster
  <2>2. /\ pc' \in [Processes -> SlavePcs \cup ServerPcs]
        /\ tries' \in [Slaves -> 0 .. Retries]
    BY <1>3, <2>1 DEF StartMaster, SlavePcs, ServerPcs
  <2>3. TriesLeft'
    BY <1>3 DEF StartMaster
  <2> QED
    BY <1>0, <1>3, <2>2, <2>3 DEF StartMaster, Entries
<1>4. CASE OpenUplink(s)
  BY <1>4 DEF OpenUplink, GoTo, SlavePcs, ServerPcs
<1>5. CASE SendNewFifo(s)
  <2>1. /\ pc' \in [Processes -> SlavePcs \cup ServerPcs]
        /\ \A t \in Slaves : pc'[t] \in {"start", "probe"} => pc[t] \in {"start", "probe"}
    BY <1>5 DEF SendNewFifo, FailsToLink, GoTo, SlavePcs, ServerPcs
  <2>2. /\ numberLock' \in [Downlinks -> Slaves \cup {Nobody}]
        /\ link' \in [Slaves -> Downlinks \cup {NoLink}]
        /\ hadWriter' \in [Slaves -> BOOLEAN]
        /\ uplink' \in Seq(Entries)
    <3>1. CASE FreeNumbers(s) = {}
      BY <1>0, <1>5, <3>1 DEF SendNewFifo, FailsToLink, Entries
    <3>2. ASSUME NEW d \in FreeNumbers(s), numberLock' = [numberLock EXCEPT ![d] = s]
          PROVE  numberLock' \in [Downlinks -> Slaves \cup {Nobody}] /\ d \in Downlinks
      BY <3>2 DEF FreeNumbers
    <3>3. ASSUME NEW d \in Downlinks, uplink' = Append(uplink, <<s, d>>)
          PROVE  uplink' \in Seq(Entries)
      <4>1. <<s, d>> \in Entries /\ uplink \in Seq(Entries)
        BY DEF Entries
      <4> QED
        BY <3>3, <4>1
    <3>4. ASSUME NEW d \in Downlinks, hadWriter' = [hadWriter EXCEPT ![s] = Writers(d) # {}]
          PROVE  hadWriter' \in [Slaves -> BOOLEAN]
      <4>1. (Writers(d) # {}) \in BOOLEAN
        OBVIOUS
      <4> QED
        BY <3>4, <4>1
    <3> QED
      BY <1>0, <1>5, <3>1, <3>2, <3>3, <3>4 DEF SendNewFifo, FailsToLink
  <2> QED
    BY <1>5, <2>1, <2>2 DEF SendNewFifo, Entries
<1>6. CASE MasterLeft(s)
  BY <1>0, <1>6 DEF MasterLeft, GoTo, Entries, SlavePcs, ServerPcs
<1>7. CASE Exit(s)
  BY <1>0, <1>7 DEF Exit, Entries, SlavePcs, ServerPcs
<1> QED
  BY <1>1, <1>2, <1>3, <1>4, <1>5, <1>6, <1>7 DEF SlaveStep

\* A server that goes to another place, with what it may change of the session.
LEMMA MoveTyped ==
  ASSUME TInv, NEW p \in Servers, NEW to \in ServerPcs,
         pc' = [pc EXCEPT ![p] = to],
         UNCHANGED <<tries, numberLock, link>>,
         guiLock' \in BOOLEAN, masterLock' \in {masterLock, p, Nobody},
         uplink' \in Seq(Entries), hadWriter' \in [Slaves -> BOOLEAN],
         slaves' \in [Servers -> SUBSET Entries],
         noSlaves' \in [Servers -> BOOLEAN], failures' \in 0 .. MaxFailures
  PROVE  TInv'
<1> USE NamesAssumption DEF TInv, TypeOK, TriesLeft, Processes, Servers, Entries
<1>1. pc' \in [Processes -> SlavePcs \cup ServerPcs]
  OBVIOUS
<1>2. \A s \in Slaves : pc'[s] = pc[s]
  OBVIOUS
<1> QED
  BY <1>1, <1>2

\* What a broadcast keeps, and what a process leaves that ends.
LEMMA PruneTyped ==
  ASSUME TInv, NEW p \in Servers, Prune(p)
  PROVE  slaves' \in [Servers -> SUBSET Entries] /\ noSlaves' \in [Servers -> BOOLEAN]
BY DEF TInv, TypeOK, Prune, Alive, Entries

\* What a process leaves that ends has its type.
LEMMA GoneTyped ==
  ASSUME TInv, NEW p \in Servers, Gone(p), UNCHANGED slaveVars,
         guiLock' \in BOOLEAN, failures' \in 0 .. MaxFailures
  PROVE  TInv'
<1> DEFINE to == "free"
<1>1. /\ slaves' \in [Servers -> SUBSET Entries] /\ noSlaves' \in [Servers -> BOOLEAN]
      /\ masterLock' \in {masterLock, Nobody}
  BY DEF Gone, TInv, TypeOK, Entries
<1>2. uplink' \in Seq(Entries)
  BY KeptTyped DEF Gone, TInv, TypeOK, Entries
<1>3. pc' = [pc EXCEPT ![p] = to] /\ to \in ServerPcs
  BY DEF Gone, ServerPcs
<1> HIDE DEF to
<1> QED
  BY <1>1, <1>2, <1>3, MoveTyped DEF slaveVars, TInv, TypeOK

\* The steps of a server keep the types.
LEMMA ServerTyped ==
  ASSUME TInv, NEW p \in Servers,
         ServerStep(p) \/ Broadcast(p) \/ InitFails(p) \/ DeviceFails(p)
  PROVE  TInv'
<1> USE NumbersAssumption DEF slaveVars, serverVars, locks
<1>0. /\ TypeOK /\ uplink \in Seq(Entries) /\ Kept(uplink) \in Seq(Entries)
      /\ slaves \in [Servers -> SUBSET Entries]
  BY KeptTyped DEF TInv, TypeOK, Entries
<1>1. CASE p \in Masters /\ CheckGui(p)
  <2>1. CASE guiLock
    BY <1>0, <1>1, <2>1, GoneTyped DEF CheckGui, TypeOK
  <2>2. CASE ~guiLock
    BY <1>0, <1>1, <2>2, MoveTyped DEF CheckGui, ServerPcs, TypeOK
  <2> QED
    BY <2>1, <2>2
<1>2. CASE p \in Masters /\ LockUplink(p)
  <2>1. CASE masterLock # Nobody
    BY <1>0, <1>2, <2>1, GoneTyped DEF LockUplink, TypeOK
  <2>2. CASE masterLock = Nobody
    BY <1>0, <1>2, <2>2, MoveTyped DEF LockUplink, ServerPcs, TypeOK
  <2> QED
    BY <2>1, <2>2
<1>3. CASE InitDevice(p)
  BY <1>0, <1>3, MoveTyped DEF InitDevice, GoTo, ServerPcs, TypeOK
<1>4. CASE InitFails(p)
  <2>1. failures' \in 0 .. MaxFailures
    BY <1>0, <1>4 DEF InitFails, TypeOK
  <2>2. CASE p \in Masters
    BY <1>0, <1>4, <2>1, <2>2, GoneTyped DEF InitFails, TypeOK
  <2>3. CASE p \notin Masters
    BY <1>0, <1>4, <2>1, <2>3, MoveTyped DEF InitFails, ServerPcs, TypeOK
  <2> QED
    BY <2>2, <2>3
<1>5. CASE Receive(p)
  <2>1. Head(uplink) \in Entries /\ Tail(uplink) \in Seq(Entries)
    BY <1>0, <1>5 DEF Receive
  <2>2. slaves' \in [Servers -> SUBSET Entries] /\ hadWriter' \in [Slaves -> BOOLEAN]
    <3>1. PICK s \in Slaves, d \in Downlinks : Head(uplink) = <<s, d>>
      BY <2>1 DEF Entries
    <3>2. <<s, d>> \in Entries /\ slaves[p] \subseteq Entries
      BY <1>0 DEF Entries
    <3>3. \A r \in Slaves : (hadWriter[r] \/ r \in Readers(d)) \in BOOLEAN
      OBVIOUS
    <3>4. hadWriter \in [Slaves -> BOOLEAN]
      BY <1>0 DEF TypeOK
    <3>5. hadWriter' \in [Slaves -> BOOLEAN]
      BY <1>5, <3>1, <3>3, <3>4, Zenon DEF Receive, Register
    <3>6. \/ slaves' = [slaves EXCEPT ![p] = slaves[p]]
          \/ slaves' = [slaves EXCEPT ![p] = slaves[p] \cup {<<s, d>>}]
      BY <1>5, <3>1 DEF Receive, Register
    <3> QED
      BY <1>0, <3>2, <3>5, <3>6
  <2> QED
    BY <1>0, <1>5, <2>1, <2>2, MoveTyped DEF Receive, GoTo, ServerPcs, TypeOK
<1>6. CASE Idle(p)
  <2>1. slaves' \in [Servers -> SUBSET Entries] /\ noSlaves' \in [Servers -> BOOLEAN]
    BY <1>0, <1>6, PruneTyped DEF Idle, TypeOK
  <2> QED
    BY <1>0, <1>6, <2>1, MoveTyped DEF Idle, GoTo, ServerPcs, TypeOK
<1>7. CASE Broadcast(p)
  <2>1. slaves' \in [Servers -> SUBSET Entries] /\ noSlaves' \in [Servers -> BOOLEAN]
    BY <1>7, PruneTyped DEF Broadcast
  <2> QED
    BY <1>7, <2>1 DEF Broadcast, TInv, TypeOK, TriesLeft, Entries
<1>8. CASE CheckLeave(p)
  BY <1>0, <1>8, MoveTyped DEF CheckLeave, GoTo, ServerPcs, TypeOK
<1>9. CASE DeviceFails(p)
  <2>1. failures' \in 0 .. MaxFailures
    BY <1>0, <1>9 DEF DeviceFails, TypeOK
  <2> QED
    BY <1>0, <1>9, <2>1, MoveTyped DEF DeviceFails, GoTo, ServerPcs, TypeOK
<1>10. CASE ShutDevice(p)
  BY <1>0, <1>10, MoveTyped DEF ShutDevice, GoTo, ServerPcs, TypeOK
<1>11. CASE CloseUplink(p)
  BY <1>0, <1>11, MoveTyped DEF CloseUplink, GoTo, ServerPcs, TypeOK
<1>12. CASE Leave(p)
  <2>1. CASE p \in Masters
    BY <1>0, <1>12, <2>1, GoneTyped DEF Leave, TypeOK
  <2>2. CASE p \notin Masters
    <3>1. UNCHANGED <<tries, numberLock, link, hadWriter, guiLock, masterLock, uplink,
                      slaves, noSlaves, failures>>
      BY <1>12, <2>2 DEF Leave
    <3>2. pc' = [pc EXCEPT ![p] = "window"] /\ "window" \in ServerPcs
      BY <1>12, <2>2 DEF Leave, ServerPcs
    <3> QED
      BY <1>0, <3>1, <3>2, MoveTyped DEF TypeOK
  <2> QED
    BY <2>1, <2>2
<1> QED
  BY <1>1, <1>2, <1>3, <1>4, <1>5, <1>6, <1>7, <1>8, <1>9, <1>10, <1>11, <1>12
     DEF ServerStep

\* The steps of ltr_gui as the user sees it keep the types.
LEMMA GuiTyped ==
  ASSUME TInv, OpenWindow \/ Start \/ Claim \/ GiveUp \/ Stop \/ Quit
  PROVE  TInv'
<1> USE DEF slaveVars, serverVars, locks
<1>0. /\ Gui \in Servers /\ TypeOK /\ uplink \in Seq(Entries)
      /\ slaves \in [Servers -> SUBSET Entries]
  BY DEF TInv, TypeOK, Servers, Entries
<1>1. CASE Quit
  BY <1>0, <1>1, GoneTyped DEF Quit, TypeOK
<1>2. CASE OpenWindow \/ Start
  BY <1>0, <1>2, MoveTyped DEF OpenWindow, Start, GoTo, ServerPcs, TypeOK
<1>5. CASE Claim
  BY <1>0, <1>5, MoveTyped DEF Claim, GoTo, ServerPcs, TypeOK
<1>3. CASE GiveUp
  BY <1>0, <1>3, MoveTyped DEF GiveUp, GoTo, ServerPcs, TypeOK
<1>4. CASE Stop
  BY <1>0, <1>4, MoveTyped DEF Stop, GoTo, ServerPcs, TypeOK
<1> QED
  BY <1>1, <1>2, <1>3, <1>4, <1>5

\* Every variable keeps its type, for any number of processes, downlinks and retries; a
\* slave has a try left whenever it starts a master (ltr_int_try_start_master).
THEOREM TypeCorrect == Spec => []TypeOK
<1>1. Init => TInv
  <2> SUFFICES ASSUME Init
               PROVE  TInv
    OBVIOUS
  <2>1. pc \in [Processes -> SlavePcs \cup ServerPcs]
    BY DEF Init, SlavePcs, ServerPcs
  <2>2. tries \in [Slaves -> 0 .. Retries] /\ failures \in 0 .. MaxFailures
    BY NumbersAssumption DEF Init
  <2>3. /\ numberLock \in [Downlinks -> Slaves \cup {Nobody}]
        /\ link \in [Slaves -> Downlinks \cup {NoLink}]
    BY DEF Init
  <2>5. /\ hadWriter \in [Slaves -> BOOLEAN] /\ noSlaves \in [Servers -> BOOLEAN]
        /\ slaves \in [Servers -> SUBSET Entries]
    BY DEF Init
  <2>4. TriesLeft
    BY DEF Init, TriesLeft, Processes
  <2>6. guiLock \in BOOLEAN /\ masterLock \in Processes \cup {Nobody}
    BY Zenon DEF Init
  <2>7. uplink \in Seq(Entries)
    BY DEF Init
  <2> QED
    BY <2>1, <2>2, <2>3, <2>4, <2>5, <2>6, <2>7 DEF TInv, TypeOK, Entries
<1>2. TInv /\ [Next]_vars => TInv'
  <2> SUFFICES ASSUME TInv, [Next]_vars
               PROVE  TInv'
    OBVIOUS
  <2>1. CASE \E s \in Slaves : SlaveStep(s) \/ Exit(s)
    BY <2>1, SlaveTyped
  <2>2. CASE \E p \in Servers : ServerStep(p) \/ Broadcast(p) \/ InitFails(p)
                                  \/ DeviceFails(p)
    BY <2>2, ServerTyped
  <2>3. CASE OpenWindow \/ Start \/ Claim \/ GiveUp \/ Stop \/ Quit
    BY <2>3, GuiTyped
  <2>4. CASE UNCHANGED vars
    BY <2>4 DEF vars, slaveVars, serverVars, locks, TInv, TypeOK, TriesLeft
  <2> QED
    BY <2>1, <2>2, <2>3, <2>4 DEF Next
<1>3. TInv => TypeOK
  BY DEF TInv
<1> QED
  BY <1>1, <1>2, <1>3, PTL DEF Spec
==============================================================================
