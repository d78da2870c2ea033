------------------------------- MODULE Session -------------------------------
(***************************************************************************)
(* The processes of a tracking session and how they find each other:       *)
(* ltr_srv_slave.c (one slave per client program), ltr_srv_master.cpp (the *)
(* standalone master a slave starts, or the master thread of ltr_gui) and  *)
(* the locks and fifos of ipc_utils.c.                                     *)
(*                                                                         *)
(* A lock is a lockf lock on a file of its own: it dies with its process.  *)
(* The uplink is the fifo every slave writes to and the master reads.  A   *)
(* downlink is a numbered fifo that one slave reads; a master that reads a *)
(* registration opens the downlink named in it for writing.  A fifo is the *)
(* same file for everybody who opens it: what is written stays in it as    *)
(* long as any end is open, and a number is used again by another slave.   *)
(***************************************************************************)
EXTENDS Naturals, Sequences

CONSTANTS
  Slaves,       \* slave processes, each named by its profile
  Masters,      \* standalone master processes that may live at a time
  Gui,          \* the process of ltr_gui
  Nobody,       \* no process
  MaxDownlinks, \* ltr_int_max_slave_fifos
  Retries,      \* master_retries
  MaxFailures   \* bound: failed initializations and device errors

ASSUME NamesAssumption ==
  /\ Slaves \cap Masters = {}
  /\ Gui \notin Slaves \cup Masters
  /\ Nobody \notin Slaves \cup Masters \cup {Gui}
ASSUME NumbersAssumption ==
  MaxDownlinks \in Nat /\ Retries \in Nat /\ MaxFailures \in Nat

Servers   == Masters \cup {Gui}
Processes == Slaves \cup Servers
Downlinks == 0 .. MaxDownlinks - 1
NoLink    == MaxDownlinks

VARIABLES
  pc,          \* where each process is
  tries,       \* master_restart_retries of each slave
  guiLock,     \* ltr_gui holds ltr_server.lock
  masterLock,  \* the process that holds the lock of the uplink
  uplink,      \* the registrations in the uplink
  numberLock,  \* the slave that holds the lock of each downlink
  link,        \* the downlink a slave has open, or NoLink
  hadWriter,   \* somebody has written to that downlink since it was opened
  slaves,      \* the entries <<profile, downlink>> of each server's multimap
  noSlaves,    \* no_slaves of each server
  failures     \* bound

slaveVars  == <<tries, numberLock, link, hadWriter>>
serverVars == <<slaves, noSlaves, failures>>
locks      == <<guiLock, masterLock>>
vars       == <<pc, slaveVars, locks, uplink, serverVars>>

SlavePcs == {"retry", "start", "probe", "open", "linked", "polling",
             "gaveUp", "dead"}
ServerPcs == {"free", "boot", "lock", "init", "poll", "check", "stop",
              "closing", "leaving", "window", "claim"}

TypeOK ==
  /\ pc \in [Processes -> SlavePcs \cup ServerPcs]
  /\ tries \in [Slaves -> 0 .. Retries]
  /\ guiLock \in BOOLEAN
  /\ masterLock \in Processes \cup {Nobody}
  /\ uplink \in Seq(Slaves \X Downlinks)
  /\ numberLock \in [Downlinks -> Slaves \cup {Nobody}]
  /\ link \in [Slaves -> Downlinks \cup {NoLink}]
  /\ hadWriter \in [Slaves -> BOOLEAN]
  /\ slaves \in [Servers -> SUBSET (Slaves \X Downlinks)]
  /\ noSlaves \in [Servers -> BOOLEAN]
  /\ failures \in 0 .. MaxFailures

Init ==
  /\ pc = [p \in Processes |-> IF p \in Slaves THEN "retry" ELSE "free"]
  /\ tries = [s \in Slaves |-> Retries]
  /\ guiLock = FALSE
  /\ masterLock = Nobody
  /\ uplink = <<>>
  /\ numberLock = [d \in Downlinks |-> Nobody]
  /\ link = [s \in Slaves |-> NoLink]
  /\ hadWriter = [s \in Slaves |-> FALSE]
  /\ slaves = [p \in Servers |-> {}]
  /\ noSlaves = [p \in Servers |-> FALSE]
  /\ failures = 0

------------------------------------------------------------------------------
(* The fifos.                                                              *)

\* Who has the uplink open: a server from its lock to its close, a slave that
\* probes for a master; and the slaves that write to it.
ReadsUplink(places) ==
  {p \in Processes :
     places[p] \in {"probe", "init", "poll", "check", "stop", "closing"}}
WritesUplink(places) ==
  {s \in Slaves : places[s] \in {"linked", "polling"}}

\* Seeded fault: a fifo without a reader loses what is in it.
KeptByReaders(messages) == IF ReadsUplink(pc') = {} THEN <<>> ELSE messages

\* A fifo that nobody has open any more loses what is in it.
Kept(messages) ==
  IF ReadsUplink(pc') \cup WritesUplink(pc') = {} THEN <<>> ELSE messages

GoTo(p, from, to) ==
  /\ pc[p] = from
  /\ pc' = [pc EXCEPT ![p] = to]

Writers(d) == {p \in Servers : \E s \in Slaves : <<s, d>> \in slaves[p]}
Readers(d) == {s \in Slaves : link[s] = d}

\* The entries a broadcast keeps: writing to the others gives EPIPE.
Alive(entries) == {e \in entries : Readers(e[2]) # {}}

\* Seeded fault: no_slaves is not set by the broadcast that removes the last.
PruneOnly(p) ==
  /\ slaves' = [slaves EXCEPT ![p] = Alive(@)]
  /\ UNCHANGED noSlaves

\* ltr_int_broadcast_pose
Prune(p) ==
  /\ slaves' = [slaves EXCEPT ![p] = Alive(@)]
  /\ noSlaves' = [noSlaves EXCEPT ![p] =
                    @ \/ (slaves[p] # {} /\ Alive(slaves[p]) = {})]

------------------------------------------------------------------------------
(* A slave: the reader thread of ltr_srv_slave.c.                          *)

\* Seeded fault: the retries are not counted.
LookForever(s) ==
  /\ IF guiLock
       THEN /\ GoTo(s, "retry", "open")
            /\ tries' = [tries EXCEPT ![s] = Retries]
       ELSE GoTo(s, "retry", "start") /\ UNCHANGED tries
  /\ UNCHANGED <<numberLock, link, hadWriter, locks, uplink, serverVars>>

\* ltr_int_try_start_master: with the GUI there it only waits for its master.
LookForMaster(s) ==
  /\ \/ tries[s] > 0 /\ ~guiLock /\ GoTo(s, "retry", "start") /\ UNCHANGED tries
     \/ /\ tries[s] > 0 /\ guiLock /\ GoTo(s, "retry", "open")
        /\ tries' = [tries EXCEPT ![s] = Retries]
     \/ tries[s] = 0 /\ GoTo(s, "retry", "gaveUp") /\ UNCHANGED tries
  /\ UNCHANGED <<numberLock, link, hadWriter, locks, uplink, serverVars>>

\* start_master: the lock of the uplink tells whether a master is there.  To
\* have it is to have the uplink open for reading, too.
Probe(s) ==
  /\ \/ /\ masterLock = Nobody
        /\ GoTo(s, "start", "probe")
        /\ masterLock' = s
        /\ UNCHANGED tries
     \/ /\ masterLock # Nobody
        /\ GoTo(s, "start", "open")
        /\ tries' = [tries EXCEPT ![s] = @ - 1]
        /\ UNCHANGED masterLock
  /\ UNCHANGED <<numberLock, link, hadWriter, guiLock, uplink, serverVars>>

\* The lock is given back and a master started; wait() returns as soon as the
\* new process has made itself a daemon.
StartMaster(s) ==
  /\ \E m \in Masters :
       /\ pc[s] = "probe" /\ pc[m] = "free"
       /\ pc' = [pc EXCEPT ![s] = "open", ![m] = "boot"]
  /\ masterLock' = Nobody
  /\ tries' = [tries EXCEPT ![s] = @ - 1]
  /\ uplink' = Kept(uplink)
  /\ UNCHANGED <<numberLock, link, hadWriter, guiLock, serverVars>>

\* ltr_int_open_fifo_for_writing fails as long as nobody reads.
OpenUplink(s) ==
  /\ GoTo(s, "open", IF ReadsUplink(pc) # {} THEN "linked" ELSE "retry")
  /\ UNCHANGED <<slaveVars, locks, uplink, serverVars>>

\* Seeded fault: the locks of the numbers are not looked at.
AllNumbers(s) == Downlinks

\* The numbers whose lock this process can have, or has already.
FreeNumbers(s) == {d \in Downlinks : numberLock[d] \in {Nobody, s}}

FailsToLink(s) ==
  /\ GoTo(s, "linked", "retry")
  /\ uplink' = Kept(uplink)
  /\ UNCHANGED <<link, hadWriter>>

\* ltr_int_open_slave_fifo: the first downlink this process may have is opened
\* and its number sent.  The lock of the number is kept when that fails, and
\* when the master leaves.
SendNewFifo(s) ==
  /\ \/ \E d \in FreeNumbers(s) :
          /\ \A e \in FreeNumbers(s) : d <= e
          /\ numberLock' = [numberLock EXCEPT ![d] = s]
          /\ \/ /\ ReadsUplink(pc) # {}
                /\ GoTo(s, "linked", "polling")
                /\ link' = [link EXCEPT ![s] = d]
                /\ hadWriter' = [hadWriter EXCEPT ![s] = Writers(d) # {}]
                /\ uplink' = Append(uplink, <<s, d>>)
             \/ ReadsUplink(pc) = {} /\ FailsToLink(s)
     \/ FreeNumbers(s) = {} /\ FailsToLink(s) /\ UNCHANGED numberLock
  /\ UNCHANGED <<tries, locks, serverVars>>

\* POLLHUP on the downlink: it had a writer and has none.
MasterLeft(s) ==
  /\ hadWriter[s] /\ Writers(link[s]) = {}
  /\ GoTo(s, "polling", "retry")
  /\ tries' = [tries EXCEPT ![s] = Retries]
  /\ link' = [link EXCEPT ![s] = NoLink]
  /\ uplink' = Kept(uplink)
  /\ UNCHANGED <<numberLock, hadWriter, locks, serverVars>>

\* The slave ends: killed, or having seen that its client is gone.
Exit(s) ==
  /\ pc[s] # "dead"
  /\ pc' = [pc EXCEPT ![s] = "dead"]
  /\ link' = [link EXCEPT ![s] = NoLink]
  /\ numberLock' = [d \in Downlinks |->
                      IF numberLock[d] = s THEN Nobody ELSE numberLock[d]]
  /\ masterLock' = IF masterLock = s THEN Nobody ELSE masterLock
  /\ uplink' = Kept(uplink)
  /\ UNCHANGED <<tries, hadWriter, guiLock, serverVars>>

SlaveStep(s) ==
  \/ LookForMaster(s) \/ Probe(s) \/ StartMaster(s) \/ OpenUplink(s)
  \/ SendNewFifo(s) \/ MasterLeft(s)

------------------------------------------------------------------------------
(* A server: ltr_int_master.                                               *)

\* The process ends, wherever it is: the system closes and unlocks for it.
Gone(p) ==
  /\ pc' = [pc EXCEPT ![p] = "free"]
  /\ slaves' = [slaves EXCEPT ![p] = {}]
  /\ noSlaves' = [noSlaves EXCEPT ![p] = FALSE]
  /\ masterLock' = IF masterLock = p THEN Nobody ELSE masterLock
  /\ uplink' = Kept(uplink)

\* A standalone master does not start while the GUI holds its lock.
CheckGui(m) ==
  /\ pc[m] = "boot"
  /\ IF guiLock THEN Gone(m)
     ELSE /\ pc' = [pc EXCEPT ![m] = "lock"]
          /\ UNCHANGED <<masterLock, uplink, slaves, noSlaves>>
  /\ UNCHANGED <<slaveVars, guiLock, failures>>

\* ltr_int_open_fifo_exclusive, tried once: another master may be running.
LockUplink(m) ==
  /\ pc[m] = "lock"
  /\ IF masterLock # Nobody THEN Gone(m)
     ELSE /\ pc' = [pc EXCEPT ![m] = "init"]
          /\ masterLock' = m
          /\ UNCHANGED <<uplink, slaves, noSlaves>>
  /\ UNCHANGED <<slaveVars, guiLock, failures>>

\* ltr_int_init; no_slaves is cleared before the loop.
InitDevice(p) ==
  /\ GoTo(p, "init", "poll")
  /\ noSlaves' = [noSlaves EXCEPT ![p] = FALSE]
  /\ UNCHANGED <<slaveVars, locks, uplink, slaves, failures>>

\* ltr_int_init fails: the uplink is closed and nothing else.  A standalone
\* master ends with it, ltr_gui keeps both locks.
InitFails(p) ==
  /\ failures < MaxFailures
  /\ failures' = failures + 1
  /\ pc[p] = "init"
  /\ IF p \in Masters THEN Gone(p)
     ELSE /\ pc' = [pc EXCEPT ![p] = "window"]
          /\ uplink' = Kept(uplink)
          /\ UNCHANGED <<masterLock, slaves, noSlaves>>
  /\ UNCHANGED <<slaveVars, guiLock>>

\* ltr_int_register_slave: the downlink is opened if somebody reads it, be it
\* the slave that sent the number or the one that has the number now.
Register(p, entries) ==
  LET s == Head(uplink)[1]
      d == Head(uplink)[2]
  IN  IF Readers(d) = {}
        THEN /\ slaves' = [slaves EXCEPT ![p] = entries]
             /\ UNCHANGED hadWriter
        ELSE /\ slaves' = [slaves EXCEPT ![p] = entries \cup {<<s, d>>}]
             /\ hadWriter' = [r \in Slaves |->
                                hadWriter[r] \/ r \in Readers(d)]

\* One turn of the loop: a message is received if there is one.
Receive(p) ==
  /\ uplink # <<>>
  /\ GoTo(p, "poll", "check")
  /\ Register(p, slaves[p])
  /\ uplink' = Tail(uplink)
  /\ UNCHANGED <<tries, numberLock, link, locks, noSlaves, failures>>

\* A turn without a message: the poll timed out, or every writer has left, and
\* then a standalone master sends a pose to see who is still there.
Idle(p) ==
  /\ uplink = <<>>
  /\ GoTo(p, "poll", "check")
  /\ IF p \in Masters /\ WritesUplink(pc) = {}
       THEN Prune(p)
       ELSE UNCHANGED <<slaves, noSlaves>>
  /\ UNCHANGED <<slaveVars, locks, uplink, failures>>

\* The device thread sends a pose with every frame, and the loop one now and
\* then while the device is paused.
Broadcast(p) ==
  /\ pc[p] \in {"poll", "check", "stop"}
  /\ Alive(slaves[p]) # slaves[p]
  /\ Prune(p)
  /\ UNCHANGED <<pc, slaveVars, locks, uplink, failures>>

\* ltr_int_gui_lock(false) fails in every process but that of the GUI.
GuiIsThere(p) == p \in Masters /\ guiLock

\* Seeded fault: the loop does not look at the lock of the GUI.
LeaveForSlavesOnly(p) ==
  /\ GoTo(p, "check", IF noSlaves[p] THEN "stop" ELSE "poll")
  /\ UNCHANGED <<slaveVars, locks, uplink, serverVars>>

\* The condition at the end of the loop, but for the errors of the device and
\* the request of the GUI to stop.
CheckLeave(p) ==
  /\ GoTo(p, "check", IF GuiIsThere(p) \/ noSlaves[p] THEN "stop" ELSE "poll")
  /\ UNCHANGED <<slaveVars, locks, uplink, serverVars>>

DeviceFails(p) ==
  /\ failures < MaxFailures
  /\ failures' = failures + 1
  /\ GoTo(p, "check", "stop")
  /\ UNCHANGED <<slaveVars, locks, uplink, slaves, noSlaves>>

\* Seeded fault: the uplink is unlocked while the device is being closed.
UnlockFirst(p) ==
  /\ GoTo(p, "stop", "closing")
  /\ masterLock' = Nobody
  /\ UNCHANGED <<slaveVars, guiLock, uplink, serverVars>>

\* ltr_int_shutdown returns once the device thread has ended.
ShutDevice(p) ==
  /\ GoTo(p, "stop", "closing")
  /\ UNCHANGED <<slaveVars, locks, uplink, serverVars>>

\* close(fifo) and the unlocking; ltr_gui gives up its own lock as well.
CloseUplink(p) ==
  /\ GoTo(p, "closing", "leaving")
  /\ masterLock' = Nobody
  /\ guiLock' = (guiLock /\ p # Gui)
  /\ uplink' = Kept(uplink)
  /\ UNCHANGED <<slaveVars, serverVars>>

\* ltr_int_master returns: the standalone process ends.  ltr_gui goes on, with
\* the multimap and its open downlinks as they are.
Leave(p) ==
  /\ pc[p] = "leaving"
  /\ IF p \in Masters
       THEN Gone(p)
       ELSE /\ pc' = [pc EXCEPT ![p] = "window"]
            /\ UNCHANGED <<masterLock, uplink, slaves, noSlaves>>
  /\ UNCHANGED <<slaveVars, guiLock, failures>>

------------------------------------------------------------------------------
(* ltr_gui.                                                                *)

\* The constructor of Tracker takes the lock of the GUI.
OpenWindow ==
  /\ GoTo(Gui, "free", "window")
  /\ guiLock' = TRUE
  /\ UNCHANGED <<slaveVars, masterLock, uplink, serverVars>>

\* Tracker::start runs ltr_int_master(false), which takes it again.
Start ==
  /\ GoTo(Gui, "window", "claim")
  /\ guiLock' = TRUE
  /\ UNCHANGED <<slaveVars, masterLock, uplink, serverVars>>

\* The uplink is tried again while another process has its lock.
Claim ==
  /\ masterLock \in {Nobody, Gui}
  /\ GoTo(Gui, "claim", "init")
  /\ masterLock' = Gui
  /\ UNCHANGED <<slaveVars, guiLock, uplink, serverVars>>

\* "The other master doesn't give up!", after ten seconds.
GiveUp ==
  /\ masterLock \notin {Nobody, Gui}
  /\ GoTo(Gui, "claim", "window")
  /\ UNCHANGED <<slaveVars, locks, uplink, serverVars>>

\* ltr_int_request_shutdown from a window.
Stop ==
  /\ GoTo(Gui, "check", "stop")
  /\ UNCHANGED <<slaveVars, locks, uplink, serverVars>>

\* ltr_gui ends, in order or not.
Quit ==
  /\ pc[Gui] # "free"
  /\ Gone(Gui)
  /\ guiLock' = FALSE
  /\ UNCHANGED <<slaveVars, failures>>

ServerStep(p) ==
  \/ p \in Masters /\ (CheckGui(p) \/ LockUplink(p))
  \/ InitDevice(p) \/ Receive(p) \/ Idle(p) \/ CheckLeave(p) \/ ShutDevice(p)
  \/ CloseUplink(p) \/ Leave(p)

Next ==
  \/ \E s \in Slaves : SlaveStep(s) \/ Exit(s)
  \/ \E p \in Servers : ServerStep(p) \/ Broadcast(p) \/ InitFails(p)
                          \/ DeviceFails(p)
  \/ OpenWindow \/ Start \/ Claim \/ GiveUp \/ Stop \/ Quit

\* Processes run; a device that runs delivers frames, and a paused one has its
\* heartbeat, so poses are sent.  Nobody has to start or to end anything, and
\* the ten seconds of the GUI need not be over.
Fairness ==
  /\ \A s \in Slaves : WF_vars(SlaveStep(s))
  /\ \A p \in Servers : WF_vars(ServerStep(p)) /\ WF_vars(Broadcast(p))
  /\ WF_vars(Claim)

Spec == Init /\ [][Next]_vars /\ Fairness

------------------------------------------------------------------------------
(* Properties.                                                             *)

\* From ltr_int_init to the return of ltr_int_shutdown the camera is in use.
UsesDevice(p) == pc[p] \in {"init", "poll", "check", "stop"}

\* One process at a time uses the camera and reads the uplink, whoever starts
\* and whoever takes over.
OneMaster == \A p, q \in Servers : UsesDevice(p) /\ UsesDevice(q) => p = q

\* No downlink is read by two slaves, however numbers are given back by slaves
\* that end and taken again by slaves that look for a master once more.
OneReader ==
  \A s, t \in Slaves : link[s] = link[t] /\ link[s] # NoLink => s = t

\* A master that waits for the uplink gets it: a standalone master that has it
\* gives it up for the GUI.
GuiTakesOver == pc[Gui] = "claim" ~> pc[Gui] # "claim"

\* While the GUI stays the master every slave comes to it, whatever master it
\* was with before, unless its client ended or it gave up looking.
GuiServesAll ==
  \A s \in Slaves :
    <>[](pc[Gui] \in {"poll", "check"}) =>
      <>[](\/ pc[s] \in {"dead", "gaveUp"}
           \/ Gui \in Writers(link[s]))

\* A standalone master whose slaves have all ended goes away with them.
LeavesAfterLast ==
  \A m \in Masters :
    (pc[m] = "poll" /\ slaves[m] # {} /\ \A s \in Slaves : pc[s] = "dead")
      ~> pc[m] \notin {"poll", "check"}

\* A slave that has logged "Master is responding!" gets a master: it is
\* registered with one, or learns that there is none and looks again.
MasterResponds ==
  \A s \in Slaves :
    pc[s] = "polling" ~> (pc[s] # "polling" \/ Writers(link[s]) # {})

\* What is sent to the slaves of a profile reaches slaves of that profile.
ProfilesArriveHome ==
  \A p \in Servers : \A e \in slaves[p] :
    UsesDevice(p) => Readers(e[2]) \subseteq {e[1]}
==============================================================================
