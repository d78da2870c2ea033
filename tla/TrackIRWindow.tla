---------------------------- MODULE TrackIRWindow ----------------------------
(***************************************************************************)
(* The fake TrackIR.exe (wine_bridge/views/main.cpp), which some games     *)
(* want to see running.  NPClient.dll starts one when a game registers     *)
(* (NPClient_main.c, rest.c), hidden, and the user may start one.  A mutex *)
(* of Windows keeps it single, and a lock on the file of NPClient.dll,     *)
(* shared by the games, tells a hidden one when the last game is gone: it  *)
(* tries every second to have the lock for itself.                         *)
(***************************************************************************)
EXTENDS Naturals, FiniteSets

CONSTANTS
  Gamers,     \* games
  Instances,  \* processes of TrackIR.exe, each run once
  Nobody

VARIABLES
  game,       \* a game: none, locked (its lock was tried), runs, over
  shared,     \* the games that have the lock of NPClient.dll shared
  instance,   \* where an instance is
  hidden,     \* the instances that nobody sees
  handles,    \* the instances that have the mutex open
  owner,      \* of the mutex: an instance, Nobody, or abandoned
  exclusive,  \* the instance that has the lock for itself
  views,      \* TIRViews.dll and what it needs are installed
  lost        \* history: there may be games without a TrackIR

windowVars == <<game, shared, instance, hidden, handles, owner, exclusive, views, lost>>

Places == {"none", "started", "opened", "makes", "shown", "timed", "leaves", "over"}

TypeOK ==
  /\ game \in [Gamers -> {"none", "locked", "runs", "over"}]
  /\ shared \subseteq Gamers
  /\ instance \in [Instances -> Places]
  /\ hidden \subseteq Instances /\ handles \subseteq Instances
  /\ owner \in Instances \cup {Nobody, "abandoned"}
  /\ exclusive \in Instances \cup {Nobody}
  /\ views \in BOOLEAN /\ lost \in BOOLEAN

Init ==
  /\ game = [g \in Gamers |-> "none"] /\ shared = {}
  /\ instance = [i \in Instances |-> "none"] /\ hidden = {}
  /\ handles = {} /\ owner = Nobody /\ exclusive = Nobody
  /\ views \in BOOLEAN /\ lost = FALSE

GoTo(i, place) == instance' = [instance EXCEPT ![i] = place]

------------------------------------------------------------------------------
(* The games *)

\* sharedLock fails at once when a TrackIR has the lock.
SharedLock(g) == shared' = IF exclusive = Nobody THEN shared \cup {g} ELSE shared

\* NPCLIENT_NP_RegisterProgramProfileID does not look whether it has the lock.
Register(g) ==
  /\ game[g] = "none"
  /\ game' = [game EXCEPT ![g] = "locked"]
  /\ SharedLock(g) /\ lost' = (lost \/ exclusive # Nobody)
  /\ UNCHANGED <<instance, hidden, handles, owner, exclusive, views>>

\* runFile
RunFile(g) ==
  /\ game[g] = "locked"
  /\ game' = [game EXCEPT ![g] = "runs"]
  /\ \E i \in Instances :
       instance[i] = "none" /\ GoTo(i, "started") /\ hidden' = hidden \cup {i}
  /\ UNCHANGED <<shared, handles, owner, exclusive, views, lost>>

\* The end of a game, at any time, releases its lock.
GameEnds(g) ==
  /\ game[g] \in {"locked", "runs"}
  /\ game' = [game EXCEPT ![g] = "over"] /\ shared' = shared \ {g}
  /\ UNCHANGED <<instance, hidden, handles, owner, exclusive, views, lost>>

------------------------------------------------------------------------------
(* TrackIR.exe *)

UserStarts(i) ==
  /\ instance[i] = "none" /\ GoTo(i, "started")
  /\ UNCHANGED <<game, shared, hidden, handles, owner, exclusive, views, lost>>

\* What a process leaves when it ends: the mutex goes with the last handle, and is
\* abandoned when another instance still has it open.
Released(i) ==
  /\ handles' = handles \ {i}
  /\ owner' = CASE handles' = {} -> Nobody
                [] handles' # {} /\ owner = i -> "abandoned"
                [] OTHER -> owner
  /\ exclusive' = IF exclusive = i THEN Nobody ELSE exclusive

\* Seeded fault: what CreateMutex gives is taken for its own.
OpenMutexOwned(i) ==
  /\ instance[i] = "started" /\ GoTo(i, "makes")
  /\ handles' = handles \cup {i}
  /\ owner' = IF handles = {} THEN i ELSE owner
  /\ UNCHANGED <<game, shared, hidden, exclusive, views, lost>>

\* WinMain: CreateMutex makes it its own only when there was none.
OpenMutex(i) ==
  /\ instance[i] = "started" /\ GoTo(i, "opened")
  /\ handles' = handles \cup {i}
  /\ owner' = IF handles = {} THEN i ELSE owner
  /\ UNCHANGED <<game, shared, hidden, exclusive, views, lost>>

\* WinMain: a mutex that the instance before has abandoned is no success either; it is the
\* instance's now, which ends.
WaitMutex(i) ==
  /\ instance[i] = "opened"
  /\ IF owner = i THEN GoTo(i, "makes") /\ UNCHANGED <<handles, owner, exclusive, lost>>
     ELSE /\ GoTo(i, "over") /\ Released(i)
          /\ lost' = (lost \/ \A j \in handles : instance[j] \notin {"makes", "shown", "timed"})
  /\ UNCHANGED <<game, shared, hidden, views>>

\* WM_CREATE: without the views there is no timer, and a hidden window for ever.
Create(i) ==
  /\ instance[i] = "makes"
  /\ GoTo(i, IF views /\ i \in hidden THEN "timed" ELSE "shown")
  /\ UNCHANGED <<game, shared, hidden, handles, owner, exclusive, views, lost>>

\* tryExclusiveLock
ExclusiveLock(i) == shared = {} /\ exclusive = Nobody /\ exclusive' = i

\* TimerProcedure, PostQuitMessage.  The lock, the mutex and the views
\* stay as they are until the process ends.
Tick(i) ==
  /\ instance[i] = "timed" /\ ExclusiveLock(i) /\ GoTo(i, "leaves")
  /\ UNCHANGED <<game, shared, hidden, handles, owner, views, lost>>

\* IDQUIT, or the close of the window: the user sees what he ends.
UserQuits(i) ==
  /\ instance[i] = "shown" /\ i \notin hidden /\ GoTo(i, "leaves")
  /\ handles' = handles \ {i} /\ owner' = IF handles' = {} THEN Nobody ELSE owner
  /\ lost' = TRUE
  /\ UNCHANGED <<game, shared, hidden, exclusive, views>>

\* The end of the message loop, and of the process
Leave(i) ==
  /\ instance[i] = "leaves" /\ GoTo(i, "over") /\ Released(i)
  /\ UNCHANGED <<game, shared, hidden, views, lost>>

InstanceGoes(i) ==
  OpenMutex(i) \/ WaitMutex(i) \/ Create(i) \/ Tick(i) \/ Leave(i)

WindowNext ==
  \/ \E g \in Gamers : Register(g) \/ RunFile(g) \/ GameEnds(g)
  \/ \E i \in Instances : UserStarts(i) \/ UserQuits(i) \/ InstanceGoes(i)

WindowSpec ==
  Init /\ [][WindowNext]_windowVars
  /\ \A i \in Instances : WF_windowVars(InstanceGoes(i))

------------------------------------------------------------------------------
Alive == {"makes", "shown", "timed"}

\* There is never a second TrackIR, and a game that has its lock and has started one has
\* one, or one on its way to the window, unless the user ended it or it came upon one that
\* was just leaving: main.cpp:152-162 with :54-57, rest.c:166-190.
OneTrackIR ==
  /\ Cardinality({i \in Instances : instance[i] \in Alive}) <= 1
  /\ ~lost /\ (\E g \in Gamers : game[g] = "runs") =>
       \E i \in Instances : instance[i] \in Alive \cup {"started", "opened"}

\* A hidden TrackIR that found the views ends after the last game (main.cpp:47-57).
NoGames == \A g \in Gamers : game[g] \in {"none", "over"}
NoHidden == \A i \in hidden : instance[i] \notin {"started", "opened", "makes", "timed", "leaves"}
================================================================================
