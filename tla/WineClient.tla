------------------------------ MODULE WineClient ------------------------------
(***************************************************************************)
(* A program with the loader of the library in it (linuxtrack.c): a game   *)
(* over NPClient.dll (wine_bridge/client), one over FreeTrackClient.dll    *)
(* (ft_client), as the two test programs play them (tester, ft_tester), or *)
(* any other, which calls what it likes.  The library itself (ltlib.c) is  *)
(* here what it tells its slave to do, and the last pose it has.           *)
(*                                                                         *)
(* Bytes are of two bits, and the data of NPClient three of them: the      *)
(* status, the number of the frame and the pose; the checksum is left out. *)
(***************************************************************************)
EXTENDS Integers, Sequences

CONSTANTS
  Systems,   \* what is installed: LINUXTRACK_LIBS, the prefix in the config, the places
             \* below it, the signatures, and the DLL
  GameData,  \* gamedata.txt: what is known of a game
  GameIds,   \* numbers of games
  MaxUses,   \* bound: calls of a program
  MaxPoses   \* bound: poses

Byte == 0 .. 3
Wrap(n) == n % 4
Bytes == 0 .. 2    \* the places of the bytes of the data
NoTable == <<0, 0>>

\* The exclusive or of two bytes, bit by bit.
a ^^ b == ((a + b) % 2) + 2 * (((a \div 2) + (b \div 2)) % 2)

Functions ==
  <<"init", "shutdown", "suspend", "wakeup", "recenter", "get_pose", "get_pose_full",
    "get_tracking_state", "explain", "get_abs_pose", "request_frames", "get_frame",
    "notification_on", "get_notify_pipe", "wait">>
Optional ==
  {"explain", "request_frames", "get_frame", "notification_on", "get_notify_pipe", "wait"}
\* What linuxtrack_shutdown sets back.
Cleared == {Functions[i] : i \in 1 .. 9}

Off == "off"
Programs == {"np", "ft", "other"}

VARIABLES
  program,         \* which of Programs it is, or ended
  system,          \* which of Systems it runs on
  lib_handle,      \* the loader has the library open
  fun,             \* the functions whose pointers are set
  opened,          \* how often dlopen has it open
  profile,         \* the library: the profile it was initialised for
  cmd,             \* the library: the last command
  counter, pose,   \* the library: its last pose
  crypted, table,  \* NPClient
  game,            \* the test program
  shown,           \* the data the library had, and as the program read them
  lost,            \* history: the function called in a library that is not there
  uses

clientVars == <<program, system, lib_handle, fun, opened, profile, cmd, counter, pose,
                crypted, table, game, shown, lost, uses>>
loader == <<lib_handle, fun, opened>>
library == <<profile, cmd, counter, pose>>
client == <<crypted, table>>

ClientAssumption ==
  /\ MaxUses \in Nat /\ MaxPoses \in Nat
  /\ \A g \in DOMAIN GameData : GameData[g].table \in {<<>>} \cup (Byte \X Byte)

TypeOK ==
  /\ program \in Programs \cup {"ended"} /\ system \in Systems
  /\ lib_handle \in BOOLEAN /\ fun \subseteq {Functions[i] : i \in 1 .. 15}
  /\ opened \in 0 .. MaxUses
  /\ profile \in GameIds \cup {"Default", Off} /\ cmd \in {"none", "run", "pause", "stop"}
  /\ counter \in 0 .. MaxPoses /\ pose \in Byte
  /\ crypted \in BOOLEAN /\ table \in Byte \X Byte
  /\ game.crypted \in BOOLEAN /\ game.table \in Byte \X Byte
  /\ game.initialized \in BOOLEAN /\ game.timer \in BOOLEAN
  /\ lost \in {"none", "FTGetData"} \cup {Functions[i] : i \in 1 .. 15}
  /\ uses \in 0 .. MaxUses

Init ==
  /\ program \in Programs /\ system \in Systems
  /\ lib_handle = FALSE /\ fun = {} /\ opened = 0
  /\ profile = Off /\ cmd = "none" /\ counter = 0 /\ pose = 0
  /\ crypted = FALSE /\ table = NoTable
  /\ game = [crypted |-> FALSE, table |-> NoTable, initialized |-> FALSE, timer |-> FALSE]
  /\ shown = [had |-> <<>>, read |-> <<>>] /\ lost = "none" /\ uses = 0

Use == program # "ended" /\ lost = "none" /\ uses < MaxUses /\ uses' = uses + 1

------------------------------------------------------------------------------
(* The loader: linuxtrack.c *)

Symbols(file) ==
  LET all == {Functions[i] : i \in 1 .. 15}
  IN CASE file = "full" -> all
       [] file = "old" -> all \ Optional
       [] file = "partial" -> all \ {"get_abs_pose"}

\* linuxtrack_try_library
Loads(file) == file \in {"full", "old", "partial"}
FirstOf(files) ==
  files[CHOOSE i \in DOMAIN files :
          Loads(files[i]) /\ \A j \in 1 .. i - 1 : ~Loads(files[j])]
Some(files) == \E i \in DOMAIN files : Loads(files[i])

\* linuxtrack_find_library, linuxtrack_get_prefix
Library ==
  CASE Some(system.libs) -> FirstOf(system.libs)
    [] ~Some(system.libs) /\ ~system.prefix -> "err_NO_CONFIG"
    [] ~Some(system.libs) /\ system.prefix /\ Some(system.places) -> FirstOf(system.places)
    [] OTHER -> "err_NOT_FOUND"

\* linuxtrack_load_functions: it stops at the first mandatory function that is not there.
Looked(file) ==
  LET there == Symbols(file) \cup Optional
  IN {Functions[i] : i \in {j \in 1 .. 15 : \A k \in 1 .. j : Functions[k] \in there}}
LoadFunctions(file) ==
  LET looked == Looked(file) IN fun' = (fun \ looked) \cup (looked \cap Symbols(file))
AllThere(file) == Functions[15] \in Looked(file)

\* ltr_init of the library: nothing when it is initialised; otherwise it may fail, which
\* the loader is not told (ltlib.c:82).
InitLibrary(t) == profile' \in (IF profile # Off THEN {profile} ELSE {t, Off})

\* A library that was not initialised before starts to run.
Wakes == cmd' = IF profile = Off /\ profile' # Off THEN "run" ELSE cmd

\* linuxtrack_init
LoaderFails ==
  IF Loads(Library)
  THEN ~AllThere(Library) /\ lib_handle' = TRUE /\ opened' = opened + 1
       /\ LoadFunctions(Library)
  ELSE lib_handle' = FALSE /\ UNCHANGED <<fun, opened>>
LoaderInit ==
  /\ Loads(Library) /\ AllThere(Library)
  /\ lib_handle' = TRUE /\ opened' = opened + 1 /\ LoadFunctions(Library)

\* A pointer that is set, to a library that is not open.
Dangling(f) == f \in fun /\ opened = 0
\* The function is called in the library.
Reaches(f) == f \in fun /\ opened > 0 /\ profile # Off

\* Seeded fault: the pointers stay when the library is closed.
LoaderShutdownKeepsPointers ==
  IF "shutdown" \notin fun THEN UNCHANGED <<loader, profile, cmd>>
  ELSE /\ IF profile # Off THEN profile' = Off /\ cmd' = "stop" ELSE UNCHANGED <<profile, cmd>>
       /\ IF lib_handle THEN lib_handle' = FALSE /\ opened' = opened - 1 /\ UNCHANGED fun
          ELSE UNCHANGED loader

\* linuxtrack_shutdown, ltr_shutdown
LoaderShutdown ==
  IF "shutdown" \notin fun THEN UNCHANGED <<loader, profile, cmd>>
  ELSE /\ IF profile # Off THEN profile' = Off /\ cmd' = "stop" ELSE UNCHANGED <<profile, cmd>>
       /\ IF lib_handle
          THEN lib_handle' = FALSE /\ opened' = opened - 1 /\ fun' = fun \ Cleared
          ELSE UNCHANGED loader

------------------------------------------------------------------------------
(* The data of NPClient *)

\* A byte is mixed with one of the table, which are taken in turn, and with a key that goes
\* on with the place and the plain byte of those behind it.
Mixed(byte, i, t, key) == (byte ^^ t[((2 - i) % 2) + 1]) ^^ Wrap(136 + key)
Data(first, second, third) ==
  [i \in Bytes |-> CASE i = 0 -> first [] i = 1 -> second [] i = 2 -> third]

\* enhance: from the last byte to the first one
Enhance(buf, t) ==
  Data(Mixed(buf[0], 0, t, 2 + buf[2] + 1 + buf[1]),
       Mixed(buf[1], 1, t, 2 + buf[2]),
       Mixed(buf[2], 2, t, 0))

\* decrypt of the test program
Decrypt(buf, t) ==
  LET third  == Mixed(buf[2], 2, t, 0)
      second == Mixed(buf[1], 1, t, 2 + third)
  IN Data(Mixed(buf[0], 0, t, 2 + third + 1 + second), second, third)

\* What the library gives; without it, what is in the variables (NPClient_main.c:281).
Given ==
  IF Reaches("get_pose") THEN {<<Wrap(counter), pose>>}
  ELSE IF "get_pose" \in fun THEN {<<n, 1>> : n \in {0, 3}}
  ELSE {<<0, 0>>}
Status == IF profile # Off /\ cmd = "run" THEN 0 ELSE 1

\* NPCLIENT_NP_GetData, npifc_getdata
GetData ==
  \E p \in Given :
    LET data == Data(Status, p[1], p[2])
        sent == IF crypted THEN Enhance(data, table) ELSE data
    IN shown' = [had |-> data,
                 read |-> IF game.crypted THEN Decrypt(sent, game.table) ELSE sent]

------------------------------------------------------------------------------
(* A game over NPClient, played by the test program *)

Known(g) == g \in DOMAIN GameData
Encrypted(g) == GameData[g].table # <<>>

\* npifc_init until it has loaded the DLL
GameReads(g) ==
  [game EXCEPT !.timer = FALSE, !.crypted = Encrypted(g),
               !.table = IF Encrypted(g) THEN GameData[g].table ELSE @]

\* Seeded fault: a game without a key leaves the one before.
RegisterKeepsKey(g) ==
  /\ crypted' = (crypted \/ Encrypted(g))
  /\ table' = IF Encrypted(g) THEN GameData[g].table ELSE table

\* NPCLIENT_NP_RegisterProgramProfileID, its data
Register(g) ==
  /\ crypted' = Encrypted(g)
  /\ table' = IF Encrypted(g) THEN GameData[g].table ELSE table

\* IDSTART.  The profile of the game that comes first stays.  The library is told to
\* suspend (RegisterProgramProfileID), and then to wake up (StartDataTransmission).
Start(g) ==
  /\ program = "np" /\ Use
  /\ IF ~Known(g)
     THEN game' = [game EXCEPT !.timer = FALSE] /\ UNCHANGED <<client, loader, library>>
     ELSE IF ~system.dll \/ ~system.poem
     THEN game' = GameReads(g) /\ UNCHANGED <<client, loader, library>>
     ELSE /\ Register(g)
          /\ \/ LoaderFails /\ game' = GameReads(g) /\ UNCHANGED library
             \/ /\ LoaderInit /\ InitLibrary(g)
                /\ cmd' = IF profile' # Off THEN "run" ELSE cmd
                /\ game' = [GameReads(g) EXCEPT !.timer = TRUE, !.initialized = TRUE]
                /\ UNCHANGED <<counter, pose>>
  /\ UNCHANGED <<program, system, shown, lost>>

\* TimerProcedure
Tick ==
  /\ program = "np" /\ game.timer /\ lost = "none" /\ GetData
  /\ UNCHANGED <<program, system, loader, library, client, game, lost, uses>>

\* NPCLIENT_NP_ReCenter, NP_StopDataTransmission and NP_StartDataTransmission of a game
StopData ==
  /\ program = "np" /\ game.initialized /\ Use
  /\ cmd' = IF Reaches("suspend") THEN "pause" ELSE cmd
  /\ game' = [game EXCEPT !.initialized = FALSE, !.timer = FALSE]
  /\ UNCHANGED <<program, system, loader, profile, counter, pose, client, shown, lost>>

------------------------------------------------------------------------------
(* A game over FreeTrackClient, played by its test program *)

\* IDC_START: whether start succeeds or not, the timer is set.
StartFreeTrack(g) ==
  /\ program = "ft" /\ Use
  /\ game' = [game EXCEPT !.timer = TRUE, !.initialized = @ \/ system.dll]
  /\ IF ~system.dll THEN UNCHANGED <<loader, library>>
     ELSE \/ LoaderFails /\ UNCHANGED library
          \/ LoaderInit /\ InitLibrary(g) /\ Wakes /\ UNCHANGED <<counter, pose>>
  /\ UNCHANGED <<program, system, client, shown, lost>>

\* TimerProcedure, FTGetData: without the library the pose is what was in the variable.
TickFreeTrack ==
  /\ program = "ft" /\ game.timer /\ lost = "none"
  /\ IF ~game.initialized THEN lost' = "FTGetData" /\ UNCHANGED shown
     ELSE /\ UNCHANGED lost
          /\ \E n \in (IF Reaches("get_pose_full") THEN {<<counter, pose>>}
                       ELSE IF "get_pose_full" \in fun THEN {<<0, 3>>} ELSE {<<0, 0>>}) :
               shown' = [had |-> n, read |-> n]
  /\ UNCHANGED <<program, system, loader, library, client, game, uses>>

\* The end of either: DllMain shuts the library down.
Ends ==
  /\ program \in {"np", "ft"} /\ lost = "none"
  /\ IF "shutdown" \in fun /\ Dangling("shutdown")
     THEN lost' = "shutdown" /\ UNCHANGED <<loader, profile, cmd>>
     ELSE LoaderShutdown /\ UNCHANGED lost
  /\ program' = "ended" /\ game' = [game EXCEPT !.timer = FALSE]
  /\ UNCHANGED <<system, counter, pose, client, shown, uses>>

------------------------------------------------------------------------------
(* Any other program *)

CallInit(t) ==
  /\ program = "other" /\ Use
  /\ \/ LoaderFails /\ UNCHANGED library
     \/ LoaderInit /\ InitLibrary(t) /\ Wakes /\ UNCHANGED <<counter, pose>>
  /\ UNCHANGED <<program, system, client, game, shown, lost>>

CallShutdown ==
  /\ program = "other" /\ Use
  /\ IF Dangling("shutdown") THEN lost' = "shutdown" /\ UNCHANGED <<loader, profile, cmd>>
     ELSE LoaderShutdown /\ UNCHANGED lost
  /\ UNCHANGED <<program, system, counter, pose, client, game, shown>>

Call(f) ==
  /\ program = "other" /\ Use
  /\ lost' = IF Dangling(f) THEN f ELSE lost
  /\ cmd' = CASE Reaches(f) /\ f = "suspend" -> "pause"
              [] Reaches(f) /\ f = "wakeup" -> "run"
              [] OTHER -> cmd
  /\ UNCHANGED <<program, system, loader, profile, counter, pose, client, game, shown>>

\* A pose comes.
Pose ==
  /\ profile # Off /\ cmd = "run" /\ counter < MaxPoses
  /\ counter' = counter + 1 /\ pose' \in {1, 2}
  /\ UNCHANGED <<program, system, loader, profile, cmd, client, game, shown, lost, uses>>

ClientNext ==
  \/ \E g \in GameIds : Start(g) \/ StartFreeTrack(g) \/ CallInit(g)
  \/ Tick \/ StopData \/ TickFreeTrack \/ Ends
  \/ CallShutdown \/ (\E i \in 3 .. 15 : Call(Functions[i]))
  \/ Pose

ClientSpec == Init /\ [][ClientNext]_clientVars

------------------------------------------------------------------------------
\* A game reads the data as the library gave them, whatever games with or without a key
\* were registered before in this process, and is given new ones while it shows them
\* (NPClient_main.c:338-362, npifc.c:75-90); a program that has ended has told the slave.
GameSeesPose ==
  /\ shown.read = shown.had
  /\ program = "np" /\ game.timer => profile = Off \/ cmd = "run"
  /\ program = "ended" => profile = Off

\* No function is called in a library that is closed, or was not found, but for the six
\* that linuxtrack_shutdown forgets (linuxtrack.c:141-149), which neither DLL uses, and
\* the test program that does not look whether FreeTrackClient.dll was loaded
\* (ft_tester/main.cpp:185).
CallsLand ==
  lost # "none" =>
    \/ program = "other" /\ lost \notin Cleared
    \/ program = "ft" /\ lost = "FTGetData" /\ ~system.dll
================================================================================
