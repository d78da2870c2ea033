---------------------------- MODULE ProgramProofs ----------------------------
(***************************************************************************)
(* Proofs about the programs that take poses from the library: games over  *)
(* the DLLs of the Wine bridge, or over the loader (WineClient), ltr_pipe  *)
(* (Pipe) and the hot keys of the Wine bridge (Controller), about the      *)
(* profiles of the games in ltr_gui (Profiles), about the programs that    *)
(* give images to a driver, the Wiimote server (WiiServer) and the camera  *)
(* program of macOS (QtCam), and about the X-Plane plug-in (XPlane).       *)
(***************************************************************************)
EXTENDS Integers, Sequences, FiniteSets, SequenceTheorems, FiniteSetTheorems,
  WellFoundedInduction, TLAPS

CONSTANTS
  Systems, GameData, GameIds, MaxUses, MaxPoses,      \* WineClient
  MaxPolls,                                           \* Pipe
  Keys, Registries, QueueSize, MaxStrokes, MaxClicks, \* Controller
  Games, Stored, Imports, Slaves, MaxEdits,           \* Profiles
  PictureParts, MaxPoints, MaxReports, MaxOrders, MaxLinks, \* WiiServer
  Children, RingSize, MaxGrabs, MaxTells,             \* QtCam
  MaxDrift, MaxCommands                               \* XPlane

VARIABLES
  program, system, lib_handle, fun, opened, profile, cmd, counter, pose, crypted, table,
  game, shown, lost, uses,
  pc, opts, run, recenter, terminate, fd, polls, pending, lib, asked,
  runs, held, kbd_data, code, pause_code, recenter_code, state, paused, names,
  registry, tracking, seen, strokes, clicks,
  prefs, file, gui, align, slaves, behind, apart, edits,
  command, points, filled, picture, driver, lastVal, got, copied, delivered, orders,
  overruled, window, signals, thread, mode, callback, links,
  order, host, tells, forked, camAt, oldCmd, capturing, ring, writer, reader, newFlag,
  endFlag, proc, grabs, done,
  simView, simHead, simRoll, pilotView, active_flag, pos_init_flag, freeze, initialized,
  pv_present, head_control_enable, base, currentHead, library, left, commands

Cli == INSTANCE WineClient
Pip == INSTANCE Pipe
Key == INSTANCE Controller
Pro == INSTANCE Profiles
Wii == INSTANCE WiiServer
Cam == INSTANCE QtCam
Pln == INSTANCE XPlane

------------------------------------------------------------------------------
(***************************************************************************)
(* WineClient, for any installations, games with tables of any bytes, and  *)
(* any number of calls and poses.  The loader has set the pointers that    *)
(* linuxtrack_shutdown clears only while it has the library open, and the  *)
(* game and the DLL agree on the table while the game shows data.          *)
(***************************************************************************)

\* The exclusive or of a byte is undone by doing it again.
LEMMA XorCancels ==
  \A a, b \in Cli!Byte : Cli!^^(a, b) \in Cli!Byte /\ Cli!^^(Cli!^^(a, b), b) = a
BY DEF Cli!Byte, Cli!^^

\* Bytes are numbers, and a number is wrapped to one.
LEMMA BytesAre ==
  /\ \A n \in Nat : Cli!Wrap(n) \in Cli!Byte
  /\ \A b \in Cli!Byte : b \in Nat
  /\ 0 \in Cli!Byte /\ 1 \in Cli!Byte /\ 2 \in Cli!Byte /\ 3 \in Cli!Byte
BY DEF Cli!Byte, Cli!Wrap

\* What a byte is mixed with does not depend on it, so to mix it again gives it back.
LEMMA MixedTwice ==
  ASSUME NEW b \in Cli!Byte, NEW i \in Cli!Bytes, NEW t \in Cli!Byte \X Cli!Byte, NEW key \in Nat
  PROVE  /\ Cli!Mixed(b, i, t, key) \in Cli!Byte
         /\ Cli!Mixed(Cli!Mixed(b, i, t, key), i, t, key) = b
<1> DEFINE mask == t[((2 - i) % 2) + 1]
           var == Cli!Wrap(136 + key)
<1>1. mask \in Cli!Byte
  BY DEF Cli!Bytes
<1>2. var \in Cli!Byte
  BY BytesAre
<1>3. Cli!Mixed(b, i, t, key) = Cli!^^(Cli!^^(b, mask), var)
  BY DEF Cli!Mixed
<1> DEFINE first == Cli!^^(b, mask)
           mixed == Cli!^^(first, var)
<1>4. first \in Cli!Byte /\ mixed \in Cli!Byte /\ Cli!^^(mixed, var) = first /\ Cli!^^(first, mask) = b
  BY <1>1, <1>2, XorCancels
<1>5. Cli!Mixed(mixed, i, t, key) = Cli!^^(Cli!^^(mixed, mask), var)
  BY DEF Cli!Mixed
<1>6. Cli!^^(Cli!^^(mixed, mask), var) = b
  <2> HIDE DEF mask, var
  <2>1. \A x, c, v \in Cli!Byte : Cli!^^(Cli!^^(Cli!^^(Cli!^^(x, c), v), c), v) = x
    BY DEF Cli!Byte, Cli!^^
  <2> QED
    BY <1>1, <1>2, <2>1
<1> QED
  BY <1>3, <1>4, <1>5, <1>6

\* A game with the table of the DLL decrypts what the DLL has encrypted.
LEMMA Decrypts ==
  ASSUME NEW x \in Cli!Byte, NEW y \in Cli!Byte, NEW z \in Cli!Byte,
         NEW t \in Cli!Byte \X Cli!Byte
  PROVE  Cli!Decrypt(Cli!Enhance(Cli!Data(x, y, z), t), t) = Cli!Data(x, y, z)
<1>1. \A a, b, c : /\ Cli!Data(a, b, c)[0] = a
                   /\ Cli!Data(a, b, c)[1] = b
                   /\ Cli!Data(a, b, c)[2] = c
  BY DEF Cli!Data, Cli!Bytes
<1> DEFINE k1 == 2 + z
           k0 == 2 + z + 1 + y
           e2 == Cli!Mixed(z, 2, t, 0)
           e1 == Cli!Mixed(y, 1, t, k1)
           e0 == Cli!Mixed(x, 0, t, k0)
<1>2. Cli!Enhance(Cli!Data(x, y, z), t) = Cli!Data(e0, e1, e2)
  BY <1>1 DEF Cli!Enhance
<1>3. k1 \in Nat /\ k0 \in Nat /\ 0 \in Nat
  BY BytesAre
<1>4. 0 \in Cli!Bytes /\ 1 \in Cli!Bytes /\ 2 \in Cli!Bytes
  BY DEF Cli!Bytes
<1>5. Cli!Mixed(e2, 2, t, 0) = z
  BY <1>3, <1>4, MixedTwice
<1>6. Cli!Mixed(e1, 1, t, k1) = y
  BY <1>3, <1>4, MixedTwice
<1>7. Cli!Mixed(e0, 0, t, k0) = x
  BY <1>3, <1>4, MixedTwice
<1> HIDE DEF e0, e1, e2
<1>8. Cli!Decrypt(Cli!Data(e0, e1, e2), t)
        = Cli!Data(Cli!Mixed(e0, 0, t, k0), Cli!Mixed(e1, 1, t, k1), Cli!Mixed(e2, 2, t, 0))
  BY <1>1, <1>5, <1>6 DEF Cli!Decrypt
<1> QED
  BY <1>2, <1>5, <1>6, <1>7, <1>8

GameStates == [crypted : BOOLEAN, table : Cli!Byte \X Cli!Byte, initialized : BOOLEAN, timer : BOOLEAN]

\* The variables the arguments look into have their types.
CliTypes ==
  /\ opened \in Nat /\ counter \in Nat /\ pose \in Cli!Byte
  /\ table \in Cli!Byte \X Cli!Byte /\ game \in GameStates

\* The loader: the library it has open is open, the pointers that are cleared are set in
\* an open library only, and an initialised one can be shut down.
Loaded ==
  /\ lib_handle => opened > 0
  /\ opened = 0 => fun \cap Cli!Cleared = {}
  /\ profile # Cli!Off => "shutdown" \in fun

\* A game that shows data agrees with NPClient on the table and keeps the library
\* running; one over FreeTrackClient has started it, if the DLL is there.
Agreed ==
  /\ program = "np" /\ game.timer =>
       /\ game.crypted = crypted /\ (crypted => game.table = table)
       /\ profile = Cli!Off \/ cmd = "run"
  /\ program = "ft" /\ game.timer /\ ~game.initialized => ~system.dll

CliInv == CliTypes /\ Loaded /\ Agreed /\ Cli!GameSeesPose /\ Cli!CallsLand

\* linuxtrack_shutdown is the second function, and not optional; the first is not the last.
LEMMA FunctionsAre ==
  /\ Cli!Functions[2] = "shutdown" /\ Cli!Functions[1] # Cli!Functions[15]
  /\ "shutdown" \in Cli!Cleared /\ "shutdown" \notin Cli!Optional
<1>1. 2 \in 1 .. 9 /\ Cli!Functions[2] = "shutdown"
  BY DEF Cli!Functions
<1>2. Cli!Functions[1] = "init" /\ Cli!Functions[15] = "wait"
  BY DEF Cli!Functions
<1> QED
  BY <1>1, <1>2 DEF Cli!Cleared, Cli!Optional

\* Whatever the loader finds, the pointer of linuxtrack_shutdown stays set, and is set
\* when the library has all functions.
LEMMA ShutdownStays ==
  ASSUME NEW from, Cli!LoadFunctions(from)
  PROVE  /\ "shutdown" \in fun => "shutdown" \in fun'
         /\ Cli!AllThere(from) => "shutdown" \in fun'
<1> DEFINE looked == Cli!Looked(from)
           there == Cli!Symbols(from)
<1>1. looked \subseteq there \cup Cli!Optional
  BY DEF Cli!Looked
<1>2. fun' = (fun \ looked) \cup (looked \cap there)
  BY DEF Cli!LoadFunctions
<1>3. Cli!AllThere(from) => "shutdown" \in looked
  <2> SUFFICES ASSUME Cli!AllThere(from)
               PROVE  "shutdown" \in looked
    OBVIOUS
  <2>1. PICK j \in 1 .. 15 : /\ Cli!Functions[15] = Cli!Functions[j]
                            /\ \A k \in 1 .. j : Cli!Functions[k] \in there \cup Cli!Optional
    BY DEF Cli!AllThere, Cli!Looked
  <2>2. j # 1 /\ 1 .. 2 \subseteq 1 .. j
    BY <2>1, FunctionsAre
  <2> QED
    BY <2>1, <2>2, FunctionsAre DEF Cli!Looked
<1> HIDE DEF looked, there
<1> QED
  BY <1>1, <1>2, <1>3, FunctionsAre

\* linuxtrack_init: it opens the library or leaves what is loaded as it is, but for the
\* handle.
LEMMA LoaderKeeps ==
  ASSUME CliTypes, Loaded
  PROVE  /\ Cli!LoaderFails /\ UNCHANGED profile => Loaded' /\ opened' \in Nat
         /\ Cli!LoaderInit => Loaded' /\ opened' \in Nat
<1>1. ASSUME Cli!LoadFunctions(Cli!Library), opened' = opened + 1,
             profile' # Cli!Off => profile # Cli!Off \/ Cli!AllThere(Cli!Library)
      PROVE  Loaded' /\ opened' \in Nat
  <2>1. opened' \in Nat /\ opened' > 0
    BY <1>1 DEF CliTypes
  <2>2. profile' # Cli!Off => "shutdown" \in fun'
    BY <1>1, ShutdownStays DEF Loaded
  <2> QED
    BY <2>1, <2>2 DEF Loaded
<1>2. ASSUME lib_handle' = FALSE, UNCHANGED <<fun, opened, profile>>
      PROVE  Loaded' /\ opened' \in Nat
  BY <1>2 DEF Loaded, CliTypes
<1>3. Cli!LoaderFails /\ UNCHANGED profile => Loaded' /\ opened' \in Nat
  BY <1>1, <1>2 DEF Cli!LoaderFails
<1>4. Cli!LoaderInit => Loaded' /\ opened' \in Nat
  BY <1>1 DEF Cli!LoaderInit
<1> QED
  BY <1>3, <1>4

\* linuxtrack_shutdown: the library is told to stop, and the pointers are cleared with it.
LEMMA ShutdownKeeps ==
  ASSUME CliTypes, Loaded, Cli!LoaderShutdown
  PROVE  Loaded' /\ opened' \in Nat /\ profile' = Cli!Off
<1>1. CASE "shutdown" \notin fun
  BY <1>1 DEF Cli!LoaderShutdown, Loaded, CliTypes, Cli!loader
<1>2. CASE "shutdown" \in fun
  <2>1. profile' = Cli!Off
    BY <1>2 DEF Cli!LoaderShutdown
  <2>2. CASE lib_handle
    <3>1. lib_handle' = FALSE /\ opened' = opened - 1 /\ fun' = fun \ Cli!Cleared
      BY <1>2, <2>2 DEF Cli!LoaderShutdown
    <3> QED
      BY <2>1, <2>2, <3>1 DEF Loaded, CliTypes
  <2>3. CASE ~lib_handle
    <3>1. UNCHANGED <<lib_handle, fun, opened>>
      BY <1>2, <2>3 DEF Cli!LoaderShutdown, Cli!loader
    <3> QED
      BY <2>1, <3>1 DEF Loaded, CliTypes
  <2> QED
    BY <2>2, <2>3
<1> QED
  BY <1>1, <1>2

\* A pointer to a library that is closed is one of those that are not cleared.
LEMMA DanglingAre ==
  ASSUME Loaded, NEW f, Cli!Dangling(f)
  PROVE  f \notin Cli!Cleared /\ f # "shutdown"
BY FunctionsAre DEF Loaded, Cli!Dangling

\* A game over NPClient starts: it reads the table the DLL is given.
LEMMA StartKeeps ==
  ASSUME Cli!ClientAssumption, CliInv, NEW g \in GameIds, Cli!Start(g)
  PROVE  CliInv'
<1> USE DEF CliInv
<1> DEFINE table0 == IF Cli!Encrypted(g) THEN GameData[g].table ELSE game.table
<1>1. /\ program = "np" /\ lost = "none"
      /\ UNCHANGED <<program, system, shown, lost, counter, pose>>
  BY DEF Cli!Start, Cli!Use, Cli!library
<1>2. Cli!Known(g) => table0 \in Cli!Byte \X Cli!Byte
  BY DEF Cli!Known, Cli!Encrypted, Cli!ClientAssumption, CliTypes, GameStates
<1>3. Cli!Known(g) =>
        /\ Cli!GameReads(g) \in GameStates /\ Cli!GameReads(g).timer = FALSE
        /\ Cli!GameReads(g).crypted = Cli!Encrypted(g) /\ Cli!GameReads(g).table = table0
  <2>1. Cli!Encrypted(g) \in BOOLEAN
    BY Zenon DEF Cli!Encrypted
  <2> QED
    BY <1>2, <2>1 DEF Cli!GameReads, CliTypes, GameStates
<1>4. (game'.timer => profile' = Cli!Off \/ cmd' = "run") => (Cli!GameSeesPose /\ Cli!CallsLand)'
  BY <1>1 DEF Cli!GameSeesPose, Cli!CallsLand
<1>5. CASE ~Cli!Known(g)
  <2>1. game' = [game EXCEPT !.timer = FALSE] /\ UNCHANGED <<Cli!client, Cli!loader, Cli!library>>
    BY <1>5 DEF Cli!Start
  <2>2. game' \in GameStates /\ game'.timer = FALSE
    BY <2>1 DEF CliTypes, GameStates
  <2> QED
    BY <1>1, <1>4, <2>1, <2>2 DEF CliTypes, Loaded, Agreed, Cli!client, Cli!loader, Cli!library
<1>6. CASE Cli!Known(g) /\ (~system.dll \/ ~system.poem)
  <2>1. game' = Cli!GameReads(g) /\ UNCHANGED <<Cli!client, Cli!loader, Cli!library>>
    BY <1>6 DEF Cli!Start
  <2> QED
    BY <1>1, <1>3, <1>4, <1>6, <2>1 DEF CliTypes, Loaded, Agreed, Cli!client, Cli!loader, Cli!library
<1>7. CASE Cli!Known(g) /\ system.dll /\ system.poem
  <2>1. /\ crypted' = Cli!Encrypted(g)
        /\ table' = IF Cli!Encrypted(g) THEN GameData[g].table ELSE table
        /\ \/ Cli!LoaderFails /\ game' = Cli!GameReads(g) /\ UNCHANGED Cli!library
           \/ /\ Cli!LoaderInit
              /\ cmd' = IF profile' # Cli!Off THEN "run" ELSE cmd
              /\ game' = [Cli!GameReads(g) EXCEPT !.timer = TRUE, !.initialized = TRUE]
    BY <1>7 DEF Cli!Start, Cli!Register
  <2>2. table' \in Cli!Byte \X Cli!Byte
    BY <1>2, <1>7, <2>1 DEF CliTypes
  <2>3. game' \in GameStates
    BY <1>3, <1>7, <2>1 DEF GameStates
  <2>4. Loaded' /\ opened' \in Nat
    BY <2>1, LoaderKeeps DEF Cli!library
  <2>5. Agreed' /\ (game'.timer => profile' = Cli!Off \/ cmd' = "run")
    <3>1. CASE game' = Cli!GameReads(g)
      BY <1>1, <1>3, <1>7, <3>1 DEF Agreed
    <3>2. CASE /\ cmd' = IF profile' # Cli!Off THEN "run" ELSE cmd
               /\ game' = [Cli!GameReads(g) EXCEPT !.timer = TRUE, !.initialized = TRUE]
      <4>1. game'.crypted = crypted' /\ (crypted' => game'.table = table')
        BY <1>3, <1>7, <2>1, <3>2 DEF GameStates
      <4> QED
        BY <1>1, <3>2, <4>1 DEF Agreed
    <3> QED
      BY <2>1, <3>1, <3>2
  <2>6. CliTypes'
    BY <1>1, <2>2, <2>3, <2>4 DEF CliTypes
  <2> QED
    BY <1>4, <2>4, <2>5, <2>6
<1> QED
  BY <1>5, <1>6, <1>7

\* A game over NPClient shows data, and stops.
LEMMA TickKeeps == ASSUME CliInv, Cli!Tick \/ Cli!StopData PROVE CliInv'
<1> USE DEF CliInv
<1>1. CASE Cli!Tick
  <2>1. /\ program = "np" /\ game.timer /\ lost = "none" /\ Cli!GetData
        /\ UNCHANGED <<program, system, lib_handle, fun, opened, profile, cmd, counter, pose,
                       crypted, table, game, lost>>
    BY <1>1 DEF Cli!Tick, Cli!loader, Cli!library, Cli!client
  <2>2. PICK p \in Cli!Given :
          LET data == Cli!Data(Cli!Status, p[1], p[2])
              sent == IF crypted THEN Cli!Enhance(data, table) ELSE data
          IN shown' = [had |-> data,
                       read |-> IF game.crypted THEN Cli!Decrypt(sent, game.table) ELSE sent]
    BY <2>1 DEF Cli!GetData
  <2>3. p[1] \in Cli!Byte /\ p[2] \in Cli!Byte /\ Cli!Status \in Cli!Byte
    BY BytesAre DEF Cli!Given, Cli!Status, CliTypes
  <2>4. game.crypted = crypted /\ (crypted => game.table = table) /\ table \in Cli!Byte \X Cli!Byte
    BY <2>1 DEF Agreed, CliTypes
  <2>5. shown'.read = shown'.had
    BY <2>2, <2>3, <2>4, Decrypts
  <2>6. CliTypes' /\ Loaded' /\ Agreed' /\ Cli!CallsLand'
    BY <2>1 DEF CliTypes, Loaded, Agreed, Cli!CallsLand
  <2>7. Cli!GameSeesPose'
    BY <2>1, <2>5 DEF Cli!GameSeesPose
  <2> QED
    BY <2>6, <2>7
<1>2. CASE Cli!StopData
  <2>1. /\ program = "np" /\ lost = "none"
        /\ game' = [game EXCEPT !.initialized = FALSE, !.timer = FALSE]
        /\ UNCHANGED <<program, system, lib_handle, fun, opened, profile, counter, pose,
                       crypted, table, shown, lost>>
    BY <1>2 DEF Cli!StopData, Cli!Use, Cli!loader, Cli!client
  <2>2. game' \in GameStates /\ game'.timer = FALSE
    BY <2>1 DEF CliTypes, GameStates
  <2> QED
    BY <2>1, <2>2 DEF CliTypes, Loaded, Agreed, Cli!GameSeesPose, Cli!CallsLand
<1> QED
  BY <1>1, <1>2

\* A game over FreeTrackClient, and the end of either.
LEMMA FreeTrackKeeps ==
  ASSUME CliInv, (\E g \in GameIds : Cli!StartFreeTrack(g)) \/ Cli!TickFreeTrack \/ Cli!Ends
  PROVE  CliInv'
<1> USE DEF CliInv
<1>1. ASSUME NEW g \in GameIds, Cli!StartFreeTrack(g) PROVE CliInv'
  <2>1. /\ program = "ft" /\ lost = "none"
        /\ game' = [game EXCEPT !.timer = TRUE, !.initialized = @ \/ system.dll]
        /\ UNCHANGED <<program, system, counter, pose, crypted, table, shown, lost>>
        /\ ~system.dll => UNCHANGED <<lib_handle, fun, opened, profile>>
        /\ system.dll => (Cli!LoaderFails /\ UNCHANGED profile) \/ Cli!LoaderInit
    BY <1>1 DEF Cli!StartFreeTrack, Cli!Use, Cli!loader, Cli!library, Cli!client
  <2>2. Loaded' /\ opened' \in Nat
    BY <2>1, LoaderKeeps DEF Loaded, CliTypes
  <2>3. game.initialized \in BOOLEAN /\ (game.initialized \/ system.dll) \in BOOLEAN
    BY Zenon DEF CliTypes, GameStates
  <2>4. game' \in GameStates /\ (game'.initialized <=> game.initialized \/ system.dll)
    BY <2>1, <2>3 DEF CliTypes, GameStates
  <2>5. Agreed'
    BY <2>1, <2>4 DEF Agreed
  <2> QED
    BY <2>1, <2>2, <2>4, <2>5 DEF CliTypes, Cli!GameSeesPose, Cli!CallsLand
<1>2. CASE Cli!TickFreeTrack
  <2>1. /\ program = "ft" /\ game.timer /\ lost = "none"
        /\ UNCHANGED <<program, system, lib_handle, fun, opened, profile, cmd, counter, pose,
                       crypted, table, game>>
    BY <1>2 DEF Cli!TickFreeTrack, Cli!loader, Cli!library, Cli!client
  <2>2. IF ~game.initialized THEN lost' = "FTGetData" /\ shown' = shown
        ELSE lost' = lost /\ \E n : shown' = [had |-> n, read |-> n]
    BY <1>2, Zenon DEF Cli!TickFreeTrack
  <2>3. shown'.read = shown'.had
    BY <2>2 DEF Cli!GameSeesPose
  <2>4. Cli!CallsLand'
    BY <2>1, <2>2 DEF Cli!CallsLand, Agreed
  <2> QED
    BY <2>1, <2>3, <2>4 DEF CliTypes, Loaded, Agreed, Cli!GameSeesPose
<1>3. CASE Cli!Ends
  <2>1. /\ lost = "none" /\ program' = "ended" /\ game' = [game EXCEPT !.timer = FALSE]
        /\ UNCHANGED <<system, counter, pose, crypted, table, shown>>
    BY <1>3 DEF Cli!Ends, Cli!client
  <2>2. Cli!LoaderShutdown /\ lost' = lost
    BY <1>3, DanglingAre DEF Cli!Ends
  <2>3. Loaded' /\ opened' \in Nat /\ profile' = Cli!Off
    BY <2>2, ShutdownKeeps
  <2>4. game' \in GameStates
    BY <2>1 DEF CliTypes, GameStates
  <2> QED
    BY <2>1, <2>2, <2>3, <2>4 DEF CliTypes, Agreed, Cli!GameSeesPose, Cli!CallsLand
<1> QED
  BY <1>1, <1>2, <1>3

\* Any other program, and the poses.
LEMMA OthersKeep ==
  ASSUME CliInv,
         \/ (\E g \in GameIds : Cli!CallInit(g)) \/ Cli!CallShutdown
         \/ (\E i \in 3 .. 15 : Cli!Call(Cli!Functions[i])) \/ Cli!Pose
  PROVE  CliInv'
<1> USE DEF CliInv
<1>1. ASSUME NEW g \in GameIds, Cli!CallInit(g) PROVE CliInv'
  <2>1. /\ program = "other" /\ lost = "none"
        /\ UNCHANGED <<program, system, counter, pose, crypted, table, game, shown, lost>>
        /\ (Cli!LoaderFails /\ UNCHANGED profile) \/ Cli!LoaderInit
    BY <1>1 DEF Cli!CallInit, Cli!Use, Cli!library, Cli!client
  <2>2. Loaded' /\ opened' \in Nat
    BY <2>1, LoaderKeeps
  <2> QED
    BY <2>1, <2>2 DEF CliTypes, Agreed, Cli!GameSeesPose, Cli!CallsLand
<1>2. CASE Cli!CallShutdown
  <2>1. /\ program = "other" /\ lost = "none"
        /\ UNCHANGED <<program, system, counter, pose, crypted, table, game, shown>>
        /\ Cli!LoaderShutdown /\ UNCHANGED lost
    BY <1>2, DanglingAre DEF Cli!CallShutdown, Cli!Use, Cli!client
  <2>2. Loaded' /\ opened' \in Nat
    BY <2>1, ShutdownKeeps
  <2> QED
    BY <2>1, <2>2 DEF CliTypes, Agreed, Cli!GameSeesPose, Cli!CallsLand
<1>3. ASSUME NEW f, Cli!Call(f) PROVE CliInv'
  <2>1. /\ program = "other" /\ lost = "none"
        /\ UNCHANGED <<program, system, lib_handle, fun, opened, profile, counter, pose, crypted,
                       table, game, shown>>
        /\ lost' = IF Cli!Dangling(f) THEN f ELSE lost
    BY <1>3 DEF Cli!Call, Cli!Use, Cli!loader, Cli!client
  <2>2. Cli!CallsLand'
    BY <2>1, DanglingAre DEF Cli!CallsLand
  <2> QED
    BY <2>1, <2>2 DEF CliTypes, Loaded, Agreed, Cli!GameSeesPose
<1>4. CASE Cli!Pose
  <2>1. /\ profile # Cli!Off /\ cmd = "run" /\ counter' = counter + 1 /\ pose' \in {1, 2}
        /\ UNCHANGED <<program, system, lib_handle, fun, opened, profile, cmd, crypted, table,
                       game, shown, lost>>
    BY <1>4 DEF Cli!Pose, Cli!loader, Cli!client
  <2>2. counter' \in Nat /\ pose' \in Cli!Byte
    BY <2>1, BytesAre DEF CliTypes
  <2> QED
    BY <2>1, <2>2 DEF CliTypes, Loaded, Agreed, Cli!GameSeesPose, Cli!CallsLand
<1> QED
  BY <1>1, <1>2, <1>3, <1>4

\* What the loader has set and the game and the DLL agree on.
THEOREM CliInvariance == ASSUME Cli!ClientAssumption PROVE Cli!ClientSpec => []CliInv
<1>1. Cli!Init => CliInv
  <2> SUFFICES ASSUME Cli!Init
               PROVE  CliInv
    OBVIOUS
  <2>1. CliTypes
    <3>1. Cli!NoTable \in Cli!Byte \X Cli!Byte
      BY BytesAre DEF Cli!NoTable
    <3>2. game \in GameStates
      BY <3>1 DEF Cli!Init, GameStates
    <3> QED
      BY <3>1, <3>2, BytesAre DEF Cli!Init, CliTypes
  <2> QED
    BY <2>1 DEF Cli!Init, CliInv, Loaded, Agreed, Cli!GameSeesPose, Cli!CallsLand, Cli!Programs
<1>2. CliInv /\ [Cli!ClientNext]_(Cli!clientVars) => CliInv'
  <2>1. CliInv /\ UNCHANGED Cli!clientVars => CliInv'
    BY DEF CliInv, CliTypes, Loaded, Agreed, Cli!GameSeesPose, Cli!CallsLand, Cli!clientVars
  <2> QED
    BY <2>1, StartKeeps, TickKeeps, FreeTrackKeeps, OthersKeep DEF Cli!ClientNext
<1> QED
  BY <1>1, <1>2, PTL DEF Cli!ClientSpec

\* No function is called in a library that is closed or was not found, but for those
\* linuxtrack_shutdown forgets and FTGetData of a DLL that is not there, for any
\* installations and calls (linuxtrack.c, NPClient_main.c, FreeTrackClient_main.c).
THEOREM CallsLand == ASSUME Cli!ClientAssumption PROVE Cli!ClientSpec => []Cli!CallsLand
<1>1. CliInv => Cli!CallsLand
  BY DEF CliInv
<1> QED
  BY <1>1, CliInvariance, PTL

\* A game reads what the library gave, whatever tables the games before it had, and the
\* library runs while it shows data (NPClient_main.c, npifc.c).
THEOREM GameSeesPose == ASSUME Cli!ClientAssumption PROVE Cli!ClientSpec => []Cli!GameSeesPose
<1>1. CliInv => Cli!GameSeesPose
  BY DEF CliInv
<1> QED
  BY <1>1, CliInvariance, PTL
------------------------------------------------------------------------------
(***************************************************************************)
(* Pipe, for any number of polls.  A signal may come between any two steps *)
(* of the main thread, so the state the program thinks it is in and that   *)
(* of the library are related step by step: SIGUSR1 has no effect while    *)
(* the last one is carried out.                                            *)
(***************************************************************************)

\* Where the poses are read and written.
Working == {"recenter", "call", "output", "pose", "select", "write"}

\* What the library was told when the main thread is at pc.
Told ==
  /\ pc \in {"options", "init"} => lib = "off" /\ run \in {"running", "suspend"}
  /\ pc \in {"poll"} \cup Working => lib = "on" /\ run \in {"running", "suspend"}
  /\ pc \in {"top", "suspended"} =>
       \/ lib = "on" /\ run \in {"running", "suspend"}
       \/ lib = "paused" /\ run \in {"stopped", "wakeup"}
  /\ pc = "suspending" => lib = "paused" /\ run = "suspend"
  /\ pc = "waking" => lib = "on" /\ run = "wakeup"

PipInv == Told /\ Pip!SignalsKept

\* The library is told in the order of the signals.
THEOREM PipInvariance == Pip!PipeSpec => []PipInv
<1>1. Pip!Init => PipInv
  BY DEF Pip!Init, PipInv, Told, Working, Pip!SignalsKept
<1>2. PipInv /\ [Pip!PipeNext]_(Pip!pipeVars) => PipInv'
  <2> SUFFICES ASSUME PipInv, [Pip!PipeNext]_(Pip!pipeVars)
               PROVE  PipInv'
    OBVIOUS
  <2> USE DEF PipInv, Told, Working, Pip!SignalsKept, Pip!Flags, Pip!Goto
  <2>1. CASE Pip!ParseOpts
    BY <2>1 DEF Pip!ParseOpts
  <2>2. CASE Pip!Sighup
    BY <2>2 DEF Pip!Sighup, Pip!Listening
  <2>3. CASE Pip!Sigusr1
    BY <2>3 DEF Pip!Sigusr1, Pip!Listening
  <2>4. CASE Pip!Sigterm
    BY <2>4 DEF Pip!Sigterm, Pip!Listening
  <2>5. CASE Pip!InitLibrary
    BY <2>5 DEF Pip!InitLibrary
  <2>6. CASE Pip!Poll
    BY <2>6 DEF Pip!Poll
  <2>7. CASE Pip!Top
    BY <2>7 DEF Pip!Top
  <2>8. CASE Pip!Suspended
    BY <2>8 DEF Pip!Suspended
  <2>9. CASE Pip!SetRunState
    BY <2>9 DEF Pip!SetRunState
  <2>10. CASE Pip!Recentering
    BY <2>10 DEF Pip!Recentering
  <2>11. CASE Pip!SetupOutput
    <3>1. pc = "output" /\ pc' \in {"pose", "top", "exit"}
          /\ UNCHANGED <<opts, run, recenter, terminate, asked, lib>>
      BY <2>11 DEF Pip!SetupOutput, Pip!SetupFile, Pip!SetupSock
    <3> QED
      BY <3>1
  <2>12. CASE Pip!GetPose
    BY <2>12 DEF Pip!GetPose
  <2>13. CASE Pip!Select
    BY <2>13 DEF Pip!Select
  <2>14. CASE Pip!Write
    <3>1. pc = "write" /\ pc' \in {"write", "top", "exit"}
          /\ UNCHANGED <<opts, run, recenter, terminate, asked, lib>>
      BY <2>14 DEF Pip!Write
    <3> QED
      BY <3>1
  <2>15. CASE Pip!AtExit
    BY <2>15 DEF Pip!AtExit
  <2>16. CASE Pip!Shutdown
    BY <2>16 DEF Pip!Shutdown
  <2>17. CASE UNCHANGED Pip!pipeVars
    BY <2>17 DEF Pip!pipeVars
  <2> QED
    BY <2>1, <2>2, <2>3, <2>4, <2>5, <2>6, <2>7, <2>8, <2>9, <2>10, <2>11, <2>12, <2>13,
       <2>14, <2>15, <2>16, <2>17 DEF Pip!PipeNext
<1> QED
  BY <1>1, <1>2, PTL DEF Pip!PipeSpec

\* No SIGHUP is forgotten, the library is paused when the program thinks so, and it is shut
\* down at the end, whenever signals come (ltr_pipe.c).
THEOREM SignalsKept == Pip!PipeSpec => []Pip!SignalsKept
<1>1. PipInv => Pip!SignalsKept
  BY DEF PipInv
<1> QED
  BY <1>1, PipInvariance, PTL
------------------------------------------------------------------------------
(***************************************************************************)
(* Controller, for any keys, codes that are kept, and any length of the    *)
(* queue. A code that is kept has a key, or the stroke that ends it would  *)
(* be one of no code.                                                      *)
(***************************************************************************)

KeyTypes ==
  /\ runs \in BOOLEAN /\ paused \in BOOLEAN
  /\ kbd_data \in Seq([key : Keys, down : BOOLEAN])
  /\ pause_code \in Seq(Keys) /\ recenter_code \in Seq(Keys) /\ code \in Seq(Keys)
  /\ state \in {"RECEIVING", "DEF_PAUSE", "DEF_RECENTER"}
  /\ registry \in [pause : Seq(Keys), recenter : Seq(Keys)] /\ seen \in Seq(Keys)

KeyInv == KeyTypes /\ Key!KeysAgree

\* A code is a sequence of keys.
LEMMA CodesAre == Key!Codes \subseteq Seq(Keys)
<1>1. <<>> \in Seq(Keys)
  OBVIOUS
<1>2. \A k \in Keys : <<k>> \in Seq(Keys)
  OBVIOUS
<1>3. ASSUME NEW c \in Keys \X Keys
      PROVE  c \in Seq(Keys)
  <2>1. PICK a \in Keys, b \in Keys : c = <<a, b>>
    OBVIOUS
  <2>2. <<a, b>> \in Seq(Keys)
    OBVIOUS
  <2> QED
    BY <2>1, <2>2
<1> QED
  BY <1>1, <1>2, <1>3 DEF Key!Codes

\* Sequences are short or not.
LEMMA ZeroOneMore ==
  ASSUME NEW s \in Seq(Keys)
  PROVE  Len(s) = 0 \/ Len(s) = 1 \/ Len(s) > 1
<1>1. Len(s) \in Nat
  OBVIOUS
<1>2. \A n \in Nat : n = 0 \/ n = 1 \/ n > 1
  OBVIOUS
<1> QED
  BY <1>1, <1>2

\* The last two of some keys.
LEMMA LastTwoAre ==
  ASSUME NEW s \in Seq(Keys)
  PROVE  /\ Key!LastOf(s, 2) \in Seq(Keys)
         /\ Len(s) = 0 => Key!LastOf(s, 2) = <<>>
         /\ Len(s) = 1 => Key!LastOf(s, 2) = <<s[1]>>
         /\ Len(s) > 1 => Key!LastOf(s, 2) = <<s[Len(s) - 1], s[Len(s)]>>
<1>1. Len(s) \in Nat /\ \A i \in 1 .. Len(s) : s[i] \in Keys
  OBVIOUS
<1>2. CASE Len(s) = 0
  <2>1. Key!LastOf(s, 2) = SubSeq(s, 1, 0)
    BY <1>2 DEF Key!LastOf
  <2> QED
    BY <1>2, <2>1, SubSeqEmpty
<1>3. CASE Len(s) = 1
  <2> DEFINE t == SubSeq(s, 1, 1)
  <2>1. t \in Seq(Keys) /\ Len(t) = 1 /\ t[1] = s[1]
    BY <1>1, <1>3, SubSeqProperties
  <2>2. Key!LastOf(s, 2) = t
    BY <1>3 DEF Key!LastOf
  <2> HIDE DEF t
  <2>3. <<s[1]>> \in Seq(Keys) /\ Len(<<s[1]>>) = 1
    BY <1>1, <1>3
  <2>4. t = <<s[1]>>
    BY <2>1, <2>3, SeqEqual
  <2> QED
    BY <1>3, <2>1, <2>2, <2>4
<1>4. ASSUME NEW n \in Nat, n = Len(s), n > 1
      PROVE  Key!LastOf(s, 2) \in Seq(Keys) /\ Key!LastOf(s, 2) = <<s[n - 1], s[n]>>
  <2> DEFINE t == SubSeq(s, n - 1, n)
  <2>1. t \in Seq(Keys) /\ Len(t) = 2 /\ t[1] = s[n - 1] /\ t[2] = s[n]
    <3>1. \A i \in n - 1 .. n : s[i] \in Keys
      BY <1>1, <1>4
    <3> QED
      BY <1>4, <3>1, SubSeqProperties
  <2>2. Key!LastOf(s, 2) = t
    <3>1. CASE n > 2
      BY <1>4, <3>1 DEF Key!LastOf
    <3>2. CASE n = 2
      BY <1>4, <3>2 DEF Key!LastOf
    <3> QED
      BY <1>4, <3>1, <3>2
  <2> HIDE DEF t
  <2>3. /\ <<s[n - 1], s[n]>> \in Seq(Keys) /\ Len(<<s[n - 1], s[n]>>) = 2
        /\ <<s[n - 1], s[n]>>[1] = s[n - 1] /\ <<s[n - 1], s[n]>>[2] = s[n]
    BY <1>1, <1>4
  <2>4. \A i \in 1 .. Len(t) : t[i] = <<s[n - 1], s[n]>>[i]
    BY <2>1, <2>3
  <2>5. t = <<s[n - 1], s[n]>>
    BY <2>1, <2>3, <2>4, SeqEqual
  <2> QED
    BY <2>1, <2>2, <2>5
<1>5. Len(s) > 1 => /\ Key!LastOf(s, 2) \in Seq(Keys)
                    /\ Key!LastOf(s, 2) = <<s[Len(s) - 1], s[Len(s)]>>
  <2>1. \A n \in Nat : n = Len(s) /\ n > 1 =>
          Key!LastOf(s, 2) \in Seq(Keys) /\ Key!LastOf(s, 2) = <<s[n - 1], s[n]>>
    BY <1>4
  <2> QED
    BY <1>1, <2>1
<1>6. Len(s) = 0 \/ Len(s) = 1 \/ Len(s) > 1
  BY ZeroOneMore
<1> QED
  BY <1>2, <1>3, <1>5, <1>6

\* No keys.
LEMMA NoneAre == <<>> \in Seq(Keys) /\ Key!LastOf(<<>>, 2) = <<>>
BY EmptySeq, LastTwoAre

\* The code, when one more key is pressed.
LEMMA LastTwo ==
  ASSUME NEW s \in Seq(Keys), NEW k \in Keys, code = Key!LastOf(s, 2)
  PROVE  Key!UpdateCode(k) = Key!LastOf(Append(s, k), 2)
<1> DEFINE t == Append(s, k)
<1>1. /\ t \in Seq(Keys) /\ Len(t) = Len(s) + 1 /\ t[Len(s) + 1] = k /\ Len(s) \in Nat
      /\ \A i \in 1 .. Len(s) : t[i] = s[i]
  OBVIOUS
<1> HIDE DEF t
<1>2. CASE Len(s) = 0
  <2>1. code = <<>>
    BY <1>2, LastTwoAre
  <2>2. Key!LastOf(t, 2) = <<k>>
    BY <1>1, <1>2, LastTwoAre
  <2> QED
    BY <2>1, <2>2 DEF Key!UpdateCode, t
<1>3. CASE Len(s) > 0
  <2>1. code # <<>> /\ code[Len(code)] = s[Len(s)]
    <3>1. \A x, y \in Keys : /\ <<x>> # <<>> /\ <<x>>[Len(<<x>>)] = x
                             /\ <<x, y>> # <<>> /\ <<x, y>>[Len(<<x, y>>)] = y
      OBVIOUS
    <3>2. Len(s) = 1 => code = <<s[1]>> /\ s[1] \in Keys
      BY LastTwoAre
    <3>3. Len(s) > 1 => /\ code = <<s[Len(s) - 1], s[Len(s)]>>
                        /\ s[Len(s) - 1] \in Keys /\ s[Len(s)] \in Keys
      <4>1. Len(s) > 1 => Len(s) - 1 \in 1 .. Len(s) /\ Len(s) \in 1 .. Len(s)
        BY <1>1
      <4> QED
        BY <4>1, LastTwoAre
    <3>4. Len(s) = 1 \/ Len(s) > 1
      BY <1>3, ZeroOneMore
    <3>5. CASE Len(s) = 1
      <4>1. PICK x \in Keys : x = s[Len(s)] /\ code = <<x>>
        BY <3>2, <3>5
      <4>2. <<x>> # <<>> /\ <<x>>[Len(<<x>>)] = x
        BY <3>1
      <4> QED
        BY <4>1, <4>2
    <3>6. CASE Len(s) > 1
      <4>1. PICK x \in Keys, y \in Keys : y = s[Len(s)] /\ code = <<x, y>>
        BY <3>3, <3>6
      <4>2. <<x, y>> # <<>> /\ <<x, y>>[Len(<<x, y>>)] = y
        OBVIOUS
      <4> QED
        BY <4>1, <4>2, Zenon
    <3> QED
      BY <3>4, <3>5, <3>6
  <2>2. Key!LastOf(t, 2) = <<s[Len(s)], k>>
    <3>1. /\ Len(t) > 1 /\ Len(t) = Len(s) + 1 /\ Len(t) - 1 = Len(s) /\ t[Len(s)] = s[Len(s)]
          /\ t[Len(t)] = k
      BY <1>1, <1>3
    <3>2. Key!LastOf(t, 2) = <<t[Len(t) - 1], t[Len(t)]>>
      BY <1>1, <3>1, LastTwoAre
    <3> QED
      BY <3>1, <3>2
  <2>3. Key!UpdateCode(k) = <<s[Len(s)], k>>
    BY <2>1 DEF Key!UpdateCode, Key!Last
  <2> QED
    BY <2>2, <2>3 DEF t
<1> QED
  BY <1>1, <1>2, <1>3

\* The window shows the hot keys that are in force, and the code is of the last two keys
\* pressed (wine_bridge/controller/rest.c), for any keys and any number of strokes.
THEOREM KeyInvariance == ASSUME Key!KeysAssumption PROVE Key!KeySpec => []KeyInv
<1>1. Key!Init => KeyInv
  <2> SUFFICES ASSUME Key!Init
               PROVE  KeyInv
    OBVIOUS
  <2>1. /\ runs = FALSE /\ kbd_data = <<>> /\ code = <<>> /\ pause_code = <<>>
        /\ recenter_code = <<>> /\ state = "RECEIVING" /\ paused = FALSE /\ seen = <<>>
        /\ names = [pause |-> pause_code, recenter |-> recenter_code]
    BY DEF Key!Init, Key!NotSet
  <2>2. /\ registry \in [pause : Seq(Keys), recenter : Seq(Keys)]
        /\ registry # Key!NotSet => <<>> \notin {registry.pause, registry.recenter}
    BY CodesAre DEF Key!Init, Key!KeysAssumption, Key!Hotkeys
  <2>3. code = Key!LastOf(seen, 2) /\ code \in Seq(Keys)
    BY <2>1, NoneAre
  <2>4. kbd_data \in Seq([key : Keys, down : BOOLEAN])
    BY <2>1
  <2> QED
    BY <2>1, <2>2, <2>3, <2>4 DEF KeyInv, KeyTypes, Key!KeysAgree
<1>2. KeyInv /\ [Key!KeyNext]_(Key!keyVars) => KeyInv'
  <2> SUFFICES ASSUME KeyInv, [Key!KeyNext]_(Key!keyVars)
               PROVE  KeyInv'
    OBVIOUS
  <2> DEFINE Events == [key : Keys, down : BOOLEAN]
  <2> USE DEF KeyInv
  <2>1. ASSUME NEW k \in Keys, Key!Press(k) \/ Key!Release(k)
        PROVE  KeyInv'
    <3>1. PICK d \in BOOLEAN : Key!Event(k, d)
      BY <2>1 DEF Key!Press, Key!Release
    <3>2. kbd_data' \in Seq(Events)
      <4>1. [key |-> k, down |-> d] \in Events
        OBVIOUS
      <4> HIDE DEF Events
      <4>2. \A q \in Seq(Events), x \in Events : Append(q, x) \in Seq(Events)
        OBVIOUS
      <4> QED
        BY <3>1, <4>1, <4>2 DEF KeyTypes, Key!Event, Events
    <3>3. UNCHANGED <<runs, code, pause_code, recenter_code, state, paused, names, registry,
                      tracking, seen>>
      BY <2>1 DEF Key!Press, Key!Release, Key!hotkeys
    <3> QED
      BY <3>2, <3>3 DEF KeyTypes, Key!KeysAgree
  <2>2. ASSUME NEW s \in {"DEF_PAUSE", "DEF_RECENTER"}, Key!Redefine(s)
        PROVE  KeyInv'
    BY <2>2 DEF KeyTypes, Key!KeysAgree, Key!Redefine
  <2>3. CASE Key!Starts
    <3>1. /\ (runs' = TRUE /\ tracking' = "runs") \/ (runs' = FALSE /\ UNCHANGED tracking)
          /\ pause_code' = registry.pause /\ recenter_code' = registry.recenter
          /\ names' = registry /\ code' = <<>> /\ state' = "RECEIVING" /\ paused' = FALSE
          /\ kbd_data' = <<>> /\ seen' = <<>> /\ UNCHANGED registry
      BY <2>3 DEF Key!Starts
    <3>2. names' = [pause |-> pause_code', recenter |-> recenter_code']
      BY <3>1 DEF KeyTypes
    <3>3. code' = Key!LastOf(seen', 2)
      BY <3>1, NoneAre
    <3>4. kbd_data' \in Seq(Events) /\ code' \in Seq(Keys) /\ seen' \in Seq(Keys)
      BY <3>1
    <3> QED
      BY <3>1, <3>2, <3>3, <3>4 DEF KeyTypes, Key!KeysAgree
  <2>4. CASE Key!Quits
    <3>1. /\ runs' = FALSE
          /\ \/ UNCHANGED registry
             \/ /\ <<>> \notin {pause_code, recenter_code}
                /\ registry' = [pause |-> pause_code, recenter |-> recenter_code]
          /\ UNCHANGED <<kbd_data, code, pause_code, recenter_code, state, names, paused, seen>>
      BY <2>4 DEF Key!Quits, Key!hotkeys
    <3>2. registry' \in [pause : Seq(Keys), recenter : Seq(Keys)]
      BY <3>1 DEF KeyTypes
    <3>3. registry' # Key!NotSet => <<>> \notin {registry.pause, registry.recenter}'
      <4>1. CASE UNCHANGED registry
        BY <4>1 DEF Key!KeysAgree
      <4>2. CASE /\ <<>> \notin {pause_code, recenter_code}
                 /\ registry' = [pause |-> pause_code, recenter |-> recenter_code]
        BY <4>2
      <4> QED
        BY <3>1, <4>1, <4>2
    <3> QED
      BY <3>1, <3>2, <3>3 DEF KeyTypes, Key!KeysAgree
  <2>5. CASE Key!OneEvent
    <3> DEFINE e == Head(kbd_data)
    <3>1. e \in Events /\ kbd_data' \in Seq(Events)
      <4>1. kbd_data \in Seq(Events) /\ kbd_data # <<>> /\ kbd_data' = Tail(kbd_data)
        BY <2>5 DEF KeyTypes, Key!OneEvent
      <4> HIDE DEF Events
      <4> QED
        BY <4>1, HeadTailProperties
    <3>2. runs /\ UNCHANGED <<runs, registry>>
      BY <2>5 DEF Key!OneEvent, Key!outside
    <3>3. CASE e.down
      <4>1. /\ code' = Key!UpdateCode(e.key) /\ seen' = Append(seen, e.key)
            /\ UNCHANGED <<pause_code, recenter_code, state, names>> /\ Key!Act(code')
        BY <2>5, <3>3 DEF Key!OneEvent, Key!hotkeys
      <4>2. e.key \in Keys
        BY <3>1
      <4> HIDE DEF e
      <4>3. seen' \in Seq(Keys) /\ code' = Key!LastOf(seen', 2)
        BY <4>1, <4>2, LastTwo DEF KeyTypes, Key!KeysAgree
      <4>4. code' \in Seq(Keys)
        BY <4>3, LastTwoAre
      <4>5. paused' \in BOOLEAN /\ paused' = (tracking' = "paused") /\ tracking' # "off"
        BY <3>2, <4>1 DEF KeyTypes, Key!KeysAgree, Key!Act
      <4> QED
        BY <3>1, <3>2, <4>1, <4>3, <4>4, <4>5 DEF KeyTypes, Key!KeysAgree
    <3>4. CASE ~e.down
      <4>1. /\ Key!Defined /\ code' = <<>> /\ seen' = <<>> /\ UNCHANGED <<paused, tracking>>
            /\ names' = IF state = "RECEIVING" THEN names
                        ELSE [pause |-> pause_code', recenter |-> recenter_code']
        BY <2>5, <3>4 DEF Key!OneEvent
      <4>2. /\ pause_code' \in Seq(Keys) /\ recenter_code' \in Seq(Keys) /\ state' = "RECEIVING"
            /\ names' = [pause |-> pause_code', recenter |-> recenter_code']
        BY <4>1 DEF KeyTypes, Key!KeysAgree, Key!Defined
      <4>3. code' \in Seq(Keys) /\ seen' \in Seq(Keys) /\ code' = Key!LastOf(seen', 2)
        BY <4>1, NoneAre
      <4> QED
        BY <3>1, <3>2, <4>1, <4>2, <4>3 DEF KeyTypes, Key!KeysAgree
    <3> QED
      BY <3>3, <3>4
  <2>6. CASE UNCHANGED Key!keyVars
    BY <2>6 DEF KeyTypes, Key!KeysAgree, Key!keyVars
  <2> QED
    BY <2>1, <2>2, <2>3, <2>4, <2>5, <2>6 DEF Key!KeyNext
<1> QED
  BY <1>1, <1>2, PTL DEF Key!KeySpec

\* The hot keys that are in force are those shown (wine_bridge/controller/rest.c).
THEOREM KeysFollow == ASSUME Key!KeysAssumption PROVE Key!KeySpec => []Key!KeysAgree
<1>1. KeyInv => Key!KeysAgree
  BY DEF KeyInv
<1> QED
  BY <1>1, KeyInvariance, PTL

------------------------------------------------------------------------------
(***************************************************************************)
(* Profiles, for any games, preference files, exported profiles and number *)
(* of edits.  The preferences have one section of each profile at most.    *)
(* While they were not read again, the section of the selected profile is  *)
(* in them and gives the axes that are shown; while messages go where they *)
(* should, it also gives those of the games of the default profile.        *)
(***************************************************************************)

Dflt == Pro!Named("Default")

\* Parameters have values of theirs.
Fits(f) == \A k \in DOMAIN f : f[k] \in Pro!ValuesOf(k)

\* The preferences: a section of the default profile, and at most one of each.
Book(p) ==
  /\ p = [sections |-> p.sections, align |-> p.align] /\ IsFiniteSet(DOMAIN p.sections)
  /\ \A s \in DOMAIN p.sections :
       /\ p.sections[s] = [title |-> p.sections[s].title, keys |-> p.sections[s].keys]
       /\ s # Pro!NoSection /\ p.sections[s].title \in Pro!Profiles \cup {Pro!Untitled}
       /\ DOMAIN p.sections[s].keys \subseteq Pro!Params /\ Fits(p.sections[s].keys)
  /\ \A s, t \in DOMAIN p.sections :
       p.sections[s].title = p.sections[t].title => s = t \/ p.sections[s].title = Pro!Untitled
  /\ Dflt \in DOMAIN p.sections /\ p.sections[Dflt].title = "Default"

\* What the section s of p says of a parameter.
Says(p, s, k) ==
  IF k \in DOMAIN p.sections[s].keys THEN p.sections[s].keys[k]
  ELSE IF k \in DOMAIN p.sections[Dflt].keys THEN p.sections[Dflt].keys[k]
  ELSE Pro!BuiltIn[k]

\* A section titled t.
IsOf(p, s, t) == s \in DOMAIN p.sections /\ p.sections[s].title = t

\* The sections of p are in q, and say the same.
Kept(p, q) ==
  \A s \in DOMAIN p.sections :
    /\ s \in DOMAIN q.sections /\ q.sections[s].title = p.sections[s].title
    /\ \A k \in DOMAIN p.sections[s].keys :
         k \in DOMAIN q.sections[s].keys /\ q.sections[s].keys[k] = p.sections[s].keys[k]
    /\ \A k \in Pro!Params : Says(q, s, k) = Says(p, s, k)

\* The values of the parameters.
LEMMA ValuesAre ==
  /\ Pro!ValuesOf("enabled") = 0 .. 1 /\ Pro!ValuesOf("inverted") = 0 .. 1
  /\ Pro!ValuesOf("mult") = 1 .. 2 /\ Pro!ValuesOf("filter") = 0 .. 2
  /\ Pro!ValuesOf("llimit") = 1 .. 2 /\ Pro!ValuesOf("rlimit") = 1 .. 2
BY DEF Pro!ValuesOf

\* The values that are built in are of their ranges.
LEMMA BuiltInFits == Fits(Pro!BuiltIn)
<1>1. Pro!BuiltIn = [enabled |-> 1, inverted |-> 0, mult |-> 1, llimit |-> 1, rlimit |-> 1,
                     filter |-> 0]
  BY DEF Pro!BuiltIn, Pro!DefaultKeys
<1>2. DOMAIN Pro!BuiltIn = Pro!Params
  BY <1>1 DEF Pro!Params
<1>3. \A k \in Pro!Params : Pro!BuiltIn[k] \in Pro!ValuesOf(k)
  BY <1>1, ValuesAre DEF Pro!Params
<1> QED
  BY <1>2, <1>3 DEF Fits

\* So are they with one of them changed,
LEMMA PutFits ==
  ASSUME NEW f, Fits(f), NEW k, NEW v \in Pro!ValuesOf(k)
  PROVE  Fits(Pro!Put(f, k, v))
BY DEF Fits, Pro!Put

\* and with those of a profile put over them.
LEMMA OverFits ==
  ASSUME NEW f, Fits(f), NEW g, Fits(g)
  PROVE  Fits(Pro!Over(f, g))
BY DEF Fits, Pro!Over

\* A sum that is cut off at 2.
LEMMA LeastOfTwo ==
  ASSUME NEW x \in 0 .. 2, NEW y \in 0 .. 2
  PROVE  Pro!Least(2, x + y) \in 0 .. 2
BY DEF Pro!Least

\* What the widgets of a curve show.
LEMMA WidgetsFit ==
  ASSUME NEW val, val = [k \in Pro!Params |-> val[k]], Fits(val), NEW off \in 0 .. 2,
         NEW ui, ui = [w \in Pro!Widgets |-> IF w = "filter" THEN off ELSE val[w]]
  PROVE  Fits(ui)
<1>1. \A k \in Pro!Params : val[k] \in Pro!ValuesOf(k)
  BY DEF Fits
<1>2. \A w \in Pro!Widgets : w \in Pro!Params
  BY DEF Pro!Widgets, Pro!Params
<1> QED
  BY <1>1, <1>2, ValuesAre DEF Fits

\* The part of a filter that is common, and the other.
LEMMA PartsFit ==
  ASSUME NEW val, val = [k \in Pro!Params |-> val[k]], Fits(val),
         NEW common, common = Pro!Least(1, val.filter)
  PROVE  common \in 0 .. 1 /\ val.filter - common \in 0 .. 2
<1>1. val["filter"] \in 0 .. 2
  BY ValuesAre DEF Fits, Pro!Params
<1>2. PICK v \in 0 .. 2 : v = val["filter"]
  BY <1>1
<1>3. common = Pro!Least(1, v)
  BY <1>2
<1>4. common \in 0 .. 1 /\ v - common \in 0 .. 2
  BY <1>3 DEF Pro!Least
<1> QED
  BY <1>2, <1>4

\* A profile has a title.
LEMMA NotUntitled ==
  ASSUME Pro!ProfilesAssumption
  PROVE  Pro!Untitled \notin Pro!Profiles
BY DEF Pro!ProfilesAssumption, Pro!Profiles, Pro!Untitled

\* The section with a title is the one that is found.
LEMMA Found ==
  ASSUME Pro!ProfilesAssumption, NEW p, Book(p), NEW t \in Pro!Profiles, NEW s, IsOf(p, s, t)
  PROVE  Pro!Find(p, t) = s /\ s # Pro!NoSection
<1>1. \E x \in DOMAIN p.sections : p.sections[x].title = t
  BY DEF IsOf
<1>2. PICK x \in DOMAIN p.sections : p.sections[x].title = t /\ Pro!Find(p, t) = x
  BY <1>1 DEF Pro!Find
<1>3. x = s
  BY <1>2, NotUntitled DEF Book, IsOf
<1> QED
  BY <1>2, <1>3 DEF Book

\* None is found where none has the title.
LEMMA NotFound ==
  ASSUME NEW p, NEW t, \A s : ~IsOf(p, s, t)
  PROVE  Pro!Find(p, t) = Pro!NoSection
BY DEF Pro!Find, IsOf

\* There is a name left.
LEMMA FreshIsNew ==
  ASSUME NEW p, IsFiniteSet(DOMAIN p.sections)
  PROVE  Pro!Fresh(p) \notin DOMAIN p.sections /\ Pro!Fresh(p) # Pro!NoSection
<1> DEFINE D == DOMAIN p.sections
           c == Cardinality(D)
           Free == {n \in 0 .. c : Pro!Numbered("Profile", n) \notin D}
<1>1. c \in Nat
  BY FS_CardinalityType
<1>2. Free # {}
  <2> SUFFICES ASSUME Free = {}
               PROVE  FALSE
    OBVIOUS
  <2> DEFINE f == [n \in 0 .. c |-> Pro!Numbered("Profile", n)]
  <2>1. f \in [0 .. c -> D]
    OBVIOUS
  <2>2. IsFiniteSet(0 .. c) /\ Cardinality(0 .. c) = c + 1
    BY <1>1, FS_Interval
  <2>3. PICK m, n \in 0 .. c : m # n /\ f[m] = f[n]
    <3>1. IsFiniteSet(D) /\ Cardinality(D) < Cardinality(0 .. c)
      BY <1>1, <2>2
    <3>2. PICK S : S = 0 .. c
      OBVIOUS
    <3> HIDE DEF f, D, c
    <3>4. f \in [S -> D] /\ IsFiniteSet(S) /\ Cardinality(D) < Cardinality(S)
      BY <2>1, <2>2, <3>1, <3>2
    <3>3. \E m, n \in S : m # n /\ f[m] = f[n]
      BY <3>1, <3>4, FS_PigeonHole
    <3> QED
      BY <3>2, <3>3
  <2> QED
    BY <2>3 DEF Pro!Numbered
<1>3. PICK n \in Free : \A m \in Free : ~(m < n)
  <2> DEFINE R == OpToRel(<, Nat)
  <2>1. \A a, b \in Nat : <<a, b>> \notin R => ~(a < b)
    BY Zenon DEF OpToRel
  <2>2. Free \subseteq Nat
    BY <1>1
  <2> HIDE DEF Free
  <2>3. PICK x \in Free : \A y \in Free : <<y, x>> \notin R
    BY <1>2, <2>2, NatLessThanWellFounded, WFMin
  <2> HIDE DEF R
  <2> QED
    BY <2>1, <2>2, <2>3, Zenon
<1>4. /\ n \in 0 .. c /\ Pro!Numbered("Profile", n) \notin D
      /\ \A m \in 0 .. n - 1 : Pro!Numbered("Profile", m) \in D
  BY <1>1, <1>3
<1> DEFINE Least(k) ==
             /\ Pro!Numbered("Profile", k) \notin DOMAIN p.sections
             /\ \A m \in 0 .. k - 1 : Pro!Numbered("Profile", m) \in DOMAIN p.sections
<1>5. \E k \in 0 .. c : Least(k)
  BY <1>4
<1>6. PICK j : j = CHOOSE k \in 0 .. c : Least(k)
  OBVIOUS
<1>7. Least(j)
  <2> HIDE DEF Least
  <2> QED
    BY <1>5, <1>6
<1>8. Pro!Fresh(p) = IF Pro!Named("Profile") \notin D THEN Pro!Named("Profile")
                     ELSE Pro!Numbered("Profile", j)
  <2>1. PICK d : d = Pro!Cardinality(D)
    OBVIOUS
  <2>2. d = c
    BY <2>1, Zenon DEF Pro!Cardinality, Cardinality
  <2>3. j = CHOOSE k \in 0 .. d : Least(k)
    BY <1>6, <2>2
  <2> HIDE DEF c
  <2>4. j = CHOOSE k \in 0 .. Pro!Cardinality(D) : Least(k)
    BY <2>1, <2>3
  <2> QED
    BY <2>4 DEF Pro!Fresh
<1>9. Pro!Fresh(p) # Pro!NoSection
  BY <1>8 DEF Pro!Named, Pro!Numbered, Pro!NoSection
<1> QED
  BY <1>7, <1>8, <1>9

\* A section is added.
LEMMA AddedSection ==
  ASSUME Pro!ProfilesAssumption, NEW p, Book(p), NEW n, n \notin DOMAIN p.sections, n # Pro!NoSection,
         NEW t \in Pro!Profiles \cup {Pro!Untitled}, \A s : IsOf(p, s, t) => t = Pro!Untitled,
         NEW f, DOMAIN f \subseteq Pro!Params, Fits(f),
         NEW q, q = Pro!SetSection(p, n, [title |-> t, keys |-> f])
  PROVE  /\ Book(q) /\ q.align = p.align /\ DOMAIN q.sections = DOMAIN p.sections \cup {n}
         /\ q.sections[n] = [title |-> t, keys |-> f]
         /\ \A s \in DOMAIN p.sections : q.sections[s] = p.sections[s]
<1>1. q = [sections |-> Pro!Put(p.sections, n, [title |-> t, keys |-> f]), align |-> p.align]
  BY DEF Book, Pro!SetSection
<1>2. /\ q.align = p.align /\ DOMAIN q.sections = DOMAIN p.sections \cup {n}
      /\ q.sections[n] = [title |-> t, keys |-> f]
      /\ \A s \in DOMAIN p.sections : q.sections[s] = p.sections[s]
  BY <1>1 DEF Pro!Put
<1>3. IsFiniteSet(DOMAIN q.sections)
  BY <1>2, FS_AddElement DEF Book
<1>4. q = [sections |-> q.sections, align |-> q.align]
  BY <1>1
<1>5. \A s \in DOMAIN q.sections :
        /\ q.sections[s] = [title |-> q.sections[s].title, keys |-> q.sections[s].keys]
        /\ s # Pro!NoSection /\ q.sections[s].title \in Pro!Profiles \cup {Pro!Untitled}
        /\ DOMAIN q.sections[s].keys \subseteq Pro!Params /\ Fits(q.sections[s].keys)
  BY <1>2 DEF Book
<1>6. \A s, u \in DOMAIN q.sections :
        q.sections[s].title = q.sections[u].title => s = u \/ q.sections[s].title = Pro!Untitled
  BY <1>2 DEF Book, IsOf
<1>7. Dflt \in DOMAIN q.sections /\ q.sections[Dflt].title = "Default"
  BY <1>2 DEF Book
<1> QED
  BY <1>2, <1>3, <1>4, <1>5, <1>6, <1>7 DEF Book

\* The keys of a section are others.
LEMMA OtherKeys ==
  ASSUME NEW p, Book(p), NEW n \in DOMAIN p.sections,
         NEW f, DOMAIN f \subseteq Pro!Params, Fits(f),
         NEW q, q = Pro!SetSection(p, n, [p.sections[n] EXCEPT !.keys = f])
  PROVE  /\ Book(q) /\ q.align = p.align /\ DOMAIN q.sections = DOMAIN p.sections
         /\ q.sections[n].title = p.sections[n].title /\ q.sections[n].keys = f
         /\ \A s \in DOMAIN p.sections \ {n} : q.sections[s] = p.sections[s]
<1> DEFINE e == [title |-> p.sections[n].title, keys |-> f]
<1>1. [p.sections[n] EXCEPT !.keys = f] = e
  BY DEF Book
<1>2. q = [sections |-> Pro!Put(p.sections, n, e), align |-> p.align]
  BY <1>1 DEF Book, Pro!SetSection
<1>3. /\ q.align = p.align /\ DOMAIN q.sections = DOMAIN p.sections
      /\ q.sections[n] = e
      /\ \A s \in DOMAIN p.sections \ {n} : q.sections[s] = p.sections[s]
  <2> HIDE DEF e
  <2>1. q.sections = Pro!Put(p.sections, n, e) /\ q.align = p.align
    BY <1>2
  <2>2. Pro!Put(p.sections, n, e)
          = [y \in DOMAIN p.sections |-> IF y = n THEN e ELSE p.sections[y]]
    BY DOMAIN p.sections \cup {n} = DOMAIN p.sections DEF Pro!Put
  <2> QED
    BY <2>1, <2>2
<1>4. q = [sections |-> q.sections, align |-> q.align]
  BY <1>2
<1>5. \A s \in DOMAIN q.sections :
        /\ q.sections[s] = [title |-> q.sections[s].title, keys |-> q.sections[s].keys]
        /\ s # Pro!NoSection /\ q.sections[s].title \in Pro!Profiles \cup {Pro!Untitled}
        /\ DOMAIN q.sections[s].keys \subseteq Pro!Params /\ Fits(q.sections[s].keys)
  BY <1>3 DEF Book
<1>6. \A s \in DOMAIN q.sections : q.sections[s].title = p.sections[s].title
  BY <1>3
<1> QED
  BY <1>3, <1>4, <1>5, <1>6 DEF Book

\* What does not change is kept.
LEMMA Same == ASSUME NEW p PROVE Kept(p, p)
BY DEF Kept

\* What is kept twice is kept.
LEMMA KeptTwice ==
  ASSUME NEW p, NEW q, NEW r, Kept(p, q), Kept(q, r)
  PROVE  Kept(p, r)
BY DEF Kept

\* The preferences with a section for the profile.
LEMMA PreparedHas ==
  ASSUME Pro!ProfilesAssumption, NEW p, Book(p), NEW t \in Pro!Profiles,
         NEW q, q = Pro!Prepared(p, t)
  PROVE  /\ Book(q) /\ q.align = p.align /\ Kept(p, q)
         /\ \E n : /\ IsOf(q, n, t) /\ DOMAIN q.sections = DOMAIN p.sections \cup {n}
                   /\ n \notin DOMAIN p.sections => \A s : ~IsOf(p, s, t)
<1>1. Pro!Find(p, "Default") # Pro!NoSection
  BY Found DEF Book, IsOf, Pro!Profiles
<1>2. CASE \E s : IsOf(p, s, t)
  <2>1. Pro!Find(p, t) # Pro!NoSection
    BY <1>2, Found
  <2>2. q = p
    BY <1>1, <2>1 DEF Pro!Prepared
  <2> QED
    BY <1>2, <2>2, Same DEF IsOf
<1>3. CASE \A s : ~IsOf(p, s, t)
  <2> DEFINE f == <<>>
             n == Pro!Fresh(p)
  <2>1. q = Pro!SetSection(p, n, [title |-> t, keys |-> f])
    BY <1>1, <1>3, NotFound DEF Pro!Prepared, Pro!Title
  <2>2. n \notin DOMAIN p.sections /\ n # Pro!NoSection
    BY FreshIsNew DEF Book
  <2>3. DOMAIN f \subseteq Pro!Params /\ Fits(f)
    BY DEF Fits
  <2> HIDE DEF f, n
  <2>4. /\ Book(q) /\ q.align = p.align /\ DOMAIN q.sections = DOMAIN p.sections \cup {n}
        /\ q.sections[n] = [title |-> t, keys |-> f]
        /\ \A s \in DOMAIN p.sections : q.sections[s] = p.sections[s]
    BY <1>3, <2>1, <2>2, <2>3, AddedSection
  <2>5. Kept(p, q)
    BY <2>4 DEF Kept, Says, Book
  <2>6. IsOf(q, n, t)
    BY <2>4 DEF IsOf
  <2> QED
    BY <1>3, <2>4, <2>5, <2>6
<1> QED
  BY <1>2, <1>3

\* The axes of a profile are what its preferences say, which keep what they had.
LEMMA AxesAre ==
  ASSUME Pro!ProfilesAssumption, NEW p, Book(p), NEW t \in Pro!Profiles,
         NEW r, r = Pro!InitAxes(p, t)
  PROVE  /\ Book(r.prefs) /\ r.prefs.align = p.align /\ Kept(p, r.prefs)
         /\ IsOf(r.prefs, r.section, t)
         /\ DOMAIN r.prefs.sections = DOMAIN p.sections \cup {r.section}
         /\ r.section \notin DOMAIN p.sections => \A s : ~IsOf(p, s, t)
         /\ r.val = [k \in Pro!Params |-> Says(r.prefs, r.section, k)] /\ Fits(r.val)
<1> DEFINE q == Pro!Prepared(p, t)
<1>1. PICK n : /\ IsOf(q, n, t) /\ DOMAIN q.sections = DOMAIN p.sections \cup {n}
               /\ n \notin DOMAIN p.sections => \A s : ~IsOf(p, s, t)
  BY PreparedHas
<1>2. Book(q) /\ q.align = p.align /\ Kept(p, q)
  BY PreparedHas
<1>3. Pro!Find(q, t) = n
  BY <1>1, <1>2, Found
<1> DEFINE own == q.sections[n].keys
           all == Pro!Over(own, q.sections[Dflt].keys)
           e == Pro!SetSection(q, n, [q.sections[n] EXCEPT !.keys = all])
<1>4. Pro!Section(q, Dflt).keys = q.sections[Dflt].keys
  BY <1>2 DEF Book, Pro!Section
<1>5. r = [prefs |-> e, section |-> n, val |-> Pro!Over(all, Pro!BuiltIn)]
  BY <1>3, <1>4 DEF Pro!InitAxes, Dflt
<1>6. DOMAIN all \subseteq Pro!Params /\ Fits(all)
  <2>1. DOMAIN all \subseteq Pro!Params
    BY <1>1, <1>2 DEF Book, Pro!Over, IsOf
  <2>2. Fits(own) /\ Fits(q.sections[Dflt].keys)
    BY <1>1, <1>2 DEF Book, IsOf
  <2> QED
    BY <2>1, <2>2, OverFits
<1>7. /\ Book(e) /\ e.align = q.align /\ DOMAIN e.sections = DOMAIN q.sections
      /\ e.sections[n].title = q.sections[n].title /\ e.sections[n].keys = all
      /\ \A s \in DOMAIN q.sections \ {n} : e.sections[s] = q.sections[s]
  <2> HIDE DEF q, all
  <2> QED
    BY <1>1, <1>2, <1>6, OtherKeys DEF IsOf
<1> HIDE DEF q, e
<1>8. \A k \in DOMAIN own : k \in DOMAIN all /\ all[k] = own[k]
  BY DEF Pro!Over
<1>9. n = Dflt => DOMAIN all = DOMAIN own
  BY DEF Pro!Over
<1>10. Dflt \in DOMAIN q.sections
  BY <1>2 DEF Book
<1>11. \A k \in Pro!Params : Says(e, n, k) = Says(q, n, k)
  BY <1>7, <1>8, <1>9, <1>10 DEF Says, Pro!Over
<1>12. \A k \in DOMAIN q.sections[Dflt].keys :
         k \in DOMAIN e.sections[Dflt].keys /\ e.sections[Dflt].keys[k] = q.sections[Dflt].keys[k]
  BY <1>7, <1>8, <1>10
<1>13. DOMAIN e.sections[Dflt].keys = DOMAIN q.sections[Dflt].keys
  BY <1>7, <1>9, <1>10
<1>14. Kept(q, e)
  <2>1. \A s \in DOMAIN q.sections : \A k \in Pro!Params : Says(e, s, k) = Says(q, s, k)
    <3> HIDE DEF own, all
    <3> QED
      BY <1>7, <1>11, <1>12, <1>13 DEF Says
  <2> QED
    BY <1>7, <1>8, <2>1 DEF Kept
<1>15. Pro!Over(all, Pro!BuiltIn) = [k \in Pro!Params |-> Says(e, n, k)]
  <2>1. DOMAIN Pro!BuiltIn = Pro!Params
    BY DEF Pro!BuiltIn, Pro!DefaultKeys, Pro!Params
  <2>2. DOMAIN all \cup DOMAIN Pro!BuiltIn = Pro!Params
    BY <1>6, <2>1
  <2>3. \A k \in Pro!Params :
          (IF k \in DOMAIN all THEN all[k] ELSE Pro!BuiltIn[k]) = Says(e, n, k)
    <3>1. \A k \in DOMAIN q.sections[Dflt].keys : k \in DOMAIN all
      BY DEF Pro!Over
    <3> HIDE DEF own, all
    <3> QED
      BY <1>7, <1>12, <1>13, <3>1 DEF Says
  <2> HIDE DEF all
  <2> QED
    BY <2>2, <2>3 DEF Pro!Over
<1>16. Kept(p, e)
  BY <1>2, <1>14, KeptTwice
<1>17. IsOf(e, n, t)
  BY <1>1, <1>7 DEF IsOf
<1>18. Fits(r.val)
  <2> HIDE DEF all
  <2>1. r.val = Pro!Over(all, Pro!BuiltIn)
    BY <1>5
  <2> QED
    BY <1>6, <2>1, BuiltInFits, OverFits
<1> QED
  BY <1>1, <1>2, <1>5, <1>7, <1>15, <1>16, <1>17, <1>18

------------------------------------------------------------------------------
(* A world: the preferences, the axes and widgets of ltr_gui, and the games *)

IsGui(g) ==
  /\ g = [val |-> g.val, section |-> g.section, profile |-> g.profile, told |-> g.told,
          common |-> g.common, off |-> g.off, sym |-> g.sym, ui |-> g.ui]
  /\ g.val = [k \in Pro!Params |-> g.val[k]] /\ Fits(g.val)
  /\ g.ui = [k \in Pro!Widgets |-> g.ui[k]] /\ Fits(g.ui)
  /\ g.common \in 0 .. 1 /\ g.off \in 0 .. 2 /\ g.sym \in BOOLEAN
  /\ g.profile \in Pro!Profiles /\ g.section # Pro!NoSection

IsGame(r, al) ==
  /\ r = [profile |-> r.profile, val |-> r.val, align |-> al]
  /\ r.profile \in Pro!Profiles /\ r.val = [k \in Pro!Params |-> r.val[k]]
  /\ Fits(r.val)

\* The axes are those of the section, and so are those of the games of the default
\* profile, unless the preferences were read again (b) and messages missed their game (a).
WInv(w, b, a, al) ==
  /\ w = [prefs |-> w.prefs, gui |-> w.gui, slaves |-> w.slaves]
  /\ Book(w.prefs) /\ IsGui(w.gui)
  /\ ~b \/ ~a => IsOf(w.prefs, w.gui.section, w.gui.profile)
  /\ ~b => \A k \in Pro!Params : w.gui.val[k] = Says(w.prefs, w.gui.section, k)
  /\ ~a => w.gui.told = w.gui.section
  /\ w.slaves = [s \in Slaves |-> w.slaves[s]]
  /\ \A s \in Slaves : w.slaves[s] # Pro!Idle =>
       /\ IsGame(w.slaves[s], al)
       /\ ~a /\ w.slaves[s].profile = "Default" =>
            \A k \in Pro!Params \ {"inverted"} : w.slaves[s].val[k] = Says(w.prefs, Dflt, k)

\* Only the section that the axes are stored in is another.
Only(w, x) ==
  /\ x.gui.section = w.gui.section /\ x.gui.profile = w.gui.profile /\ x.gui.told = w.gui.told
  /\ x.prefs.align = w.prefs.align
  /\ \A s \in DOMAIN w.prefs.sections :
       /\ s \in DOMAIN x.prefs.sections
       /\ x.prefs.sections[s].title = w.prefs.sections[s].title
       /\ s # w.gui.section => x.prefs.sections[s] = w.prefs.sections[s]

\* What two changes leave alone, both together do.
LEMMA OnlyTwice ==
  ASSUME NEW w, NEW x, NEW y, Only(w, x), Only(x, y)
  PROVE  Only(w, y)
BY DEF Only

\* A key is set.
KeyIs(p, q, n, k, v) ==
  /\ Book(q) /\ q.align = p.align
  /\ \A s \in DOMAIN p.sections :
       /\ s \in DOMAIN q.sections /\ q.sections[s].title = p.sections[s].title
       /\ s # n => q.sections[s] = p.sections[s]
  /\ n \in DOMAIN p.sections =>
       \A j \in Pro!Params : Says(q, n, j) = IF j = k THEN v ELSE Says(p, n, j)
  /\ n # Dflt => \A j \in Pro!Params : Says(q, Dflt, j) = Says(p, Dflt, j)

\* A key that is set has its value, and no other one changes.
LEMMA KeySet ==
  ASSUME Pro!ProfilesAssumption, NEW p, Book(p), NEW n, n # Pro!NoSection, NEW k \in Pro!Params,
         NEW v \in Pro!ValuesOf(k), NEW q, q = Pro!SetKey(p, n, k, v)
  PROVE  KeyIs(p, q, n, k, v)
<1> DEFINE f == Pro!Put(Pro!Section(p, n).keys, k, v)
<1>1. DOMAIN f \subseteq Pro!Params /\ Fits(f)
  <2>1. DOMAIN f \subseteq Pro!Params
    BY DEF Pro!Put, Pro!Section, Book
  <2>2. CASE n \in DOMAIN p.sections
    BY <2>1, <2>2, PutFits DEF Pro!Section, Book
  <2>3. CASE n \notin DOMAIN p.sections
    <3>1. Pro!Section(p, n).keys = <<>>
      BY <2>3 DEF Pro!Section
    <3>2. Fits(<<>>)
      BY DEF Fits
    <3> QED
      BY <2>1, <3>1, <3>2, PutFits
  <2> QED
    BY <2>2, <2>3
<1>2. CASE n \in DOMAIN p.sections
  <2>1. q = Pro!SetSection(p, n, [p.sections[n] EXCEPT !.keys = f])
    BY <1>2 DEF Pro!SetKey, Pro!Section, Book
  <2> HIDE DEF f
  <2>2. /\ Book(q) /\ q.align = p.align /\ DOMAIN q.sections = DOMAIN p.sections
        /\ q.sections[n].title = p.sections[n].title /\ q.sections[n].keys = f
        /\ \A s \in DOMAIN p.sections \ {n} : q.sections[s] = p.sections[s]
    BY <1>1, <1>2, <2>1, OtherKeys
  <2>3. /\ k \in DOMAIN f /\ f[k] = v
        /\ \A j \in Pro!Params \ {k} :
             /\ j \in DOMAIN f <=> j \in DOMAIN p.sections[n].keys
             /\ j \in DOMAIN f => f[j] = p.sections[n].keys[j]
    BY <1>2 DEF f, Pro!Put, Pro!Section
  <2>4. \A j \in Pro!Params : Says(q, n, j) = IF j = k THEN v ELSE Says(p, n, j)
    BY <1>2, <2>2, <2>3 DEF Says, Book
  <2>5. n # Dflt => \A j \in Pro!Params : Says(q, Dflt, j) = Says(p, Dflt, j)
    BY <2>2 DEF Says, Book
  <2> QED
    BY <2>2, <2>4, <2>5 DEF KeyIs
<1>3. CASE n \notin DOMAIN p.sections
  <2>1. q = Pro!SetSection(p, n, [title |-> Pro!Untitled, keys |-> f])
    BY <1>3 DEF Pro!SetKey, Pro!Section
  <2> HIDE DEF f
  <2>2. /\ Book(q) /\ q.align = p.align /\ DOMAIN q.sections = DOMAIN p.sections \cup {n}
        /\ \A s \in DOMAIN p.sections : q.sections[s] = p.sections[s]
    BY <1>1, <1>3, <2>1, AddedSection
  <2>3. n # Dflt => \A j \in Pro!Params : Says(q, Dflt, j) = Says(p, Dflt, j)
    BY <2>2 DEF Says, Book
  <2> QED
    BY <1>3, <2>2, <2>3 DEF KeyIs
<1> QED
  BY <1>2, <1>3

\* A message has reached the games of one name, and left the others.
Reached(sl, tl, name, p, v, al) ==
  /\ tl = [s \in Slaves |-> tl[s]]
  /\ \A s \in Slaves :
       /\ sl[s] = Pro!Idle => tl[s] = Pro!Idle
       /\ sl[s] # Pro!Idle =>
            /\ IsGame(tl[s], al) /\ tl[s].profile = sl[s].profile
            /\ \A k \in Pro!Params \ {p} : tl[s].val[k] = sl[s].val[k]
            /\ p # "inverted" /\ Pro!Named(sl[s].profile) = name => tl[s].val[p] = v
            /\ Pro!Named(sl[s].profile) # name => tl[s] = sl[s]

\* The games of a profile are told its value, no other game is.
LEMMA ToldGames ==
  ASSUME NEW sl, sl = [s \in Slaves |-> sl[s]], NEW name, NEW p \in Pro!Params,
         NEW v \in Pro!ValuesOf(p), NEW al,
         \A s \in Slaves : sl[s] # Pro!Idle => IsGame(sl[s], al),
         NEW tl, tl = Pro!Told(sl, name, p, v)
  PROVE  Reached(sl, tl, name, p, v, al)
<1>1. tl = [s \in Slaves |-> IF Pro!Named(sl[s].profile) = name
                             THEN [sl[s] EXCEPT !.val = Pro!Applied(@, p, v)] ELSE sl[s]]
  BY DEF Pro!Told
<1>2. ASSUME NEW s \in Slaves, sl[s] = Pro!Idle
      PROVE  tl[s] = Pro!Idle
  <2>1. [Pro!Idle EXCEPT !.val = Pro!Applied(@, p, v)] = Pro!Idle
    BY DEF Pro!Idle
  <2> QED
    BY <1>1, <1>2, <2>1
<1>3. ASSUME NEW s \in Slaves, sl[s] # Pro!Idle
      PROVE  /\ IsGame(tl[s], al) /\ tl[s].profile = sl[s].profile
             /\ \A k \in Pro!Params \ {p} : tl[s].val[k] = sl[s].val[k]
             /\ p # "inverted" /\ Pro!Named(sl[s].profile) = name => tl[s].val[p] = v
             /\ Pro!Named(sl[s].profile) # name => tl[s] = sl[s]
  <2>1. IsGame(sl[s], al)
    BY <1>3
  <2> DEFINE u == Pro!Applied(sl[s].val, p, v)
  <2>2. /\ u = [k \in Pro!Params |-> u[k]] /\ (p # "inverted" => u[p] = v)
        /\ \A k \in Pro!Params \ {p} : u[k] = sl[s].val[k]
    BY <2>1 DEF IsGame, Pro!Applied
  <2>4. Fits(u)
    BY <2>1 DEF IsGame, Pro!Applied, Fits
  <2>3. tl[s] = IF Pro!Named(sl[s].profile) = name
                THEN [profile |-> sl[s].profile, val |-> u, align |-> al] ELSE sl[s]
    <3> HIDE DEF u
    <3>1. [sl[s] EXCEPT !.val = u] = [profile |-> sl[s].profile, val |-> u, align |-> al]
      BY <2>1 DEF IsGame
    <3> QED
      BY <1>1, <3>1 DEF u
  <2> HIDE DEF u
  <2> QED
    BY <2>1, <2>2, <2>3, <2>4 DEF IsGame
<1> QED
  BY <1>1, <1>2, <1>3 DEF Reached

\* A parameter is set, in all three places.
LEMMA ChangeKeeps ==
  ASSUME Pro!ProfilesAssumption, NEW w, NEW b, NEW a \in BOOLEAN, NEW al, WInv(w, b, a, al),
         NEW k \in Pro!Params, NEW v \in Pro!ValuesOf(k), NEW g, IsGui(g),
         g.val = [w.gui.val EXCEPT ![k] = v],
         g.section = w.gui.section, g.profile = w.gui.profile, g.told = w.gui.told,
         NEW x, x = [prefs |-> Pro!SetKey(w.prefs, g.section, k, v), gui |-> g,
                     slaves |-> Pro!Told(w.slaves, g.told, k, v)]
  PROVE  WInv(x, b, a, al) /\ Only(w, x)
<1> DEFINE p == w.prefs
           q == x.prefs
           n == w.gui.section
<1>1. Book(p) /\ IsGui(w.gui) /\ n # Pro!NoSection
  BY DEF WInv, IsGui
<1>2. q = Pro!SetKey(p, n, k, v) /\ x.gui = g /\ x.slaves = Pro!Told(w.slaves, g.told, k, v)
  OBVIOUS
<1>3. /\ Book(q) /\ q.align = p.align
      /\ \A s \in DOMAIN p.sections :
           /\ s \in DOMAIN q.sections /\ q.sections[s].title = p.sections[s].title
           /\ s # n => q.sections[s] = p.sections[s]
      /\ n \in DOMAIN p.sections =>
           \A j \in Pro!Params : Says(q, n, j) = IF j = k THEN v ELSE Says(p, n, j)
      /\ n # Dflt => \A j \in Pro!Params : Says(q, Dflt, j) = Says(p, Dflt, j)
  <2> HIDE DEF p, q, n
  <2>1. q = Pro!SetKey(p, n, k, v)
    BY <1>2
  <2>2. KeyIs(p, q, n, k, v)
    BY <1>1, <2>1, KeySet
  <2> QED
    BY <2>2 DEF KeyIs
<1>4. Only(w, x)
  BY <1>2, <1>3 DEF Only
<1>5. ~b \/ ~a => IsOf(q, x.gui.section, x.gui.profile)
  BY <1>2, <1>3 DEF WInv, IsOf
<1>6. ~b => \A j \in Pro!Params : x.gui.val[j] = Says(q, x.gui.section, j)
  <2> SUFFICES ASSUME ~b, NEW j \in Pro!Params
               PROVE  g.val[j] = Says(q, n, j)
    BY <1>2
  <2>1. n \in DOMAIN p.sections /\ w.gui.val[j] = Says(p, n, j)
    BY DEF WInv, IsOf
  <2>2. g.val[j] = IF j = k THEN v ELSE w.gui.val[j]
    BY <1>1 DEF IsGui
  <2> QED
    BY <1>3, <2>1, <2>2
<1>7. Reached(w.slaves, x.slaves, g.told, k, v, al)
  <2>1. w.slaves = [s \in Slaves |-> w.slaves[s]]
    BY DEF WInv
  <2>2. \A s \in Slaves : w.slaves[s] # Pro!Idle => IsGame(w.slaves[s], al)
    BY DEF WInv
  <2> QED
    BY <1>2, <2>1, <2>2, ToldGames
<1>8. ASSUME NEW s \in Slaves, x.slaves[s] # Pro!Idle, ~a, x.slaves[s].profile = "Default",
             NEW j \in Pro!Params \ {"inverted"}
      PROVE  x.slaves[s].val[j] = Says(q, Dflt, j)
  <2>1. w.slaves[s] # Pro!Idle /\ w.slaves[s].profile = "Default"
    BY <1>7, <1>8 DEF Reached
  <2>2. w.slaves[s].val[j] = Says(p, Dflt, j)
    BY <1>8, <2>1 DEF WInv
  <2>3. g.told = n /\ n \in DOMAIN p.sections
    BY <1>8 DEF WInv, IsOf
  <2>4. CASE n = Dflt
    BY <1>3, <1>7, <1>8, <2>1, <2>2, <2>3, <2>4 DEF Dflt, Reached
  <2>5. CASE n # Dflt
    BY <1>3, <1>7, <1>8, <2>1, <2>2, <2>3, <2>5 DEF Dflt, Reached
  <2> QED
    BY <2>4, <2>5
<1>9. ~a => x.gui.told = x.gui.section
  BY <1>2 DEF WInv
<1>10. x = [prefs |-> x.prefs, gui |-> x.gui, slaves |-> x.slaves]
  OBVIOUS
<1>11. \A s \in Slaves : x.slaves[s] # Pro!Idle => IsGame(x.slaves[s], al)
  BY <1>7 DEF Reached
<1>12. x.slaves = [s \in Slaves |-> x.slaves[s]]
  BY <1>7 DEF Reached
<1> HIDE DEF q
<1> QED
  BY <1>2, <1>3, <1>4, <1>5, <1>6, <1>8, <1>9, <1>10, <1>11, <1>12 DEF WInv, q

\* Nothing but what the widgets show is another.
LEMMA ShowKeeps ==
  ASSUME NEW w, NEW b, NEW a, NEW al, WInv(w, b, a, al), NEW g, IsGui(g), g.val = w.gui.val,
         g.section = w.gui.section, g.profile = w.gui.profile, g.told = w.gui.told,
         NEW x, x = [prefs |-> w.prefs, gui |-> g, slaves |-> w.slaves]
  PROVE  WInv(x, b, a, al) /\ Only(w, x)
BY DEF WInv, Only

\* A changed axis keeps the invariant,
LEMMA AxisChangeKeeps ==
  ASSUME Pro!ProfilesAssumption, NEW w, NEW b, NEW a \in BOOLEAN, NEW al, WInv(w, b, a, al),
         NEW k \in Pro!Params, NEW v \in Pro!ValuesOf(k), NEW x, x = Pro!AxisChange(w, k, v)
  PROVE  WInv(x, b, a, al) /\ Only(w, x)
<1>1. IsGui(w.gui)
  BY DEF WInv
<1>2. PICK now : now = IF k = "filter" THEN Pro!Least(2, v + w.gui.common) ELSE v
  OBVIOUS
<1>3. PICK off : off = IF k = "filter" THEN v ELSE w.gui.off
  OBVIOUS
<1>4. PICK g : g = [w.gui EXCEPT !.val[k] = now, !.off = off]
  OBVIOUS
<1>5. g = [w.gui EXCEPT !.val = [@ EXCEPT ![k] = now], !.off = off]
  BY <1>4
<1>6. PICK val : val = [w.gui.val EXCEPT ![k] = now]
  OBVIOUS
<1>7. /\ g = [val |-> val, section |-> w.gui.section, profile |-> w.gui.profile,
              told |-> w.gui.told, common |-> w.gui.common, off |-> off,
              sym |-> w.gui.sym, ui |-> w.gui.ui]
  BY <1>1, <1>5, <1>6 DEF IsGui
<1>8. val = [j \in Pro!Params |-> val[j]]
  BY <1>1, <1>6 DEF IsGui
<1>11. now \in Pro!ValuesOf(k) /\ off \in 0 .. 2
  <2>1. CASE k = "filter"
    <3>1. v \in 0 .. 2
      BY <2>1, ValuesAre
    <3>2. w.gui.common \in 0 .. 2
      BY <1>1 DEF IsGui
    <3>3. now \in 0 .. 2
      BY <1>2, <2>1, <3>1, <3>2, LeastOfTwo
    <3> QED
      BY <1>3, <2>1, <3>1, <3>3, ValuesAre
  <2>2. CASE k # "filter"
    BY <1>1, <1>2, <1>3, <2>2 DEF IsGui
  <2> QED
    BY <2>1, <2>2
<1>12. Fits(val)
  BY <1>1, <1>6, <1>11 DEF IsGui, Fits
<1>9. IsGui(g)
  BY <1>1, <1>7, <1>8, <1>11, <1>12 DEF IsGui
<1>10. x = [prefs |-> Pro!SetKey(w.prefs, g.section, k, now), gui |-> g,
            slaves |-> Pro!Told(w.slaves, g.told, k, now)]
  BY <1>2, <1>3, <1>4 DEF Pro!AxisChange
<1> QED
  BY <1>6, <1>7, <1>9, <1>10, <1>11, ChangeKeeps

\* so does the smoothing of all axes.
LEMMA CommonSetKeeps ==
  ASSUME Pro!ProfilesAssumption, NEW w, NEW b, NEW a \in BOOLEAN, NEW al, WInv(w, b, a, al),
         NEW c \in 0 .. 1, NEW x, x = Pro!CommonSet(w, c)
  PROVE  WInv(x, b, a, al) /\ Only(w, x)
<1>1. IsGui(w.gui)
  BY DEF WInv
<1>2. PICK now : now = Pro!Least(2, w.gui.off + c)
  OBVIOUS
<1>3. PICK val : val = [w.gui.val EXCEPT !["filter"] = now]
  OBVIOUS
<1>4. PICK g : g = [w.gui EXCEPT !.common = c, !.val = val]
  OBVIOUS
<1>5. /\ g = [val |-> val, section |-> w.gui.section, profile |-> w.gui.profile,
              told |-> w.gui.told, common |-> c, off |-> w.gui.off,
              sym |-> w.gui.sym, ui |-> w.gui.ui]
  BY <1>1, <1>4 DEF IsGui
<1>6. val = [j \in Pro!Params |-> val[j]]
  BY <1>1, <1>3 DEF IsGui
<1>11. now \in 0 .. 2
  <2>1. w.gui.off \in 0 .. 2 /\ c \in 0 .. 2
    BY <1>1 DEF IsGui
  <2> QED
    BY <1>2, <2>1, LeastOfTwo
<1>12. Fits(val)
  BY <1>1, <1>3, <1>11, ValuesAre DEF IsGui, Fits
<1>7. IsGui(g)
  BY <1>1, <1>5, <1>6, <1>12 DEF IsGui
<1>8. g = [w.gui EXCEPT !.common = c, !.val.filter = now]
  BY <1>3, <1>4
<1>9. x = [prefs |-> Pro!SetKey(w.prefs, g.section, "filter", now), gui |-> g,
           slaves |-> Pro!Told(w.slaves, g.told, "filter", now)]
  BY <1>2, <1>5, <1>8 DEF Pro!CommonSet
<1>10. "filter" \in Pro!Params
  BY DEF Pro!Params
<1> QED
  BY <1>3, <1>5, <1>7, <1>9, <1>10, <1>11, ValuesAre, ChangeKeeps

\* The world has been told, and nothing but its section is another.
Keeps(w, x, b, a, al) == WInv(x, b, a, al) /\ Only(w, x)

\* What does not change keeps the invariant.
LEMMA Kept1 == ASSUME NEW w, NEW b, NEW a, NEW al, WInv(w, b, a, al) PROVE Keeps(w, w, b, a, al)
BY DEF Keeps, Only

\* Two changes that keep it do so together.
LEMMA Kept2 ==
  ASSUME NEW w, NEW x, NEW y, NEW b, NEW a, NEW al, Keeps(w, x, b, a, al), Keeps(x, y, b, a, al)
  PROVE  Keeps(w, y, b, a, al)
BY OnlyTwice DEF Keeps

\* A widget that follows a value keeps the invariant,
LEMMA FollowsKeeps ==
  ASSUME Pro!ProfilesAssumption, NEW w, NEW b, NEW a \in BOOLEAN, NEW al, WInv(w, b, a, al),
         NEW k \in Pro!Params, NEW v \in Pro!ValuesOf(k), NEW x, x = Pro!Follows(w, k, v)
  PROVE  Keeps(w, x, b, a, al)
<1>1. IsGui(w.gui) /\ w = [prefs |-> w.prefs, gui |-> w.gui, slaves |-> w.slaves]
  BY DEF WInv
<1>2. PICK ui : ui = [w.gui.ui EXCEPT ![k] = v]
  OBVIOUS
<1>3. PICK g : g = [w.gui EXCEPT !.ui = ui]
  OBVIOUS
<1>4. g = [val |-> w.gui.val, section |-> w.gui.section, profile |-> w.gui.profile,
           told |-> w.gui.told, common |-> w.gui.common, off |-> w.gui.off,
           sym |-> w.gui.sym, ui |-> ui]
  BY <1>1, <1>3 DEF IsGui
<1>5. PICK y : y = [w EXCEPT !.gui.ui[k] = v]
  OBVIOUS
<1>6. y = [w EXCEPT !.gui = g]
  BY <1>2, <1>3, <1>5
<1>7. y = [prefs |-> w.prefs, gui |-> g, slaves |-> w.slaves]
  BY <1>1, <1>6
<1>8. IsGui(g)
  <2>1. ui = [j \in Pro!Widgets |-> ui[j]] /\ Fits(ui)
    BY <1>1, <1>2 DEF IsGui, Fits
  <2> QED
    BY <1>1, <1>4, <2>1 DEF IsGui
<1>9. Keeps(w, y, b, a, al)
  BY <1>4, <1>7, <1>8, ShowKeeps DEF Keeps
<1>10. x = Pro!AxisChange(y, k, v)
  BY <1>5 DEF Pro!Follows
<1>11. Keeps(y, x, b, a, al)
  BY <1>9, <1>10, AxisChangeKeeps DEF Keeps
<1> QED
  BY <1>9, <1>11, Kept2

\* one that is set does,
LEMMA WidgetSetKeeps ==
  ASSUME Pro!ProfilesAssumption, NEW w, NEW b, NEW a \in BOOLEAN, NEW al, WInv(w, b, a, al),
         NEW k \in Pro!Params, NEW v \in Pro!ValuesOf(k), NEW x, x = Pro!WidgetSet(w, k, v)
  PROVE  Keeps(w, x, b, a, al)
<1>1. PICK y : y = Pro!Follows(w, k, v)
  OBVIOUS
<1>2. PICK z : z = Pro!Follows(y, Pro!Other(k), v)
  OBVIOUS
<1>3. Keeps(w, y, b, a, al)
  BY <1>1, FollowsKeeps
<1>4. Pro!Other(k) \in Pro!Params
  BY DEF Pro!Other, Pro!Params
<1>5. k \in {"llimit", "rlimit"} => Keeps(y, z, b, a, al)
  <2> SUFFICES ASSUME k \in {"llimit", "rlimit"}
               PROVE  Keeps(y, z, b, a, al)
    OBVIOUS
  <2>1. v \in Pro!ValuesOf(Pro!Other(k))
    BY ValuesAre DEF Pro!Other
  <2> QED
    BY <1>2, <1>3, <1>4, <2>1, FollowsKeeps DEF Keeps
<1>6. x = w \/ x = y \/ (x = z /\ k \in {"llimit", "rlimit"})
  BY <1>1, <1>2 DEF Pro!WidgetSet
<1> QED
  BY <1>3, <1>5, <1>6, Kept1, Kept2

\* the box of the symmetry does,
LEMMA SymmetrySetKeeps ==
  ASSUME Pro!ProfilesAssumption, NEW w, NEW b, NEW a \in BOOLEAN, NEW al, WInv(w, b, a, al),
         NEW on \in BOOLEAN, NEW x, x = Pro!SymmetrySet(w, on)
  PROVE  Keeps(w, x, b, a, al)
<1>1. IsGui(w.gui) /\ w = [prefs |-> w.prefs, gui |-> w.gui, slaves |-> w.slaves]
  BY DEF WInv
<1>2. PICK g : g = [w.gui EXCEPT !.sym = on]
  OBVIOUS
<1>3. g = [val |-> w.gui.val, section |-> w.gui.section, profile |-> w.gui.profile,
           told |-> w.gui.told, common |-> w.gui.common, off |-> w.gui.off,
           sym |-> on, ui |-> w.gui.ui]
  BY <1>1, <1>2 DEF IsGui
<1>4. PICK y : y = [w EXCEPT !.gui.sym = on]
  OBVIOUS
<1>5. y = [prefs |-> w.prefs, gui |-> g, slaves |-> w.slaves]
  BY <1>1, <1>2, <1>4
<1>6. IsGui(g)
  BY <1>1, <1>3 DEF IsGui
<1>7. Keeps(w, y, b, a, al)
  BY <1>3, <1>5, <1>6, ShowKeeps DEF Keeps
<1>8. PICK z : z = Pro!WidgetSet(y, "rlimit", y.gui.ui.llimit)
  OBVIOUS
<1>9. "rlimit" \in Pro!Params /\ y.gui.ui.llimit \in Pro!ValuesOf("rlimit")
  BY <1>5, <1>6, ValuesAre DEF Pro!Params, Pro!Widgets, IsGui, Fits
<1>10. Keeps(y, z, b, a, al)
  BY <1>7, <1>8, <1>9, WidgetSetKeeps DEF Keeps
<1>11. x = y \/ x = z
  BY <1>4, <1>8 DEF Pro!SymmetrySet
<1> QED
  BY <1>7, <1>10, <1>11, Kept2

\* a change with all that follows does,
LEMMA ChangedKeeps ==
  ASSUME Pro!ProfilesAssumption, NEW w, NEW b, NEW a \in BOOLEAN, NEW al, WInv(w, b, a, al),
         NEW k \in Pro!Params, NEW v \in Pro!ValuesOf(k), NEW x, x = Pro!Changed(w, k, v)
  PROVE  Keeps(w, x, b, a, al)
<1>1. PICK y : y = Pro!AxisChange(w, k, v)
  OBVIOUS
<1>2. Keeps(w, y, b, a, al)
  BY <1>1, AxisChangeKeeps DEF Keeps
<1>3. x = Pro!Signalled(y, k)
  BY <1>1 DEF Pro!Changed
<1>4. \/ x = Pro!SymmetrySet(y, Pro!Symmetrical(y.gui.val)) \/ x = y
      \/ \E u \in Pro!ValuesOf(k) : x = Pro!WidgetSet(y, k, u)
  BY <1>2, <1>3, ValuesAre DEF Pro!Signalled, Keeps, WInv, IsGui, Fits
<1>5. Keeps(y, x, b, a, al)
  <2>1. WInv(y, b, a, al)
    BY <1>2 DEF Keeps
  <2>2. PICK on \in BOOLEAN : on = Pro!Symmetrical(y.gui.val)
    BY DEF Pro!Symmetrical
  <2> QED
    BY <1>4, <2>1, <2>2, SymmetrySetKeeps, WidgetSetKeeps, Kept1
<1> QED
  BY <1>2, <1>5, Kept2

\* and so does an imported profile.
LEMMA ImportedKeeps ==
  ASSUME Pro!ProfilesAssumption, NEW w, NEW b, NEW a \in BOOLEAN, NEW al, WInv(w, b, a, al),
         NEW f \in Imports, NEW x, x = Pro!Imported(w, f)
  PROVE  Keeps(w, x, b, a, al)
<1> DEFINE V(y) == WInv(y, b, a, al)
           K(y) == Keeps(w, y, b, a, al)
<1>0. "enabled" \in Pro!Params /\ "inverted" \in Pro!Params /\ "mult" \in Pro!Params
      /\ "llimit" \in Pro!Params /\ "rlimit" \in Pro!Params /\ "filter" \in Pro!Params
  BY DEF Pro!Params
<1>17. f.common \in 0 .. 1 /\ \A k \in Pro!Params : f.val[k] \in Pro!ValuesOf(k)
  BY DEF Pro!ProfilesAssumption
<1>1. PICK y0 : y0 = Pro!CommonSet(w, f.common)
  OBVIOUS
<1>2. PICK y1 : y1 = Pro!Changed(y0, "enabled", f.val["enabled"])
  OBVIOUS
<1>3. PICK y2 : y2 = Pro!Changed(y1, "inverted", f.val["inverted"])
  OBVIOUS
<1>4. PICK y3 : y3 = Pro!Changed(y2, "mult", f.val["mult"])
  OBVIOUS
<1>5. PICK y4 : y4 = Pro!Changed(y3, "llimit", f.val["llimit"])
  OBVIOUS
<1>6. PICK y5 : y5 = Pro!Changed(y4, "rlimit", f.val["rlimit"])
  OBVIOUS
<1>7. PICK y6 : y6 = Pro!Changed(y5, "filter", f.val["filter"])
  OBVIOUS
<1>8. x = y6
  BY <1>1, <1>2, <1>3, <1>4, <1>5, <1>6, <1>7 DEF Pro!Imported
<1>9. K(y0)
  BY <1>1, <1>17, CommonSetKeeps DEF Keeps
<1>10. ASSUME NEW y, K(y), NEW k \in Pro!Params, NEW z,
              NEW v \in Pro!ValuesOf(k), z = Pro!Changed(y, k, v)
       PROVE  K(z)
  <2>1. WInv(y, b, a, al)
    BY <1>10 DEF Keeps
  <2>2. Keeps(y, z, b, a, al)
    BY <1>10, <2>1, ChangedKeeps
  <2> QED
    BY <1>10, <2>2, Kept2
<1> HIDE DEF K
<1>11. K(y1)
  BY <1>0, <1>2, <1>9, <1>10, <1>17
<1>12. K(y2)
  BY <1>0, <1>3, <1>11, <1>10, <1>17
<1>13. K(y3)
  BY <1>0, <1>4, <1>12, <1>10, <1>17
<1>14. K(y4)
  BY <1>0, <1>5, <1>13, <1>10, <1>17
<1>15. K(y5)
  BY <1>0, <1>6, <1>14, <1>10, <1>17
<1>16. K(y6)
  BY <1>0, <1>7, <1>15, <1>10, <1>17
<1> QED
  BY <1>8, <1>16 DEF K

Has(p, t) == \E s : IsOf(p, s, t)

\* A profile that is kept is still there.
LEMMA StillHas ==
  ASSUME NEW p, NEW q, Kept(p, q), NEW t, Has(p, t)
  PROVE  Has(q, t)
BY DEF Has, IsOf, Kept

\* The preferences of the games may grow.
LEMMA GamesKept ==
  ASSUME NEW w, NEW b, NEW a, NEW al, WInv(w, b, a, al), NEW q, Kept(w.prefs, q),
         NEW s \in Slaves, w.slaves[s] # Pro!Idle, ~a, w.slaves[s].profile = "Default",
         NEW k \in Pro!Params \ {"inverted"}
  PROVE  w.slaves[s].val[k] = Says(q, Dflt, k)
BY DEF WInv, Kept, Book

\* The axes are what the preferences say.
Settled(w, a, al) == WInv(w, FALSE, a, al)

\* A profile is selected, which has a section unless messages miss their game.
LEMMA SelectKeeps ==
  ASSUME Pro!ProfilesAssumption, NEW w, NEW b, NEW a \in BOOLEAN, NEW al, WInv(w, b, a, al),
         NEW t \in Pro!Profiles, NEW c \in BOOLEAN, a => c, ~c => Has(w.prefs, t),
         NEW x, x = Pro!Select(w, t)
  PROVE  /\ Settled(x, c, al) /\ Kept(w.prefs, x.prefs) /\ x.prefs.align = w.prefs.align
         /\ x.gui.profile = t /\ IsOf(x.prefs, x.gui.section, t)
<1> DEFINE p == w.prefs
<1>1. PICK r : r = Pro!InitAxes(p, t)
  OBVIOUS
<1>2. Book(p) /\ w = [prefs |-> p, gui |-> w.gui, slaves |-> w.slaves]
  BY DEF WInv
<1>3. /\ Book(r.prefs) /\ r.prefs.align = p.align /\ Kept(p, r.prefs)
      /\ IsOf(r.prefs, r.section, t)
      /\ DOMAIN r.prefs.sections = DOMAIN p.sections \cup {r.section}
      /\ r.section \notin DOMAIN p.sections => \A s : ~IsOf(p, s, t)
      /\ r.val = [k \in Pro!Params |-> Says(r.prefs, r.section, k)] /\ Fits(r.val)
  BY <1>1, <1>2, AxesAre
<1>4. PICK g : g = Pro!Selected(p, w.gui, t).gui
  OBVIOUS
<1>5. /\ Pro!Selected(p, w.gui, t).prefs = r.prefs
      /\ g = [val |-> r.val, section |-> r.section, profile |-> t, told |-> g.told,
              common |-> g.common, off |-> g.off, sym |-> g.sym, ui |-> g.ui]
      /\ g.told = IF Pro!Find(p, t) # Pro!NoSection THEN Pro!Find(p, t) ELSE w.gui.told
      /\ g.common = Pro!Least(1, r.val.filter) /\ g.off = r.val.filter - g.common
      /\ g.sym = Pro!Symmetrical(r.val)
      /\ g.ui = [k \in Pro!Widgets |-> IF k = "filter" THEN g.off ELSE r.val[k]]
  BY <1>1, <1>4 DEF Pro!Selected
<1>6. x = [prefs |-> r.prefs, gui |-> g, slaves |-> w.slaves]
  BY <1>2, <1>4, <1>5 DEF Pro!Select
<1>7. IsGui(g)
  <2>1. r.section # Pro!NoSection
    BY <1>3 DEF Book, IsOf
  <2>2. r.val = [k \in Pro!Params |-> r.val[k]] /\ Fits(r.val)
    BY <1>3
  <2>3. g.common \in 0 .. 1 /\ g.off \in 0 .. 2
    BY <1>5, <2>2, PartsFit
  <2>4. g.ui = [k \in Pro!Widgets |-> g.ui[k]] /\ Fits(g.ui) /\ g.sym \in BOOLEAN
    BY <1>5, <2>2, <2>3, WidgetsFit DEF Pro!Symmetrical
  <2> QED
    BY <1>5, <2>1, <2>2, <2>3, <2>4 DEF IsGui
<1>8. ~c => g.told = g.section
  <2> SUFFICES ASSUME ~c
               PROVE  g.told = g.section
    OBVIOUS
  <2>1. PICK s : IsOf(p, s, t)
    BY DEF Has
  <2>2. Pro!Find(p, t) = s /\ s # Pro!NoSection
    BY <1>2, <2>1, Found
  <2>3. IsOf(r.prefs, s, t)
    BY <1>3, <2>1 DEF Kept, IsOf
  <2>4. s = r.section
    BY <1>3, <2>3, NotUntitled DEF Book, IsOf
  <2> QED
    BY <1>5, <2>2, <2>4
<1>9. \A k \in Pro!Params : g.val[k] = Says(r.prefs, g.section, k)
  BY <1>3, <1>5
<1>10. IsOf(r.prefs, g.section, g.profile)
  BY <1>3, <1>5
<1>11. /\ w.slaves = [s \in Slaves |-> w.slaves[s]]
       /\ \A s \in Slaves : w.slaves[s] # Pro!Idle => IsGame(w.slaves[s], al)
  BY DEF WInv
<1>12. ASSUME NEW s \in Slaves, w.slaves[s] # Pro!Idle, ~c, w.slaves[s].profile = "Default",
              NEW k \in Pro!Params \ {"inverted"}
       PROVE  w.slaves[s].val[k] = Says(r.prefs, Dflt, k)
  BY <1>3, <1>12, GamesKept
<1>13. /\ x = [prefs |-> x.prefs, gui |-> x.gui, slaves |-> x.slaves]
       /\ x.prefs = r.prefs /\ x.gui = g /\ x.slaves = w.slaves
  BY <1>6
<1>14. Settled(x, c, al)
  BY <1>3, <1>7, <1>8, <1>9, <1>10, <1>11, <1>12, <1>13 DEF WInv, Settled
<1>15. g.profile = t
  BY <1>5
<1> QED
  BY <1>3, <1>10, <1>13, <1>14, <1>15

\* The profiles are those that sections have.
LEMMA TitlesAre ==
  ASSUME Pro!ProfilesAssumption, NEW p, Book(p)
  PROVE  Pro!Titles(p) \subseteq Pro!Profiles /\ \A t \in Pro!Titles(p) : Has(p, t)
BY DEF Pro!Titles, Book, Has, IsOf

\* What the window shows anew is what is stored.
LEMMA RefreshedKeeps ==
  ASSUME Pro!ProfilesAssumption, NEW w, NEW b, NEW a \in BOOLEAN, NEW al, WInv(w, b, a, al),
         NEW ns, NEW x, x = Pro!Refreshed(w, ns)
  PROVE  /\ Settled(x, a, al) /\ Kept(w.prefs, x.prefs) /\ x.prefs.align = w.prefs.align
         /\ x.gui.profile = w.gui.profile /\ IsOf(x.prefs, x.gui.section, x.gui.profile)
<1> DEFINE t == w.gui.profile
<1>1. Book(w.prefs) /\ t \in Pro!Profiles /\ "Default" \in Pro!Profiles
  BY DEF WInv, IsGui, Pro!Profiles
<1>2. ~a => Has(w.prefs, t)
  BY DEF WInv, Has
<1>3. PICK y : y = Pro!Select(w, "Default")
  OBVIOUS
<1>4. Has(w.prefs, "Default")
  BY <1>1 DEF Book, Has, IsOf
<1>5. Settled(y, a, al) /\ Kept(w.prefs, y.prefs) /\ y.prefs.align = w.prefs.align
  BY <1>1, <1>3, <1>4, SelectKeeps
<1>6. ~a => Has(y.prefs, t)
  BY <1>2, <1>5, StillHas
<1> HIDE DEF t
<1>7. x = Pro!Select(y, t) \/ x = Pro!Select(w, t)
  BY <1>3 DEF Pro!Refreshed, t
<1>8. CASE x = Pro!Select(w, t)
  BY <1>1, <1>2, <1>8, SelectKeeps DEF t
<1>9. CASE x = Pro!Select(y, t)
  <2>0. PICK d : WInv(y, d, a, al)
    BY <1>5 DEF Settled
  <2>1. /\ Settled(x, a, al) /\ Kept(y.prefs, x.prefs) /\ x.prefs.align = y.prefs.align
        /\ x.gui.profile = t /\ IsOf(x.prefs, x.gui.section, t)
    BY <1>1, <1>6, <1>9, <2>0, SelectKeeps
  <2> QED
    BY <1>5, <2>1, KeptTwice DEF t
<1> QED
  BY <1>7, <1>8, <1>9

\* A profile that is added keeps the others.
LEMMA AddedKeeps ==
  ASSUME Pro!ProfilesAssumption, NEW w, NEW b, NEW a \in BOOLEAN, NEW al, WInv(w, b, a, al),
         NEW f, f.name \in Pro!Profiles, NEW x, x = Pro!Added(w, f)
  PROVE  /\ WInv(x, b, a, al) /\ Kept(w.prefs, x.prefs) /\ x.prefs.align = w.prefs.align
         /\ x.gui.profile = w.gui.profile
         /\ f.name \notin names => Has(x.prefs, f.name)
         /\ IsOf(w.prefs, w.gui.section, w.gui.profile) =>
              IsOf(x.prefs, x.gui.section, x.gui.profile)
<1>1. CASE f.name \in names
  BY <1>1, Same DEF Pro!Added
<1>2. CASE f.name \notin names
  <2>0. PICK t : t = f.name
    OBVIOUS
  <2>1. PICK r : r = Pro!InitAxes(w.prefs, t)
    OBVIOUS
  <2>2. Book(w.prefs)
    BY DEF WInv
  <2>3. /\ Book(r.prefs) /\ r.prefs.align = w.prefs.align /\ Kept(w.prefs, r.prefs)
        /\ IsOf(r.prefs, r.section, t)
    <3>1. t \in Pro!Profiles
      BY <2>0
    <3> QED
      BY <2>1, <2>2, <3>1, AxesAre
  <2>4. PICK y : y = [w EXCEPT !.prefs = r.prefs]
    OBVIOUS
  <2>5. y = [prefs |-> r.prefs, gui |-> w.gui, slaves |-> w.slaves]
    BY <2>4 DEF WInv
  <2>6. WInv(y, b, a, al)
    <3>1. ASSUME NEW s \in Slaves, w.slaves[s] # Pro!Idle, ~a, w.slaves[s].profile = "Default",
                 NEW k \in Pro!Params \ {"inverted"}
          PROVE  w.slaves[s].val[k] = Says(r.prefs, Dflt, k)
      BY <2>3, <3>1, GamesKept
    <3>2. ~b \/ ~a => IsOf(r.prefs, w.gui.section, w.gui.profile)
      BY <2>3 DEF WInv, IsOf, Kept
    <3>3. ~b => \A k \in Pro!Params : w.gui.val[k] = Says(r.prefs, w.gui.section, k)
      BY <2>3 DEF WInv, IsOf, Kept
    <3> QED
      BY <2>3, <2>5, <3>1, <3>2, <3>3 DEF WInv
  <2>7. x = Pro!Refreshed(y, Pro!Titles(r.prefs))
    BY <1>2, <2>0, <2>1, <2>4 DEF Pro!Added
  <2>8. /\ Settled(x, a, al) /\ Kept(y.prefs, x.prefs) /\ x.prefs.align = y.prefs.align
        /\ x.gui.profile = y.gui.profile /\ IsOf(x.prefs, x.gui.section, x.gui.profile)
    BY <2>6, <2>7, RefreshedKeeps
  <2>9. Kept(w.prefs, x.prefs)
    BY <2>3, <2>5, <2>8, KeptTwice
  <2>10. Has(x.prefs, f.name)
    BY <2>0, <2>3, <2>5, <2>8, StillHas DEF Has
  <2>11. WInv(x, b, a, al)
    BY <2>8 DEF WInv, Settled
  <2> QED
    BY <2>3, <2>5, <2>8, <2>9, <2>10, <2>11
<1> QED
  BY <1>1, <1>2

------------------------------------------------------------------------------
(* The invariant of the profiles *)

PInv ==
  /\ WInv(Pro!World, behind, apart, align)
  /\ Book(file) /\ names \subseteq Pro!Profiles
  /\ behind \in BOOLEAN /\ apart \in BOOLEAN

\* What is stored at first has a default profile and titles of its own.
LEMMA StoredBooks ==
  ASSUME Pro!ProfilesAssumption, NEW f \in Stored
  PROVE  Book(f)
<1>1. Pro!PrefsOK(f)
  BY DEF Pro!ProfilesAssumption
<1>2. Pro!IsFiniteSet(DOMAIN f.sections) => IsFiniteSet(DOMAIN f.sections)
  BY DEF Pro!IsFiniteSet, IsFiniteSet
<1>3. /\ f = [sections |-> f.sections, align |-> f.align] /\ IsFiniteSet(DOMAIN f.sections)
      /\ Dflt \in DOMAIN f.sections /\ f.sections[Dflt].title = "Default"
  BY <1>1, <1>2 DEF Pro!PrefsOK, Dflt, Pro!Title
<1>4. \A s \in DOMAIN f.sections :
        /\ f.sections[s] = [title |-> f.sections[s].title, keys |-> f.sections[s].keys]
        /\ s # Pro!NoSection /\ f.sections[s].title \in Pro!Profiles \cup {Pro!Untitled}
        /\ DOMAIN f.sections[s].keys \subseteq Pro!Params /\ Fits(f.sections[s].keys)
  BY <1>1 DEF Pro!PrefsOK, Fits
<1>5. \A s, t \in DOMAIN f.sections :
        f.sections[s].title = f.sections[t].title => s = t \/ f.sections[s].title = Pro!Untitled
  BY <1>1 DEF Pro!PrefsOK
<1> QED
  BY <1>3, <1>4, <1>5 DEF Book

\* The preferences of the games are theirs again when the axes are set.
LEMMA Looser ==
  ASSUME NEW w, NEW b, NEW a, NEW al, WInv(w, b, a, al), NEW c \in BOOLEAN, a => c
  PROVE  WInv(w, b, c, al)
BY DEF WInv

\* What is found is there.
LEMMA FoundHas ==
  ASSUME NEW p, NEW t, Pro!Find(p, t) # Pro!NoSection
  PROVE  Has(p, t)
BY NotFound DEF Has

\* The world is another.
LEMMA BecomesKeeps ==
  ASSUME NEW x, NEW b, NEW a, NEW al, WInv(x, b, a, al), Pro!Becomes(x)
  PROVE  WInv(Pro!World', b, a, al)
<1>1. x = [prefs |-> x.prefs, gui |-> x.gui, slaves |-> x.slaves]
  BY DEF WInv
<1>2. Pro!World' = x
  BY <1>1 DEF Pro!World, Pro!Becomes
<1> QED
  BY <1>2

\* The invariant holds at first.
LEMMA ProfilesInit ==
  ASSUME Pro!ProfilesAssumption, Pro!Init
  PROVE  PInv
<1>1. Book(file)
  BY StoredBooks DEF Pro!Init
<1>2. PICK t : t = "Default"
  OBVIOUS
<1>3. PICK r : r = Pro!InitAxes(file, t)
  OBVIOUS
<1>4. t \in Pro!Profiles
  BY <1>2 DEF Pro!Profiles
<1>5. /\ Book(r.prefs) /\ Kept(file, r.prefs) /\ IsOf(r.prefs, r.section, t)
      /\ r.val = [k \in Pro!Params |-> Says(r.prefs, r.section, k)] /\ Fits(r.val)
  BY <1>1, <1>3, <1>4, AxesAre
<1>6. /\ prefs = r.prefs
      /\ gui = [val |-> r.val, section |-> r.section, profile |-> t, told |-> gui.told,
                common |-> gui.common, off |-> gui.off, sym |-> gui.sym, ui |-> gui.ui]
      /\ Pro!Find(file, t) # Pro!NoSection => gui.told = Pro!Find(file, t)
      /\ gui.common = Pro!Least(1, r.val.filter) /\ gui.off = r.val.filter - gui.common
      /\ gui.sym = Pro!Symmetrical(r.val)
      /\ gui.ui = [k \in Pro!Widgets |-> IF k = "filter" THEN gui.off ELSE r.val[k]]
  BY <1>2, <1>3 DEF Pro!Init, Pro!Selected
<1>7. Pro!Find(file, t) = Dflt /\ Dflt # Pro!NoSection
  BY <1>1, <1>2, <1>4, Found DEF Book, IsOf
<1>8. r.section = Dflt
  BY <1>2, <1>4, <1>5, NotUntitled DEF Book, IsOf
<1>9. IsGui(gui)
  <2>1. gui.val = [k \in Pro!Params |-> gui.val[k]] /\ Fits(gui.val) /\ gui.val = r.val
    BY <1>5, <1>6
  <2>2. gui.common \in 0 .. 1 /\ gui.off \in 0 .. 2
    BY <1>6, <2>1, PartsFit
  <2>3. gui.ui = [k \in Pro!Widgets |-> gui.ui[k]] /\ Fits(gui.ui) /\ gui.sym \in BOOLEAN
    BY <1>6, <2>1, <2>2, WidgetsFit DEF Pro!Symmetrical
  <2> QED
    BY <1>4, <1>6, <1>7, <1>8, <2>1, <2>2, <2>3 DEF IsGui
<1>10. /\ gui.told = gui.section /\ IsOf(prefs, gui.section, gui.profile)
       /\ \A k \in Pro!Params : gui.val[k] = Says(prefs, gui.section, k)
  BY <1>5, <1>6, <1>7, <1>8
<1>11. slaves = [s \in Slaves |-> slaves[s]] /\ \A s \in Slaves : slaves[s] = Pro!Idle
  BY DEF Pro!Init
<1>12. WInv(Pro!World, behind, apart, align)
  BY <1>5, <1>6, <1>9, <1>10, <1>11 DEF WInv, Pro!World
<1>13. names \subseteq Pro!Profiles
  BY <1>5, <1>6, TitlesAre DEF Pro!Init
<1> QED
  BY <1>1, <1>12, <1>13 DEF PInv, Pro!Init

\* A game that starts keeps the invariant,
LEMMA GameStartsKeeps ==
  ASSUME Pro!ProfilesAssumption, PInv, Pro!GameStarts
  PROVE  WInv(Pro!World', behind, apart, align)
<1>1. PICK s \in Slaves, t \in Pro!Profiles : slaves[s] = Pro!Idle /\ Pro!Join(s, t)
  BY DEF Pro!GameStarts
<1>2. PICK r : r = Pro!InitAxes(prefs, t)
  OBVIOUS
<1>3. PICK own : own = Pro!InitAxes(file, t).val.inverted
  OBVIOUS
<1>4. PICK val : val = [r.val EXCEPT !.inverted = own]
  OBVIOUS
<1>5. PICK rec : rec = [profile |-> t, val |-> val, align |-> align]
  OBVIOUS
<1>6. prefs' = r.prefs /\ slaves' = [slaves EXCEPT ![s] = rec] /\ gui' = gui
  BY <1>1, <1>2, <1>3, <1>4, <1>5 DEF Pro!Join, Pro!GameStarts
<1>7. /\ WInv(Pro!World, behind, apart, align) /\ Book(prefs) /\ IsGui(gui)
      /\ slaves = [g \in Slaves |-> slaves[g]]
  BY DEF PInv, WInv, Pro!World
<1>8. /\ Book(r.prefs) /\ Kept(prefs, r.prefs) /\ IsOf(r.prefs, r.section, t)
      /\ r.val = [k \in Pro!Params |-> Says(r.prefs, r.section, k)] /\ Fits(r.val)
  BY <1>2, <1>7, AxesAre
<1>16. own \in Pro!ValuesOf("inverted")
  <2>1. PICK z : z = Pro!InitAxes(file, t)
    OBVIOUS
  <2>2. z.val = [k \in Pro!Params |-> Says(z.prefs, z.section, k)] /\ Fits(z.val)
    BY <2>1, AxesAre DEF PInv
  <2> QED
    BY <1>3, <2>1, <2>2 DEF Fits, Pro!Params
<1>9. /\ val = [k \in Pro!Params |-> val[k]]
      /\ \A k \in Pro!Params \ {"inverted"} : val[k] = Says(r.prefs, r.section, k)
  BY <1>4, <1>8
<1>17. Fits(val)
  BY <1>4, <1>8, <1>16 DEF Fits
<1>10. IsGame(rec, align)
  BY <1>5, <1>9, <1>17 DEF IsGame
<1>11. t = "Default" => r.section = Dflt
  BY <1>8, NotUntitled DEF Book, IsOf, Pro!Profiles
<1>12. /\ slaves' = [g \in Slaves |-> slaves'[g]] /\ slaves'[s] = rec
       /\ \A g \in Slaves \ {s} : slaves'[g] = slaves[g]
  BY <1>6, <1>7
<1>13. /\ ~behind \/ ~apart => IsOf(r.prefs, gui.section, gui.profile)
       /\ ~behind => \A k \in Pro!Params : gui.val[k] = Says(r.prefs, gui.section, k)
       /\ ~apart => gui.told = gui.section
  BY <1>7, <1>8 DEF WInv, IsOf, Kept, Pro!World
<1>14. ASSUME NEW g \in Slaves, slaves'[g] # Pro!Idle
       PROVE  /\ IsGame(slaves'[g], align)
              /\ ~apart /\ slaves'[g].profile = "Default" =>
                   \A k \in Pro!Params \ {"inverted"} : slaves'[g].val[k] = Says(r.prefs, Dflt, k)
  <2>1. CASE g = s
    BY <1>5, <1>9, <1>10, <1>11, <1>12, <2>1
  <2>2. CASE g # s
    <3>1. slaves'[g] = slaves[g] /\ slaves[g] # Pro!Idle
      BY <1>12, <1>14, <2>2
    <3>2. /\ IsGame(slaves[g], align)
          /\ ~apart /\ slaves[g].profile = "Default" =>
               \A k \in Pro!Params \ {"inverted"} : slaves[g].val[k] = Says(prefs, Dflt, k)
      BY <1>7, <3>1 DEF WInv, Pro!World
    <3>3. \A k \in Pro!Params : Says(r.prefs, Dflt, k) = Says(prefs, Dflt, k)
      BY <1>7, <1>8 DEF Kept, Book
    <3> QED
      BY <3>1, <3>2, <3>3
  <2> QED
    BY <2>1, <2>2
<1>15. Pro!World' = [prefs |-> r.prefs, gui |-> gui, slaves |-> slaves']
  BY <1>6 DEF Pro!World
<1> QED
  BY <1>7, <1>8, <1>12, <1>13, <1>14, <1>15 DEF WInv

\* one that ends does,
LEMMA GameEndsKeeps ==
  ASSUME PInv, Pro!GameEnds
  PROVE  WInv(Pro!World', behind, apart, align)
<1>1. PICK s \in Slaves : slaves' = [slaves EXCEPT ![s] = Pro!Idle]
  BY DEF Pro!GameEnds
<1>2. WInv(Pro!World, behind, apart, align) /\ slaves = [g \in Slaves |-> slaves[g]]
  BY DEF PInv, WInv, Pro!World
<1>3. /\ slaves' = [g \in Slaves |-> slaves'[g]] /\ slaves'[s] = Pro!Idle
      /\ \A g \in Slaves \ {s} : slaves'[g] = slaves[g]
  BY <1>1, <1>2
<1>4. Pro!World' = [prefs |-> prefs, gui |-> gui, slaves |-> slaves']
  BY DEF Pro!World, Pro!GameEnds
<1>5. Pro!World = [prefs |-> prefs, gui |-> gui, slaves |-> slaves]
  BY DEF Pro!World
<1>6. \A g \in Slaves : slaves'[g] # Pro!Idle => slaves[g] # Pro!Idle /\ slaves'[g] = slaves[g]
  BY <1>3
<1> QED
  BY <1>2, <1>3, <1>4, <1>5, <1>6 DEF WInv

\* the alignment does,
LEMMA SetAlignKeeps ==
  ASSUME Pro!ProfilesAssumption, PInv, Pro!SetAlign
  PROVE  WInv(Pro!World', behind, apart, align')
<1>1. /\ align' = ~align /\ prefs' = [prefs EXCEPT !.align = ~align] /\ gui' = gui
      /\ slaves' = [s \in Slaves |->
           IF slaves[s].profile # Pro!Untitled THEN [slaves[s] EXCEPT !.align = ~align]
           ELSE slaves[s]]
  BY DEF Pro!SetAlign
<1>2. /\ WInv(Pro!World, behind, apart, align) /\ Book(prefs) /\ IsGui(gui)
      /\ slaves = [g \in Slaves |-> slaves[g]]
  BY DEF PInv, WInv, Pro!World
<1>3. prefs' = [sections |-> prefs.sections, align |-> ~align]
  BY <1>1, <1>2 DEF Book
<1>4. prefs'.sections = prefs.sections
  BY <1>3
<1>5. Book(prefs')
  BY <1>2, <1>3 DEF Book
<1>6. \A s, k : Says(prefs', s, k) = Says(prefs, s, k)
  BY <1>4 DEF Says
<1>7. ASSUME NEW g \in Slaves
      PROVE  IF slaves[g] = Pro!Idle THEN slaves'[g] = Pro!Idle
             ELSE /\ IsGame(slaves'[g], align') /\ slaves'[g].profile = slaves[g].profile
                  /\ slaves'[g].val = slaves[g].val
  <2>1. CASE slaves[g] = Pro!Idle
    BY <1>1, <2>1 DEF Pro!Idle
  <2>2. CASE slaves[g] # Pro!Idle
    <3>1. IsGame(slaves[g], align)
      BY <1>2, <2>2 DEF WInv, Pro!World
    <3>2. slaves'[g] = [slaves[g] EXCEPT !.align = align']
      BY <1>1, <3>1, NotUntitled DEF IsGame
    <3>3. slaves'[g] = [profile |-> slaves[g].profile, val |-> slaves[g].val, align |-> align']
      BY <3>1, <3>2 DEF IsGame
    <3> QED
      BY <2>2, <3>1, <3>3 DEF IsGame
  <2> QED
    BY <2>1, <2>2
<1>8. slaves' = [s \in Slaves |-> slaves'[s]]
  BY <1>1
<1>9. /\ Pro!World' = [prefs |-> prefs', gui |-> gui, slaves |-> slaves']
      /\ Pro!World = [prefs |-> prefs, gui |-> gui, slaves |-> slaves]
  BY <1>1 DEF Pro!World
<1>10. ~behind \/ ~apart => IsOf(prefs', gui.section, gui.profile)
  BY <1>2, <1>4, <1>9 DEF WInv, IsOf
<1>11. /\ ~behind => \A k \in Pro!Params : gui.val[k] = Says(prefs', gui.section, k)
       /\ ~apart => gui.told = gui.section
  BY <1>2, <1>6, <1>9 DEF WInv
<1>12. ASSUME NEW s \in Slaves, slaves'[s] # Pro!Idle
       PROVE  /\ IsGame(slaves'[s], align')
              /\ ~apart /\ slaves'[s].profile = "Default" =>
                   \A k \in Pro!Params \ {"inverted"} : slaves'[s].val[k] = Says(prefs', Dflt, k)
  BY <1>2, <1>6, <1>7, <1>9, <1>12 DEF WInv
<1> QED
  BY <1>2, <1>5, <1>8, <1>9, <1>10, <1>11, <1>12 DEF WInv

\* to discard the changes does,
LEMMA DiscardKeeps ==
  ASSUME Pro!ProfilesAssumption, PInv, Pro!Discard
  PROVE  WInv(Pro!World', behind', apart', align)
<1>1. /\ Pro!World' = [prefs |-> file, gui |-> gui, slaves |-> slaves]
      /\ Pro!World = [prefs |-> prefs, gui |-> gui, slaves |-> slaves] /\ behind' /\ apart'
  BY DEF Pro!Discard, Pro!World
<1>2. WInv(Pro!World, behind, apart, align) /\ Book(file)
  BY DEF PInv
<1> QED
  BY <1>1, <1>2 DEF WInv

\* another profile does,
LEMMA SelectProfileKeeps ==
  ASSUME Pro!ProfilesAssumption, PInv, Pro!SelectProfile
  PROVE  WInv(Pro!World', behind', apart', align) /\ Kept(prefs, prefs')
<1>1. PICK t \in names : /\ prefs' = Pro!Selected(prefs, gui, t).prefs
                         /\ gui' = Pro!Selected(prefs, gui, t).gui
                         /\ apart' = (apart \/ Pro!Find(prefs, t) = Pro!NoSection)
  BY DEF Pro!SelectProfile
<1>2. behind' = FALSE /\ slaves' = slaves
  BY DEF Pro!SelectProfile
<1>3. t \in Pro!Profiles /\ WInv(Pro!World, behind, apart, align)
  BY DEF PInv
<1>4. PICK w : w = Pro!World
  OBVIOUS
<1>5. w = [prefs |-> prefs, gui |-> gui, slaves |-> slaves]
  BY <1>4 DEF Pro!World
<1>6. PICK c \in BOOLEAN : c = (apart \/ Pro!Find(prefs, t) = Pro!NoSection)
  OBVIOUS
<1>7. apart \in BOOLEAN /\ (apart => c) /\ (~c => Has(w.prefs, t))
  BY <1>5, <1>6, FoundHas DEF PInv
<1>8. PICK x : x = Pro!Select(w, t)
  OBVIOUS
<1>9. Settled(x, c, align) /\ Kept(w.prefs, x.prefs)
  BY <1>3, <1>4, <1>7, <1>8, SelectKeeps
<1>10. Pro!Becomes(x)
  BY <1>1, <1>2, <1>5, <1>8 DEF Pro!Select, Pro!Becomes
<1>11. WInv(x, behind', apart', align)
  BY <1>1, <1>2, <1>6, <1>9 DEF Settled
<1>12. prefs' = x.prefs
  BY <1>10 DEF Pro!Becomes
<1> QED
  BY <1>5, <1>9, <1>10, <1>11, <1>12, BecomesKeeps

\* a copy of the default does,
LEMMA CopyKeeps ==
  ASSUME Pro!ProfilesAssumption, PInv, Pro!CopyFromDefault
  PROVE  /\ WInv(Pro!World', behind', apart', align)
         /\ \E w, x : /\ Kept(prefs, w.prefs) /\ Only(w, x) /\ Pro!Becomes(x)
                      /\ w.gui.section = gui.section /\ w.gui.profile = gui.profile
<1> DEFINE Panel(w, new, p) ==
             IF gui.val[p] # new.val[p] THEN Pro!AxisChange(w, p, new.val[p]) ELSE w
<1>1. PICK new : new = Pro!InitAxes(prefs, "Default")
  OBVIOUS
<1>2. PICK t : t = "Default"
  OBVIOUS
<1>3. PICK sym : sym = Pro!Symmetrical(new.val)
  OBVIOUS
<1>4. PICK ui : ui = [w \in Pro!Widgets |-> IF w = "filter" THEN gui.off ELSE new.val[w]]
  OBVIOUS
<1>5. PICK g : g = [gui EXCEPT !.val = new.val, !.sym = sym, !.ui = ui]
  OBVIOUS
<1>6. PICK w0 : w0 = [prefs |-> new.prefs, gui |-> g, slaves |-> slaves]
  OBVIOUS
<1>7. PICK w1 : w1 = Panel(w0, new, "enabled")
  OBVIOUS
<1>8. PICK w2 : w2 = Panel(w1, new, "inverted")
  OBVIOUS
<1>9. PICK w3 : w3 = Panel(w2, new, "mult")
  OBVIOUS
<1>10. Pro!Becomes(w3) /\ behind' = TRUE /\ apart' = apart
  BY <1>1, <1>3, <1>4, <1>5, <1>6, <1>7, <1>8, <1>9 DEF Pro!CopyFromDefault
<1>11. /\ WInv(Pro!World, behind, apart, align) /\ Book(prefs) /\ IsGui(gui)
       /\ apart \in BOOLEAN
  BY DEF PInv, WInv, Pro!World
<1>12. t \in Pro!Profiles
  BY <1>2 DEF Pro!Profiles
<1>13. /\ Book(new.prefs) /\ Kept(prefs, new.prefs)
       /\ new.val = [k \in Pro!Params |-> Says(new.prefs, new.section, k)] /\ Fits(new.val)
  BY <1>1, <1>2, <1>11, <1>12, AxesAre
<1>14. g = [val |-> new.val, section |-> gui.section, profile |-> gui.profile,
            told |-> gui.told, common |-> gui.common, off |-> gui.off, sym |-> sym, ui |-> ui]
  BY <1>5, <1>11 DEF IsGui
<1>15. IsGui(g)
  <2>1. new.val = [k \in Pro!Params |-> new.val[k]] /\ Fits(new.val)
    BY <1>13
  <2>2. gui.off \in 0 .. 2
    BY <1>11 DEF IsGui
  <2>3. ui = [k \in Pro!Widgets |-> ui[k]] /\ Fits(ui) /\ sym \in BOOLEAN
    BY <1>3, <1>4, <2>1, <2>2, WidgetsFit DEF Pro!Symmetrical
  <2> QED
    BY <1>11, <1>14, <2>1, <2>3 DEF IsGui
<1>16. PICK d : d = TRUE
  OBVIOUS
<1>17. WInv(w0, d, apart, align)
  <2>1. Pro!World = [prefs |-> prefs, gui |-> gui, slaves |-> slaves]
    BY DEF Pro!World
  <2>2. \A s \in Slaves : slaves[s] # Pro!Idle /\ ~apart /\ slaves[s].profile = "Default" =>
          \A k \in Pro!Params \ {"inverted"} : slaves[s].val[k] = Says(new.prefs, Dflt, k)
    BY <1>11, <1>13, <2>1 DEF WInv, Kept, Book
  <2>3. ~apart => IsOf(new.prefs, g.section, g.profile) /\ g.told = g.section
    BY <1>11, <1>13, <1>14, <2>1 DEF WInv, Kept, IsOf
  <2>4. /\ slaves = [s \in Slaves |-> slaves[s]]
        /\ \A s \in Slaves : slaves[s] # Pro!Idle => IsGame(slaves[s], align)
    BY <1>11, <2>1 DEF WInv
  <2> QED
    BY <1>6, <1>13, <1>15, <1>16, <2>2, <2>3, <2>4 DEF WInv
<1>18. ASSUME NEW w, WInv(w, d, apart, align), NEW p \in Pro!Params, NEW x, x = Panel(w, new, p)
       PROVE  Keeps(w, x, d, apart, align)
  <2>1. x = w \/ x = Pro!AxisChange(w, p, new.val[p])
    BY <1>18
  <2>2. new.val[p] \in Pro!ValuesOf(p)
    BY <1>13 DEF Fits
  <2> QED
    BY <1>11, <1>18, <2>1, <2>2, AxisChangeKeeps, Kept1 DEF Keeps
<1>19. "enabled" \in Pro!Params /\ "inverted" \in Pro!Params /\ "mult" \in Pro!Params
  BY DEF Pro!Params
<1> HIDE DEF Panel
<1>20. Keeps(w0, w1, d, apart, align)
  BY <1>7, <1>17, <1>18, <1>19
<1>21. Keeps(w0, w2, d, apart, align)
  BY <1>8, <1>20, <1>18, <1>19, Kept2 DEF Keeps
<1>22. Keeps(w0, w3, d, apart, align)
  BY <1>9, <1>21, <1>18, <1>19, Kept2 DEF Keeps
<1>23. WInv(w3, behind', apart', align)
  BY <1>10, <1>16, <1>22 DEF Keeps
<1>24. /\ Kept(prefs, w0.prefs) /\ Only(w0, w3) /\ Pro!Becomes(w3)
       /\ w0.gui.section = gui.section /\ w0.gui.profile = gui.profile
  BY <1>6, <1>10, <1>13, <1>14, <1>22 DEF Keeps
<1> QED
  BY <1>23, <1>24, BecomesKeeps

\* A profile is imported: it is selected, its parameters are set, and it is selected again.
Arrives(f, x, y, z, d) ==
  /\ Kept(prefs, x.prefs) /\ x.gui.profile = f.name
  /\ IsOf(prefs, gui.section, gui.profile) => IsOf(x.prefs, x.gui.section, f.name)
  /\ (\E c \in BOOLEAN : WInv(x, d, c, align)) /\ y = Pro!Imported(x, f) /\ Only(x, y)
  /\ Kept(y.prefs, z.prefs) /\ z.gui.profile = y.gui.profile
  /\ IsOf(z.prefs, z.gui.section, z.gui.profile) /\ Pro!Becomes(z)
  /\ Book(x.prefs) /\ Book(z.prefs) /\ IsGui(z.gui)
  /\ \A k \in Pro!Params : z.gui.val[k] = Says(z.prefs, z.gui.section, k)

\* and so does an import.
LEMMA ImportKeeps ==
  ASSUME Pro!ProfilesAssumption, PInv, NEW f \in Imports, Pro!Import(f)
  PROVE  WInv(Pro!World', behind', apart', align) /\ names' \subseteq Pro!Profiles
         /\ \E x, y, z, d : Arrives(f, x, y, z, d)
<1>1. PICK w : w = Pro!Added(Pro!World, f)
  OBVIOUS
<1>2. PICK x : x = IF gui.profile = f.name THEN w ELSE Pro!Select(w, f.name)
  OBVIOUS
<1>3. PICK y : y = Pro!Imported(x, f)
  OBVIOUS
<1>4. PICK z : z = Pro!Refreshed(y, names')
  OBVIOUS
<1>5. /\ names' = IF f.name \in names THEN names ELSE Pro!Titles(w.prefs)
      /\ Pro!Becomes(z) /\ behind' = FALSE
      /\ apart' = (apart \/ (f.name \in names /\ Pro!Find(prefs, f.name) = Pro!NoSection))
  BY <1>1, <1>2, <1>3, <1>4 DEF Pro!Import
<1>6. PICK t \in Pro!Profiles : t = f.name
  BY DEF Pro!ProfilesAssumption
<1>7. PICK o : o = Pro!World
  OBVIOUS
<1>8. WInv(o, behind, apart, align) /\ o.prefs = prefs /\ o.gui = gui /\ apart \in BOOLEAN
  BY <1>7 DEF PInv, Pro!World
<1>9. /\ WInv(w, behind, apart, align) /\ Kept(o.prefs, w.prefs)
      /\ t \notin names => Has(w.prefs, t)
      /\ w.gui.profile = o.gui.profile
      /\ IsOf(o.prefs, o.gui.section, o.gui.profile) => IsOf(w.prefs, w.gui.section, w.gui.profile)
  BY <1>1, <1>6, <1>7, <1>8, AddedKeeps
<1>10. PICK c \in BOOLEAN : c = (apart \/ (t \in names /\ Pro!Find(prefs, t) = Pro!NoSection))
  OBVIOUS
<1>11. apart => c
  BY <1>10
<1>12. ~c => Has(w.prefs, t)
  <2>1. ~c /\ t \in names => Has(o.prefs, t)
    BY <1>8, <1>10, FoundHas
  <2> QED
    BY <1>9, <2>1, StillHas
<1>13. PICK d : /\ WInv(x, d, c, align) /\ Kept(w.prefs, x.prefs) /\ x.gui.profile = t
                /\ IsOf(prefs, gui.section, gui.profile) => IsOf(x.prefs, x.gui.section, t)
  <2>1. CASE gui.profile = f.name
    <3>1. x = w /\ x.gui.profile = t
      BY <1>2, <1>6, <1>8, <1>9, <2>1
    <3>2. IsOf(prefs, gui.section, gui.profile) => IsOf(x.prefs, x.gui.section, t)
      BY <1>8, <1>9, <3>1
    <3> QED
      BY <1>9, <1>11, <3>1, <3>2, Looser, Same
  <2>2. CASE gui.profile # f.name
    <3>1. x = Pro!Select(w, t)
      BY <1>2, <1>6, <2>2
    <3>2. /\ Settled(x, c, align) /\ Kept(w.prefs, x.prefs)
          /\ x.gui.profile = t /\ IsOf(x.prefs, x.gui.section, t)
      BY <1>8, <1>9, <1>11, <1>12, <3>1, SelectKeeps
    <3> QED
      BY <3>2 DEF Settled
  <2> QED
    BY <2>1, <2>2
<1>14. WInv(y, d, c, align) /\ Only(x, y)
  BY <1>3, <1>13, ImportedKeeps DEF Keeps
<1>15. /\ Settled(z, c, align) /\ Kept(y.prefs, z.prefs) /\ z.gui.profile = y.gui.profile
       /\ IsOf(z.prefs, z.gui.section, z.gui.profile)
  BY <1>4, <1>14, RefreshedKeeps
<1>16. WInv(z, behind', apart', align)
  BY <1>5, <1>6, <1>10, <1>15 DEF Settled
<1>17. names' \subseteq Pro!Profiles
  <2>1. Book(w.prefs)
    BY <1>9 DEF WInv
  <2> QED
    BY <1>5, <2>1, TitlesAre DEF PInv
<1>18. Kept(prefs, x.prefs)
  BY <1>8, <1>9, <1>13, KeptTwice
<1>19. Book(x.prefs) /\ Book(z.prefs) /\ IsGui(z.gui)
  BY <1>13, <1>15 DEF Settled, WInv
<1>20. \A k \in Pro!Params : z.gui.val[k] = Says(z.prefs, z.gui.section, k)
  BY <1>15 DEF Settled, WInv
<1>21. Arrives(f, x, y, z, d)
  BY <1>3, <1>5, <1>6, <1>13, <1>14, <1>15, <1>18, <1>19, <1>20 DEF Arrives
<1> QED
  BY <1>5, <1>16, <1>17, <1>21, BecomesKeeps

\* The user sets a widget.
LEMMA WidgetsKeep ==
  ASSUME Pro!ProfilesAssumption, PInv,
         Pro!SetInPanel \/ Pro!SetSmoothing \/ Pro!SetInCurve \/ Pro!SetSymmetry
  PROVE  \E x : /\ Pro!Becomes(x) /\ Keeps(Pro!World, x, behind, apart, align)
                /\ UNCHANGED <<file, names, align, behind, apart>>
<1>0. WInv(Pro!World, behind, apart, align) /\ apart \in BOOLEAN
  BY DEF PInv
<1>1. PICK w : w = Pro!World
  OBVIOUS
<1>2. CASE Pro!SetInPanel
  <2>1. PICK p, v : /\ p \in Pro!Params /\ v \in Pro!ValuesOf(p)
                    /\ Pro!Becomes(Pro!Changed(w, p, v))
    BY <1>1, <1>2 DEF Pro!SetInPanel, Pro!Params
  <2>2. PICK x : x = Pro!Changed(w, p, v)
    OBVIOUS
  <2>3. Keeps(w, x, behind, apart, align)
    BY <1>0, <1>1, <2>1, <2>2, ChangedKeeps
  <2> QED
    BY <1>1, <1>2, <2>1, <2>2, <2>3 DEF Pro!SetInPanel
<1>3. CASE Pro!SetSmoothing
  <2>1. PICK c \in 0 .. 1 : Pro!Becomes(Pro!CommonSet(w, c))
    BY <1>1, <1>3 DEF Pro!SetSmoothing
  <2>2. PICK x : x = Pro!CommonSet(w, c)
    OBVIOUS
  <2>3. Keeps(w, x, behind, apart, align)
    BY <1>0, <1>1, <2>2, CommonSetKeeps DEF Keeps
  <2> QED
    BY <1>1, <1>3, <2>1, <2>2, <2>3 DEF Pro!SetSmoothing
<1>4. CASE Pro!SetInCurve
  <2>1. PICK p, v : /\ p \in Pro!Params /\ v \in Pro!ValuesOf(p)
                    /\ Pro!Becomes(Pro!WidgetSet(w, p, v))
    BY <1>1, <1>4, ValuesAre DEF Pro!SetInCurve, Pro!Params, Pro!Widgets
  <2>2. PICK x : x = Pro!WidgetSet(w, p, v)
    OBVIOUS
  <2>3. Keeps(w, x, behind, apart, align)
    BY <1>0, <1>1, <2>1, <2>2, WidgetSetKeeps
  <2> QED
    BY <1>1, <1>4, <2>1, <2>2, <2>3 DEF Pro!SetInCurve
<1>5. CASE Pro!SetSymmetry
  <2>1. PICK on, x : on = (~gui.sym) /\ on \in BOOLEAN /\ x = Pro!SymmetrySet(w, on)
    OBVIOUS
  <2>2. Keeps(w, x, behind, apart, align)
    BY <1>0, <1>1, <2>1, SymmetrySetKeeps
  <2> QED
    BY <1>1, <1>5, <2>1, <2>2 DEF Pro!SetSymmetry
<1> QED
  BY <1>2, <1>3, <1>4, <1>5

\* Every step keeps the invariant.
LEMMA ProfilesStep ==
  ASSUME Pro!ProfilesAssumption, PInv, Pro!ProfileNext
  PROVE  PInv'
<1>0. WInv(Pro!World, behind, apart, align) /\ Book(file) /\ Book(prefs) /\ apart \in BOOLEAN
  BY DEF PInv, WInv, Pro!World
<1>1. CASE Pro!SetInPanel \/ Pro!SetSmoothing \/ Pro!SetInCurve \/ Pro!SetSymmetry
  <2>1. PICK x : /\ Pro!Becomes(x) /\ Keeps(Pro!World, x, behind, apart, align)
                 /\ UNCHANGED <<file, names, align, behind, apart>>
    BY <1>1, WidgetsKeep
  <2>2. WInv(Pro!World', behind, apart, align)
    BY <2>1, BecomesKeeps DEF Keeps
  <2> QED
    BY <2>1, <2>2 DEF PInv, Book
<1>2. CASE Pro!SelectProfile
  <2>1. /\ file' = file /\ names' = names /\ align' = align /\ behind' = FALSE
        /\ apart' \in BOOLEAN
    BY <1>0, <1>2 DEF Pro!SelectProfile
  <2> QED
    BY <1>2, <2>1, SelectProfileKeeps DEF PInv, Book
<1>3. CASE Pro!CopyFromDefault
  <2>1. /\ file' = file /\ names' = names /\ align' = align /\ behind' = TRUE /\ apart' = apart
    BY <1>3 DEF Pro!CopyFromDefault
  <2> QED
    BY <1>3, <2>1, CopyKeeps DEF PInv, Book
<1>4. ASSUME NEW f \in Imports, Pro!Import(f)
      PROVE  PInv'
  <2>1. /\ file' = file /\ align' = align /\ behind' = FALSE /\ apart' \in BOOLEAN
    BY <1>0, <1>4 DEF Pro!Import
  <2> QED
    BY <1>4, <2>1, ImportKeeps DEF PInv, Book
<1>5. CASE Pro!SetAlign
  <2>1. file' = file /\ names' = names /\ behind' = behind /\ apart' = apart
    BY <1>5 DEF Pro!SetAlign
  <2> QED
    BY <1>5, <2>1, SetAlignKeeps DEF PInv, Book
<1>6. CASE Pro!Save
  <2>1. /\ file' = prefs /\ Pro!World' = Pro!World
        /\ names' = names /\ align' = align /\ behind' = behind /\ apart' = apart
    BY <1>6 DEF Pro!Save, Pro!World
  <2>2. Book(file')
    BY <1>0, <2>1
  <2> QED
    BY <1>0, <2>1, <2>2 DEF PInv, Book
<1>7. CASE Pro!Discard
  <2>1. file' = file /\ names' = names /\ align' = align /\ behind' = TRUE /\ apart' = TRUE
    BY <1>7 DEF Pro!Discard
  <2> QED
    BY <1>7, <2>1, DiscardKeeps DEF PInv, Book
<1>8. CASE Pro!GameStarts
  <2>1. /\ file' = file /\ names' = names /\ align' = align /\ behind' = behind /\ apart' = apart
    BY <1>8 DEF Pro!GameStarts
  <2> QED
    BY <1>8, <2>1, GameStartsKeeps DEF PInv, Book
<1>9. CASE Pro!GameEnds
  <2>1. /\ file' = file /\ names' = names /\ align' = align /\ behind' = behind /\ apart' = apart
    BY <1>9 DEF Pro!GameEnds
  <2> QED
    BY <1>9, <2>1, GameEndsKeeps DEF PInv, Book
<1> QED
  BY <1>1, <1>2, <1>3, <1>4, <1>5, <1>6, <1>7, <1>8, <1>9 DEF Pro!ProfileNext

\* What ltr_gui shows is what it stores, and the games have it.
LEMMA ProfilesFollow ==
  ASSUME Pro!ProfilesAssumption, PInv
  PROVE  Pro!StoredIsShown /\ Pro!GamesFollow
<1>1. /\ WInv(Pro!World, behind, apart, align) /\ Book(prefs) /\ IsGui(gui)
      /\ Pro!World = [prefs |-> prefs, gui |-> gui, slaves |-> slaves]
  BY DEF PInv, WInv, Pro!World
<1>2. Pro!StoredIsShown
  <2> SUFFICES ASSUME ~behind
               PROVE  /\ prefs.sections[gui.section].title = gui.profile
                      /\ Pro!InitAxes(prefs, gui.profile).val = gui.val
    BY DEF Pro!StoredIsShown
  <2>1. IsOf(prefs, gui.section, gui.profile)
    BY <1>1 DEF WInv
  <2>2. \A k \in Pro!Params : gui.val[k] = Says(prefs, gui.section, k)
    BY <1>1 DEF WInv
  <2>3. PICK t \in Pro!Profiles : t = gui.profile
    BY <1>1 DEF IsGui
  <2>4. PICK r : r = Pro!InitAxes(prefs, t)
    OBVIOUS
  <2>5. /\ Book(r.prefs) /\ Kept(prefs, r.prefs) /\ IsOf(r.prefs, r.section, t)
        /\ r.val = [k \in Pro!Params |-> Says(r.prefs, r.section, k)]
    BY <1>1, <2>4, AxesAre
  <2>6. IsOf(r.prefs, gui.section, t)
    BY <2>1, <2>3, <2>5 DEF IsOf, Kept
  <2>7. r.section = gui.section
    BY <2>5, <2>6, NotUntitled DEF Book, IsOf
  <2>8. \A k \in Pro!Params : Says(r.prefs, gui.section, k) = Says(prefs, gui.section, k)
    BY <2>1, <2>5 DEF IsOf, Kept
  <2>9. gui.val = [k \in Pro!Params |-> gui.val[k]]
    BY <1>1 DEF IsGui
  <2>10. r.val = gui.val
    BY <2>2, <2>5, <2>7, <2>8, <2>9
  <2> QED
    BY <2>1, <2>3, <2>4, <2>10 DEF IsOf
<1>3. ASSUME NEW s \in Slaves, slaves[s] # Pro!Idle
      PROVE  /\ slaves[s].align = align
             /\ slaves[s].profile = "Default" /\ gui.profile = "Default" /\ ~behind /\ ~apart =>
                  \A p \in Pro!Params \ {"inverted"} : slaves[s].val[p] = gui.val[p]
  <2>1. /\ IsGame(slaves[s], align)
        /\ ~apart /\ slaves[s].profile = "Default" =>
             \A k \in Pro!Params \ {"inverted"} : slaves[s].val[k] = Says(prefs, Dflt, k)
    BY <1>1, <1>3 DEF WInv
  <2>2. slaves[s].align = align
    BY <2>1 DEF IsGame
  <2>3. gui.profile = "Default" /\ ~behind => gui.section = Dflt
    BY <1>1, NotUntitled DEF WInv, Book, IsOf, Pro!Profiles
  <2>4. ~behind => \A k \in Pro!Params : gui.val[k] = Says(prefs, gui.section, k)
    BY <1>1 DEF WInv
  <2> QED
    BY <2>1, <2>2, <2>3, <2>4
<1> QED
  BY <1>2, <1>3 DEF Pro!GamesFollow

\* What is left as it is of the other profiles.
Spared(p, q, T) ==
  \A s \in DOMAIN p.sections : p.sections[s].title \notin T =>
    /\ s \in DOMAIN q.sections /\ q.sections[s].title = p.sections[s].title
    /\ \A k \in DOMAIN p.sections[s].keys :
         k \in DOMAIN q.sections[s].keys /\ q.sections[s].keys[k] = p.sections[s].keys[k]

\* A change of the shown profile spares the others.
LEMMA OnlySpares ==
  ASSUME NEW w, NEW x, Only(w, x), NEW T, w.gui.profile \in T,
         IsOf(w.prefs, w.gui.section, w.gui.profile)
  PROVE  Spared(w.prefs, x.prefs, T)
BY DEF Only, IsOf, Spared

\* What is kept is spared.
LEMMA KeptSpares ==
  ASSUME NEW p, NEW q, Kept(p, q), NEW T
  PROVE  Spared(p, q, T)
BY DEF Kept, Spared

\* What two changes spare, both together do.
LEMMA SparedTwice ==
  ASSUME NEW p, NEW q, NEW r, NEW T, Spared(p, q, T), Spared(q, r, T)
  PROVE  Spared(p, r, T)
BY DEF Spared

\* A section with a title is there.
LEMMA TitledIs ==
  ASSUME Pro!ProfilesAssumption, NEW p, NEW s, NEW t \in Pro!Profiles,
         Pro!Section(p, s).title = t
  PROVE  IsOf(p, s, t)
BY NotUntitled DEF Pro!Section, IsOf

\* A step changes no profile but the one that is shown, or those imported.
LEMMA OthersAreSpared ==
  ASSUME Pro!ProfilesAssumption, PInv, Pro!ProfileNext
  PROVE  Pro!OthersUntouched
<1> DEFINE T == {gui.profile, gui'.profile, Pro!Untitled}
<1>1. SUFFICES ASSUME ~Pro!Discard, Pro!Section(prefs, gui.section).title = gui.profile
               PROVE  Spared(prefs, prefs', T)
  BY DEF Pro!OthersUntouched, Spared
<1>2. WInv(Pro!World, behind, apart, align) /\ Book(prefs) /\ gui.profile \in Pro!Profiles
  BY DEF PInv, WInv, IsGui, Pro!World
<1>3. IsOf(prefs, gui.section, gui.profile)
  BY <1>1, <1>2, TitledIs
<1>4. gui.profile \in T /\ gui'.profile \in T
  OBVIOUS
<1> HIDE DEF T
<1>5. CASE Pro!SetInPanel \/ Pro!SetSmoothing \/ Pro!SetInCurve \/ Pro!SetSymmetry
  <2>1. PICK x : Pro!Becomes(x) /\ Keeps(Pro!World, x, behind, apart, align)
    BY <1>5, WidgetsKeep
  <2>2. PICK w : w = Pro!World
    OBVIOUS
  <2>3. w.prefs = prefs /\ w.gui = gui /\ prefs' = x.prefs
    BY <2>1, <2>2 DEF Pro!World, Pro!Becomes
  <2>4. Only(w, x)
    BY <2>1, <2>2 DEF Keeps
  <2> QED
    BY <1>3, <1>4, <2>3, <2>4, OnlySpares
<1>6. CASE Pro!SelectProfile
  BY <1>6, SelectProfileKeeps, KeptSpares
<1>7. CASE Pro!CopyFromDefault
  <2>1. PICK w, x : /\ Kept(prefs, w.prefs) /\ Only(w, x) /\ Pro!Becomes(x)
                    /\ w.gui.section = gui.section /\ w.gui.profile = gui.profile
    BY <1>7, CopyKeeps
  <2>2. IsOf(w.prefs, w.gui.section, w.gui.profile)
    BY <1>3, <2>1 DEF IsOf, Kept
  <2>3. Spared(prefs, w.prefs, T) /\ Spared(w.prefs, x.prefs, T) /\ prefs' = x.prefs
    BY <1>4, <2>1, <2>2, KeptSpares, OnlySpares DEF Pro!Becomes
  <2> QED
    BY <2>3, SparedTwice
<1>8. ASSUME NEW f \in Imports, Pro!Import(f)
      PROVE  Spared(prefs, prefs', T)
  <2>1. PICK x, y, z, d : Arrives(f, x, y, z, d)
    BY <1>8, ImportKeeps
  <2>2. /\ prefs' = z.prefs /\ gui'.profile = z.gui.profile /\ z.gui.profile = y.gui.profile
        /\ y.gui.profile = x.gui.profile
    BY <2>1 DEF Arrives, Only, Pro!Becomes
  <2>3. IsOf(x.prefs, x.gui.section, x.gui.profile)
    BY <1>3, <2>1 DEF Arrives
  <2>4. /\ Spared(prefs, x.prefs, T) /\ Spared(x.prefs, y.prefs, T)
        /\ Spared(y.prefs, z.prefs, T)
    BY <1>4, <2>1, <2>2, <2>3, KeptSpares, OnlySpares DEF Arrives
  <2> QED
    BY <2>2, <2>4, SparedTwice
<1>9. CASE Pro!SetAlign
  <2>1. prefs'.sections = prefs.sections
    BY <1>2, <1>9 DEF Pro!SetAlign, Book
  <2> QED
    BY <2>1 DEF Spared
<1>10. CASE Pro!Save \/ Pro!GameEnds
  <2>1. prefs' = prefs
    BY <1>10 DEF Pro!Save, Pro!GameEnds
  <2> QED
    BY <2>1 DEF Spared
<1>11. CASE Pro!GameStarts
  <2>1. PICK s \in Slaves, t \in Pro!Profiles : Pro!Join(s, t)
    BY <1>11 DEF Pro!GameStarts
  <2>2. PICK r : r = Pro!InitAxes(prefs, t)
    OBVIOUS
  <2>3. prefs' = r.prefs
    BY <2>1, <2>2 DEF Pro!Join
  <2>4. Kept(prefs, r.prefs)
    BY <1>2, <2>2, AxesAre
  <2> QED
    BY <2>3, <2>4, KeptSpares
<1> QED
  BY <1>1, <1>5, <1>6, <1>7, <1>8, <1>9, <1>10, <1>11 DEF Pro!ProfileNext

------------------------------------------------------------------------------
(* An import *)

\* What the section of the axes says of a parameter.
Now(w, k) == Says(w.prefs, w.gui.section, k)

Sound(w) ==
  /\ IsOf(w.prefs, w.gui.section, w.gui.profile)
  /\ \E b, al, a : a \in BOOLEAN /\ WInv(w, b, a, al)

\* What a setting stores.
Sum(w, k, v) == IF k = "filter" THEN Pro!Least(2, v + w.gui.common) ELSE v

\* The parameters of K may be others, the others are the same.
But(w, x, K) == x.gui.common = w.gui.common /\ \A j \in Pro!Params \ K : Now(x, j) = Now(w, j)

\* A change leaves the shown profile where it is.
LEMMA OnlySound ==
  ASSUME NEW w, NEW x, NEW b, NEW a \in BOOLEAN, NEW al, Keeps(w, x, b, a, al),
         IsOf(w.prefs, w.gui.section, w.gui.profile)
  PROVE  Sound(x)
BY DEF Keeps, Only, Sound, IsOf

\* The axis has the value that it was changed to,
LEMMA AxisChangeSays ==
  ASSUME Pro!ProfilesAssumption, NEW w, Sound(w), NEW k \in Pro!Params,
         NEW v \in Pro!ValuesOf(k), NEW x, x = Pro!AxisChange(w, k, v)
  PROVE  /\ Sound(x) /\ But(w, x, {k}) /\ Now(x, k) = Sum(w, k, v)
         /\ x.gui.val[k] = Sum(w, k, v)
         /\ k = "filter" => x.gui.off = v
<1>1. PICK b, al, a : /\ a \in BOOLEAN /\ WInv(w, b, a, al)
                    /\ IsOf(w.prefs, w.gui.section, w.gui.profile)
  BY DEF Sound
<1>2. Book(w.prefs) /\ IsGui(w.gui)
  BY <1>1 DEF WInv
<1>3. PICK n : n = w.gui.section
  OBVIOUS
<1>4. PICK v2 : v2 = Sum(w, k, v)
  OBVIOUS
<1>5. PICK q : q = Pro!SetKey(w.prefs, n, k, v2)
  OBVIOUS
<1>6. n \in DOMAIN w.prefs.sections /\ n # Pro!NoSection
  BY <1>1, <1>2, <1>3 DEF IsOf, IsGui
<1>18. v2 \in Pro!ValuesOf(k)
  <2>1. CASE k = "filter"
    <3>1. v \in 0 .. 2 /\ w.gui.common \in 0 .. 2
      BY <1>2, <2>1, ValuesAre DEF IsGui
    <3> QED
      BY <1>4, <2>1, <3>1, ValuesAre, LeastOfTwo DEF Sum
  <2>2. CASE k # "filter"
    BY <1>4, <2>2 DEF Sum
  <2> QED
    BY <2>1, <2>2
<1>7. \A j \in Pro!Params : Says(q, n, j) = IF j = k THEN v2 ELSE Says(w.prefs, n, j)
  BY <1>2, <1>5, <1>6, <1>18, KeySet DEF KeyIs
<1>8. PICK off : off = IF k = "filter" THEN v ELSE w.gui.off
  OBVIOUS
<1>9. PICK val : val = [w.gui.val EXCEPT ![k] = v2]
  OBVIOUS
<1>10. PICK g : g = [w.gui EXCEPT !.val = val, !.off = off]
  OBVIOUS
<1>11. /\ g = [val |-> val, section |-> n, profile |-> w.gui.profile,
               told |-> w.gui.told, common |-> w.gui.common, off |-> off,
               sym |-> w.gui.sym, ui |-> w.gui.ui]
  BY <1>2, <1>3, <1>10 DEF IsGui
<1>12. g = [w.gui EXCEPT !.val[k] = v2, !.off = off]
  BY <1>9, <1>10
<1>13. x.gui = g /\ x.prefs = q
  <2>1. v2 = IF k = "filter" THEN Pro!Least(2, v + w.gui.common) ELSE v
    BY <1>4 DEF Sum
  <2>2. x = [prefs |-> Pro!SetKey(w.prefs, g.section, k, v2), gui |-> g,
             slaves |-> Pro!Told(w.slaves, g.told, k, v2)]
    BY <1>8, <1>12, <2>1 DEF Pro!AxisChange
  <2> QED
    BY <1>5, <1>11, <2>2
<1>14. val[k] = v2
  BY <1>2, <1>9 DEF IsGui
<1>15. Keeps(w, x, b, a, al)
  BY <1>1, AxisChangeKeeps DEF Keeps
<1>16. Sound(x)
  BY <1>1, <1>15, OnlySound
<1>17. Now(x, k) = v2 /\ \A j \in Pro!Params \ {k} : Now(x, j) = Now(w, j)
  BY <1>3, <1>7, <1>11, <1>13 DEF Now
<1> QED
  BY <1>4, <1>8, <1>11, <1>13, <1>14, <1>16, <1>17 DEF But

\* also when a widget follows,
LEMMA FollowsSays ==
  ASSUME Pro!ProfilesAssumption, NEW w, Sound(w), NEW k \in Pro!Params,
         NEW v \in Pro!ValuesOf(k), NEW x, x = Pro!Follows(w, k, v)
  PROVE  Sound(x) /\ But(w, x, {k}) /\ Now(x, k) = Sum(w, k, v)
<1>1. PICK b, al, a : /\ a \in BOOLEAN /\ WInv(w, b, a, al)
                    /\ IsOf(w.prefs, w.gui.section, w.gui.profile)
  BY DEF Sound
<1>2. IsGui(w.gui) /\ w = [prefs |-> w.prefs, gui |-> w.gui, slaves |-> w.slaves]
  BY <1>1 DEF WInv
<1>3. PICK ui : ui = [w.gui.ui EXCEPT ![k] = v]
  OBVIOUS
<1>4. PICK g : g = [w.gui EXCEPT !.ui = ui]
  OBVIOUS
<1>5. g = [val |-> w.gui.val, section |-> w.gui.section, profile |-> w.gui.profile,
           told |-> w.gui.told, common |-> w.gui.common, off |-> w.gui.off,
           sym |-> w.gui.sym, ui |-> ui]
  BY <1>2, <1>4 DEF IsGui
<1>6. PICK y : y = [w EXCEPT !.gui.ui[k] = v]
  OBVIOUS
<1>7. y = [w EXCEPT !.gui = g]
  BY <1>3, <1>4, <1>6
<1>8. y = [prefs |-> w.prefs, gui |-> g, slaves |-> w.slaves]
  BY <1>2, <1>7
<1>9. IsGui(g)
  <2>1. ui = [j \in Pro!Widgets |-> ui[j]] /\ Fits(ui)
    BY <1>2, <1>3 DEF IsGui, Fits
  <2> QED
    BY <1>2, <1>5, <2>1 DEF IsGui
<1>10. Keeps(w, y, b, a, al)
  BY <1>1, <1>5, <1>8, <1>9, ShowKeeps DEF Keeps
<1>11. Sound(y)
  BY <1>1, <1>10, OnlySound
<1>12. x = Pro!AxisChange(y, k, v)
  BY <1>6 DEF Pro!Follows
<1>13. Sound(x) /\ But(y, x, {k}) /\ Now(x, k) = Sum(y, k, v)
  BY <1>11, <1>12, AxisChangeSays
<1>14. \A j : Now(y, j) = Now(w, j)
  BY <1>5, <1>8 DEF Now
<1>15. y.gui.common = w.gui.common
  BY <1>5, <1>8
<1> QED
  BY <1>13, <1>14, <1>15 DEF But, Sum

\* A widget sets its parameter, or nothing, and the other limit to the same.
LEMMA WidgetSetSays ==
  ASSUME Pro!ProfilesAssumption, NEW w, Sound(w), NEW k \in Pro!Params,
         NEW v \in Pro!ValuesOf(k), NEW x, x = Pro!WidgetSet(w, k, v)
  PROVE  /\ Sound(x) /\ Now(x, k) \in {Now(w, k), Sum(w, k, v)}
         /\ k \notin {"llimit", "rlimit"} => But(w, x, {k})
         /\ k \in {"llimit", "rlimit"} => But(w, x, {"llimit", "rlimit"})
         /\ k = "rlimit" => Now(x, "llimit") \in {Now(w, "llimit"), v}
<1>1. PICK y : y = Pro!Follows(w, k, v)
  OBVIOUS
<1>2. PICK z : z = Pro!Follows(y, Pro!Other(k), v)
  OBVIOUS
<1>3. Sound(y) /\ But(w, y, {k}) /\ Now(y, k) = Sum(w, k, v)
  BY <1>1, FollowsSays
<1>4. PICK o : o = Pro!Other(k)
  OBVIOUS
<1>5. o \in {"llimit", "rlimit"} /\ o \in Pro!Params /\ o # k
  BY <1>4 DEF Pro!Other, Pro!Params
<1>6. k \in {"llimit", "rlimit"} => Sound(z) /\ But(y, z, {o}) /\ Now(z, o) = v
  <2> SUFFICES ASSUME k \in {"llimit", "rlimit"}
               PROVE  Sound(z) /\ But(y, z, {o}) /\ Now(z, o) = v
    OBVIOUS
  <2>1. v \in Pro!ValuesOf(o)
    BY <1>5, ValuesAre
  <2> QED
    BY <1>2, <1>3, <1>4, <1>5, <2>1, FollowsSays DEF Sum
<1>7. x = w \/ x = y \/ (x = z /\ k \in {"llimit", "rlimit"})
  BY <1>1, <1>2 DEF Pro!WidgetSet
<1>8. CASE x = w
  BY <1>8 DEF But
<1>9. CASE x = y
  BY <1>3, <1>9 DEF But, Pro!Params
<1>10. CASE x = z /\ k \in {"llimit", "rlimit"}
  BY <1>3, <1>5, <1>6, <1>10 DEF But
<1> QED
  BY <1>7, <1>8, <1>9, <1>10

Limits == {"llimit", "rlimit"}

\* but for the limits, when both sides are made the same.
LEMMA SymmetrySetSays ==
  ASSUME Pro!ProfilesAssumption, NEW w, Sound(w), NEW on \in BOOLEAN, NEW x, x = Pro!SymmetrySet(w, on)
  PROVE  Sound(x) /\ But(w, x, Limits)
<1>1. PICK b, al, a : /\ a \in BOOLEAN /\ WInv(w, b, a, al)
                      /\ IsOf(w.prefs, w.gui.section, w.gui.profile)
  BY DEF Sound
<1>2. IsGui(w.gui) /\ w = [prefs |-> w.prefs, gui |-> w.gui, slaves |-> w.slaves]
  BY <1>1 DEF WInv
<1>3. PICK g : g = [w.gui EXCEPT !.sym = on]
  OBVIOUS
<1>4. g = [val |-> w.gui.val, section |-> w.gui.section, profile |-> w.gui.profile,
           told |-> w.gui.told, common |-> w.gui.common, off |-> w.gui.off,
           sym |-> on, ui |-> w.gui.ui]
  BY <1>2, <1>3 DEF IsGui
<1>5. PICK y : y = [w EXCEPT !.gui.sym = on]
  OBVIOUS
<1>6. y = [prefs |-> w.prefs, gui |-> g, slaves |-> w.slaves]
  BY <1>2, <1>3, <1>5
<1>7. IsGui(g)
  BY <1>2, <1>4 DEF IsGui
<1>8. Keeps(w, y, b, a, al)
  BY <1>1, <1>4, <1>6, <1>7, ShowKeeps DEF Keeps
<1>9. Sound(y)
  BY <1>1, <1>8, OnlySound
<1>10. But(w, y, Limits)
  BY <1>4, <1>6 DEF But, Now
<1>11. PICK v, z : v = y.gui.ui.llimit /\ z = Pro!WidgetSet(y, "rlimit", v)
  OBVIOUS
<1>12. "rlimit" \in Pro!Params /\ v \in Pro!ValuesOf("rlimit")
  BY <1>6, <1>7, <1>11, ValuesAre DEF Pro!Params, Pro!Widgets, IsGui, Fits
<1>13. Sound(z) /\ But(y, z, Limits)
  <2>1. PICK k : k = "rlimit"
    OBVIOUS
  <2>2. z = Pro!WidgetSet(y, k, v) /\ k \in Pro!Params /\ v \in Pro!ValuesOf(k)
    BY <1>11, <1>12, <2>1
  <2>3. Sound(z) /\ (k \in {"llimit", "rlimit"} => But(y, z, {"llimit", "rlimit"}))
    BY <1>9, <2>2, WidgetSetSays
  <2> QED
    BY <2>1, <2>3 DEF Limits
<1>14. x = y \/ x = z
  BY <1>5, <1>11 DEF Pro!SymmetrySet
<1> QED
  BY <1>9, <1>10, <1>13, <1>14 DEF But

\* A parameter is set and its signal answered: it has the value, or at least the limit
\* that is its pair has it.
Answers(w, x, k, v) ==
  /\ Sound(x) /\ Now(x, k) = Sum(w, k, v)
  /\ k \notin Limits \cup {"enabled"} => But(w, x, {k})
  /\ k = "enabled" => But(w, x, Limits \cup {k})
  /\ k = "llimit" => But(w, x, Limits)
  /\ k = "rlimit" => But(w, x, Limits) /\ Now(x, "llimit") \in {Now(w, "llimit"), v}

\* A change with all that follows answers what was asked.
LEMMA ChangedSays ==
  ASSUME Pro!ProfilesAssumption, NEW w, Sound(w), NEW k \in Pro!Params,
         NEW v \in Pro!ValuesOf(k), NEW x, x = Pro!Changed(w, k, v)
  PROVE  Answers(w, x, k, v)
<1>1. PICK y : y = Pro!AxisChange(w, k, v)
  OBVIOUS
<1>2. /\ Sound(y) /\ But(w, y, {k}) /\ Now(y, k) = Sum(w, k, v)
      /\ y.gui.val[k] = Sum(w, k, v)
      /\ k = "filter" => y.gui.off = v
  BY <1>1, AxisChangeSays
<1>3. x = Pro!Signalled(y, k)
  BY <1>1 DEF Pro!Changed
<1>4. CASE k = "enabled"
  <2>1. PICK on \in BOOLEAN : x = Pro!SymmetrySet(y, on)
    BY <1>3, <1>4 DEF Pro!Signalled, Pro!Symmetrical
  <2>2. Sound(x) /\ But(y, x, Limits)
    BY <1>2, <2>1, SymmetrySetSays
  <2> QED
    BY <1>2, <1>4, <2>2 DEF But, Limits, Answers
<1>5. CASE k = "inverted"
  BY <1>2, <1>3, <1>5 DEF Pro!Signalled, Limits, Answers
<1>6. CASE k = "filter"
  <2>1. x = Pro!WidgetSet(y, k, v)
    BY <1>2, <1>3, <1>6 DEF Pro!Signalled
  <2>2. Sound(x) /\ Now(x, k) \in {Now(y, k), Sum(y, k, v)} /\ But(y, x, {k})
    BY <1>2, <1>6, <2>1, WidgetSetSays
  <2> QED
    BY <1>2, <1>6, <2>2 DEF But, Sum, Limits, Answers
<1>7. CASE k \in {"mult", "llimit", "rlimit"}
  <2>1. x = Pro!WidgetSet(y, k, v)
    BY <1>2, <1>3, <1>7 DEF Pro!Signalled, Sum
  <2>2. /\ Sound(x) /\ Now(x, k) \in {Now(y, k), Sum(y, k, v)}
        /\ k \notin {"llimit", "rlimit"} => But(y, x, {k})
        /\ k \in {"llimit", "rlimit"} => But(y, x, {"llimit", "rlimit"})
        /\ k = "rlimit" => Now(x, "llimit") \in {Now(y, "llimit"), v}
    BY <1>2, <2>1, WidgetSetSays
  <2> QED
    BY <1>2, <1>7, <2>2 DEF But, Sum, Limits, Pro!Params, Answers
<1> QED
  BY <1>4, <1>5, <1>6, <1>7 DEF Pro!Params

\* The smoothing of all axes changes no other value.
LEMMA CommonSetSays ==
  ASSUME Pro!ProfilesAssumption, NEW w, Sound(w), NEW c \in 0 .. 1, NEW x, x = Pro!CommonSet(w, c)
  PROVE  /\ Sound(x) /\ x.gui.common = c
         /\ \A j \in Pro!Params \ {"filter"} : Now(x, j) = Now(w, j)
<1>1. PICK b, al, a : a \in BOOLEAN /\ WInv(w, b, a, al)
                      /\ IsOf(w.prefs, w.gui.section, w.gui.profile)
  BY DEF Sound
<1>2. Book(w.prefs) /\ IsGui(w.gui)
  BY <1>1 DEF WInv
<1>3. PICK n : n = w.gui.section
  OBVIOUS
<1>4. PICK now : now = Pro!Least(2, w.gui.off + c)
  OBVIOUS
<1>5. PICK q : q = Pro!SetKey(w.prefs, n, "filter", now)
  OBVIOUS
<1>6. n \in DOMAIN w.prefs.sections /\ n # Pro!NoSection /\ "filter" \in Pro!Params
  BY <1>1, <1>2, <1>3 DEF IsOf, IsGui, Pro!Params
<1>7. \A j \in Pro!Params : Says(q, n, j) = IF j = "filter" THEN now ELSE Says(w.prefs, n, j)
  <2>1. w.gui.off \in 0 .. 2 /\ c \in 0 .. 2
    BY <1>2 DEF IsGui
  <2>2. now \in Pro!ValuesOf("filter")
    BY <1>4, <2>1, ValuesAre, LeastOfTwo
  <2> QED
    BY <1>2, <1>5, <1>6, <2>2, KeySet DEF KeyIs
<1>8. x.prefs = q /\ x.gui = [w.gui EXCEPT !.common = c, !.val.filter = now]
  BY <1>3, <1>4, <1>5 DEF Pro!CommonSet
<1>9. x.gui.common = c /\ x.gui.section = n
  BY <1>2, <1>3, <1>8 DEF IsGui
<1>10. Keeps(w, x, b, a, al)
  BY <1>1, CommonSetKeeps DEF Keeps
<1>11. Sound(x)
  BY <1>1, <1>10, OnlySound
<1> QED
  BY <1>3, <1>7, <1>8, <1>9, <1>11 DEF Now

\* An imported profile is that of the file, if its limits are the same.
LEMMA ImportIsTheFile ==
  ASSUME Pro!ProfilesAssumption, NEW f \in Imports, f.val.llimit = f.val.rlimit,
         NEW w, Sound(w), NEW x, x = Pro!Imported(w, f)
  PROVE  /\ Sound(x) /\ Now(x, "filter") = Pro!Least(2, f.common + f.val.filter)
         /\ \A j \in Pro!Params \ {"filter"} : Now(x, j) = f.val[j]
<1>0. "enabled" \in Pro!Params /\ "inverted" \in Pro!Params /\ "mult" \in Pro!Params
      /\ "llimit" \in Pro!Params /\ "rlimit" \in Pro!Params /\ "filter" \in Pro!Params
  BY DEF Pro!Params
<1>22. f.common \in 0 .. 1 /\ \A k \in Pro!Params : f.val[k] \in Pro!ValuesOf(k)
  BY DEF Pro!ProfilesAssumption
<1>1. PICK y0 : y0 = Pro!CommonSet(w, f.common)
  OBVIOUS
<1>2. PICK y1 : y1 = Pro!Changed(y0, "enabled", f.val["enabled"])
  OBVIOUS
<1>3. PICK y2 : y2 = Pro!Changed(y1, "inverted", f.val["inverted"])
  OBVIOUS
<1>4. PICK y3 : y3 = Pro!Changed(y2, "mult", f.val["mult"])
  OBVIOUS
<1>5. PICK y4 : y4 = Pro!Changed(y3, "llimit", f.val["llimit"])
  OBVIOUS
<1>6. PICK y5 : y5 = Pro!Changed(y4, "rlimit", f.val["rlimit"])
  OBVIOUS
<1>7. PICK y6 : y6 = Pro!Changed(y5, "filter", f.val["filter"])
  OBVIOUS
<1>8. x = y6
  BY <1>1, <1>2, <1>3, <1>4, <1>5, <1>6, <1>7 DEF Pro!Imported
<1>9. Sound(y0) /\ y0.gui.common = f.common
  BY <1>1, <1>22, CommonSetSays
<1>10. Sound(y1) /\ Now(y1, "enabled") = f.val["enabled"] /\ y1.gui.common = f.common
  <2>1. Answers(y0, y1, "enabled", f.val["enabled"])
    BY <1>0, <1>2, <1>9, <1>22, ChangedSays
  <2> QED
    BY <1>9, <2>1 DEF But, Sum, Answers
<1>11. Sound(y2) /\ Now(y2, "inverted") = f.val["inverted"] /\ But(y1, y2, {"inverted"})
  <2>1. Answers(y1, y2, "inverted", f.val["inverted"])
    BY <1>0, <1>3, <1>10, <1>22, ChangedSays
  <2> QED
    BY <2>1 DEF Sum, Limits, Answers
<1>12. Sound(y3) /\ Now(y3, "mult") = f.val["mult"] /\ But(y2, y3, {"mult"})
  <2>1. Answers(y2, y3, "mult", f.val["mult"])
    BY <1>0, <1>4, <1>11, <1>22, ChangedSays
  <2> QED
    BY <2>1 DEF Sum, Limits, Answers
<1>13. Sound(y4) /\ Now(y4, "llimit") = f.val["llimit"] /\ But(y3, y4, Limits)
  <2>1. Answers(y3, y4, "llimit", f.val["llimit"])
    BY <1>0, <1>5, <1>12, <1>22, ChangedSays
  <2> QED
    BY <2>1 DEF Sum, Answers
<1>14. /\ Sound(y5) /\ Now(y5, "rlimit") = f.val["rlimit"] /\ But(y4, y5, Limits)
       /\ Now(y5, "llimit") \in {Now(y4, "llimit"), f.val["rlimit"]}
  <2>1. Answers(y4, y5, "rlimit", f.val["rlimit"])
    BY <1>0, <1>6, <1>13, <1>22, ChangedSays
  <2> QED
    BY <2>1 DEF Sum, Answers
<1>15. /\ Sound(y6) /\ Now(y6, "filter") = Sum(y5, "filter", f.val["filter"])
       /\ But(y5, y6, {"filter"})
  <2>1. Answers(y5, y6, "filter", f.val["filter"])
    BY <1>0, <1>7, <1>14, <1>22, ChangedSays
  <2> QED
    BY <2>1 DEF Limits, Answers
<1>16. y5.gui.common = f.common
  BY <1>10, <1>11, <1>12, <1>13, <1>14 DEF But
<1>17. Now(y6, "filter") = Pro!Least(2, f.common + f.val.filter)
  <2>1. f.common \in Int /\ f.val["filter"] \in Int
    BY <1>0 DEF Pro!ProfilesAssumption
  <2>2. f.val["filter"] + f.common = f.common + f.val["filter"]
    BY <2>1
  <2> QED
    BY <1>15, <1>16, <2>2 DEF Sum
<1>18. Now(y5, "llimit") = f.val["llimit"]
  BY <1>13, <1>14
<1>19. Now(y6, "enabled") = f.val["enabled"] /\ Now(y6, "inverted") = f.val["inverted"]
       /\ Now(y6, "mult") = f.val["mult"]
  BY <1>0, <1>10, <1>11, <1>12, <1>13, <1>14, <1>15 DEF But, Limits
<1>20. Now(y6, "llimit") = f.val["llimit"] /\ Now(y6, "rlimit") = f.val["rlimit"]
  BY <1>0, <1>14, <1>15, <1>18 DEF But
<1>21. \A j \in Pro!Params \ {"filter"} : j \in {"enabled", "inverted", "mult", "llimit", "rlimit"}
  BY DEF Pro!Params
<1> QED
  BY <1>8, <1>15, <1>17, <1>19, <1>20, <1>21

\* An imported profile says what its file says.
LEMMA ImportsAreWhole ==
  ASSUME Pro!ProfilesAssumption, PInv
  PROVE  Pro!ImportIsWhole
<1>1. SUFFICES ASSUME NEW f \in Imports, Pro!Import(f), f.val.llimit = f.val.rlimit,
                      Pro!Section(prefs, gui.section).title = gui.profile
               PROVE  gui'.val = [f.val EXCEPT !.filter = Pro!Least(2, f.common + f.val.filter)]
  BY DEF Pro!ImportIsWhole
<1>2. IsOf(prefs, gui.section, gui.profile)
  <2>1. gui.profile \in Pro!Profiles
    BY DEF PInv, WInv, IsGui, Pro!World
  <2> QED
    BY <1>1, <2>1, TitledIs
<1>3. PICK x, y, z, d : Arrives(f, x, y, z, d)
  BY <1>1, ImportKeeps
<1>4. Sound(x)
  BY <1>2, <1>3 DEF Arrives, Sound
<1>5. /\ Sound(y) /\ Now(y, "filter") = Pro!Least(2, f.common + f.val.filter)
      /\ \A j \in Pro!Params \ {"filter"} : Now(y, j) = f.val[j]
  BY <1>1, <1>3, <1>4, ImportIsTheFile DEF Arrives
<1>6. IsOf(z.prefs, y.gui.section, z.gui.profile)
  BY <1>3, <1>5 DEF Arrives, Sound, Kept, IsOf
<1>7. z.gui.section = y.gui.section
  BY <1>3, <1>6, NotUntitled DEF Arrives, Book, IsOf, IsGui
<1>8. \A j \in Pro!Params : z.gui.val[j] = Now(y, j)
  BY <1>3, <1>5, <1>7 DEF Arrives, Sound, Kept, IsOf, Now
<1>9. gui' = z.gui /\ z.gui.val = [j \in Pro!Params |-> z.gui.val[j]]
  BY <1>3 DEF Arrives, IsGui, Pro!Becomes
<1>10. f.val = [j \in Pro!Params |-> f.val[j]]
  BY DEF Pro!ProfilesAssumption
<1> QED
  BY <1>5, <1>8, <1>9, <1>10

\* The invariant of the profiles (axis.c, pref.cpp, qt_gui/tracker.cpp), for any files.
THEOREM ProInvariance == ASSUME Pro!ProfilesAssumption PROVE Pro!ProfileSpec => []PInv
<1>1. Pro!Init => PInv
  BY ProfilesInit
<1>2. PInv /\ [Pro!ProfileNext]_(Pro!profileVars) => PInv'
  <2>1. PInv /\ Pro!ProfileNext => PInv'
    BY ProfilesStep
  <2>2. PInv /\ UNCHANGED Pro!profileVars => PInv'
    BY DEF PInv, Pro!profileVars, WInv, Book, Pro!World
  <2> QED
    BY <2>1, <2>2
<1> QED
  BY <1>1, <1>2, PTL DEF Pro!ProfileSpec

\* What ltr_gui shows of a profile is what it stores (axis.c:430), and the games have what
\* is for them (qt_gui/tracker.cpp:210).
THEOREM GamesFollowProfiles ==
  ASSUME Pro!ProfilesAssumption PROVE Pro!ProfileSpec => [](Pro!StoredIsShown /\ Pro!GamesFollow)
<1>1. PInv => Pro!StoredIsShown /\ Pro!GamesFollow
  BY ProfilesFollow
<1> QED
  BY <1>1, ProInvariance, PTL

\* Setting one profile changes no other (axis.c:632), and an import is whole
\* (qt_gui/profile_setup.cpp:206).
THEOREM ProfilesStayApart ==
  ASSUME Pro!ProfilesAssumption PROVE Pro!ProfileSpec =>
    [][Pro!OthersUntouched /\ Pro!ImportIsWhole]_(Pro!profileVars)
<1>1. PInv /\ [Pro!ProfileNext]_(Pro!profileVars) =>
        [Pro!OthersUntouched /\ Pro!ImportIsWhole]_(Pro!profileVars)
  BY OthersAreSpared, ImportsAreWhole
<1> QED
  BY <1>1, ProInvariance, PTL DEF Pro!ProfileSpec

------------------------------------------------------------------------------
(***************************************************************************)
(* WiiServer, for any parts of the picture and any number of reports.  The *)
(* two programs share the picture without a lock.  The flag keeps them     *)
(* apart: the server draws only while it is reset, and only the server     *)
(* sets it, when it has drawn; the driver copies only while it is set, and *)
(* resets it when it has copied.                                           *)
(***************************************************************************)

\* The variables the argument looks into have their types.
WiiTypes ==
  /\ counter \in Wii!Reports
  /\ picture \in [PictureParts -> Wii!Reports]
  /\ copied \in [part : [PictureParts -> Wii!Reports], left : SUBSET PictureParts]
  /\ callback \in [at : {"idle", "draw", "blobs", "flag"}, fresh : BOOLEAN,
                   left : SUBSET PictureParts]

OfReport(r) == [p \in PictureParts |-> r]

\* What the flag says of the picture, while the server draws and after that.
Drawn ==
  /\ callback.at \in {"draw", "flag"} \/ callback.fresh => ~filled
  /\ callback.at \in {"draw", "blobs"} => counter < MaxReports
  /\ callback.at = "draw" =>
       callback.fresh /\ \A p \in PictureParts \ callback.left : picture[p] = counter + 1
  /\ callback.at = "blobs" /\ callback.fresh => picture = OfReport(counter + 1)
  /\ callback.at = "flag" => picture = OfReport(counter)
  /\ filled => \E r \in Wii!Reports : picture = OfReport(r)

\* What the driver has copied is what is in the picture.
CopyMatches ==
  /\ driver = "copy" =>
       /\ filled
       /\ copied.left = {} \/ \A p \in PictureParts \ copied.left : copied.part[p] = picture[p]
  /\ driver # "copy" => copied.left = {}

WiiInv == WiiTypes /\ Drawn /\ CopyMatches /\ Wii!PictureIsWhole

\* The driver.
LEMMA WiiDriverKeeps ==
  ASSUME Wii!PointsAssumption, WiiInv, Wii!Driver
  PROVE  WiiInv'
<1> USE DEF WiiInv, Wii!server
<1>1. UNCHANGED <<counter, picture, callback>>
  BY DEF Wii!Driver, Wii!DriverInit, Wii!DriverWakeup, Wii!DriverPause, Wii!DriverClose,
         Wii!LookAtFlag, Wii!CopyPicture, Wii!PictureCopied, Wii!HaveNewBlobs, Wii!GetBlobs,
         Wii!CountBlobs, Wii!shared
<1>2. CASE /\ driver # "copy" /\ driver' # "copy" /\ UNCHANGED copied
           /\ (filled' = filled \/ filled' = FALSE)
  BY <1>1, <1>2 DEF WiiTypes, Drawn, CopyMatches, Wii!PictureIsWhole
<1>3. CASE Wii!LookAtFlag
  <2>1. /\ filled' = filled
        /\ filled \/ driver' # "copy"
        /\ copied' \in [part : [PictureParts -> Wii!Reports], left : SUBSET PictureParts]
        /\ copied'.part = copied.part
        /\ driver' = "copy" => copied'.left \in {{}, PictureParts}
        /\ driver' # "copy" => copied' = copied
    BY <1>3 DEF Wii!LookAtFlag, Wii!shared, WiiTypes
  <2>2. copied.left = {}
    BY <1>3 DEF Wii!LookAtFlag, CopyMatches
  <2>3. WiiTypes' /\ Drawn'
    BY <1>1, <2>1 DEF WiiTypes, Drawn
  <2>4. CopyMatches'
    BY <2>1, <2>2 DEF CopyMatches
  <2>5. Wii!PictureIsWhole'
    BY <2>1, <2>2 DEF Wii!PictureIsWhole, Wii!Reports
  <2> QED
    BY <2>3, <2>4, <2>5
<1>4. ASSUME NEW p \in PictureParts, Wii!CopyPicture(p) PROVE WiiInv'
  <2>1. /\ driver = "copy" /\ driver' = "copy" /\ UNCHANGED filled /\ p \in copied.left
        /\ copied' = [part |-> [copied.part EXCEPT ![p] = picture[p]], left |-> copied.left \ {p}]
    BY <1>4 DEF Wii!CopyPicture, Wii!shared
  <2>2. /\ copied' \in [part : [PictureParts -> Wii!Reports], left : SUBSET PictureParts]
        /\ \A q \in PictureParts \ copied'.left : copied'.part[q] = picture[q]
    BY <2>1 DEF WiiTypes, CopyMatches
  <2>3. filled /\ \E r \in Wii!Reports : picture = OfReport(r)
    BY <2>1 DEF Drawn, CopyMatches
  <2>4. Wii!PictureIsWhole'
    BY <2>2, <2>3 DEF OfReport, Wii!PictureIsWhole, Wii!Reports
  <2> QED
    BY <1>1, <2>1, <2>2, <2>3, <2>4 DEF WiiTypes, Drawn, CopyMatches
<1>5. CASE Wii!PictureCopied
  BY <1>1, <1>5 DEF Wii!PictureCopied, WiiTypes, Drawn, CopyMatches, Wii!PictureIsWhole
<1>6. CASE \/ Wii!DriverInit \/ Wii!DriverWakeup \/ Wii!DriverPause \/ Wii!DriverClose
           \/ Wii!HaveNewBlobs \/ Wii!GetBlobs \/ Wii!CountBlobs
  BY <1>2, <1>6 DEF Wii!DriverInit, Wii!DriverWakeup, Wii!DriverPause, Wii!DriverClose,
                    Wii!HaveNewBlobs, Wii!GetBlobs, Wii!CountBlobs, Wii!Command, Wii!shared
<1> QED
  BY <1>3, <1>4, <1>5, <1>6 DEF Wii!Driver

\* The call with a report.
LEMMA WiiCallbackKeeps ==
  ASSUME Wii!PointsAssumption, WiiInv, Wii!Callback
  PROVE  WiiInv'
<1> USE DEF WiiInv
<1>1. UNCHANGED <<driver, copied>>
  BY DEF Wii!Callback, Wii!Report, Wii!DrawPicture, Wii!SetBlobs, Wii!SetFrameFlag, Wii!master
<1>2. CASE Wii!Report
  <2>1. /\ UNCHANGED <<counter, filled, picture>> /\ counter < MaxReports
        /\ callback' = IF filled THEN [at |-> "blobs", fresh |-> FALSE, left |-> {}]
                       ELSE [at |-> "draw", fresh |-> TRUE, left |-> PictureParts]
    BY <1>2 DEF Wii!Report, Wii!shared
  <2> QED
    BY <1>1, <2>1 DEF WiiTypes, Drawn, CopyMatches, Wii!PictureIsWhole
<1>3. ASSUME NEW p \in PictureParts, Wii!DrawPicture(p) PROVE WiiInv'
  <2>1. /\ callback.at = "draw" /\ p \in callback.left /\ UNCHANGED <<counter, filled>>
        /\ picture' = [picture EXCEPT ![p] = counter + 1]
        /\ callback' = [callback EXCEPT !.left = @ \ {p},
                                        !.at = IF callback.left = {p} THEN "blobs" ELSE @]
    BY <1>3 DEF Wii!DrawPicture
  <2>2. counter + 1 \in Wii!Reports /\ callback.fresh /\ ~filled
    BY <2>1 DEF WiiTypes, Drawn, Wii!Reports, Wii!PointsAssumption
  <2>3. WiiTypes'
    BY <1>1, <2>1, <2>2 DEF WiiTypes
  <2>4. /\ callback'.fresh = callback.fresh /\ callback'.left = callback.left \ {p}
        /\ callback'.at = IF callback.left = {p} THEN "blobs" ELSE "draw"
        /\ \A q \in PictureParts \ callback'.left : picture'[q] = counter + 1
    BY <2>1, <2>2 DEF WiiTypes, Drawn
  <2>5. callback.left = {p} => picture' = OfReport(counter + 1)
    BY <2>1, <2>4 DEF WiiTypes, OfReport
  <2>6. Drawn'
    BY <2>1, <2>2, <2>4, <2>5 DEF Drawn
  <2> QED
    BY <1>1, <2>1, <2>2, <2>3, <2>6 DEF CopyMatches, Wii!PictureIsWhole
<1>4. CASE Wii!SetBlobs
  <2>1. /\ callback.at = "blobs" /\ UNCHANGED <<filled, picture>> /\ counter' = counter + 1
        /\ callback' = IF callback.fresh THEN [callback EXCEPT !.at = "flag"] ELSE Wii!Rest
    BY <1>4 DEF Wii!SetBlobs
  <2>2. counter' \in Wii!Reports
    BY <2>1 DEF WiiTypes, Drawn, Wii!Reports, Wii!PointsAssumption
  <2> QED
    BY <1>1, <2>1, <2>2 DEF WiiTypes, Drawn, CopyMatches, Wii!PictureIsWhole, Wii!Rest
<1>5. CASE Wii!SetFrameFlag
  <2>1. /\ callback.at = "flag" /\ UNCHANGED <<counter, picture>> /\ filled' = TRUE
        /\ callback' = Wii!Rest
    BY <1>5 DEF Wii!SetFrameFlag
  <2> QED
    BY <1>1, <2>1 DEF WiiTypes, Drawn, CopyMatches, Wii!PictureIsWhole, Wii!Rest
<1> QED
  BY <1>2, <1>3, <1>4, <1>5 DEF Wii!Callback

\* The window and the thread of the server, which may be stopped while it draws.
LEMMA WiiServerKeeps ==
  ASSUME WiiInv, Wii!Window \/ Wii!Thread
  PROVE  WiiInv'
<1>1. UNCHANGED <<counter, filled, picture, copied>> /\ (driver' = driver)
      /\ (callback' = callback \/ callback' = Wii!Rest)
  BY DEF Wii!Window, Wii!Thread, Wii!PressButton, Wii!UpdateState, Wii!HandleCommand, Wii!Slot,
         Wii!SlotCrashes, Wii!Quit, Wii!Restart, Wii!Gone, Wii!Open, Wii!ConnectionLost,
         Wii!Close, Wii!Ended, Wii!shared, Wii!master
<1>2. WiiTypes'
  <2>1. Wii!Rest \in [at : {"idle", "draw", "blobs", "flag"}, fresh : BOOLEAN,
                      left : SUBSET PictureParts]
    BY Zenon DEF Wii!Rest
  <2> QED
    BY <1>1, <2>1 DEF WiiInv, WiiTypes, Wii!Reports
<1>3. Drawn'
  BY <1>1 DEF WiiInv, Drawn, Wii!Reports, Wii!Rest
<1>4. CopyMatches' /\ Wii!PictureIsWhole'
  BY <1>1 DEF WiiInv, CopyMatches, Wii!PictureIsWhole, Wii!Reports
<1> QED
  BY <1>2, <1>3, <1>4 DEF WiiInv

\* The flag keeps the driver and the server apart.
THEOREM WiiInvariance ==
  ASSUME Wii!PointsAssumption PROVE Wii!Init /\ [][Wii!WiiNext]_(Wii!wiiVars) => []WiiInv
<1>1. Wii!Init => WiiInv
  <2> SUFFICES ASSUME Wii!Init
               PROVE  WiiInv
    OBVIOUS
  <2>1. 0 \in Wii!Reports /\ picture = OfReport(0)
    BY DEF Wii!Init, Wii!Reports, Wii!PointsAssumption, OfReport
  <2>2. WiiTypes
    BY <2>1 DEF Wii!Init, Wii!Rest, WiiTypes, OfReport
  <2> QED
    BY <2>1, <2>2 DEF Wii!Init, Wii!Rest, WiiInv, Drawn, CopyMatches, OfReport, Wii!PictureIsWhole
<1>2. WiiInv /\ [Wii!WiiNext]_(Wii!wiiVars) => WiiInv'
  <2>1. WiiInv /\ UNCHANGED Wii!wiiVars => WiiInv'
    BY DEF WiiInv, WiiTypes, Drawn, CopyMatches, Wii!PictureIsWhole, Wii!wiiVars, Wii!shared,
           Wii!master
  <2> QED
    BY <2>1, WiiDriverKeeps, WiiCallbackKeeps, WiiServerKeeps DEF Wii!WiiNext
<1> QED
  BY <1>1, <1>2, PTL

\* The picture of a Wiimote that the driver has copied is of one report, although the
\* server draws without a lock and is stopped at any time (com_proc.c, macwii_driver.c,
\* wii_server/wiimote.cpp).
THEOREM WiimotePictures ==
  ASSUME Wii!PointsAssumption
  PROVE  Wii!Init /\ [][Wii!WiiNext]_(Wii!wiiVars) => []Wii!PictureIsWhole
<1>1. WiiInv => Wii!PictureIsWhole
  BY DEF WiiInv
<1> QED
  BY <1>1, WiiInvariance, PTL

\* What was delivered is not newer than the newest the driver has seen, which is not newer
\* than the newest there is; with a new report to get it is older.
WiiNumbers ==
  /\ counter \in Nat /\ lastVal \in Nat /\ delivered \in Nat
  /\ delivered <= lastVal /\ lastVal <= counter
  /\ driver = "get" => delivered < lastVal

\* A step keeps the order of the reports, and delivers a newer one.
LEMMA WiiNumbersKeep ==
  ASSUME WiiNumbers, [Wii!WiiNext]_(Wii!wiiVars)
  PROVE  WiiNumbers' /\ Wii!DeliversNewer
<1>1. CASE /\ UNCHANGED <<lastVal, delivered>> /\ counter' \in {counter, counter + 1}
           /\ driver' = driver \/ (driver # "get" /\ driver' # "get")
  BY <1>1 DEF WiiNumbers, Wii!DeliversNewer
<1>2. CASE UNCHANGED Wii!wiiVars
  BY <1>1, <1>2 DEF Wii!wiiVars, Wii!shared, Wii!master
<1>3. CASE Wii!Window
  BY <1>1, <1>3 DEF Wii!Window, Wii!PressButton, Wii!UpdateState, Wii!HandleCommand, Wii!Slot,
                    Wii!SlotCrashes, Wii!Quit, Wii!Restart, Wii!shared, Wii!master
<1>4. CASE Wii!Thread
  BY <1>1, <1>4 DEF Wii!Thread, Wii!Open, Wii!ConnectionLost, Wii!Close, Wii!Ended,
                    Wii!shared, Wii!master
<1>5. CASE Wii!Callback
  BY <1>1, <1>5 DEF Wii!Callback, Wii!Report, Wii!DrawPicture, Wii!SetBlobs, Wii!SetFrameFlag,
                    Wii!shared, Wii!master
<1>6. CASE Wii!HaveNewBlobs
  BY <1>6 DEF Wii!HaveNewBlobs, Wii!shared, WiiNumbers, Wii!DeliversNewer
<1>7. CASE Wii!GetBlobs
  BY <1>7 DEF Wii!GetBlobs, Wii!shared, WiiNumbers, Wii!DeliversNewer
<1>8. CASE \/ Wii!DriverInit \/ Wii!DriverWakeup \/ Wii!DriverPause \/ Wii!DriverClose
           \/ Wii!LookAtFlag \/ (\E p \in PictureParts : Wii!CopyPicture(p))
           \/ Wii!PictureCopied \/ Wii!CountBlobs
  BY <1>1, <1>8 DEF Wii!DriverInit, Wii!DriverWakeup, Wii!DriverPause, Wii!DriverClose,
                    Wii!LookAtFlag, Wii!CopyPicture, Wii!PictureCopied, Wii!CountBlobs,
                    Wii!shared, Wii!Command
<1> QED
  BY <1>2, <1>3, <1>4, <1>5, <1>6, <1>7, <1>8 DEF Wii!WiiNext, Wii!Driver

\* No report of a Wiimote is delivered twice, however many come between the test for a new
\* one, without the lock, and the copy (com_proc.c).
THEOREM ReportsComeOnce ==
  Wii!Init /\ [][Wii!WiiNext]_(Wii!wiiVars) =>
    []WiiNumbers /\ [][Wii!DeliversNewer]_(Wii!wiiVars)
<1>1. Wii!Init => WiiNumbers
  BY DEF Wii!Init, WiiNumbers
<1>2. WiiNumbers /\ [Wii!WiiNext]_(Wii!wiiVars) =>
        WiiNumbers' /\ [Wii!DeliversNewer]_(Wii!wiiVars)
  BY WiiNumbersKeep
<1> QED
  BY <1>1, <1>2, PTL

------------------------------------------------------------------------------
(***************************************************************************)
(* QtCam.  The filled buffers of a process are those from the reader to    *)
(* the writer, in the order of their images, and all of them are newer     *)
(* than the image processed last: no lock is needed, because a buffer is   *)
(* written only while it is empty and read only while it is filled.        *)
(***************************************************************************)

\* How far behind the buffer r the buffer b comes.
Behind(b, r) == IF b >= r THEN b - r ELSE b - r + RingSize

\* n buffers from r on are filled, and w comes after them.
Filled(rg, w, r, n) ==
  /\ n \in 0 .. RingSize
  /\ w = IF r + n >= RingSize THEN r + n - RingSize ELSE r + n
  /\ \A b \in Cam!Ring : rg[b].filled <=> Behind(b, r) < n

\* The images in the filled buffers ascend from the image d processed last to the
\* image g captured last.
ShotsAscend(rg, r, d, g) ==
  /\ d <= g
  /\ \A b \in Cam!Ring : rg[b].filled => d < rg[b].shot /\ rg[b].shot <= g
  /\ \A b1, b2 \in Cam!Ring :
       rg[b1].filled /\ rg[b2].filled /\ Behind(b1, r) < Behind(b2, r) =>
         rg[b1].shot < rg[b2].shot

\* One process: the image that is being written is newer than all in the ring.
PassingOK(rg, w, r, d, g, at, pr) ==
  /\ \E n \in 0 .. RingSize : Filled(rg, w, r, n)
  /\ ShotsAscend(rg, r, d, g)
  /\ at = "write" => ~rg[w].filled /\ ShotsAscend(rg, r, d, g - 1)
  /\ pr = "work" => rg[r].filled

Buffers == [Cam!Ring -> [shot : Nat, filled : BOOLEAN]]
Processes == 1 .. Children

CamTypes ==
  /\ DOMAIN camAt = Processes /\ camAt = [c \in Processes |-> camAt[c]]
  /\ DOMAIN proc = Processes /\ proc = [c \in Processes |-> proc[c]]
  /\ ring \in [Processes -> Buffers]
  /\ writer \in [Processes -> Cam!Ring] /\ reader \in [Processes -> Cam!Ring]
  /\ grabs \in [Processes -> Nat] /\ done \in [Processes -> Nat]

CamInv ==
  /\ CamTypes
  /\ \A c \in Processes :
       PassingOK(ring[c], writer[c], reader[c], done[c], grabs[c], camAt[c], proc[c])

\* The buffer after b.
LEMMA NextBuffer ==
  ASSUME Cam!RingAssumption, NEW b \in Cam!Ring
  PROVE  /\ (b + 1) % RingSize = IF b = RingSize - 1 THEN 0 ELSE b + 1
         /\ (b + 1) % RingSize \in Cam!Ring
<1> USE DEF Cam!RingAssumption, Cam!Ring
<1>1. RingSize % RingSize = 0
  BY SMTT(30)
<1>2. \A x \in 0 .. RingSize - 1 : x % RingSize = x
  BY SMTT(30)
<1>3. CASE b = RingSize - 1
  <2>1. b + 1 = RingSize
    BY <1>3
  <2> QED
    BY <1>1, <1>3, <2>1
<1>4. CASE b # RingSize - 1
  <2>1. b + 1 \in 0 .. RingSize - 1
    BY <1>4
  <2> QED
    BY <1>2, <1>4, <2>1
<1> QED
  BY <1>3, <1>4

\* A new image is captured: the buffer it will be written to loses its old one.
LEMMA GrabPasses ==
  ASSUME Cam!RingAssumption, NEW rg \in Buffers, NEW w \in Cam!Ring, NEW r \in Cam!Ring,
         NEW d \in Nat, NEW g \in Nat, NEW at, NEW pr, at # "write",
         PassingOK(rg, w, r, d, g, at, pr)
  PROVE  /\ PassingOK(rg, w, r, d, g + 1, at, pr)
         /\ ~rg[w].filled =>
              PassingOK([rg EXCEPT ![w].shot = Cam!Torn], w, r, d, g + 1, "write", pr)
<1>1. ShotsAscend(rg, r, d, g) /\ ShotsAscend(rg, r, d, g + 1)
  <2>1. \A b \in Cam!Ring : rg[b].shot \in Nat
    BY DEF Buffers
  <2> QED
    BY <2>1 DEF PassingOK, ShotsAscend
<1>2. PassingOK(rg, w, r, d, g + 1, at, pr)
  BY <1>1 DEF PassingOK
<1>3. ASSUME ~rg[w].filled
      PROVE  PassingOK([rg EXCEPT ![w].shot = Cam!Torn], w, r, d, g + 1, "write", pr)
  <2> DEFINE new == [rg EXCEPT ![w].shot = Cam!Torn]
  <2>1. \A b \in Cam!Ring : /\ new[b].filled = rg[b].filled
                            /\ b # w => new[b] = rg[b]
    BY DEF Buffers
  <2>2. \A b \in Cam!Ring : rg[b].filled => new[b].shot = rg[b].shot
    BY <1>3, <2>1
  <2> HIDE DEF new
  <2>3. \E n \in 0 .. RingSize : Filled(new, w, r, n)
    BY <2>1 DEF PassingOK, Filled
  <2>4. ShotsAscend(new, r, d, g) /\ ShotsAscend(new, r, d, g + 1)
    BY <1>1, <2>1, <2>2 DEF ShotsAscend
  <2>5. g + 1 - 1 = g
    OBVIOUS
  <2> QED
    BY <1>3, <2>1, <2>3, <2>4, <2>5 DEF PassingOK, new
<1> QED
  BY <1>2, <1>3

\* The image has been written.
LEMMA WritePasses ==
  ASSUME Cam!RingAssumption, NEW rg \in Buffers, NEW w \in Cam!Ring, NEW r \in Cam!Ring,
         NEW d \in Nat, NEW g \in Nat, NEW pr, NEW at, at # "write",
         PassingOK(rg, w, r, d, g, "write", pr)
  PROVE  PassingOK([rg EXCEPT ![w] = [shot |-> g, filled |-> TRUE]], (w + 1) % RingSize,
                   r, d, g, at, pr)
<1> DEFINE new == [rg EXCEPT ![w] = [shot |-> g, filled |-> TRUE]]
           w1 == (w + 1) % RingSize
<1>1. PICK n \in 0 .. RingSize : Filled(rg, w, r, n)
  BY DEF PassingOK
<1>2. ~rg[w].filled /\ ShotsAscend(rg, r, d, g - 1)
  BY DEF PassingOK
<1>3. /\ new[w].filled /\ new[w].shot = g
      /\ \A b \in Cam!Ring : b # w => new[b] = rg[b]
  BY DEF Buffers
<1>4. w1 = IF w = RingSize - 1 THEN 0 ELSE w + 1
  BY NextBuffer
<1> HIDE DEF new, w1
<1>5. n < RingSize /\ Behind(w, r) = n
  <2>1. n = RingSize => Behind(w, r) < n
    BY DEF Behind, Cam!Ring, Cam!RingAssumption
  <2>2. n # RingSize
    BY <1>1, <1>2, <2>1 DEF Filled
  <2> QED
    BY <1>1, <2>2 DEF Filled, Behind, Cam!Ring, Cam!RingAssumption
<1>6. \A b \in Cam!Ring : b # w => Behind(b, r) # Behind(w, r)
  BY DEF Behind, Cam!Ring, Cam!RingAssumption
<1>7. Filled(new, w1, r, n + 1)
  <2>1. n + 1 \in 0 .. RingSize
    BY <1>5 DEF Cam!RingAssumption
  <2>2. w1 = IF r + (n + 1) >= RingSize THEN r + (n + 1) - RingSize ELSE r + (n + 1)
    BY <1>1, <1>4, <1>5 DEF Filled, Cam!Ring, Cam!RingAssumption
  <2>3. ASSUME NEW b \in Cam!Ring PROVE new[b].filled <=> Behind(b, r) < n + 1
    <3>1. Behind(b, r) \in Int
      BY DEF Behind, Cam!Ring, Cam!RingAssumption
    <3>2. CASE b = w
      BY <1>3, <1>5, <3>2
    <3>3. CASE b # w
      <4>1. (rg[b].filled <=> Behind(b, r) < n) /\ Behind(b, r) # n
        BY <1>1, <1>5, <1>6, <3>3 DEF Filled
      <4> QED
        BY <1>3, <3>1, <3>3, <4>1
    <3> QED
      BY <3>2, <3>3
  <2> QED
    BY <2>1, <2>2, <2>3 DEF Filled
<1>8. ShotsAscend(new, r, d, g)
  <2>1. \A b \in Cam!Ring : rg[b].shot \in Nat
    BY DEF Buffers
  <2>2. d < g
    BY <1>2 DEF ShotsAscend
  <2>3. \A b \in Cam!Ring : new[b].filled => d < new[b].shot /\ new[b].shot <= g
    BY <1>2, <1>3, <2>1, <2>2 DEF ShotsAscend
  <2>4. ASSUME NEW b1 \in Cam!Ring, NEW b2 \in Cam!Ring, new[b1].filled, new[b2].filled,
               Behind(b1, r) < Behind(b2, r)
        PROVE  new[b1].shot < new[b2].shot
    <3>1. b1 # w
      <4>1. b2 # w => ~(Behind(w, r) < Behind(b2, r))
        BY <1>1, <1>3, <1>5, <2>4 DEF Filled, Behind, Cam!Ring, Cam!RingAssumption
      <4>2. ~(Behind(w, r) < Behind(w, r))
        BY DEF Behind, Cam!Ring, Cam!RingAssumption
      <4> QED
        BY <2>4, <4>1, <4>2
    <3>2. CASE b2 = w
      BY <1>2, <1>3, <2>1, <2>4, <3>1, <3>2 DEF ShotsAscend
    <3>3. CASE b2 # w
      BY <1>2, <1>3, <2>4, <3>1, <3>3 DEF ShotsAscend
    <3> QED
      BY <3>2, <3>3
  <2> QED
    BY <2>2, <2>3, <2>4 DEF ShotsAscend
<1>9. pr = "work" => new[r].filled
  BY <1>3 DEF PassingOK
<1> QED
  BY <1>5, <1>7, <1>8, <1>9 DEF PassingOK, new, w1, Cam!RingAssumption

\* The image of the reader's buffer has been processed: it is newer than the last one.
LEMMA ReadPasses ==
  ASSUME Cam!RingAssumption, NEW rg \in Buffers, NEW w \in Cam!Ring, NEW r \in Cam!Ring,
         NEW d \in Nat, NEW g \in Nat, NEW at, NEW pr, pr # "work",
         PassingOK(rg, w, r, d, g, at, "work")
  PROVE  /\ rg[r].shot > d
         /\ PassingOK([rg EXCEPT ![r].filled = FALSE], w, (r + 1) % RingSize, rg[r].shot, g,
                      at, pr)
<1> DEFINE new == [rg EXCEPT ![r].filled = FALSE]
           r1 == (r + 1) % RingSize
<1>1. PICK n \in 0 .. RingSize : Filled(rg, w, r, n)
  BY DEF PassingOK
<1>2. rg[r].filled /\ ShotsAscend(rg, r, d, g)
  BY DEF PassingOK
<1>3. /\ new[r].filled = FALSE
      /\ \A b \in Cam!Ring : new[b].shot = rg[b].shot /\ (b # r => new[b] = rg[b])
  BY DEF Buffers
<1>4. r1 = IF r = RingSize - 1 THEN 0 ELSE r + 1
  BY NextBuffer
<1> HIDE DEF new, r1
<1>5. \A b \in Cam!Ring : /\ Behind(b, r) \in 0 .. RingSize - 1
                          /\ b # r => Behind(b, r1) = Behind(b, r) - 1
                          /\ Behind(r, r1) = RingSize - 1
  BY <1>4 DEF Behind, Cam!Ring, Cam!RingAssumption
<1>6. Behind(r, r) = 0 /\ \A b \in Cam!Ring : b # r => Behind(b, r) > 0
  BY DEF Behind, Cam!Ring, Cam!RingAssumption
<1>7. n > 0
  BY <1>1, <1>2, <1>6 DEF Filled
<1>8. Filled(new, w, r1, n - 1)
  <2>1. n - 1 \in 0 .. RingSize
    BY <1>7 DEF Cam!RingAssumption
  <2>2. w = IF r1 + (n - 1) >= RingSize THEN r1 + (n - 1) - RingSize ELSE r1 + (n - 1)
    BY <1>1, <1>4, <1>7 DEF Filled, Cam!Ring, Cam!RingAssumption
  <2>3. ASSUME NEW b \in Cam!Ring PROVE new[b].filled <=> Behind(b, r1) < n - 1
    <3>1. CASE b = r
      BY <1>3, <1>5, <3>1 DEF Cam!RingAssumption
    <3>2. CASE b # r
      <4>1. new[b].filled <=> Behind(b, r) < n
        BY <1>1, <1>3, <3>2 DEF Filled
      <4> QED
        BY <1>5, <3>2, <4>1
    <3> QED
      BY <3>1, <3>2
  <2> QED
    BY <2>1, <2>2, <2>3 DEF Filled
<1>9. ASSUME NEW top \in Int, ShotsAscend(rg, r, d, top)
      PROVE  ShotsAscend(new, r1, rg[r].shot, top)
  <2>1. \A b \in Cam!Ring : rg[b].shot \in Nat
    BY DEF Buffers
  <2>2. rg[r].shot <= top
    BY <1>2, <1>9 DEF ShotsAscend
  <2>3. \A b \in Cam!Ring : new[b].filled => rg[b].filled /\ b # r
    BY <1>3
  <2>4. \A b \in Cam!Ring : new[b].filled => rg[r].shot < new[b].shot /\ new[b].shot <= top
    BY <1>2, <1>3, <1>6, <1>9, <2>3 DEF ShotsAscend
  <2>5. ASSUME NEW b1 \in Cam!Ring, NEW b2 \in Cam!Ring, new[b1].filled, new[b2].filled,
               Behind(b1, r1) < Behind(b2, r1)
        PROVE  new[b1].shot < new[b2].shot
    <3>1. Behind(b1, r) < Behind(b2, r)
      BY <1>5, <2>3, <2>5
    <3> QED
      BY <1>3, <1>9, <2>3, <2>5, <3>1 DEF ShotsAscend
  <2> QED
    BY <2>2, <2>4, <2>5 DEF ShotsAscend
<1>10. at = "write" => ~new[w].filled /\ ShotsAscend(new, r1, rg[r].shot, g - 1)
  <2>1. at = "write" => ~rg[w].filled /\ ShotsAscend(rg, r, d, g - 1)
    BY DEF PassingOK
  <2>2. at = "write" => ~new[w].filled
    BY <1>3, <2>1
  <2> QED
    BY <1>9, <2>1, <2>2
<1>11. rg[r].shot > d
  BY <1>2 DEF ShotsAscend, Buffers
<1>12. \E m \in 0 .. RingSize : Filled(new, w, r1, m)
  BY <1>7, <1>8 DEF Cam!RingAssumption
<1>13. ShotsAscend(new, r1, rg[r].shot, g)
  BY <1>2, <1>9
<1>14. PassingOK(new, w, r1, rg[r].shot, g, at, pr)
  BY <1>10, <1>12, <1>13 DEF PassingOK
<1> QED
  BY <1>11, <1>14 DEF new, r1

\* The capture thread or the processing thread is elsewhere: neither writes nor works.
LEMMA ElsewherePasses ==
  ASSUME NEW rg, NEW w, NEW r, NEW d, NEW g, NEW at, NEW pr, NEW at1, NEW pr1,
         PassingOK(rg, w, r, d, g, at, pr), at1 # "write" \/ at1 = at,
         pr1 = "work" => pr = "work" \/ rg[r].filled
  PROVE  PassingOK(rg, w, r, d, g, at1, pr1)
BY DEF PassingOK

\* A step of process c that leaves the ring as it is.
Elsewhere(c) ==
  /\ UNCHANGED <<ring, writer, reader, grabs, done>>
  /\ \E at, pr : /\ camAt' = [camAt EXCEPT ![c] = at] /\ proc' = [proc EXCEPT ![c] = pr]
                 /\ at # "write" \/ at = camAt[c]
                 /\ pr = "work" => proc[c] = "work" \/ ring[c][reader[c]].filled

\* What the steps of one process keep of it they keep of all.
LEMMA OneProcess ==
  ASSUME CamInv, NEW c \in Processes, CamTypes',
         PassingOK(ring[c], writer[c], reader[c], done[c], grabs[c], camAt[c], proc[c])',
         \A e \in Processes \ {c} :
           /\ ring'[e] = ring[e] /\ writer'[e] = writer[e] /\ reader'[e] = reader[e]
           /\ done'[e] = done[e] /\ grabs'[e] = grabs[e]
           /\ camAt'[e] = camAt[e] /\ proc'[e] = proc[e]
  PROVE  CamInv'
<1>1. ASSUME NEW e \in Processes, e # c
      PROVE  PassingOK(ring'[e], writer'[e], reader'[e], done'[e], grabs'[e], camAt'[e], proc'[e])
  BY <1>1 DEF CamInv
<1> QED
  BY <1>1 DEF CamInv

\* A step of a process with its own variables keeps the invariant.
LEMMA ElsewhereKeeps == ASSUME CamInv, NEW c \in Processes, Elsewhere(c) PROVE CamInv'
<1>1. PICK at, pr : /\ camAt' = [camAt EXCEPT ![c] = at] /\ proc' = [proc EXCEPT ![c] = pr]
                    /\ at # "write" \/ at = camAt[c]
                    /\ pr = "work" => proc[c] = "work" \/ ring[c][reader[c]].filled
  BY DEF Elsewhere
<1>2. UNCHANGED <<ring, writer, reader, grabs, done>>
  BY DEF Elsewhere
<1>3. camAt'[c] = at /\ proc'[c] = pr
  BY <1>1 DEF CamInv, CamTypes
<1>4. PassingOK(ring[c], writer[c], reader[c], done[c], grabs[c], at, pr)
  BY <1>1, ElsewherePasses DEF CamInv
<1>5. CamTypes'
  BY <1>1, <1>2 DEF CamInv, CamTypes
<1> QED
  BY <1>1, <1>2, <1>3, <1>4, <1>5, OneProcess DEF CamInv, CamTypes

\* The driver, which starts a process or tells it something.
LEMMA CamDriverKeeps ==
  ASSUME CamInv, \/ Cam!TrackerInit \/ Cam!TrackerPause \/ Cam!TrackerResume
                 \/ Cam!TrackerClose \/ Cam!WaitChildExit
  PROVE  CamInv' /\ done' = done
<1>1. UNCHANGED <<ring, writer, reader, grabs, done, proc>>
  BY DEF Cam!TrackerInit, Cam!TrackerPause, Cam!TrackerResume, Cam!TrackerClose,
         Cam!WaitChildExit, Cam!passing
<1>2. camAt' = camAt \/ camAt' = [camAt EXCEPT ![forked + 1] = "open"]
  BY DEF Cam!TrackerInit, Cam!TrackerPause, Cam!TrackerResume, Cam!TrackerClose,
         Cam!WaitChildExit, Cam!loop
<1>3. CamTypes'
  BY <1>1, <1>2 DEF CamInv, CamTypes
<1>4. \A c \in Processes : camAt'[c] # "write" \/ camAt'[c] = camAt[c]
  BY <1>2 DEF CamInv, CamTypes
<1>5. \A c \in Processes :
        PassingOK(ring[c], writer[c], reader[c], done[c], grabs[c], camAt'[c], proc[c])
  BY <1>4, ElsewherePasses DEF CamInv
<1> QED
  BY <1>1, <1>3, <1>5 DEF CamInv

\* The threads of a process where they leave the ring alone.
LEMMA CamElsewhere ==
  ASSUME CamInv, NEW c \in Processes,
         \/ Cam!Open(c) \/ Cam!Poll(c) \/ Cam!PollStop(c) \/ Cam!Joined(c) \/ Cam!Crash(c)
         \/ Cam!Top(c) \/ Cam!Wait(c) \/ Cam!Look(c)
  PROVE  CamInv' /\ done' = done
<1>1. UNCHANGED <<ring, writer, reader, grabs, done>>
  BY DEF Cam!Open, Cam!Poll, Cam!PollStop, Cam!Joined, Cam!Crash, Cam!Top, Cam!Wait, Cam!Look,
         Cam!passing
<1>2. \/ camAt' = camAt
      \/ \E at \in {"loop", "gone", "join"} : camAt' = [camAt EXCEPT ![c] = at]
  BY DEF Cam!Open, Cam!Poll, Cam!PollStop, Cam!Joined, Cam!Crash, Cam!Top, Cam!Wait, Cam!Look,
         Cam!loop
<1>3. \/ proc' = proc
      \/ \E pr \in {"top", "ended", "wait", "look"} : proc' = [proc EXCEPT ![c] = pr]
      \/ ring[c][reader[c]].filled /\ proc' = [proc EXCEPT ![c] = "work"]
  BY DEF Cam!Open, Cam!Poll, Cam!PollStop, Cam!Joined, Cam!Crash, Cam!Top, Cam!Wait, Cam!Look
<1>4. \E at : camAt' = [camAt EXCEPT ![c] = at] /\ (at # "write" \/ at = camAt[c])
  <2>1. camAt = [camAt EXCEPT ![c] = camAt[c]]
    BY DEF CamInv, CamTypes
  <2> QED
    BY <1>2, <2>1
<1>5. \E pr : /\ proc' = [proc EXCEPT ![c] = pr]
              /\ pr = "work" => proc[c] = "work" \/ ring[c][reader[c]].filled
  <2>1. proc = [proc EXCEPT ![c] = proc[c]]
    BY DEF CamInv, CamTypes
  <2> QED
    BY <1>3, <2>1
<1>6. Elsewhere(c)
  BY <1>1, <1>4, <1>5 DEF Elsewhere
<1> QED
  BY <1>1, <1>6, ElsewhereKeeps

\* An image is captured, and dropped if no buffer is empty.
LEMMA NewFrameKeeps ==
  ASSUME Cam!RingAssumption, CamInv, NEW c \in Processes, Cam!NewFrame(c)
  PROVE  CamInv' /\ done' = done
<1>1. /\ camAt[c] = "loop" /\ grabs' = [grabs EXCEPT ![c] = @ + 1]
      /\ UNCHANGED <<writer, reader, proc, done>>
  BY DEF Cam!NewFrame
<1>2. IF Cam!IsEmpty(c)
        THEN /\ ring' = [ring EXCEPT ![c][writer[c]].shot = Cam!Torn]
             /\ camAt' = [camAt EXCEPT ![c] = "write"]
        ELSE UNCHANGED <<ring, camAt>>
  BY DEF Cam!NewFrame
<1>3. /\ ring[c] \in Buffers /\ writer[c] \in Cam!Ring /\ reader[c] \in Cam!Ring
      /\ done[c] \in Nat /\ grabs[c] \in Nat
      /\ PassingOK(ring[c], writer[c], reader[c], done[c], grabs[c], camAt[c], proc[c])
  BY DEF CamInv, CamTypes
<1>4. grabs'[c] = grabs[c] + 1 /\ \A e \in Processes \ {c} : grabs'[e] = grabs[e]
  BY <1>1 DEF CamInv, CamTypes
<1>5. grabs' \in [Processes -> Nat]
  BY <1>1, <1>3 DEF CamInv, CamTypes
<1>6. CASE ~Cam!IsEmpty(c)
  <2>1. PassingOK(ring[c], writer[c], reader[c], done[c], grabs[c] + 1, camAt[c], proc[c])
    BY <1>1, <1>3, GrabPasses
  <2>2. CamTypes'
    BY <1>1, <1>2, <1>5, <1>6 DEF CamInv, CamTypes
  <2> QED
    BY <1>1, <1>2, <1>4, <1>6, <2>1, <2>2, OneProcess
<1>7. CASE Cam!IsEmpty(c)
  <2> DEFINE new == [ring[c] EXCEPT ![writer[c]].shot = Cam!Torn]
  <2>1. PassingOK(new, writer[c], reader[c], done[c], grabs[c] + 1, "write", proc[c])
    BY <1>1, <1>3, <1>7, GrabPasses DEF Cam!IsEmpty
  <2>2. new \in Buffers
    BY <1>3 DEF Buffers, Cam!Torn
  <2>3. ring' = [ring EXCEPT ![c] = new] /\ camAt' = [camAt EXCEPT ![c] = "write"]
    BY <1>2, <1>7
  <2> HIDE DEF new
  <2>4. /\ ring' \in [Processes -> Buffers] /\ ring'[c] = new /\ camAt'[c] = "write"
        /\ \A e \in Processes \ {c} : ring'[e] = ring[e] /\ camAt'[e] = camAt[e]
    BY <2>2, <2>3 DEF CamInv, CamTypes
  <2>5. CamTypes'
    BY <1>1, <1>5, <2>3, <2>4 DEF CamInv, CamTypes
  <2> QED
    BY <1>1, <1>4, <2>1, <2>4, <2>5, OneProcess
<1> QED
  BY <1>6, <1>7

\* The image is in its buffer.
LEMMA BufferWrittenKeeps ==
  ASSUME Cam!RingAssumption, CamInv, NEW c \in Processes, Cam!BufferWritten(c)
  PROVE  CamInv' /\ done' = done
<1> DEFINE new == [ring[c] EXCEPT ![writer[c]] = [shot |-> grabs[c], filled |-> TRUE]]
           w1 == (writer[c] + 1) % RingSize
<1>1. /\ camAt[c] = "write" /\ camAt' = [camAt EXCEPT ![c] = "loop"]
      /\ writer' = [writer EXCEPT ![c] = w1] /\ ring' = [ring EXCEPT ![c] = new]
      /\ UNCHANGED <<reader, grabs, proc, done>>
  BY DEF Cam!BufferWritten
<1>2. /\ ring[c] \in Buffers /\ writer[c] \in Cam!Ring /\ reader[c] \in Cam!Ring
      /\ done[c] \in Nat /\ grabs[c] \in Nat
      /\ PassingOK(ring[c], writer[c], reader[c], done[c], grabs[c], "write", proc[c])
  BY <1>1 DEF CamInv, CamTypes
<1>3. PassingOK(new, w1, reader[c], done[c], grabs[c], "loop", proc[c])
  BY <1>2, WritePasses
<1>4. new \in Buffers /\ w1 \in Cam!Ring
  BY <1>2, NextBuffer DEF Buffers
<1> HIDE DEF new, w1
<1>5. /\ ring' \in [Processes -> Buffers] /\ ring'[c] = new /\ camAt'[c] = "loop"
      /\ writer' \in [Processes -> Cam!Ring] /\ writer'[c] = w1
      /\ \A e \in Processes \ {c} :
           ring'[e] = ring[e] /\ camAt'[e] = camAt[e] /\ writer'[e] = writer[e]
  BY <1>1, <1>4 DEF CamInv, CamTypes
<1>6. CamTypes'
  BY <1>1, <1>5 DEF CamInv, CamTypes
<1> QED
  BY <1>1, <1>3, <1>5, <1>6, OneProcess

\* An image has been processed, which is newer than those before.
LEMMA ProcessedKeeps ==
  ASSUME Cam!RingAssumption, CamInv, NEW c \in Processes, Cam!Processed(c)
  PROVE  CamInv' /\ Cam!LaterImage
<1> DEFINE new == [ring[c] EXCEPT ![reader[c]].filled = FALSE]
           r1 == (reader[c] + 1) % RingSize
           d1 == ring[c][reader[c]].shot
<1>1. /\ proc[c] = "work" /\ proc' = [proc EXCEPT ![c] = "top"]
      /\ reader' = [reader EXCEPT ![c] = r1] /\ ring' = [ring EXCEPT ![c] = new]
      /\ done' = [done EXCEPT ![c] = d1]
      /\ UNCHANGED <<writer, grabs, camAt>>
  BY DEF Cam!Processed, Cam!loop
<1>2. /\ ring[c] \in Buffers /\ writer[c] \in Cam!Ring /\ reader[c] \in Cam!Ring
      /\ done[c] \in Nat /\ grabs[c] \in Nat
      /\ PassingOK(ring[c], writer[c], reader[c], done[c], grabs[c], camAt[c], "work")
  BY <1>1 DEF CamInv, CamTypes
<1>3. d1 > done[c] /\ PassingOK(new, writer[c], r1, d1, grabs[c], camAt[c], "top")
  BY <1>2, ReadPasses
<1>4. new \in Buffers /\ r1 \in Cam!Ring /\ d1 \in Nat
  BY <1>2, NextBuffer DEF Buffers
<1> HIDE DEF new, r1, d1
<1>5. /\ ring' \in [Processes -> Buffers] /\ ring'[c] = new /\ proc'[c] = "top"
      /\ reader' \in [Processes -> Cam!Ring] /\ reader'[c] = r1
      /\ done' \in [Processes -> Nat] /\ done'[c] = d1
      /\ \A e \in Processes \ {c} : /\ ring'[e] = ring[e] /\ proc'[e] = proc[e]
                                    /\ reader'[e] = reader[e] /\ done'[e] = done[e]
  BY <1>1, <1>4 DEF CamInv, CamTypes
<1>6. CamTypes'
  BY <1>1, <1>5 DEF CamInv, CamTypes
<1>7. CamInv'
  BY <1>1, <1>3, <1>5, <1>6, OneProcess
<1>8. Cam!LaterImage
  BY <1>3, <1>5 DEF Cam!LaterImage, Processes
<1> QED
  BY <1>7, <1>8

\* Every step keeps the ring in order, and takes a later image from it.
LEMMA CamStep ==
  ASSUME Cam!RingAssumption, CamInv, [Cam!CamNext]_(Cam!camVars)
  PROVE  CamInv' /\ Cam!LaterImage
<1>1. CASE UNCHANGED Cam!camVars
  <2>1. UNCHANGED <<camAt, proc, ring, writer, reader, grabs, done>>
    BY <1>1 DEF Cam!camVars, Cam!loop, Cam!passing
  <2> QED
    BY <2>1 DEF CamInv, CamTypes, Cam!LaterImage
<1>2. done' = done => Cam!LaterImage
  BY DEF Cam!LaterImage
<1>3. CASE \/ Cam!TrackerInit \/ Cam!TrackerPause \/ Cam!TrackerResume
           \/ Cam!TrackerClose \/ Cam!WaitChildExit
  BY <1>2, <1>3, CamDriverKeeps
<1>4. ASSUME NEW c \in Processes,
             \/ Cam!CaptureGoes(c) \/ Cam!ProcessGoes(c) \/ Cam!NewFrame(c) \/ Cam!Crash(c)
      PROVE  CamInv' /\ Cam!LaterImage
  BY <1>2, <1>4, CamElsewhere, NewFrameKeeps, BufferWrittenKeeps, ProcessedKeeps
     DEF Cam!CaptureGoes, Cam!ProcessGoes
<1> QED
  BY <1>1, <1>3, <1>4 DEF Cam!CamNext, Processes

\* The ring of every process is in order.
THEOREM CamInvariance ==
  ASSUME Cam!RingAssumption PROVE Cam!Init /\ [][Cam!CamNext]_(Cam!camVars) => []CamInv
<1>1. Cam!Init => CamInv
  <2> SUFFICES ASSUME Cam!Init PROVE CamInv
    OBVIOUS
  <2>1. 0 \in Cam!Ring
    BY DEF Cam!Ring, Cam!RingAssumption
  <2> DEFINE none == [b \in Cam!Ring |-> [shot |-> Cam!Torn, filled |-> FALSE]]
  <2>2. none \in Buffers /\ \A b \in Cam!Ring : ~none[b].filled
    BY DEF Buffers, Cam!Torn
  <2>3. ring = [c \in Processes |-> none]
    BY DEF Cam!Init, Cam!Each, Processes
  <2> HIDE DEF none
  <2>4. CamTypes
    BY <2>1, <2>2, <2>3 DEF Cam!Init, Cam!Each, CamTypes, Processes
  <2>5. PassingOK(none, 0, 0, 0, 0, "none", "none")
    <3>1. Filled(none, 0, 0, 0)
      BY <2>2 DEF Filled, Behind, Cam!Ring, Cam!RingAssumption
    <3>2. ShotsAscend(none, 0, 0, 0)
      BY <2>2 DEF ShotsAscend
    <3> QED
      BY <3>1, <3>2 DEF PassingOK, Cam!RingAssumption
  <2> QED
    BY <2>3, <2>4, <2>5 DEF CamInv, Cam!Init, Cam!Each, Processes
<1>2. CamInv /\ [Cam!CamNext]_(Cam!camVars) => CamInv'
  BY CamStep
<1> QED
  BY <1>1, <1>2, PTL

\* The images of the camera program are processed in the order in which they were
\* captured, although the two threads share the ring without a lock (mac/buffer.c) and
\* images are dropped.
THEOREM ImagesComeInOrder ==
  ASSUME Cam!RingAssumption
  PROVE  Cam!Init /\ [][Cam!CamNext]_(Cam!camVars) => [][Cam!LaterImage]_(Cam!camVars)
<1>1. CamInv /\ [Cam!CamNext]_(Cam!camVars) => [Cam!LaterImage]_(Cam!camVars)
  BY CamStep
<1> QED
  BY <1>1, CamInvariance, PTL

------------------------------------------------------------------------------
(***************************************************************************)
(* The variables of each component have their types, for any values of its *)
(* constants.  What its inductive invariant says of them is taken from     *)
(* there; the rest are the flags, the counts and what is only read.        *)
(***************************************************************************)

------------------------------------------------------------------------------
(***************************************************************************)
(* The types of WiiServer, by the groups of its variables.                 *)
(***************************************************************************)
WiiOrders == {"STOP", "SLEEP", "WAKEUP"}
WiiBlobs == [num : 0 .. MaxPoints, of : [Wii!Points -> Wii!Reports]]
WiiSignals == {"DISCONNECTED", "CONNECTING", "CONNECTED"}
WiiWindows == [state : {"gone"} \cup WiiSignals, timer : BOOLEAN, oldCmd : WiiOrders,
               slot : {"none"} \cup WiiOrders]
WiiThreads == [at : {"ended", "open", "loop", "close"}, exit : BOOLEAN]

WiiShared ==
  /\ command \in WiiOrders /\ counter \in Wii!Reports /\ points \in WiiBlobs
  /\ filled \in BOOLEAN /\ picture \in [PictureParts -> Wii!Reports]
WiiMaster ==
  /\ driver \in {"closed", "init", "paused", "run", "copy", "new", "get", "count"}
  /\ lastVal \in Wii!Reports /\ got \in WiiBlobs
  /\ copied \in [part : [PictureParts -> Wii!Reports], left : SUBSET PictureParts]
  /\ delivered \in Wii!Reports /\ orders \in 0 .. MaxOrders
WiiServes ==
  /\ window \in WiiWindows /\ signals \in Seq(WiiSignals) /\ thread \in WiiThreads
  /\ mode \in {"none", "status", "ir"} /\ links \in 0 .. MaxLinks
WiiCalls ==
  callback \in [at : {"idle", "draw", "blobs", "flag"}, fresh : BOOLEAN,
                left : SUBSET PictureParts]

\* The types of WiiServer by the party that has the variables.
LEMMA WiiGroups ==
  /\ Wii!TypeOK <=> WiiShared /\ WiiMaster /\ overruled \in BOOLEAN /\ WiiServes /\ WiiCalls
  /\ Wii!TypeOK' <=>
       WiiShared' /\ WiiMaster' /\ overruled' \in BOOLEAN /\ WiiServes' /\ WiiCalls'
  /\ UNCHANGED Wii!shared /\ WiiShared => WiiShared'
  /\ UNCHANGED Wii!master /\ WiiMaster => WiiMaster'
  /\ UNCHANGED Wii!server /\ WiiServes => WiiServes'
<1>1. WiiWindows = [state : {"gone", "DISCONNECTED", "CONNECTING", "CONNECTED"},
                    timer : BOOLEAN, oldCmd : {"STOP", "SLEEP", "WAKEUP"},
                    slot : {"none", "STOP", "SLEEP", "WAKEUP"}]
  <2>1. /\ {"gone"} \cup WiiSignals = {"gone", "DISCONNECTED", "CONNECTING", "CONNECTED"}
        /\ {"none"} \cup WiiOrders = {"none", "STOP", "SLEEP", "WAKEUP"}
    BY DEF WiiSignals, WiiOrders
  <2> QED
    BY <2>1, Zenon DEF WiiWindows, WiiOrders
<1>2. /\ Wii!TypeOK <=> WiiShared /\ WiiMaster /\ overruled \in BOOLEAN /\ WiiServes /\ WiiCalls
      /\ Wii!TypeOK' <=>
           WiiShared' /\ WiiMaster' /\ overruled' \in BOOLEAN /\ WiiServes' /\ WiiCalls'
  BY <1>1, Zenon DEF Wii!TypeOK, WiiShared, WiiMaster, WiiServes, WiiCalls, WiiOrders, WiiBlobs,
                     WiiSignals, WiiThreads
<1>3. /\ UNCHANGED Wii!shared /\ WiiShared => WiiShared'
      /\ UNCHANGED Wii!master /\ WiiMaster => WiiMaster'
      /\ UNCHANGED Wii!server /\ WiiServes => WiiServes'
  BY DEF Wii!shared, Wii!master, Wii!server, WiiShared, WiiMaster, WiiServes
<1> QED
  BY <1>2, <1>3

\* The driver.
LEMMA WiiDriverTypes ==
  ASSUME Wii!PointsAssumption, Wii!TypeOK, Wii!Driver
  PROVE  Wii!TypeOK'
<1>1. WiiShared /\ WiiMaster /\ WiiServes /\ WiiCalls /\ overruled \in BOOLEAN
  BY WiiGroups
<1>2. UNCHANGED <<Wii!server, callback>>
  BY DEF Wii!Driver, Wii!DriverInit, Wii!DriverWakeup, Wii!DriverPause, Wii!DriverClose,
         Wii!LookAtFlag, Wii!CopyPicture, Wii!PictureCopied, Wii!HaveNewBlobs, Wii!GetBlobs,
         Wii!CountBlobs
<1>3. WiiServes' /\ WiiCalls'
  BY <1>1, <1>2, WiiGroups DEF WiiCalls
<1>4. WiiShared' /\ overruled' \in BOOLEAN
  BY <1>1 DEF Wii!Driver, Wii!DriverInit, Wii!DriverWakeup, Wii!DriverPause, Wii!DriverClose,
              Wii!LookAtFlag, Wii!CopyPicture, Wii!PictureCopied, Wii!HaveNewBlobs,
              Wii!GetBlobs, Wii!CountBlobs, Wii!Command, Wii!shared, WiiShared, WiiOrders
<1>5. got' \in WiiBlobs
  <2>1. CASE Wii!DriverInit \/ Wii!CountBlobs
    BY <1>1, <2>1 DEF Wii!DriverInit, Wii!CountBlobs, WiiShared, WiiMaster, WiiBlobs,
                      Wii!PointsAssumption
  <2>2. CASE Wii!GetBlobs
    BY <1>1, <2>2 DEF Wii!GetBlobs, WiiShared, WiiMaster, WiiBlobs
  <2>3. CASE UNCHANGED got
    BY <1>1, <2>3 DEF WiiMaster
  <2> QED
    BY <2>1, <2>2, <2>3
       DEF Wii!Driver, Wii!DriverWakeup, Wii!DriverPause, Wii!DriverClose,
           Wii!LookAtFlag, Wii!CopyPicture, Wii!PictureCopied, Wii!HaveNewBlobs
<1>6. copied' \in [part : [PictureParts -> Wii!Reports], left : SUBSET PictureParts]
  <2>1. CASE Wii!LookAtFlag
    BY <1>1, <2>1 DEF Wii!LookAtFlag, WiiMaster
  <2>2. ASSUME NEW p \in PictureParts, Wii!CopyPicture(p)
        PROVE  copied' \in [part : [PictureParts -> Wii!Reports], left : SUBSET PictureParts]
    BY <1>1, <2>2 DEF Wii!CopyPicture, WiiMaster, WiiShared
  <2>3. CASE UNCHANGED copied
    BY <1>1, <2>3 DEF WiiMaster
  <2> QED
    BY <2>1, <2>2, <2>3
       DEF Wii!Driver, Wii!DriverInit, Wii!DriverWakeup, Wii!DriverPause, Wii!DriverClose,
           Wii!PictureCopied, Wii!HaveNewBlobs, Wii!GetBlobs, Wii!CountBlobs
<1>7. /\ driver' \in {"closed", "init", "paused", "run", "copy", "new", "get", "count"}
      /\ lastVal' \in Wii!Reports /\ delivered' \in Wii!Reports /\ orders' \in 0 .. MaxOrders
  BY <1>1 DEF Wii!Driver, Wii!DriverInit, Wii!DriverWakeup, Wii!DriverPause, Wii!DriverClose,
              Wii!LookAtFlag, Wii!CopyPicture, Wii!PictureCopied, Wii!HaveNewBlobs,
              Wii!GetBlobs, Wii!CountBlobs, WiiShared, WiiMaster, Wii!PointsAssumption
<1> QED
  BY <1>3, <1>4, <1>5, <1>6, <1>7, WiiGroups DEF WiiMaster

\* The window and the thread of the server.
LEMMA WiiServerTypes ==
  ASSUME Wii!PointsAssumption, Wii!TypeOK, Wii!Window \/ Wii!Thread
  PROVE  Wii!TypeOK'
<1>1. WiiShared /\ WiiMaster /\ WiiServes /\ WiiCalls /\ overruled \in BOOLEAN
  BY WiiGroups
<1>2. UNCHANGED <<Wii!master, counter, points, filled, picture>>
  BY DEF Wii!Window, Wii!Thread, Wii!PressButton, Wii!UpdateState, Wii!HandleCommand, Wii!Slot,
         Wii!SlotCrashes, Wii!Quit, Wii!Restart, Wii!Open, Wii!ConnectionLost, Wii!Close,
         Wii!Ended, Wii!shared
<1>3. /\ command' \in {command, "STOP"} /\ overruled' \in BOOLEAN
      /\ callback' \in {callback, Wii!Rest}
  BY <1>1 DEF Wii!Window, Wii!Thread, Wii!PressButton, Wii!UpdateState, Wii!HandleCommand,
              Wii!Slot, Wii!SlotCrashes, Wii!Quit, Wii!Restart, Wii!Gone, Wii!Open,
              Wii!ConnectionLost, Wii!Close, Wii!Ended, Wii!shared
<1>4. WiiShared' /\ WiiMaster' /\ WiiCalls'
  <2>1. WiiShared'
    BY <1>1, <1>2, <1>3 DEF WiiShared, WiiOrders
  <2>2. WiiMaster'
    BY <1>1, <1>2, WiiGroups
  <2>3. Wii!Rest \in [at : {"idle", "draw", "blobs", "flag"}, fresh : BOOLEAN,
                      left : SUBSET PictureParts]
    BY Zenon DEF Wii!Rest
  <2> QED
    BY <1>1, <1>3, <2>1, <2>2, <2>3 DEF WiiCalls
<1>5. /\ signals' \in Seq(WiiSignals) /\ links' \in 0 .. MaxLinks
      /\ mode' \in {"none", "status", "ir"}
  <2>1. \A s \in Seq(WiiSignals) :
          /\ \A x \in WiiSignals : Append(s, x) \in Seq(WiiSignals)
          /\ s # <<>> => Tail(s) \in Seq(WiiSignals)
          /\ <<>> \in Seq(WiiSignals)
    OBVIOUS
  <2>2. /\ signals' \in {signals, <<>>} \cup {Append(signals, x) : x \in WiiSignals}
                        \cup (IF signals # <<>> THEN {Tail(signals)} ELSE {})
        /\ mode' \in {mode, "none", "status", "ir"}
    BY DEF Wii!Window, Wii!Thread, Wii!PressButton, Wii!UpdateState, Wii!HandleCommand,
           Wii!Slot, Wii!SlotCrashes, Wii!Quit, Wii!Restart, Wii!Gone, Wii!Open,
           Wii!ConnectionLost, Wii!Close, Wii!Ended, WiiSignals
  <2>3. links' = links \/ (links < MaxLinks /\ links' = links + 1)
    BY DEF Wii!Window, Wii!Thread, Wii!PressButton, Wii!UpdateState, Wii!HandleCommand,
           Wii!Slot, Wii!SlotCrashes, Wii!Quit, Wii!Restart, Wii!Open, Wii!ConnectionLost,
           Wii!Close, Wii!Ended
  <2>4. signals \in Seq(WiiSignals) /\ mode \in {"none", "status", "ir"} /\ links \in 0 .. MaxLinks
    BY <1>1 DEF WiiServes
  <2>5. signals' \in Seq(WiiSignals)
    BY <2>1, <2>2, <2>4
  <2>6. links' \in 0 .. MaxLinks
    BY <2>3, <2>4 DEF Wii!PointsAssumption
  <2> QED
    BY <2>2, <2>4, <2>5, <2>6
<1>6. thread' \in WiiThreads
  <2>1. \/ UNCHANGED thread
        \/ thread' \in {[at |-> a, exit |-> FALSE] : a \in {"open", "ended"}}
        \/ thread' \in {[thread EXCEPT !.at = a] : a \in {"loop", "ended", "close"}}
        \/ thread' = [thread EXCEPT !.exit = TRUE]
    BY DEF Wii!Window, Wii!Thread, Wii!PressButton, Wii!UpdateState, Wii!HandleCommand,
           Wii!Slot, Wii!SlotCrashes, Wii!Quit, Wii!Restart, Wii!Gone, Wii!Open,
           Wii!ConnectionLost, Wii!Close, Wii!Ended
  <2>2. thread \in WiiThreads
    BY <1>1 DEF WiiServes
  <2>3. /\ \A a \in {"open", "ended"} : [at |-> a, exit |-> FALSE] \in WiiThreads
        /\ \A a \in {"loop", "ended", "close"} : [thread EXCEPT !.at = a] \in WiiThreads
        /\ [thread EXCEPT !.exit = TRUE] \in WiiThreads
    BY <2>2 DEF WiiThreads
  <2> QED
    BY <2>1, <2>2, <2>3
<1>7. window' \in WiiWindows
  <2>1. /\ window = [state |-> window.state, timer |-> window.timer, oldCmd |-> window.oldCmd,
                     slot |-> window.slot]
        /\ window.state \in {"gone"} \cup WiiSignals /\ window.timer \in BOOLEAN
        /\ window.oldCmd \in WiiOrders /\ window.slot \in {"none"} \cup WiiOrders
    BY <1>1 DEF WiiServes, WiiWindows
  <2>2. CASE Wii!UpdateState
    <3>1. Head(signals) \in WiiSignals
      BY <1>1, <2>2 DEF Wii!UpdateState, WiiServes
    <3> QED
      BY <2>1, <2>2, <3>1 DEF Wii!UpdateState, WiiWindows, WiiOrders
  <2>3. CASE Wii!HandleCommand
    BY <1>1, <2>1, <2>3 DEF Wii!HandleCommand, WiiShared, WiiWindows
  <2>4. CASE Wii!Slot \/ Wii!SlotCrashes \/ Wii!Quit \/ Wii!Restart
    BY <2>1, <2>4 DEF Wii!Slot, Wii!SlotCrashes, Wii!Quit, Wii!Restart, WiiWindows, WiiSignals,
                      WiiOrders
  <2>5. CASE UNCHANGED window
    BY <1>1, <2>5 DEF WiiServes
  <2> QED
    BY <2>2, <2>3, <2>4, <2>5
       DEF Wii!Window, Wii!Thread, Wii!PressButton, Wii!Open, Wii!ConnectionLost, Wii!Close,
           Wii!Ended
<1> QED
  BY <1>3, <1>4, <1>5, <1>6, <1>7, WiiGroups DEF WiiServes

\* The call with a report.
LEMMA WiiCallbackTypes ==
  ASSUME Wii!PointsAssumption, Wii!TypeOK, Wii!Callback,
         callback.at \in {"draw", "blobs"} => counter < MaxReports
  PROVE  Wii!TypeOK'
<1>1. WiiShared /\ WiiMaster /\ WiiServes /\ WiiCalls /\ overruled \in BOOLEAN
  BY WiiGroups
<1>2. UNCHANGED <<Wii!master, Wii!server, overruled, command>>
  BY DEF Wii!Callback, Wii!Report, Wii!DrawPicture, Wii!SetBlobs, Wii!SetFrameFlag, Wii!shared
<1>3. WiiMaster' /\ WiiServes' /\ overruled' \in BOOLEAN /\ command' \in WiiOrders
  <2>1. WiiMaster' /\ WiiServes'
    BY <1>1, <1>2, WiiGroups
  <2> QED
    BY <1>1, <1>2, <2>1 DEF WiiShared
<1>4. counter \in Nat /\ (callback.at \in {"draw", "blobs"} => counter + 1 \in Wii!Reports)
  BY <1>1 DEF WiiShared, Wii!Reports, Wii!PointsAssumption
<1>5. counter' \in Wii!Reports /\ filled' \in BOOLEAN
  BY <1>1, <1>4 DEF Wii!Callback, Wii!Report, Wii!DrawPicture, Wii!SetBlobs, Wii!SetFrameFlag,
                    Wii!shared, WiiShared
<1>6. points' \in WiiBlobs
  <2>1. CASE Wii!SetBlobs
    BY <1>1, <1>4, <2>1 DEF Wii!SetBlobs, WiiShared, WiiBlobs
  <2>2. CASE UNCHANGED points
    BY <1>1, <2>2 DEF WiiShared
  <2> QED
    BY <2>1, <2>2 DEF Wii!Callback, Wii!Report, Wii!DrawPicture, Wii!SetFrameFlag, Wii!shared
<1>7. picture' \in [PictureParts -> Wii!Reports] /\ WiiCalls'
  <2>1. CASE Wii!Report \/ Wii!SetBlobs \/ Wii!SetFrameFlag
    <3>1. UNCHANGED picture
      BY <2>1 DEF Wii!Report, Wii!SetBlobs, Wii!SetFrameFlag, Wii!shared
    <3>2. callback' \in {Wii!Rest, [callback EXCEPT !.at = "flag"],
                         [at |-> "blobs", fresh |-> FALSE, left |-> {}],
                         [at |-> "draw", fresh |-> TRUE, left |-> PictureParts]}
      BY <2>1 DEF Wii!Report, Wii!SetBlobs, Wii!SetFrameFlag
    <3>3. WiiCalls'
      <4> DEFINE Calls == [at : {"idle", "draw", "blobs", "flag"}, fresh : BOOLEAN,
                           left : SUBSET PictureParts]
      <4>1. Wii!Rest \in Calls /\ [callback EXCEPT !.at = "flag"] \in Calls
        BY <1>1 DEF Wii!Rest, WiiCalls
      <4>2. /\ [at |-> "blobs", fresh |-> FALSE, left |-> {}] \in Calls
            /\ [at |-> "draw", fresh |-> TRUE, left |-> PictureParts] \in Calls
        OBVIOUS
      <4> QED
        BY <3>2, <4>1, <4>2 DEF WiiCalls
    <3> QED
      BY <1>1, <3>1, <3>3 DEF WiiShared
  <2>2. ASSUME NEW p \in PictureParts, Wii!DrawPicture(p)
        PROVE  picture' \in [PictureParts -> Wii!Reports] /\ WiiCalls'
    <3>1. picture' \in [PictureParts -> Wii!Reports]
      BY <1>1, <1>4, <2>2 DEF Wii!DrawPicture, WiiShared
    <3>2. WiiCalls'
      BY <1>1, <2>2 DEF Wii!DrawPicture, WiiCalls
    <3> QED
      BY <3>1, <3>2
  <2> QED
    BY <2>1, <2>2 DEF Wii!Callback
<1> QED
  BY <1>3, <1>5, <1>6, <1>7, WiiGroups DEF WiiShared

\* The variables of WiiServer have their types; a report that is drawn is one of those there
\* may be by WiiInv.
THEOREM WiiTypeCorrect ==
  ASSUME Wii!PointsAssumption PROVE Wii!Init /\ [][Wii!WiiNext]_(Wii!wiiVars) => []Wii!TypeOK
<1>1. Wii!Init => Wii!TypeOK
  <2> SUFFICES ASSUME Wii!Init
               PROVE  Wii!TypeOK
    OBVIOUS
  <2>1. 0 \in Wii!Reports /\ 0 \in 0 .. MaxPoints /\ MaxPoints \in 0 .. MaxPoints
    BY DEF Wii!Reports, Wii!PointsAssumption
  <2>2. WiiShared
    BY <2>1 DEF Wii!Init, WiiShared, WiiOrders, WiiBlobs
  <2>3. WiiMaster
    BY <2>1 DEF Wii!Init, WiiMaster, WiiBlobs, Wii!PointsAssumption
  <2>4. WiiServes /\ WiiCalls /\ overruled \in BOOLEAN
    <3>1. window \in WiiWindows /\ thread \in WiiThreads
      BY DEF Wii!Init, WiiWindows, WiiThreads, WiiSignals, WiiOrders
    <3>2. WiiCalls
      BY DEF Wii!Init, Wii!Rest, WiiCalls
    <3>3. signals = <<>> /\ mode = "none" /\ links = 0 /\ overruled = FALSE
      BY DEF Wii!Init
    <3>4. 0 \in 0 .. MaxLinks /\ <<>> \in Seq(WiiSignals)
      BY DEF Wii!PointsAssumption
    <3> QED
      BY <3>1, <3>2, <3>3, <3>4 DEF WiiServes
  <2> QED
    BY <2>2, <2>3, <2>4, WiiGroups
<1>2. WiiInv /\ Wii!TypeOK /\ [Wii!WiiNext]_(Wii!wiiVars) => Wii!TypeOK'
  <2>1. Wii!TypeOK /\ UNCHANGED Wii!wiiVars => Wii!TypeOK'
    BY WiiGroups DEF Wii!wiiVars, WiiCalls
  <2>2. WiiInv => (callback.at \in {"draw", "blobs"} => counter < MaxReports)
    BY DEF WiiInv, Drawn
  <2> QED
    BY <2>1, <2>2, WiiDriverTypes, WiiServerTypes, WiiCallbackTypes DEF Wii!WiiNext
<1> QED
  BY <1>1, <1>2, WiiInvariance, PTL

\* What is still to be written is an end of what is written for a pose.
Ends(f) == {SubSeq(Pip!Writes(f), i, Len(Pip!Writes(f))) : i \in 1 .. Len(Pip!Writes(f)) + 1}

\* So is what is left.
Pending == \E f \in Pip!Formats : pending \in Ends(f)

\* What is written for a pose is a sequence.
LEMMA WritesAre == \A f \in Pip!Formats : \E S : Pip!Writes(f) \in Seq(S)
<1> TAKE f \in Pip!Formats
<1> DEFINE Values == {"h", "p", "r", "x", "y", "z", "counter", "1", "-h", "-p", "-r", "-x", "-z"}
           s == Pip!Fields[f]
           T == Seq(Values)
<1>1. s \in Seq(Values)
  <2>1. f \in {"default", "flightgear", "il2", "il2_6dof", "headtrack", "silentwings", "mouse",
               "uinput_rel", "uinput_abs"}
    BY DEF Pip!Formats, Pip!Fields
  <2>2. /\ Pip!Fields.default \in T /\ Pip!Fields.headtrack \in T /\ Pip!Fields.flightgear \in T
    BY DEF Pip!Fields
  <2>3. /\ Pip!Fields.il2_6dof \in T /\ Pip!Fields.uinput_abs \in T /\ Pip!Fields.il2 \in T
    BY DEF Pip!Fields
  <2>4. /\ Pip!Fields.uinput_rel \in T /\ Pip!Fields.silentwings \in T /\ Pip!Fields.mouse \in T
    BY DEF Pip!Fields
  <2> QED
    BY <2>1, <2>2, <2>3, <2>4, Zenon
<1>2. \A i \in 1 .. Len(s) : <<s[i]>> \in Seq(Values)
  <2> HIDE DEF s, Values
  <2> QED
    BY <1>1
<1>3. Len(s) \in Nat /\ \A n \in Nat : [1 .. n -> Seq(Values)] \subseteq Seq(Seq(Values))
  <2> HIDE DEF s, Values
  <2> QED
    BY <1>1
<1>4. [i \in 1 .. Len(s) |-> <<s[i]>>] \in Seq(T)
  <2> HIDE DEF s, T
  <2>1. [i \in 1 .. Len(s) |-> <<s[i]>>] \in [1 .. Len(s) -> T]
    BY <1>2 DEF T
  <2> QED
    BY <1>3, <2>1 DEF T
<1>5. \A x : \A q \in Seq(T) : Append(q, x) \in Seq(T \cup {x})
  <2> HIDE DEF T
  <2> QED
    OBVIOUS
<1>6. <<s>> \in Seq(T)
  <2>1. s \in T
    BY <1>1
  <2> HIDE DEF s, T
  <2> QED
    BY <2>1
<1>7. \/ Pip!Writes(f) = Append([i \in 1 .. Len(s) |-> <<s[i]>>], <<"sync">>)
      \/ Pip!Writes(f) = <<s>>
  BY DEF Pip!Writes
<1> HIDE DEF s, T
<1> QED
  BY <1>4, <1>5, <1>6, <1>7

\* An end of a sequence without its first is one.
LEMMA TailOfEnd ==
  ASSUME NEW S, NEW s \in Seq(S), NEW i \in 1 .. Len(s) + 1, SubSeq(s, i, Len(s)) # <<>>
  PROVE  i \in 1 .. Len(s) /\ Tail(SubSeq(s, i, Len(s))) = SubSeq(s, i + 1, Len(s))
OBVIOUS

\* What is left stays an end of what is written.
LEMMA PendingKept ==
  ASSUME Pending,
         \/ pending' = pending
         \/ pending # <<>> /\ pending' = Tail(pending)
         \/ \E f \in Pip!Formats : pending' = Pip!Writes(f)
  PROVE  Pending'
<1>1. CASE pending' = pending
  BY <1>1 DEF Pending
<1>2. CASE pending # <<>> /\ pending' = Tail(pending)
  <2>0. PICK f \in Pip!Formats : pending \in Ends(f)
    BY DEF Pending
  <2>1. PICK i \in 1 .. Len(Pip!Writes(f)) + 1 : pending = SubSeq(Pip!Writes(f), i, Len(Pip!Writes(f)))
    BY <2>0 DEF Ends
  <2>2. PICK S : Pip!Writes(f) \in Seq(S)
    BY WritesAre
  <2>3. /\ i \in 1 .. Len(Pip!Writes(f))
        /\ pending' = SubSeq(Pip!Writes(f), i + 1, Len(Pip!Writes(f)))
    BY <1>2, <2>1, <2>2, TailOfEnd
  <2>4. i + 1 \in 1 .. Len(Pip!Writes(f)) + 1
    BY <2>2, <2>3
  <2> QED
    BY <2>3, <2>4 DEF Pending, Ends
<1>3. CASE \E f \in Pip!Formats : pending' = Pip!Writes(f)
  <2>1. PICK f \in Pip!Formats : pending' = Pip!Writes(f)
    BY <1>3
  <2>2. PICK S : Pip!Writes(f) \in Seq(S)
    BY WritesAre
  <2>3. pending' = SubSeq(Pip!Writes(f), 1, Len(Pip!Writes(f))) /\ 1 \in 1 .. Len(Pip!Writes(f)) + 1
    BY <2>1, <2>2
  <2> QED
    BY <2>3 DEF Pending, Ends
<1> QED
  BY <1>1, <1>2, <1>3

\* The variables of Pipe have their types.
PipRest ==
  /\ pc \in {"options", "init", "poll", "top", "suspended", "suspending", "waking",
             "recenter", "call", "output", "pose", "select", "write", "exit", "shutdown", "gone"}
  /\ opts \in [output : Pip!Outputs \cup {"none"}, format : Pip!Formats, device : BOOLEAN]
  /\ run \in {"running", "suspend", "stopped", "wakeup"}
  /\ recenter \in BOOLEAN /\ terminate \in BOOLEAN /\ fd \in BOOLEAN
  /\ polls \in 0 .. MaxPolls /\ Pending
  /\ lib \in {"off", "on", "paused"} /\ asked \in BOOLEAN

\* Each variable of ltr_pipe keeps to its type (ltr_pipe.c).
THEOREM PipTypesHold == ASSUME Pip!PollsAssumption PROVE Pip!PipeSpec => []Pip!TypeOK
<1>1. Pip!Init => PipRest
  <2> SUFFICES ASSUME Pip!Init
               PROVE  PipRest
    OBVIOUS
  <2>1. opts \in [output : Pip!Outputs \cup {"none"}, format : Pip!Formats, device : BOOLEAN]
    BY DEF Pip!Init, Pip!Formats, Pip!Fields, Pip!NoOutput
  <2>2. Pending
    <3>1. "default" \in Pip!Formats
      BY DEF Pip!Formats, Pip!Fields
    <3>2. PICK S : Pip!Writes("default") \in Seq(S)
      BY <3>1, WritesAre
    <3>3. /\ Len(Pip!Writes("default")) + 1 \in 1 .. Len(Pip!Writes("default")) + 1
          /\ SubSeq(Pip!Writes("default"), Len(Pip!Writes("default")) + 1, Len(Pip!Writes("default"))) = <<>>
      BY <3>2
    <3> QED
      BY <3>1, <3>3 DEF Pip!Init, Pending, Ends
  <2>3. 0 \in 0 .. MaxPolls
    BY DEF Pip!PollsAssumption
  <2> QED
    BY <2>1, <2>2, <2>3 DEF Pip!Init, PipRest
<1>2. PipRest /\ [Pip!PipeNext]_(Pip!pipeVars) => PipRest'
  <2> SUFFICES ASSUME PipRest, [Pip!PipeNext]_(Pip!pipeVars)
               PROVE  PipRest'
    OBVIOUS
  <2> USE DEF Pip!Goto, Pip!Flags
  <2>1. pc' \in {"options", "init", "poll", "top", "suspended", "suspending", "waking",
                 "recenter", "call", "output", "pose", "select", "write", "exit", "shutdown", "gone"}
    BY Zenon DEF PipRest, Pip!PipeNext, Pip!pipeVars, Pip!ParseOpts, Pip!Sighup, Pip!Sigusr1,
       Pip!Sigterm, Pip!InitLibrary, Pip!Poll, Pip!Top, Pip!Suspended, Pip!SetRunState,
       Pip!Recentering, Pip!SetupOutput, Pip!SetupFile, Pip!SetupSock, Pip!GetPose, Pip!Select,
       Pip!Write, Pip!AtExit, Pip!Shutdown
  <2>2. \/ opts' = opts
        \/ \E o \in Pip!Outputs, f \in Pip!Formats, d \in BOOLEAN :
             opts' = [output |-> o, format |-> f, device |-> d]
    BY Zenon DEF Pip!PipeNext, Pip!pipeVars, Pip!ParseOpts, Pip!Sighup, Pip!Sigusr1,
       Pip!Sigterm, Pip!InitLibrary, Pip!Poll, Pip!Top, Pip!Suspended, Pip!SetRunState,
       Pip!Recentering, Pip!SetupOutput, Pip!GetPose, Pip!Select, Pip!Write, Pip!AtExit, Pip!Shutdown
  <2>3. /\ run' \in {"running", "suspend", "stopped", "wakeup"} /\ lib' \in {"off", "on", "paused"}
        /\ recenter' \in BOOLEAN /\ terminate' \in BOOLEAN /\ asked' \in BOOLEAN
    BY Zenon DEF PipRest, Pip!PipeNext, Pip!pipeVars, Pip!ParseOpts, Pip!Sighup, Pip!Sigusr1,
       Pip!Sigterm, Pip!InitLibrary, Pip!Poll, Pip!Top, Pip!Suspended, Pip!SetRunState,
       Pip!Recentering, Pip!SetupOutput, Pip!GetPose, Pip!Select, Pip!Write, Pip!AtExit, Pip!Shutdown
  <2>4. fd' \in BOOLEAN
    BY Zenon DEF PipRest, Pip!PipeNext, Pip!pipeVars, Pip!ParseOpts, Pip!Sighup, Pip!Sigusr1,
       Pip!Sigterm, Pip!InitLibrary, Pip!Poll, Pip!Top, Pip!Suspended, Pip!SetRunState,
       Pip!Recentering, Pip!SetupOutput, Pip!SetupFile, Pip!SetupSock, Pip!GetPose, Pip!Select,
       Pip!Write, Pip!AtExit, Pip!Shutdown
  <2>5. polls' = polls \/ (polls < MaxPolls /\ polls' = polls + 1)
    BY Zenon DEF Pip!PipeNext, Pip!pipeVars, Pip!ParseOpts, Pip!Sighup, Pip!Sigusr1,
       Pip!Sigterm, Pip!InitLibrary, Pip!Poll, Pip!Top, Pip!Suspended, Pip!SetRunState,
       Pip!Recentering, Pip!SetupOutput, Pip!GetPose, Pip!Select, Pip!Write, Pip!AtExit, Pip!Shutdown
  <2>6. \/ pending' = pending
        \/ pending # <<>> /\ pending' = Tail(pending)
        \/ pending' = Pip!Writes(opts.format)
    BY Zenon DEF Pip!PipeNext, Pip!pipeVars, Pip!ParseOpts, Pip!Sighup, Pip!Sigusr1,
       Pip!Sigterm, Pip!InitLibrary, Pip!Poll, Pip!Top, Pip!Suspended, Pip!SetRunState,
       Pip!Recentering, Pip!SetupOutput, Pip!GetPose, Pip!Select, Pip!Write, Pip!AtExit, Pip!Shutdown
  <2>7. Pending'
    BY <2>6, PendingKept DEF PipRest
  <2>8. opts' \in [output : Pip!Outputs \cup {"none"}, format : Pip!Formats, device : BOOLEAN]
    BY <2>2 DEF PipRest
  <2>9. polls' \in 0 .. MaxPolls
    BY <2>5 DEF PipRest, Pip!PollsAssumption
  <2> QED
    BY <2>1, <2>3, <2>4, <2>7, <2>8, <2>9 DEF PipRest
<1>3. PipRest => Pip!TypeOK
  BY Zenon DEF PipRest, Pending, Ends, Pip!TypeOK, Pip!NoOutput
<1> QED
  BY <1>1, <1>2, <1>3, PTL DEF Pip!PipeSpec

\* The types of what CliInv leaves out.  The library is opened by a call each time.
FunctionNames == {Cli!Functions[i] : i \in 1 .. 15}

\* Their types.
CliRest ==
  /\ program \in Cli!Programs \cup {"ended"} /\ system \in Systems
  /\ lib_handle \in BOOLEAN /\ fun \subseteq FunctionNames /\ opened <= uses
  /\ profile \in GameIds \cup {"Default", "off"} /\ cmd \in {"none", "run", "pause", "stop"}
  /\ counter <= MaxPoses /\ crypted \in BOOLEAN
  /\ lost \in {"none", "FTGetData"} \cup FunctionNames /\ uses \in 0 .. MaxUses

\* The loader sets pointers of the list.
LEMMA LoadedNames ==
  ASSUME fun \subseteq FunctionNames, NEW from, Cli!LoadFunctions(from)
  PROVE  fun' \subseteq FunctionNames
<1>1. Cli!Looked(from) \subseteq FunctionNames
  BY DEF Cli!Looked, FunctionNames
<1> QED
  BY <1>1 DEF Cli!LoadFunctions

\* What a step does to what the library is.
LEMMA CliNumbers ==
  ASSUME Cli!ClientAssumption, CliInv, CliInv', CliRest, [Cli!ClientNext]_(Cli!clientVars)
  PROVE  opened' <= uses' /\ uses' \in 0 .. MaxUses /\ counter' <= MaxPoses
<1>1. /\ opened \in Nat /\ opened' \in Nat /\ counter \in Nat /\ MaxUses \in Nat /\ MaxPoses \in Nat
      /\ uses \in Nat /\ uses <= MaxUses /\ opened <= uses /\ counter <= MaxPoses
  BY DEF CliInv, CliTypes, CliRest, Cli!ClientAssumption
<1>2. /\ \/ opened' \in {opened, opened - 1} /\ uses' = uses
         \/ opened' \in {opened, opened + 1, opened - 1} /\ uses' = uses + 1 /\ uses < MaxUses
      /\ counter' = counter \/ (counter < MaxPoses /\ counter' = counter + 1)
  BY DEF Cli!ClientNext, Cli!clientVars, Cli!Start, Cli!StartFreeTrack, Cli!CallInit, Cli!Tick, Cli!StopData,
         Cli!TickFreeTrack, Cli!Ends, Cli!CallShutdown, Cli!Call, Cli!Pose, Cli!Use, Cli!loader,
         Cli!library, Cli!LoaderFails, Cli!LoaderInit, Cli!LoaderShutdown
<1> QED
  BY <1>1, <1>2

\* Every step does so, and what is lost is one of them.
LEMMA CliNames ==
  ASSUME CliRest, [Cli!ClientNext]_(Cli!clientVars)
  PROVE  fun' \subseteq FunctionNames /\ lost' \in {"none", "FTGetData"} \cup FunctionNames
<1>1. \/ fun' \subseteq fun \/ \E from : Cli!LoadFunctions(from)
  BY DEF Cli!ClientNext, Cli!clientVars, Cli!Start, Cli!StartFreeTrack, Cli!CallInit, Cli!Tick, Cli!StopData,
         Cli!TickFreeTrack, Cli!Ends, Cli!CallShutdown, Cli!Call, Cli!Pose, Cli!loader, Cli!LoaderFails,
         Cli!LoaderInit, Cli!LoaderShutdown
<1>2. \/ lost' \in {lost, "FTGetData", "shutdown"} \/ \E i \in 3 .. 15 : lost' = Cli!Functions[i]
  BY DEF Cli!ClientNext, Cli!clientVars, Cli!Start, Cli!StartFreeTrack, Cli!CallInit, Cli!Tick, Cli!StopData,
         Cli!TickFreeTrack, Cli!Ends, Cli!CallShutdown, Cli!Call, Cli!Pose
<1>3. "shutdown" \in FunctionNames /\ 3 .. 15 \subseteq 1 .. 15
  BY FunctionsAre DEF FunctionNames
<1> QED
  BY <1>1, <1>2, <1>3, LoadedNames DEF CliRest, FunctionNames

\* The rest of a step.
LEMMA CliOthers ==
  ASSUME CliRest, [Cli!ClientNext]_(Cli!clientVars)
  PROVE  /\ program' \in Cli!Programs \cup {"ended"} /\ system' \in Systems /\ lib_handle' \in BOOLEAN
         /\ profile' \in GameIds \cup {"Default", "off"} /\ cmd' \in {"none", "run", "pause", "stop"}
         /\ crypted' \in BOOLEAN
<1>1. system' = system /\ program' \in {program, "ended"}
  BY DEF Cli!ClientNext, Cli!clientVars, Cli!Start, Cli!StartFreeTrack, Cli!CallInit, Cli!Tick, Cli!StopData,
         Cli!TickFreeTrack, Cli!Ends, Cli!CallShutdown, Cli!Call, Cli!Pose
<1>2. lib_handle' \in {lib_handle, TRUE, FALSE}
  BY DEF Cli!ClientNext, Cli!clientVars, Cli!Start, Cli!StartFreeTrack, Cli!CallInit, Cli!Tick, Cli!StopData,
         Cli!TickFreeTrack, Cli!Ends, Cli!CallShutdown, Cli!Call, Cli!Pose, Cli!loader, Cli!LoaderFails,
         Cli!LoaderInit, Cli!LoaderShutdown
<1>3. profile' \in {profile, "off"} \cup GameIds
  BY DEF Cli!ClientNext, Cli!clientVars, Cli!Start, Cli!StartFreeTrack, Cli!CallInit, Cli!Tick, Cli!StopData,
         Cli!TickFreeTrack, Cli!Ends, Cli!CallShutdown, Cli!Call, Cli!Pose, Cli!library,
         Cli!LoaderShutdown, Cli!InitLibrary, Cli!Off
<1>4. cmd' \in {cmd, "run", "pause", "stop"}
  BY DEF Cli!ClientNext, Cli!clientVars, Cli!Start, Cli!StartFreeTrack, Cli!CallInit, Cli!Tick, Cli!StopData,
         Cli!TickFreeTrack, Cli!Ends, Cli!CallShutdown, Cli!Call, Cli!Pose, Cli!library,
         Cli!LoaderShutdown, Cli!Wakes
<1>5. crypted' = crypted \/ \E g \in GameIds : crypted' = Cli!Encrypted(g)
  BY DEF Cli!ClientNext, Cli!clientVars, Cli!Start, Cli!StartFreeTrack, Cli!CallInit, Cli!Tick, Cli!StopData,
         Cli!TickFreeTrack, Cli!Ends, Cli!CallShutdown, Cli!Call, Cli!Pose, Cli!client, Cli!Register
<1>6. crypted' \in BOOLEAN
  BY <1>5 DEF CliRest, Cli!Encrypted
<1> QED
  BY <1>1, <1>2, <1>3, <1>4, <1>6 DEF CliRest

\* Each variable of the library in a game keeps to its type (linuxtrack.c,
\* wine_bridge/client).
THEOREM CliTypesHold == ASSUME Cli!ClientAssumption PROVE Cli!ClientSpec => []Cli!TypeOK
<1>1. Cli!Init => CliRest
  <2> SUFFICES ASSUME Cli!Init
               PROVE  CliRest
    OBVIOUS
  <2>1. uses \in 0 .. MaxUses /\ opened <= uses /\ counter <= MaxPoses
    BY DEF Cli!Init, Cli!ClientAssumption
  <2> QED
    BY <2>1 DEF Cli!Init, CliRest, Cli!Off
<1>2. CliInv /\ CliInv' /\ CliRest /\ [Cli!ClientNext]_(Cli!clientVars) => CliRest'
  BY CliNumbers, CliNames, CliOthers DEF CliRest
<1>3. CliInv /\ CliRest => Cli!TypeOK
  <2> SUFFICES ASSUME CliInv, CliRest
               PROVE  Cli!TypeOK
    OBVIOUS
  <2>1. opened \in 0 .. MaxUses /\ counter \in 0 .. MaxPoses
    BY DEF CliInv, CliTypes, CliRest, Cli!ClientAssumption
  <2>2. /\ game.crypted \in BOOLEAN /\ game.table \in Cli!Byte \X Cli!Byte
        /\ game.initialized \in BOOLEAN /\ game.timer \in BOOLEAN
    BY DEF CliInv, CliTypes, GameStates
  <2> QED
    BY <2>1, <2>2, Zenon DEF CliInv, CliTypes, CliRest, FunctionNames, Cli!Off, Cli!TypeOK
<1> QED
  BY <1>1, <1>2, <1>3, CliInvariance, PTL DEF Cli!ClientSpec

\* The variables of Controller have their types.
KeyRest ==
  /\ held \subseteq Keys /\ code \in Key!Codes /\ pause_code \in Key!Codes
  /\ recenter_code \in Key!Codes /\ registry \in Key!Hotkeys /\ tracking \in {"off", "runs", "paused"}
  /\ Len(kbd_data) <= QueueSize /\ strokes \in 0 .. MaxStrokes /\ clicks \in 0 .. MaxClicks

\* The last two keys are a hot key.
LEMMA LastTwoIsACode ==
  ASSUME NEW s \in Seq(Keys)
  PROVE  Key!LastOf(s, 2) \in Key!Codes
<1>1. Len(s) \in Nat /\ \A i \in 1 .. Len(s) : s[i] \in Keys
  OBVIOUS
<1>2. CASE Len(s) = 0
  BY <1>2, LastTwoAre DEF Key!Codes
<1>3. CASE Len(s) = 1
  <2>1. s[1] \in Keys
    BY <1>1, <1>3
  <2> QED
    BY <1>3, <2>1, LastTwoAre DEF Key!Codes
<1>4. CASE Len(s) > 1
  <2>1. s[Len(s) - 1] \in Keys /\ s[Len(s)] \in Keys
    BY <1>1, <1>4
  <2> QED
    BY <1>4, <2>1, LastTwoAre DEF Key!Codes
<1> QED
  BY <1>2, <1>3, <1>4, ZeroOneMore

\* The queue of events is as long as DirectInput keeps it.
LEMMA QueueKept ==
  ASSUME Key!KeysAssumption, KeyInv, KeyRest, [Key!KeyNext]_(Key!keyVars)
  PROVE  Len(kbd_data') <= QueueSize
<1> DEFINE Events == [key : Keys, down : BOOLEAN]
<1>1. kbd_data \in Seq(Events) /\ QueueSize \in Nat /\ Len(kbd_data) \in Nat
  BY DEF KeyInv, KeyTypes, Key!KeysAssumption
<1>2. CASE kbd_data' = kbd_data
  BY <1>2 DEF KeyRest
<1>3. CASE kbd_data' = <<>>
  <2>1. Len(kbd_data') = 0
    BY <1>3
  <2> QED
    BY <1>1, <2>1
<1>4. CASE kbd_data # <<>> /\ kbd_data' = Tail(kbd_data)
  <2> HIDE DEF Events
  <2>1. PICK n \in Nat : Len(kbd_data') = n /\ n <= Len(kbd_data)
    BY <1>1, <1>4
  <2> QED
    BY <1>1, <2>1 DEF KeyRest
<1>5. CASE \E x \in Events : Len(kbd_data) < QueueSize /\ kbd_data' = Append(kbd_data, x)
  <2> HIDE DEF Events
  <2>1. PICK n \in Nat : Len(kbd_data') = n /\ n = Len(kbd_data) + 1
    BY <1>1, <1>5
  <2> QED
    BY <1>1, <1>5, <2>1
<1>6. ASSUME NEW k \in Keys, NEW d \in BOOLEAN, Key!Event(k, d)
      PROVE  \/ kbd_data' = kbd_data
             \/ \E x \in Events : Len(kbd_data) < QueueSize /\ kbd_data' = Append(kbd_data, x)
  <2>1. [key |-> k, down |-> d] \in Events
    OBVIOUS
  <2> HIDE DEF Events
  <2> QED
    BY <1>6, <2>1 DEF Key!Event
<1>7. \/ kbd_data' = kbd_data \/ kbd_data' = <<>> \/ (kbd_data # <<>> /\ kbd_data' = Tail(kbd_data))
      \/ \E k \in Keys, d \in BOOLEAN : Key!Event(k, d)
  BY Zenon DEF Key!KeyNext, Key!keyVars, Key!Press, Key!Release, Key!Redefine, Key!Starts, Key!Quits,
     Key!OneEvent
<1> QED
  BY <1>2, <1>3, <1>4, <1>5, <1>6, <1>7

\* Each variable of the hot keys of the Wine bridge keeps to its type
\* (wine_bridge/controller/rest.c).
THEOREM KeyTypesHold == ASSUME Key!KeysAssumption PROVE Key!KeySpec => []Key!TypeOK
<1>1. Key!Init => KeyRest
  <2> SUFFICES ASSUME Key!Init
               PROVE  KeyRest
    OBVIOUS
  <2>1. registry \in Key!Hotkeys
    BY DEF Key!Init, Key!KeysAssumption
  <2>2. Len(kbd_data) = 0 /\ QueueSize \in Nat /\ strokes \in 0 .. MaxStrokes /\ clicks \in 0 .. MaxClicks
    BY DEF Key!Init, Key!KeysAssumption
  <2>3. Len(kbd_data) <= QueueSize
    BY <2>2
  <2> QED
    BY <2>1, <2>2, <2>3 DEF Key!Init, KeyRest, Key!Codes
<1>2. KeyInv /\ KeyInv' /\ KeyRest /\ [Key!KeyNext]_(Key!keyVars) => KeyRest'
  <2> SUFFICES ASSUME KeyInv, KeyInv', KeyRest, [Key!KeyNext]_(Key!keyVars)
               PROVE  KeyRest'
    OBVIOUS
  <2>1. code' \in Key!Codes
    BY LastTwoIsACode DEF KeyInv, KeyTypes, Key!KeysAgree
  <2>2. pause_code' \in {pause_code, code, registry.pause} /\ recenter_code' \in {recenter_code, code, registry.recenter}
    BY DEF Key!KeyNext, Key!keyVars, Key!Press, Key!Release, Key!Redefine, Key!Starts, Key!Quits,
       Key!OneEvent, Key!Defined, Key!hotkeys
  <2>3. registry' = registry \/ registry' = [pause |-> pause_code, recenter |-> recenter_code]
    BY DEF Key!KeyNext, Key!keyVars, Key!Press, Key!Release, Key!Redefine, Key!Starts, Key!Quits,
       Key!OneEvent, Key!outside
  <2>4. /\ strokes' = strokes \/ (strokes < MaxStrokes /\ strokes' = strokes + 1)
        /\ clicks' = clicks \/ (clicks < MaxClicks /\ clicks' = clicks + 1)
    BY DEF Key!KeyNext, Key!keyVars, Key!Press, Key!Release, Key!Redefine, Key!Starts, Key!Quits,
       Key!OneEvent, Key!outside
  <2>5. /\ held' = held \/ \E k \in Keys : held' \in {held \cup {k}, held \ {k}}
        /\ tracking' \in {tracking, "off", "runs", "paused"}
    BY DEF Key!KeyNext, Key!keyVars, Key!Press, Key!Release, Key!Redefine, Key!Starts, Key!Quits,
       Key!OneEvent, Key!Act, Key!outside
  <2>6. strokes' \in 0 .. MaxStrokes /\ clicks' \in 0 .. MaxClicks
    BY <2>4 DEF KeyRest, Key!KeysAssumption
  <2>7. pause_code' \in Key!Codes /\ recenter_code' \in Key!Codes /\ registry' \in Key!Hotkeys
    BY <2>2, <2>3 DEF KeyRest, Key!Hotkeys
  <2>8. held' \subseteq Keys /\ tracking' \in {"off", "runs", "paused"}
    BY <2>5 DEF KeyRest
  <2> QED
    BY <2>1, <2>6, <2>7, <2>8, QueueKept DEF KeyRest
<1>3. KeyInv /\ KeyRest => Key!TypeOK
  <2> SUFFICES ASSUME KeyInv, KeyRest
               PROVE  Key!TypeOK
    OBVIOUS
  <2> DEFINE Events == [key : Keys, down : BOOLEAN]
  <2>1. kbd_data \in Key!BoundedSeq(Events, QueueSize)
    <3>1. kbd_data \in Seq(Events)
      BY DEF KeyInv, KeyTypes
    <3> HIDE DEF Events
    <3>2. Len(kbd_data) \in Nat /\ kbd_data \in [1 .. Len(kbd_data) -> Events]
      BY <3>1
    <3>3. Len(kbd_data) \in 0 .. QueueSize
      BY <3>2 DEF KeyRest
    <3> QED
      BY <3>2, <3>3 DEF Key!BoundedSeq, Key!SeqOf
  <2>2. names \in Key!Hotkeys
    BY DEF KeyInv, KeyRest, Key!KeysAgree, Key!Hotkeys
  <2> QED
    BY <2>1, <2>2, Zenon DEF KeyInv, KeyTypes, KeyRest, Key!TypeOK
<1> QED
  BY <1>1, <1>2, <1>3, KeyInvariance, PTL DEF Key!KeySpec

------------------------------------------------------------------------------
(***************************************************************************)
(* The types of QtCam, of what the driver has, of what a process is at and *)
(* of its images.                                                          *)
(***************************************************************************)
LEMMA CamDriverTypes ==
  ASSUME Cam!RingAssumption, Cam!TypeOK, [Cam!CamNext]_(Cam!camVars)
  PROVE  /\ order' \in Cam!Commands /\ host' \in {"closed", "run", "paused", "closing"}
         /\ tells' \in 0 .. MaxTells /\ forked' \in 0 .. Children
<1>1. /\ order' \in {order, "WAKEUP", "SLEEP", "STOP"}
      /\ host' \in {host, "run", "paused", "closing", "closed"}
  BY DEF Cam!CamNext, Cam!camVars, Cam!TrackerInit, Cam!TrackerPause, Cam!TrackerResume,
         Cam!TrackerClose, Cam!WaitChildExit, Cam!CaptureGoes, Cam!ProcessGoes, Cam!NewFrame,
         Cam!Crash, Cam!Open, Cam!Poll, Cam!PollStop, Cam!BufferWritten, Cam!Joined, Cam!Top,
         Cam!Wait, Cam!Look, Cam!Processed
<1>2. /\ tells' = tells \/ (tells < MaxTells /\ tells' = tells + 1)
      /\ forked' = forked \/ (forked < Children /\ forked' = forked + 1)
  BY Zenon
     DEF Cam!CamNext, Cam!camVars, Cam!TrackerInit, Cam!TrackerPause, Cam!TrackerResume,
         Cam!TrackerClose, Cam!WaitChildExit, Cam!CaptureGoes, Cam!ProcessGoes, Cam!NewFrame,
         Cam!Crash, Cam!Open, Cam!Poll, Cam!PollStop, Cam!BufferWritten, Cam!Joined, Cam!Top,
         Cam!Wait, Cam!Look, Cam!Processed
<1>3. /\ tells \in Nat /\ MaxTells \in Nat /\ tells <= MaxTells
      /\ forked \in Nat /\ Children \in Nat /\ forked <= Children
  BY DEF Cam!TypeOK, Cam!RingAssumption
<1>4. tells' \in 0 .. MaxTells /\ forked' \in 0 .. Children
  BY <1>2, <1>3
<1> QED
  BY <1>1, <1>4 DEF Cam!TypeOK, Cam!Commands

\* One process gets a new value of a set, or none does.
Renewed(new, f, S) == new = f \/ \E c \in Processes, v \in S : new = [f EXCEPT ![c] = v]

\* What one process sets anew is of the type.
LEMMA RenewedTyped ==
  ASSUME NEW S, NEW f \in [Processes -> S], NEW new, Renewed(new, f, S)
  PROVE  new \in [Processes -> S]
BY DEF Renewed

CamPlaces  == {"none", "open", "loop", "write", "join", "gone"}

\* Where the two threads of a camera program are.
ProcPlaces == {"none", "top", "wait", "look", "work", "ended"}

\* The places and orders have their types,
LEMMA CamPlaceTypes ==
  ASSUME Cam!RingAssumption, Cam!TypeOK, [Cam!CamNext]_(Cam!camVars)
  PROVE  /\ camAt' \in [Processes -> CamPlaces] /\ oldCmd' \in [Processes -> Cam!Commands]
         /\ proc' \in [Processes -> ProcPlaces]
<1>1. Renewed(camAt', camAt, CamPlaces)
  <2>1. CASE Cam!TrackerInit
    <3>1. forked + 1 \in Processes
      BY <2>1 DEF Cam!TrackerInit, Cam!TypeOK, Processes, Cam!RingAssumption
    <3> QED
      BY <2>1, <3>1 DEF Cam!TrackerInit, Renewed, CamPlaces
  <2>2. CASE ~Cam!TrackerInit
    BY <2>2
       DEF Cam!CamNext, Cam!camVars, Cam!TrackerPause, Cam!TrackerResume, Cam!loop,
           Cam!TrackerClose, Cam!WaitChildExit, Cam!CaptureGoes, Cam!ProcessGoes, Cam!NewFrame,
           Cam!Crash, Cam!Open, Cam!Poll, Cam!PollStop, Cam!BufferWritten, Cam!Joined, Cam!Top,
           Cam!Wait, Cam!Look, Cam!Processed, Renewed, CamPlaces, Processes
  <2> QED
    BY <2>1, <2>2
<1>2. Renewed(oldCmd', oldCmd, Cam!Commands)
  BY DEF Cam!TypeOK, Cam!CamNext, Cam!camVars, Cam!TrackerInit, Cam!TrackerPause, Cam!loop,
         Cam!TrackerResume, Cam!TrackerClose, Cam!WaitChildExit, Cam!CaptureGoes,
         Cam!ProcessGoes, Cam!NewFrame, Cam!Crash, Cam!Open, Cam!Poll, Cam!PollStop,
         Cam!BufferWritten, Cam!Joined, Cam!Top, Cam!Wait, Cam!Look, Cam!Processed,
         Renewed, Processes
<1>3. Renewed(proc', proc, ProcPlaces)
  BY DEF Cam!CamNext, Cam!camVars, Cam!TrackerInit, Cam!TrackerPause,
         Cam!TrackerResume, Cam!TrackerClose, Cam!WaitChildExit, Cam!CaptureGoes,
         Cam!ProcessGoes, Cam!NewFrame, Cam!Crash, Cam!Open, Cam!Poll, Cam!PollStop,
         Cam!BufferWritten, Cam!Joined, Cam!Top, Cam!Wait, Cam!Look, Cam!Processed,
         Renewed, Processes, ProcPlaces
<1>4. camAt \in [Processes -> CamPlaces] /\ oldCmd \in [Processes -> Cam!Commands]
      /\ proc \in [Processes -> ProcPlaces]
  BY DEF Cam!TypeOK, Processes, CamPlaces, ProcPlaces
<1> QED
  BY <1>1, <1>2, <1>3, <1>4, RenewedTyped

\* the flags do,
LEMMA CamFlagTypes ==
  ASSUME Cam!TypeOK, [Cam!CamNext]_(Cam!camVars)
  PROVE  /\ capturing' \in [Processes -> BOOLEAN] /\ newFlag' \in [Processes -> BOOLEAN]
         /\ endFlag' \in [Processes -> BOOLEAN]
<1>1. Renewed(capturing', capturing, BOOLEAN)
  BY DEF Cam!CamNext, Cam!camVars, Cam!TrackerInit, Cam!TrackerPause, Cam!loop,
         Cam!TrackerResume, Cam!TrackerClose, Cam!WaitChildExit, Cam!CaptureGoes,
         Cam!ProcessGoes, Cam!NewFrame, Cam!Crash, Cam!Open, Cam!Poll, Cam!PollStop,
         Cam!BufferWritten, Cam!Joined, Cam!Top, Cam!Wait, Cam!Look, Cam!Processed,
         Renewed, Processes
<1>2. Renewed(newFlag', newFlag, BOOLEAN) /\ Renewed(endFlag', endFlag, BOOLEAN)
  BY DEF Cam!CamNext, Cam!camVars, Cam!TrackerInit, Cam!TrackerPause, Cam!passing,
         Cam!TrackerResume, Cam!TrackerClose, Cam!WaitChildExit, Cam!CaptureGoes,
         Cam!ProcessGoes, Cam!NewFrame, Cam!Crash, Cam!Open, Cam!Poll, Cam!PollStop,
         Cam!BufferWritten, Cam!Joined, Cam!Top, Cam!Wait, Cam!Look, Cam!Processed,
         Renewed, Processes
<1>3. capturing \in [Processes -> BOOLEAN] /\ newFlag \in [Processes -> BOOLEAN]
      /\ endFlag \in [Processes -> BOOLEAN]
  BY DEF Cam!TypeOK, Processes
<1> QED
  BY <1>1, <1>2, <1>3, RenewedTyped

\* An image in the ring.
CamShots == [shot : 0 .. MaxGrabs, filled : BOOLEAN]

\* and the ring with its images does.
LEMMA CamImageTypes ==
  ASSUME Cam!RingAssumption, Cam!TypeOK, [Cam!CamNext]_(Cam!camVars)
  PROVE  /\ ring' \in [Processes -> [Cam!Ring -> CamShots]]
         /\ writer' \in [Processes -> Cam!Ring] /\ reader' \in [Processes -> Cam!Ring]
         /\ grabs' \in [Processes -> 0 .. MaxGrabs] /\ done' \in [Processes -> 0 .. MaxGrabs]
<1>1. /\ ring \in [Processes -> [Cam!Ring -> CamShots]]
      /\ writer \in [Processes -> Cam!Ring] /\ reader \in [Processes -> Cam!Ring]
      /\ grabs \in [Processes -> 0 .. MaxGrabs] /\ done \in [Processes -> 0 .. MaxGrabs]
  BY DEF Cam!TypeOK, Processes, CamShots
<1>2. \/ UNCHANGED <<ring, writer, reader, grabs, done>>
      \/ \E c \in Processes : Cam!NewFrame(c) \/ Cam!BufferWritten(c) \/ Cam!Processed(c)
  BY DEF Cam!CamNext, Cam!camVars, Cam!TrackerInit, Cam!TrackerPause, Cam!passing,
         Cam!TrackerResume, Cam!TrackerClose, Cam!WaitChildExit, Cam!CaptureGoes,
         Cam!ProcessGoes, Cam!Crash, Cam!Open, Cam!Poll, Cam!PollStop, Cam!Joined, Cam!Top,
         Cam!Wait, Cam!Look, Processes
<1>3. ASSUME NEW c \in Processes, Cam!NewFrame(c)
      PROVE  /\ Renewed(ring', ring, [Cam!Ring -> CamShots]) /\ Renewed(grabs', grabs, 0 .. MaxGrabs)
             /\ UNCHANGED <<writer, reader, done>>
  <2>1. /\ grabs' = [grabs EXCEPT ![c] = grabs[c] + 1] /\ grabs[c] < MaxGrabs
        /\ UNCHANGED <<writer, reader, done>>
        /\ ring' = ring \/ ring' = [ring EXCEPT ![c] = [ring[c] EXCEPT ![writer[c]].shot = Cam!Torn]]
    BY <1>3 DEF Cam!NewFrame
  <2>2. grabs[c] + 1 \in 0 .. MaxGrabs
    BY <1>1, <2>1 DEF Cam!RingAssumption
  <2>3. [ring[c] EXCEPT ![writer[c]].shot = Cam!Torn] \in [Cam!Ring -> CamShots]
    <3>1. ring[c][writer[c]] \in CamShots
      BY <1>1
    <3>2. [ring[c][writer[c]] EXCEPT !.shot = Cam!Torn] \in CamShots
      BY <3>1 DEF CamShots, Cam!Torn, Cam!RingAssumption
    <3> QED
      BY <1>1, <3>2
  <2> QED
    BY <2>1, <2>2, <2>3 DEF Renewed
<1>4. ASSUME NEW c \in Processes, Cam!BufferWritten(c)
      PROVE  /\ Renewed(ring', ring, [Cam!Ring -> CamShots]) /\ Renewed(writer', writer, Cam!Ring)
             /\ UNCHANGED <<grabs, reader, done>>
  <2>1. /\ ring' = [ring EXCEPT ![c] =
                      [ring[c] EXCEPT ![writer[c]] = [shot |-> grabs[c], filled |-> TRUE]]]
        /\ writer' = [writer EXCEPT ![c] = (writer[c] + 1) % RingSize]
        /\ UNCHANGED <<grabs, reader, done>>
    BY <1>4 DEF Cam!BufferWritten
  <2>2. (writer[c] + 1) % RingSize \in Cam!Ring
    BY <1>1, NextBuffer
  <2>3. [ring[c] EXCEPT ![writer[c]] = [shot |-> grabs[c], filled |-> TRUE]]
          \in [Cam!Ring -> CamShots]
    BY <1>1 DEF CamShots
  <2> QED
    BY <2>1, <2>2, <2>3 DEF Renewed
<1>5. ASSUME NEW c \in Processes, Cam!Processed(c)
      PROVE  /\ Renewed(ring', ring, [Cam!Ring -> CamShots]) /\ Renewed(reader', reader, Cam!Ring)
             /\ Renewed(done', done, 0 .. MaxGrabs) /\ UNCHANGED <<grabs, writer>>
  <2>1. /\ ring' = [ring EXCEPT ![c] = [ring[c] EXCEPT ![reader[c]].filled = FALSE]]
        /\ reader' = [reader EXCEPT ![c] = (reader[c] + 1) % RingSize]
        /\ done' = [done EXCEPT ![c] = ring[c][reader[c]].shot]
        /\ UNCHANGED <<grabs, writer>>
    BY <1>5 DEF Cam!Processed
  <2>2. (reader[c] + 1) % RingSize \in Cam!Ring
    BY <1>1, NextBuffer
  <2>3. [ring[c] EXCEPT ![reader[c]].filled = FALSE] \in [Cam!Ring -> CamShots]
    <3>1. ring[c][reader[c]] \in CamShots
      BY <1>1
    <3>2. [ring[c][reader[c]] EXCEPT !.filled = FALSE] \in CamShots
      BY <3>1 DEF CamShots
    <3> QED
      BY <1>1, <3>2
  <2>4. ring[c][reader[c]].shot \in 0 .. MaxGrabs
    BY <1>1 DEF CamShots
  <2> QED
    BY <2>1, <2>2, <2>3, <2>4 DEF Renewed
<1> QED
  BY <1>1, <1>2, <1>3, <1>4, <1>5, RenewedTyped

\* The webcam of macOS, its program and the ring keep their types.
THEOREM CamTypesHold ==
  ASSUME Cam!RingAssumption PROVE Cam!Init /\ [][Cam!CamNext]_(Cam!camVars) => []Cam!TypeOK
<1>1. Cam!Init => Cam!TypeOK
  <2> SUFFICES ASSUME Cam!Init
               PROVE  Cam!TypeOK
    OBVIOUS
  <2>1. 0 \in Cam!Ring /\ 0 \in 0 .. MaxGrabs /\ 0 \in 0 .. MaxTells /\ 0 \in 0 .. Children
    BY DEF Cam!Ring, Cam!RingAssumption
  <2> DEFINE none == [b \in Cam!Ring |-> [shot |-> Cam!Torn, filled |-> FALSE]]
  <2>2. none \in [Cam!Ring -> CamShots]
    BY <2>1 DEF CamShots, Cam!Torn
  <2>3. ring = [c \in Processes |-> none]
    BY DEF Cam!Init, Cam!Each, Processes
  <2> HIDE DEF none
  <2>4. ring \in [Processes -> [Cam!Ring -> CamShots]]
    BY <2>2, <2>3
  <2> QED
    BY <2>1, <2>4 DEF Cam!Init, Cam!Each, Cam!TypeOK, Cam!Commands, CamShots, Processes
<1>2. ASSUME Cam!TypeOK, [Cam!CamNext]_(Cam!camVars)
      PROVE  Cam!TypeOK'
  BY <1>2, CamDriverTypes, CamPlaceTypes, CamFlagTypes, CamImageTypes
     DEF Cam!TypeOK, CamPlaces, ProcPlaces, CamShots, Processes
<1> QED
  BY <1>1, <1>2, PTL

------------------------------------------------------------------------------
(***************************************************************************)
(* XPlane: what the plugin and the simulator keep, by the variables that   *)
(* change together.                                                        *)
(***************************************************************************)

\* The view, the switches and the library.
LEMMA PlaneSwitches ==
  ASSUME Pln!TypeOK, [Pln!PlaneNext]_(Pln!planeVars)
  PROVE  /\ simView' \in {Pln!Cockpit, "other"} /\ pilotView' \in {"absent", "enabled", "disabled"}
         /\ {active_flag', pos_init_flag', freeze', initialized', pv_present',
             head_control_enable', left'} \subseteq BOOLEAN
         /\ library' \in {"unloaded", "stopped", "suspended", "running"}
<1>1. /\ simView' \in {simView, Pln!Cockpit, "other"}
      /\ pilotView' \in {pilotView, "absent", "enabled", "disabled"}
      /\ library' \in {library, "unloaded", "stopped", "suspended", "running"}
  BY DEF Pln!PlaneNext, Pln!planeVars, Pln!simulator, Pln!settings, Pln!XPluginStart,
         Pln!XPluginStop, Pln!ChangeView, Pln!TrackingStarts, Pln!PlaneLoaded, Pln!Activate,
         Pln!Deactivate, Pln!Freeze, Pln!FlightLoop, Pln!SetHeadCtrl, Pln!TellPilotView
<1>2. /\ active_flag' \in {active_flag, TRUE, FALSE} /\ pos_init_flag' \in {pos_init_flag, TRUE, FALSE}
      /\ freeze' \in {freeze, FALSE, ~freeze} /\ initialized' \in {initialized, FALSE, TRUE}
      /\ pv_present' \in {pv_present, FALSE, TRUE}
      /\ head_control_enable' \in {head_control_enable} \cup BOOLEAN
      /\ left' \in {left, TRUE, FALSE}
  BY DEF Pln!TypeOK, Pln!PlaneNext, Pln!planeVars, Pln!simulator, Pln!settings, Pln!XPluginStart,
         Pln!XPluginStop, Pln!ChangeView, Pln!TrackingStarts, Pln!PlaneLoaded, Pln!Activate,
         Pln!Deactivate, Pln!Freeze, Pln!FlightLoop, Pln!SetHeadCtrl, Pln!Leave
<1>3. /\ active_flag \in BOOLEAN /\ pos_init_flag \in BOOLEAN /\ freeze \in BOOLEAN
      /\ initialized \in BOOLEAN /\ pv_present \in BOOLEAN /\ head_control_enable \in BOOLEAN
      /\ left \in BOOLEAN
  BY DEF Pln!TypeOK
<1>4. (~freeze) \in BOOLEAN
  BY Zenon
<1>5. /\ active_flag' \in BOOLEAN /\ pos_init_flag' \in BOOLEAN /\ freeze' \in BOOLEAN
      /\ initialized' \in BOOLEAN /\ pv_present' \in BOOLEAN /\ head_control_enable' \in BOOLEAN
      /\ left' \in BOOLEAN
  BY <1>2, <1>3, <1>4
<1> QED
  BY <1>1, <1>5 DEF Pln!TypeOK

\* The head and the commands.
LEMMA PlaneHead ==
  ASSUME Pln!PlaneAssumption, Pln!TypeOK, [Pln!PlaneNext]_(Pln!planeVars)
  PROVE  /\ simHead' \in 0 .. MaxDrift /\ simRoll' \in Pln!Poses /\ base' \in 0 .. MaxDrift
         /\ currentHead' \in Pln!Poses /\ commands' \in 0 .. MaxCommands
<1>1. 0 \in 0 .. MaxDrift /\ MaxDrift \in 0 .. MaxDrift /\ 0 \in Pln!Poses
  BY DEF Pln!PlaneAssumption, Pln!Poses
<1>2. commands' = commands \/ (commands < MaxCommands /\ commands' = commands + 1)
  BY Zenon DEF Pln!PlaneNext, Pln!planeVars, Pln!XPluginStart, Pln!XPluginStop, Pln!ChangeView,
         Pln!TrackingStarts, Pln!PlaneLoaded, Pln!Activate, Pln!Deactivate, Pln!Freeze,
         Pln!FlightLoop, Pln!SetHeadCtrl, Pln!Command
<1>3. base' \in {base, 0, simHead} /\ currentHead' \in {currentHead, 0} \cup Pln!Poses
  BY DEF Pln!PlaneNext, Pln!planeVars, Pln!settings, Pln!XPluginStart, Pln!XPluginStop,
         Pln!ChangeView, Pln!TrackingStarts, Pln!PlaneLoaded, Pln!Activate, Pln!Deactivate,
         Pln!Freeze, Pln!FlightLoop, Pln!SetHeadCtrl, Pln!GetPose
<1>4. base' \in 0 .. MaxDrift /\ currentHead' \in Pln!Poses
  BY <1>1, <1>3 DEF Pln!TypeOK
<1>5. simHead' \in 0 .. MaxDrift /\ simRoll' \in Pln!Poses
  <2>1. CASE Pln!FlightLoop
    <3>1. PICK b \in 0 .. MaxDrift, p \in Pln!Poses : b = base' /\ p = currentHead'
      BY <1>4
    <3>2. /\ \/ simHead' \in {simHead, MaxDrift}
             \/ simHead' = b + p /\ ~(b + p > MaxDrift)
          /\ simRoll' \in {simRoll, 0, p}
      BY <2>1, <3>1 DEF Pln!FlightLoop, Pln!MoveHead
    <3>3. b + p \in Nat /\ MaxDrift \in Nat
      BY DEF Pln!Poses, Pln!PlaneAssumption
    <3> QED
      BY <1>1, <3>2, <3>3 DEF Pln!TypeOK
  <2>2. CASE ~Pln!FlightLoop
    <3>1. simHead' \in {simHead, base} /\ simRoll' \in {simRoll, 0}
      BY <2>2 DEF Pln!PlaneNext, Pln!planeVars, Pln!simulator, Pln!XPluginStart, Pln!XPluginStop,
           Pln!ChangeView, Pln!TrackingStarts, Pln!PlaneLoaded, Pln!Activate, Pln!Deactivate,
           Pln!Freeze, Pln!SetHeadCtrl, Pln!RevertView
    <3> QED
      BY <1>1, <3>1 DEF Pln!TypeOK
  <2> QED
    BY <2>1, <2>2
<1> QED
  BY <1>1, <1>2, <1>4, <1>5 DEF Pln!TypeOK, Pln!PlaneAssumption

\* The X-Plane plugin and the simulator keep their types.
THEOREM PlaneTypesHold ==
  ASSUME Pln!PlaneAssumption PROVE Pln!Init /\ [][Pln!PlaneNext]_(Pln!planeVars) => []Pln!TypeOK
<1>1. Pln!Init => Pln!TypeOK
  <2> SUFFICES ASSUME Pln!Init
               PROVE  Pln!TypeOK
    OBVIOUS
  <2>1. 0 \in 0 .. MaxDrift /\ 0 \in 0 .. MaxCommands
    BY DEF Pln!PlaneAssumption
  <2>2. {active_flag, pos_init_flag, freeze, initialized, pv_present, head_control_enable} \subseteq BOOLEAN
    BY DEF Pln!Init
  <2> QED
    BY <2>1, <2>2 DEF Pln!Init, Pln!TypeOK, Pln!Poses
<1>2. ASSUME Pln!TypeOK, [Pln!PlaneNext]_(Pln!planeVars)
      PROVE  Pln!TypeOK'
  BY <1>2, PlaneSwitches, PlaneHead DEF Pln!TypeOK, Pln!Poses
<1> QED
  BY <1>1, <1>2, PTL

\* The settings of all games, and what was done.
ProRest == align \in BOOLEAN /\ edits \in 0 .. MaxEdits

\* They have their types at first and after every step.
LEMMA ProRestIsInductive ==
  ASSUME Pro!ProfilesAssumption
  PROVE  /\ Pro!Init => ProRest
         /\ ProRest /\ Pro!ProfileNext => ProRest'
<1>1. MaxEdits \in Nat
  BY DEF Pro!ProfilesAssumption
<1>2. Pro!Init => ProRest
  <2>1. Pro!Init => align \in BOOLEAN
    BY DEF Pro!Init, Pro!ProfilesAssumption
  <2>2. Pro!Init => edits = 0
    BY DEF Pro!Init
  <2> QED
    BY <1>1, <2>1, <2>2 DEF ProRest
<1>3. ASSUME ProRest, Pro!ProfileNext
      PROVE  ProRest'
  <2>1. edits' = edits \/ (edits < MaxEdits /\ edits' = edits + 1)
    BY <1>3, Zenon DEF Pro!ProfileNext, Pro!SetInPanel, Pro!SetSmoothing, Pro!SetInCurve,
       Pro!SetSymmetry, Pro!SelectProfile, Pro!CopyFromDefault, Pro!Import, Pro!SetAlign,
       Pro!Save, Pro!Discard, Pro!GameStarts, Pro!GameEnds, Pro!Edit
  <2>2. align' = align \/ align' = (~align)
    BY <1>3, Zenon DEF Pro!ProfileNext, Pro!SetInPanel, Pro!SetSmoothing, Pro!SetInCurve,
       Pro!SetSymmetry, Pro!SelectProfile, Pro!CopyFromDefault, Pro!Import, Pro!SetAlign,
       Pro!Save, Pro!Discard, Pro!GameStarts, Pro!GameEnds
  <2>3. edits \in 0 .. MaxEdits /\ align \in BOOLEAN
    BY <1>3 DEF ProRest
  <2>4. edits' \in 0 .. MaxEdits
    BY <1>1, <2>1, <2>3
  <2>5. align' \in BOOLEAN
    BY <2>2, <2>3, Zenon
  <2> QED
    BY <2>4, <2>5 DEF ProRest
<1> QED
  BY <1>2, <1>3

\* The preferences of the invariant have the type of the module.
LEMMA BooksAreOK ==
  ASSUME NEW p, Book(p)
  PROVE  Pro!PrefsOK(p)
<1>1. IsFiniteSet(DOMAIN p.sections) => Pro!IsFiniteSet(DOMAIN p.sections)
  BY DEF Pro!IsFiniteSet, IsFiniteSet
<1>2. /\ p = [sections |-> p.sections, align |-> p.align] /\ Pro!IsFiniteSet(DOMAIN p.sections)
      /\ Pro!Named("Default") \in DOMAIN p.sections
      /\ p.sections[Pro!Named("Default")].title = Pro!Title("Default")
  BY <1>1 DEF Book, Dflt, Pro!Title
<1>3. \A s \in DOMAIN p.sections :
        /\ p.sections[s] = [title |-> p.sections[s].title, keys |-> p.sections[s].keys]
        /\ s # Pro!NoSection /\ p.sections[s].title \in Pro!Profiles \cup {Pro!Untitled}
        /\ \A k \in DOMAIN p.sections[s].keys :
             k \in Pro!Params /\ p.sections[s].keys[k] \in Pro!ValuesOf(k)
  BY DEF Book, Fits
<1>4. \A s, t \in DOMAIN p.sections :
        p.sections[s].title = p.sections[t].title => s = t \/ p.sections[s].title = Pro!Untitled
  BY DEF Book
<1> QED
  BY <1>2, <1>3, <1>4 DEF Pro!PrefsOK

\* Values of the ranges are values.
LEMMA FitsIsValue ==
  ASSUME NEW f, Fits(f), NEW S, S \subseteq Pro!Params, f = [k \in S |-> f[k]]
  PROVE  f \in [S -> 0 .. 2]
<1>1. \A k \in Pro!Params : Pro!ValuesOf(k) \subseteq 0 .. 2
  BY ValuesAre DEF Pro!Params
<1>2. \A k \in S : f[k] \in 0 .. 2
  BY <1>1 DEF Fits
<1> QED
  BY <1>2

\* Everything the profiles are kept in has its type (axis.c, pref.cpp,
\* qt_gui/tracker.cpp): no setting leaves the range of its parameter.
THEOREM ProTypesHold == ASSUME Pro!ProfilesAssumption PROVE Pro!ProfileSpec => []Pro!TypeOK
<1>1. Pro!Init => ProRest
  BY ProRestIsInductive
<1>2. ProRest /\ [Pro!ProfileNext]_(Pro!profileVars) => ProRest'
  <2>1. UNCHANGED Pro!profileVars /\ ProRest => ProRest'
    BY DEF ProRest, Pro!profileVars
  <2> QED
    BY <2>1, ProRestIsInductive
<1>3. ASSUME PInv, ProRest
      PROVE  Pro!TypeOK
  <2>1. /\ WInv(Pro!World, behind, apart, align)
        /\ Pro!World = [prefs |-> prefs, gui |-> gui, slaves |-> slaves]
    BY <1>3 DEF PInv, Pro!World
  <2>2. Book(prefs) /\ Book(file) /\ IsGui(gui)
    BY <1>3, <2>1 DEF PInv, WInv
  <2>3. Pro!PrefsOK(prefs) /\ Pro!PrefsOK(file)
    BY <2>2, BooksAreOK
  <2>4. gui.val \in Pro!Values /\ gui.ui \in [Pro!Widgets -> 0 .. 2]
    BY <2>2, FitsIsValue DEF IsGui, Pro!Values, Pro!Widgets, Pro!Params
  <2>5. \A s \in Slaves : slaves[s].profile # Pro!Untitled => slaves[s].val \in Pro!Values
    <3> SUFFICES ASSUME NEW s \in Slaves, slaves[s].profile # Pro!Untitled
                 PROVE  slaves[s].val \in Pro!Values
      OBVIOUS
    <3>1. IsGame(slaves[s], align)
      BY <2>1 DEF WInv, Pro!Idle
    <3> QED
      BY <3>1, FitsIsValue DEF IsGame, Pro!Values
  <2>6. /\ gui.sym \in BOOLEAN /\ gui.common \in 0 .. 1 /\ gui.off \in 0 .. 2
        /\ gui.profile \in Pro!Profiles /\ gui.section # Pro!NoSection
    BY <2>2 DEF IsGui
  <2>7. /\ names \subseteq Pro!Profiles /\ align \in BOOLEAN /\ behind \in BOOLEAN
        /\ apart \in BOOLEAN /\ edits \in 0 .. MaxEdits
    BY <1>3 DEF PInv, ProRest
  <2> QED
    BY <2>3, <2>4, <2>5, <2>6, <2>7 DEF Pro!TypeOK
<1>4. Pro!ProfileSpec => []ProRest
  BY <1>1, <1>2, PTL DEF Pro!ProfileSpec
<1> QED
  BY <1>3, <1>4, ProInvariance, PTL
==============================================================================
