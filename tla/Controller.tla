------------------------------ MODULE Controller ------------------------------
(***************************************************************************)
(* The controller of the Wine bridge (wine_bridge/controller): hot keys of *)
(* one or two keys, read from DirectInput, pause and recenter.  They are   *)
(* redefined by a button and the next keys, and kept in the registry.      *)
(*                                                                         *)
(* A code is the sequence of its keys, the last one last, and <<>> is the  *)
(* code 0; the keys have numbers other than 0.                             *)
(***************************************************************************)
EXTENDS Naturals, Sequences, FiniteSets, SequencesExt

CONSTANTS
  Keys,        \* the keys of the keyboard
  Registries,  \* what the registry may hold at first
  QueueSize,   \* events DirectInput keeps: 10
  MaxStrokes,  \* bound: keys pressed
  MaxClicks    \* bound: buttons pressed

Codes == {<<>>} \cup {<<k>> : k \in Keys} \cup (Keys \X Keys)
Hotkeys == [pause : Codes, recenter : Codes]
NotSet == [pause |-> <<>>, recenter |-> <<>>]

VARIABLES
  runs,      \* the controller runs
  held,      \* the keys that are down
  kbd_data,  \* the events DirectInput has for the controller
  code, pause_code, recenter_code,
  state,     \* RECEIVING, DEF_PAUSE or DEF_RECENTER
  paused,
  names,     \* the hot keys the window shows
  registry,  \* DIKeys
  tracking,  \* the library: runs, paused or off
  seen,      \* history: the keys pressed since one was released, as far as they were read
  strokes, clicks

keyVars == <<runs, held, kbd_data, code, pause_code, recenter_code, state, paused,
             names, registry, tracking, seen, strokes, clicks>>
hotkeys == <<pause_code, recenter_code, state, names>>
outside == <<held, registry, strokes, clicks>>

KeysAssumption ==
  /\ QueueSize \in Nat \ {0} /\ MaxStrokes \in Nat /\ MaxClicks \in Nat
  /\ Registries \subseteq Hotkeys
  /\ \A r \in Registries \ {NotSet} : <<>> \notin {r.pause, r.recenter}

TypeOK ==
  /\ runs \in BOOLEAN /\ held \subseteq Keys
  /\ kbd_data \in BoundedSeq([key : Keys, down : BOOLEAN], QueueSize)
  /\ code \in Codes /\ pause_code \in Codes /\ recenter_code \in Codes
  /\ state \in {"RECEIVING", "DEF_PAUSE", "DEF_RECENTER"} /\ paused \in BOOLEAN
  /\ names \in Hotkeys
  /\ registry \in Hotkeys
  /\ tracking \in {"off", "runs", "paused"}
  /\ seen \in Seq(Keys) /\ strokes \in 0 .. MaxStrokes /\ clicks \in 0 .. MaxClicks

Init ==
  /\ runs = FALSE /\ held = {} /\ kbd_data = <<>> /\ code = <<>>
  /\ pause_code = <<>> /\ recenter_code = <<>> /\ state = "RECEIVING" /\ paused = FALSE
  /\ names = NotSet
  /\ registry \in Registries /\ tracking = "off" /\ seen = <<>> /\ strokes = 0 /\ clicks = 0

------------------------------------------------------------------------------
(* The user *)

Event(k, down) ==
  kbd_data' = IF runs /\ Len(kbd_data) < QueueSize
              THEN Append(kbd_data, [key |-> k, down |-> down]) ELSE kbd_data

Press(k) ==
  /\ k \notin held /\ strokes < MaxStrokes /\ strokes' = strokes + 1
  /\ held' = held \cup {k} /\ Event(k, TRUE)
  /\ UNCHANGED <<runs, code, hotkeys, paused, registry, tracking, seen, clicks>>

Release(k) ==
  /\ k \in held /\ held' = held \ {k} /\ Event(k, FALSE)
  /\ UNCHANGED <<runs, code, hotkeys, paused, registry, tracking, seen, strokes, clicks>>

\* IDC_REDEFINE_PAUSE, IDC_REDEFINE_RECENTER, kbi_set_state
Redefine(s) ==
  /\ runs /\ clicks < MaxClicks /\ clicks' = clicks + 1 /\ state' = s
  /\ UNCHANGED <<runs, held, kbd_data, code, pause_code, recenter_code, paused, names,
                 registry, tracking, seen, strokes>>

------------------------------------------------------------------------------
(* The controller *)

\* kbi_init: read_prefs, send_keys_desc, linuxtrack_init; an initialisation that fails is
\* the end (exit, so nothing is written).  A key that is held already is not seen.
Starts ==
  /\ ~runs /\ clicks < MaxClicks /\ clicks' = clicks + 1
  /\ \/ runs' = TRUE /\ tracking' = "runs"
     \/ UNCHANGED <<runs, tracking>>
  /\ pause_code' = registry.pause /\ recenter_code' = registry.recenter /\ names' = registry
  /\ code' = <<>> /\ state' = "RECEIVING" /\ paused' = FALSE /\ kbd_data' = <<>>
  /\ seen' = <<>>
  /\ UNCHANGED <<held, registry, strokes>>

\* IDQUIT or WM_DESTROY, kbi_close, write_prefs
Quits ==
  /\ runs /\ runs' = FALSE /\ tracking' = "off"
  /\ registry' = IF <<>> \in {pause_code, recenter_code} THEN registry
                 ELSE [pause |-> pause_code, recenter |-> recenter_code]
  /\ UNCHANGED <<held, kbd_data, code, hotkeys, paused, seen, strokes, clicks>>

\* update_code: the low byte goes up, and the key below it
UpdateCode(k) == IF code = <<>> THEN <<k>> ELSE <<Last(code), k>>

\* The hot keys act.
Act(c) ==
  IF c = pause_code
  THEN paused' = ~paused /\ tracking' = IF paused THEN "runs" ELSE "paused"
  ELSE UNCHANGED <<paused, tracking>>

\* A release, while a hot key is redefined
Defined ==
  /\ pause_code' = IF state = "DEF_PAUSE" THEN code ELSE pause_code
  /\ recenter_code' = IF state = "DEF_RECENTER" THEN code ELSE recenter_code
  /\ state' = "RECEIVING"

\* kbi_msg_loop: the events of the keyboard, all that there are
OneEvent ==
  /\ runs /\ kbd_data # <<>>
  /\ LET e == Head(kbd_data)
     IN IF e.down
        THEN /\ code' = UpdateCode(e.key) /\ Act(code')
             /\ seen' = Append(seen, e.key) /\ UNCHANGED hotkeys
        ELSE /\ Defined
             /\ names' = IF state = "RECEIVING" THEN names
                         ELSE [pause |-> pause_code', recenter |-> recenter_code']
             /\ code' = <<>> /\ seen' = <<>> /\ UNCHANGED <<paused, tracking>>
  /\ kbd_data' = Tail(kbd_data)
  /\ UNCHANGED <<runs, outside>>

KeyNext ==
  \/ \E k \in Keys : Press(k) \/ Release(k)
  \/ \E s \in {"DEF_PAUSE", "DEF_RECENTER"} : Redefine(s)
  \/ Starts \/ Quits \/ OneEvent

KeySpec == Init /\ [][KeyNext]_keyVars

------------------------------------------------------------------------------
LastOf(s, n) == SubSeq(s, IF Len(s) > n THEN Len(s) - n + 1 ELSE 1, Len(s))

\* The controller knows whether it has paused the tracking, the window shows the hot keys
\* that are in force, the code is of the last two keys pressed since one was released, and
\* only a whole setting is stored (dinput.cpp:56-60, 87-95, 219-254).
KeysAgree ==
  /\ runs => paused = (tracking = "paused") /\ tracking # "off"
  /\ names = [pause |-> pause_code, recenter |-> recenter_code]
  /\ code = LastOf(seen, 2)
  /\ registry # NotSet => <<>> \notin {registry.pause, registry.recenter}
================================================================================
