------------------------------ MODULE Shortcuts ------------------------------
(***************************************************************************)
(* The hot keys of mickey: keys grabbed from the X server (keyb_x11.cpp),  *)
(* one for each button of its window (hotkey.cpp), of which two are buttons *)
(* of the virtual mouse (mickey.cpp, mouse_linux.cpp, uinput_ifc.c), which *)
(* a SmartNav 4 presses as well.  What the others do is in Mickey.         *)
(*                                                                         *)
(* A combination is a key, with Ctrl or without, which stands for all the  *)
(* modifiers; X grabs it for each state of NumLock and ScrollLock.  Keys   *)
(* do not repeat.                                                          *)
(***************************************************************************)
EXTENDS Naturals, Sequences, FiniteSets, FiniteSetsExt, Functions

CONSTANTS
  Keyboard,    \* the keys of the keyboard
  Unknown,     \* those whose name in Qt is none in X
  HotKeys,     \* the buttons that are there, in the order of the window
  Assigned,    \* the hot keys that may be stored at first
  MaxAssigns,  \* bound: new hot keys
  MaxTyped,    \* bound: keys pressed, and clicks of a SmartNav
  MaxOthers    \* bound: grabs of other programs

Pairs == Keyboard \X BOOLEAN  \* a key, and whether with Ctrl
None == <<>>
Locks == <<"no lock", "NumLock", "ScrollLock", "both">>
Variants(p) == {<<p, Locks[i]>> : i \in DOMAIN Locks}

\* What a hot key does: a button of the mouse, or something else.
Button(id) == CASE id = "l_mouse" -> {1} [] id = "m_mouse" -> {4} [] OTHER -> {}
Ids == {HotKeys[i] : i \in DOMAIN HotKeys}

Put(f, x, v) == [y \in DOMAIN f \cup {x} |-> IF y = x THEN v ELSE f[y]]

VARIABLES
  shortcutHash,  \* the hot keys in force: from combinations to buttons
  grabbed,       \* what X keeps for mickey
  others,        \* what X keeps for other programs
  filters,       \* event filters that are installed
  handler,       \* of X errors: that of Qt, or my_x_errhandler
  hotKey,        \* what each button shows, from when it is there
  settings,      \* HotKeys in the settings
  dialog,        \* the button a hot key is asked for, and the keys typed
  down,          \* the keys that are down: pressed with Ctrl, and whose hot key
  ctrl,          \* Ctrl is down
  active,        \* the key whose grab is in force
  mouse,         \* the virtual mouse: none, ready, or mickey had to exit
  added,         \* how many of the buttons were made
  prev_btns,     \* the buttons of the last click
  device,        \* the buttons of the virtual mouse that are pressed
  clicker,       \* history: the key that clicked last, or the SmartNav
  excused,       \* history: a release was not to be recognised
  stale,         \* history: combinations no longer used that were not given back
  failed,        \* history: the buttons whose last hot key was refused
  assigns, strokes

shortcutVars == <<shortcutHash, grabbed, others, filters, handler, hotKey, settings, dialog,
                  down, ctrl, active, mouse, added, prev_btns, device, clicker, excused,
                  stale, failed, assigns, strokes>>
xServer == <<shortcutHash, grabbed, filters, handler, stale, failed>>
buttons == <<prev_btns, device, clicker>>

ShortcutsAssumption ==
  /\ Unknown \subseteq Keyboard /\ "SmartNav" \notin Keyboard
  /\ HotKeys \in Seq({"tracking_toggle", "quick_recenter", "l_mouse", "m_mouse"})
  /\ \A i, j \in DOMAIN HotKeys : HotKeys[i] = HotKeys[j] => i = j
  /\ Assigned \subseteq Pairs \cup {None}
  /\ MaxAssigns \in Nat /\ MaxTyped \in Nat /\ MaxOthers \in Nat

Closed == [id |-> "closed", typed |-> None]

TypeOK ==
  /\ DOMAIN shortcutHash \subseteq Pairs /\ Range(shortcutHash) \subseteq Ids
  /\ grabbed \subseteq Pairs \X Range(Locks) /\ others \subseteq Pairs \X Range(Locks)
  /\ filters \in 0 .. Len(HotKeys) + MaxAssigns /\ handler \in {"Qt", "mine"}
  /\ DOMAIN hotKey \subseteq Ids /\ Range(hotKey) \subseteq Pairs \cup {None}
  /\ settings \in [Ids -> Pairs \cup {None}]
  /\ dialog \in [id : Ids \cup {"closed"}, typed : Pairs \cup {None}]
  /\ DOMAIN down \subseteq Keyboard /\ ctrl \in BOOLEAN /\ active \in Keyboard \cup {"none"}
  /\ mouse \in {"none", "ready", "exit"} /\ added \in 0 .. Len(HotKeys)
  /\ prev_btns \subseteq {1, 2, 4} /\ device \subseteq {1, 2, 4}
  /\ clicker \in Keyboard \cup {"nobody", "SmartNav"}
  /\ excused \in BOOLEAN /\ stale \subseteq Pairs /\ failed \subseteq Ids
  /\ assigns \in 0 .. MaxAssigns /\ strokes \in 0 .. MaxTyped

Init ==
  /\ shortcutHash = <<>> /\ grabbed = {} /\ others = {} /\ filters = 0 /\ handler = "Qt"
  /\ hotKey = <<>> /\ settings \in [Ids -> Assigned]
  /\ dialog = Closed /\ down = <<>> /\ ctrl \in BOOLEAN /\ active = "none"
  /\ mouse = "none" /\ added = 0
  /\ prev_btns = {} /\ device = {} /\ clicker = "nobody" /\ excused = FALSE
  /\ stale = {} /\ failed = {} /\ assigns = 0 /\ strokes = 0

------------------------------------------------------------------------------
(* The keys of the X server *)

\* removeIdFromHash
Without(id) ==
  Restrict(shortcutHash, {p \in DOMAIN shortcutHash : shortcutHash[p] # id})
Old(id) == {p \in DOMAIN shortcutHash : shortcutHash[p] = id}

\* The variants of a combination that another program has.
Taken(p) == {i \in DOMAIN Locks : <<p, Locks[i]>> \in others}

\* Seeded fault: the variants before the one that is refused are kept.
GrabKeyXKeeps(p) ==
  /\ UNCHANGED handler
  /\ IF Taken(p) = {} THEN grabbed' = grabbed \cup Variants(p)
     ELSE grabbed' = grabbed \cup {<<p, Locks[i]>> : i \in 1 .. Min(Taken(p)) - 1}

\* grabKeyX: another program may have a variant.  Those that were grabbed before it are given
\* back; the handler of errors is not put back if it is the first one.
GrabKeyX(p) ==
  IF Taken(p) = {} THEN grabbed' = grabbed \cup Variants(p) /\ UNCHANGED handler
  ELSE LET first == Min(Taken(p))
       IN /\ grabbed' = grabbed \ {<<p, Locks[i]>> : i \in 1 .. first - 1}
          /\ handler' = IF first = 1 THEN "mine" ELSE handler

\* setShortCut: the old combination is forgotten first, and not given back.
Usable(id, p) == p[1] \notin Unknown /\ p \notin DOMAIN Without(id)
Works(id, p) == Usable(id, p) /\ Taken(p) = {}
SetShortCut(id, p) ==
  /\ shortcutHash' = IF Works(id, p) THEN Put(Without(id), p, id) ELSE Without(id)
  /\ IF Usable(id, p) THEN GrabKeyX(p) ELSE UNCHANGED <<grabbed, handler>>
  /\ filters' = IF Works(id, p) /\ DOMAIN Without(id) = {} THEN filters + 1 ELSE filters
  /\ stale' = (stale \cup Old(id)) \ DOMAIN shortcutHash'

\* unsetShortcut
UnsetShortcut(id) ==
  /\ shortcutHash' = Without(id)
  /\ grabbed' = grabbed \ UNION {Variants(p) : p \in Old(id)}
  /\ filters' = IF Old(id) # {} /\ DOMAIN Without(id) = {} THEN filters - 1 ELSE filters
  /\ UNCHANGED <<handler, stale>>

\* Another program grabs a key.
OtherGrabs(p, lock) ==
  /\ p[1] \notin Unknown /\ Cardinality(others) < MaxOthers /\ <<p, lock>> \notin grabbed
  /\ others' = others \cup {<<p, lock>>}
  /\ UNCHANGED <<xServer, hotKey, settings, dialog, down, ctrl, active, mouse, added, buttons,
                 excused, assigns, strokes>>

------------------------------------------------------------------------------
(* The window of mickey *)

\* open_uinput looks no further than at a file it has no right to; create_device may fail.
OpenUinput(files) ==
  LET there == {i \in DOMAIN files : files[i] # "absent"}
  IN there # {} /\ files[Min(there)] = "open"
Starts ==
  /\ mouse = "none"
  /\ \E files \in [1 .. 3 -> {"absent", "denied", "open"}], created \in BOOLEAN :
       mouse' = IF OpenUinput(files) /\ created THEN "ready" ELSE "exit"
  /\ UNCHANGED <<xServer, others, hotKey, settings, dialog, down, ctrl, active, added, buttons,
                 excused, assigns, strokes>>

\* addHotKey: a button whose key cannot be had is not there.
AddHotKey ==
  LET id == HotKeys[added + 1]
      p == settings[id]
  IN /\ mouse = "ready" /\ added < Len(HotKeys) /\ added' = added + 1
     /\ IF p = None THEN UnsetShortcut(id) ELSE SetShortCut(id, p)
     /\ hotKey' = IF p = None \/ Works(id, p) THEN Put(hotKey, id, p) ELSE hotKey
     /\ UNCHANGED <<others, settings, dialog, down, ctrl, active, mouse, buttons, excused,
                    failed, assigns, strokes>>

\* HotKey::on_AssignButton_pressed
Ask(id) ==
  /\ added = Len(HotKeys) /\ id \in DOMAIN hotKey /\ dialog = Closed
  /\ assigns < MaxAssigns /\ assigns' = assigns + 1
  /\ dialog' = [id |-> id, typed |-> None]
  /\ UNCHANGED <<xServer, others, hotKey, settings, down, ctrl, active, mouse, added, buttons,
                 excused, strokes>>

\* The dialog is accepted: HotKey::setHotKey, updateHotKey.
Accept ==
  LET id == dialog.id
      p == dialog.typed
      set == p = None \/ Works(id, p)
  IN /\ dialog # Closed /\ dialog' = Closed
     /\ IF p = None THEN UnsetShortcut(id) ELSE SetShortCut(id, p)
     /\ hotKey' = IF set THEN [hotKey EXCEPT ![id] = p] ELSE hotKey
     /\ settings' = IF set THEN [settings EXCEPT ![id] = p] ELSE settings
     /\ failed' = IF set THEN failed \ {id} ELSE failed \cup {id}
     /\ UNCHANGED <<others, down, ctrl, active, mouse, added, buttons, excused, assigns, strokes>>

Cancel ==
  /\ dialog # Closed /\ dialog' = Closed
  /\ UNCHANGED <<xServer, others, hotKey, settings, down, ctrl, active, mouse, added, buttons,
                 excused, assigns, strokes>>

------------------------------------------------------------------------------
(* Keyboard and buttons *)

\* clickm, under the mutex of mouseClass: what is not pressed any more is released.
Click(btns, who) ==
  LET changed == (btns \cup prev_btns) \ (btns \cap prev_btns)
  IN /\ device' = (device \ changed) \cup (changed \cap btns)
     /\ prev_btns' = btns /\ clicker' = who

\* Mickey::hotKey_activated, MickeyThread::on_mouseHotKey_activated
Activate(id, pressed, k) ==
  IF Button(id) = {} THEN UNCHANGED buttons
  ELSE Click(IF pressed THEN Button(id) ELSE {}, k)

\* myLineEdit::keyPressEvent of the dialog
Typed(p) == [dialog EXCEPT !.typed = p]

\* X gives a key it keeps for mickey to it, and then all keys, until that key is released;
\* others go to the window that has the focus, which is the dialog when there is one.
Press(k) ==
  LET p == <<k, ctrl>>
      own == active = "none" /\ Variants(p) \cap grabbed # {}
      hot == (own \/ active # "none" \/ dialog # Closed) /\ p \in DOMAIN shortcutHash
  IN /\ k \notin DOMAIN down /\ strokes < MaxTyped /\ strokes' = strokes + 1
     /\ active' = IF own THEN k ELSE active
     /\ down' = Put(down, k, [ctrl |-> ctrl, id |-> IF hot THEN shortcutHash[p] ELSE "none"])
     /\ IF hot THEN Activate(shortcutHash[p], TRUE, k) ELSE UNCHANGED buttons
     /\ dialog' = IF dialog # Closed /\ ~hot THEN Typed(p) ELSE dialog
     /\ excused' = (excused /\ ~(hot /\ Button(shortcutHash[p]) # {}))
     /\ UNCHANGED <<xServer, others, hotKey, settings, ctrl, mouse, added, assigns>>

\* Ctrl may be up again by now, and the hot key may be another one; the window has the focus,
\* or not.
Release(k) ==
  LET p == <<k, ctrl>>
      same == /\ ctrl = down[k].ctrl /\ active # "none"
              /\ p \in DOMAIN shortcutHash /\ shortcutHash[p] = down[k].id
  IN /\ k \in DOMAIN down
     /\ active' = IF active = k THEN "none" ELSE active
     /\ down' = Restrict(down, DOMAIN down \ {k})
     /\ \E focus \in BOOLEAN :
          IF (active # "none" \/ focus) /\ p \in DOMAIN shortcutHash
          THEN Activate(shortcutHash[p], FALSE, k) ELSE UNCHANGED buttons
     /\ excused' = (excused \/ (clicker = k /\ ~same))
     /\ UNCHANGED <<xServer, others, hotKey, settings, dialog, ctrl, mouse, added, assigns,
                    strokes>>

Ctrl ==
  /\ strokes < MaxTyped /\ strokes' = strokes + 1 /\ ctrl' = ~ctrl
  /\ UNCHANGED <<xServer, others, hotKey, settings, dialog, down, active, mouse, added, buttons,
                 excused, assigns>>

\* MickeyThread::run: the SmartNav says which of its two buttons are not pressed.
SmartNavClicks(up) ==
  /\ mouse = "ready" /\ strokes < MaxTyped /\ strokes' = strokes + 1
  /\ Click({1, 2} \ up, "SmartNav") /\ excused' = FALSE
  /\ UNCHANGED <<xServer, others, hotKey, settings, dialog, down, ctrl, active, mouse, added,
                 assigns>>

ShortcutsNext ==
  \/ Starts \/ AddHotKey \/ Accept \/ Cancel \/ Ctrl
  \/ \E id \in Ids : Ask(id)
  \/ \E k \in Keyboard : Press(k) \/ Release(k)
  \/ \E up \in SUBSET {1, 2} : SmartNavClicks(up)
  \/ \E p \in Pairs, i \in DOMAIN Locks : OtherGrabs(p, Locks[i])

ShortcutsSpec == Init /\ [][ShortcutsNext]_shortcutVars

------------------------------------------------------------------------------
\* A hot key in force is one button's, and is heard whatever the state of the locks; a
\* combination X keeps for mickey is one, unless the button was given another; and what a
\* button shows is in force, and stored, unless the last try was refused, after which
\* it has none: keyb_x11.cpp:152-307, hotkey.cpp:22-38.
HotkeysWork ==
  /\ \A p, q \in DOMAIN shortcutHash : shortcutHash[p] = shortcutHash[q] => p = q
  /\ \A p \in DOMAIN shortcutHash : filters > 0 /\ Variants(p) \subseteq grabbed
  /\ \A g \in grabbed : g \notin others /\ g[1] \in DOMAIN shortcutHash \cup stale
  /\ \A id \in DOMAIN hotKey :
       /\ settings[id] = hotKey[id]
       /\ Old(id) = IF id \in failed \/ hotKey[id] = None THEN {} ELSE {hotKey[id]}

\* A button of the mouse that a hot key pressed is released with the key, if X still gives
\* it to mickey, with the same modifiers, and it is still that hot key: keyb_x11.cpp:29-65,
\* mickey.cpp:240-247, uinput_ifc.c:93-129.
ButtonsFollow ==
  /\ device = prev_btns
  /\ device # {} /\ clicker \in Keyboard /\ ~excused => clicker \in DOMAIN down
==============================================================================
