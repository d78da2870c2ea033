------------------------------- MODULE Profiles -------------------------------
(***************************************************************************)
(* The profiles of the games: the axes of a profile (axis.c) in ltr_gui    *)
(* (tracker.cpp) with the widgets that show and set them (profile_setup,   *)
(* scurve.cpp, profile_selector.cpp), in the preferences (pref.cpp), and   *)
(* in the slaves of the games, which get every change through the master.  *)
(* A setting of a widget is answered by a signal, which sets other widgets.*)
(*                                                                         *)
(* The six axes do not depend on each other, so there is one here.  The    *)
(* dead zone and the curvatures are like the other parameters; a downlink  *)
(* has room (see Recentering), and the keys of older versions are left out.*)
(***************************************************************************)
EXTENDS Integers, FiniteSets

CONSTANTS
  Games,     \* the profiles there may be, apart from the default one
  Stored,    \* preference files to begin with
  Imports,   \* files of exported profiles
  Slaves,    \* processes of games
  MaxEdits   \* bound: what is done

Params == {"enabled", "inverted", "mult", "llimit", "rlimit", "filter"}
Widgets == {"mult", "llimit", "rlimit", "filter"}  \* those of SCurve
ValuesOf(p) ==
  CASE p \in {"enabled", "inverted"} -> 0 .. 1
    [] p = "filter" -> 0 .. 2
    [] OTHER -> 1 .. 2

Profiles == {"Default"} \cup Games
Title(t) == t       \* the key Title of a section
Untitled == "none"

\* def_section, and what ltr_int_init_axis sets
DefaultKeys ==
  [enabled |-> 1, inverted |-> 0, mult |-> 2, llimit |-> 1, rlimit |-> 1, filter |-> 0]
BuiltIn == [DefaultKeys EXCEPT !.mult = 1]

\* The names of sections: that of a template, and those with a number after it.
Named(t) == <<t>>
Numbered(t, n) == <<t, n>>
NoSection == <<>>

Put(f, x, v) == [y \in DOMAIN f \cup {x} |-> IF y = x THEN v ELSE f[y]]
Over(f, g) == [y \in DOMAIN f \cup DOMAIN g |-> IF y \in DOMAIN f THEN f[y] ELSE g[y]]

Idle == [profile |-> Untitled]

VARIABLES
  prefs,    \* the preferences in memory: sections, and one global setting
  file,     \* the stored ones
  gui,      \* TRACKER and the widgets
  names,    \* the profiles that can be selected
  align,    \* tr_align of pref_global.c
  slaves,   \* the processes of games, their profile and their axes
  behind,   \* history: preferences were read again, or the default copied, behind the axes
  apart,    \* history: preferences were read again, or a profile selected whose section
            \* was not there, and no game told
  edits

profileVars == <<prefs, file, gui, names, align, slaves, behind, apart, edits>>

Values == [Params -> 0 .. 2]

\* One section has the title of a profile, and "Default" that of the default one.
PrefsOK(p) ==
  /\ p = [sections |-> p.sections, align |-> p.align] /\ IsFiniteSet(DOMAIN p.sections)
  /\ \A s \in DOMAIN p.sections :
       /\ p.sections[s] = [title |-> p.sections[s].title, keys |-> p.sections[s].keys]
       /\ s # NoSection /\ p.sections[s].title \in Profiles \cup {Untitled}
       /\ \A k \in DOMAIN p.sections[s].keys : k \in Params /\ p.sections[s].keys[k] \in ValuesOf(k)
  /\ \A s, t \in DOMAIN p.sections :
       p.sections[s].title = p.sections[t].title => s = t \/ p.sections[s].title = Untitled
  /\ Named("Default") \in DOMAIN p.sections
  /\ p.sections[Named("Default")].title = Title("Default")

ProfilesAssumption ==
  /\ MaxEdits \in Nat /\ "Default" \notin Games /\ Untitled \notin Games
  /\ \A f \in Imports :
       /\ f.name \in Profiles /\ f.common \in 0 .. 1 /\ f.val \in [Params -> 0 .. 2]
       /\ \A k \in Params : f.val[k] \in ValuesOf(k)
  /\ \A f \in Stored : PrefsOK(f) /\ f.align \in BOOLEAN

TypeOK ==
  /\ PrefsOK(prefs) /\ PrefsOK(file)
  /\ gui.val \in Values /\ gui.ui \in [Widgets -> 0 .. 2]
  /\ gui.sym \in BOOLEAN /\ gui.common \in 0 .. 1 /\ gui.off \in 0 .. 2
  /\ gui.profile \in Profiles /\ gui.section # NoSection
  /\ names \subseteq Profiles /\ align \in BOOLEAN
  /\ \A s \in Slaves : slaves[s].profile # Untitled => slaves[s].val \in Values
  /\ behind \in BOOLEAN /\ apart \in BOOLEAN /\ edits \in 0 .. MaxEdits

------------------------------------------------------------------------------
(* Sections and keys: pref.cpp *)

\* prefs::findSection
Find(p, t) ==
  IF \E s \in DOMAIN p.sections : p.sections[s].title = t
  THEN CHOOSE s \in DOMAIN p.sections : p.sections[s].title = t
  ELSE NoSection

\* PrefProxy::getProfiles
Titles(p) == {p.sections[s].title : s \in DOMAIN p.sections} \ {Untitled}

\* prefs::addSection(nameTemplate, name)
Fresh(p) ==
  IF Named("Profile") \notin DOMAIN p.sections THEN Named("Profile")
  ELSE Numbered("Profile",
         CHOOSE n \in 0 .. Cardinality(DOMAIN p.sections) :
           /\ Numbered("Profile", n) \notin DOMAIN p.sections
           /\ \A m \in 0 .. n - 1 : Numbered("Profile", m) \in DOMAIN p.sections)

\* prefs::setValue: a section that is not there is added.
Section(p, s) ==
  IF s \in DOMAIN p.sections THEN p.sections[s] ELSE [title |-> Untitled, keys |-> <<>>]
SetSection(p, s, rec) == [p EXCEPT !.sections = Put(@, s, rec)]
SetKey(p, s, k, v) ==
  LET sec == Section(p, s) IN SetSection(p, s, [sec EXCEPT !.keys = Put(@, k, v)])

------------------------------------------------------------------------------
(* The axes of a profile: axis.c *)

\* ltr_int_prepare_section, ltr_int_create_default
Prepared(p, t) ==
  LET q == IF Find(p, "Default") # NoSection THEN p
           ELSE SetSection(p, Named("Default"), [title |-> Title("Default"), keys |-> DefaultKeys])
  IN IF Find(q, t) # NoSection THEN q
     ELSE SetSection(q, Fresh(q), [title |-> Title(t), keys |-> <<>>])

\* ltr_int_init_axes, ltr_int_get_axis, ltr_int_axis_get_key: a key that is not there
\* is taken from the section Default, and written.
InitAxes(p, t) ==
  LET q == Prepared(p, t)
      s == Find(q, t)
      own == q.sections[s].keys
      all == Over(own, Section(q, Named("Default")).keys)
  IN [prefs |-> SetSection(q, s, [q.sections[s] EXCEPT !.keys = all]),
      section |-> s, val |-> Over(all, BuiltIn)]

\* ltr_int_is_symetrical
Symmetrical(val) == val.llimit = val.rlimit

Least(a, b) == IF a < b THEN a ELSE b

\* Tracker::setProfile, and SCurve::setup_gui with its signal.  The section for the
\* messages is looked for before it is made.
Selected(p, g, t) ==
  LET new == InitAxes(p, t)
      common == Least(1, new.val.filter)
      off == new.val.filter - common
  IN [prefs |-> new.prefs,
      gui |-> [val |-> new.val, section |-> new.section, profile |-> t,
               told |-> IF Find(p, t) # NoSection THEN Find(p, t) ELSE g.told,
               common |-> common, off |-> off,
               sym |-> Symmetrical(new.val),
               ui |-> [w \in Widgets |-> IF w = "filter" THEN off ELSE new.val[w]]]]

Init ==
  /\ file \in Stored
  /\ LET w == Selected(file, [told |-> NoSection], "Default")
     IN prefs = w.prefs /\ gui = w.gui
  /\ names = Titles(prefs)
  /\ align = file.align
  /\ slaves = [s \in Slaves |-> Idle]
  /\ behind = FALSE /\ apart = FALSE /\ edits = 0

Edit == edits < MaxEdits /\ edits' = edits + 1

------------------------------------------------------------------------------
(* Changes of one parameter.  A world is the preferences, the GUI and the slaves. *)

World == [prefs |-> prefs, gui |-> gui, slaves |-> slaves]

\* ltr_int_process_message of a slave: the inversion is not one of the parameters that
\* ltr_int_set_axis_param knows.
Applied(val, p, v) == IF p = "inverted" THEN val ELSE [val EXCEPT ![p] = v]

\* ltr_int_change: to the slaves that have registered with the profile of this name, which
\* is that of a section
Told(sl, name, p, v) ==
  [s \in Slaves |->
     IF Named(sl[s].profile) = name THEN [sl[s] EXCEPT !.val = Applied(@, p, v)] ELSE sl[s]]

\* Seeded fault: what is stored is what the widget shows, without the common part.
AxisChangeStoresOffset(w, p, v) ==
  LET now == IF p = "filter" THEN Least(2, v + w.gui.common) ELSE v
      g == [w.gui EXCEPT !.val[p] = now, !.off = IF p = "filter" THEN v ELSE @]
  IN [prefs |-> SetKey(w.prefs, g.section, p, v), gui |-> g,
      slaves |-> Told(w.slaves, g.told, p, now)]

\* Tracker::axisChange, ltr_int_set_axis_param, ltr_int_set_axis_bool_param.  What is
\* sent is addressed to the section, not to the profile.
AxisChange(w, p, v) ==
  LET now == IF p = "filter" THEN Least(2, v + w.gui.common) ELSE v
      g == [w.gui EXCEPT !.val[p] = now, !.off = IF p = "filter" THEN v ELSE @]
  IN [prefs |-> SetKey(w.prefs, g.section, p, now), gui |-> g,
      slaves |-> Told(w.slaves, g.told, p, now)]

\* The widget of p shows v: it has set the parameter.
Follows(w, p, v) == AxisChange([w EXCEPT !.gui.ui[p] = v], p, v)

Other(p) == IF p = "llimit" THEN "rlimit" ELSE "llimit"

\* on_SCLeftLimit_valueChanged, on_SCRightLimit_valueChanged, ...: a widget that is set
\* to another value sets the parameter, and for a symmetrical axis the other limit.
WidgetSet(w, p, v) ==
  IF w.gui.ui[p] = v THEN w
  ELSE LET x == Follows(w, p, v)
       IN IF x.gui.sym /\ p \in {"llimit", "rlimit"} /\ x.gui.ui[Other(p)] # v
          THEN Follows(x, Other(p), v) ELSE x

\* on_SCSymetrical_stateChanged
SymmetrySet(w, on) ==
  LET x == [w EXCEPT !.gui.sym = on]
  IN IF on THEN WidgetSet(x, "rlimit", x.gui.ui.llimit) ELSE x

\* The signal axisChanged: SCurve::axisChanged, ProfileSetup::axisChanged.
Signalled(w, p) ==
  CASE p = "enabled" -> SymmetrySet(w, Symmetrical(w.gui.val))
    [] p = "inverted" -> w
    [] p = "filter" -> WidgetSet(w, p, w.gui.off)
    [] OTHER -> WidgetSet(w, p, w.gui.val[p])

Changed(w, p, v) == Signalled(AxisChange(w, p, v), p)

\* Tracker::setCommonFilterFactor
CommonSet(w, c) ==
  LET now == Least(2, w.gui.off + c)
  IN [prefs |-> SetKey(w.prefs, w.gui.section, "filter", now),
      gui |-> [w.gui EXCEPT !.common = c, !.val.filter = now],
      slaves |-> Told(w.slaves, w.gui.told, "filter", now)]

Becomes(w) == prefs' = w.prefs /\ gui' = w.gui /\ slaves' = w.slaves

------------------------------------------------------------------------------
(* What the user does *)

\* The check-boxes and sliders of ProfileSetup
SetInPanel ==
  /\ Edit
  /\ \E p \in {"enabled", "inverted", "mult"} : \E v \in ValuesOf(p) :
       Becomes(Changed(World, p, v))
  /\ UNCHANGED <<file, names, align, behind, apart>>

\* on_Smoothing_valueChanged
SetSmoothing ==
  /\ Edit /\ \E c \in 0 .. 1 : Becomes(CommonSet(World, c))
  /\ UNCHANGED <<file, names, align, behind, apart>>

\* The sliders of SCurve
SetInCurve ==
  /\ Edit
  /\ \E p \in Widgets : \E v \in (IF p = "filter" THEN 0 .. 1 ELSE ValuesOf(p)) :
       Becomes(WidgetSet(World, p, v))
  /\ UNCHANGED <<file, names, align, behind, apart>>

\* The check-box Symmetrical
SetSymmetry ==
  /\ Edit /\ Becomes(SymmetrySet(World, ~gui.sym))
  /\ UNCHANGED <<file, names, align, behind, apart>>

\* on_Profiles_currentIndexChanged, ProfileSetup::ProfileSetup
SelectProfile ==
  /\ Edit
  /\ \E t \in names :
       /\ prefs' = Selected(prefs, gui, t).prefs /\ gui' = Selected(prefs, gui, t).gui
       /\ apart' = (apart \/ Find(prefs, t) = NoSection)
  /\ behind' = FALSE /\ UNCHANGED <<file, names, align, slaves>>

\* copyFromDefault, ltr_int_axes_from_default: only what the widgets of ProfileSetup
\* show otherwise than before is set, and by that stored and sent.
CopyFromDefault ==
  /\ Edit
  /\ \E new \in {InitAxes(prefs, "Default")} :
       LET g == [gui EXCEPT !.val = new.val, !.sym = Symmetrical(new.val),
                            !.ui = [w \in Widgets |-> IF w = "filter" THEN gui.off ELSE new.val[w]]]
           Panel(w, p) ==
             IF gui.val[p] # new.val[p] THEN AxisChange(w, p, new.val[p]) ELSE w
       IN Becomes(Panel(Panel(Panel([prefs |-> new.prefs, gui |-> g, slaves |-> slaves],
                                    "enabled"), "inverted"), "mult"))
  /\ behind' = TRUE /\ UNCHANGED <<file, names, align, apart>>

\* ProfileSetup::importProfile, in the order of the file
Imported(w, f) ==
  LET Then(x, p) == Changed(x, p, f.val[p])
  IN Then(Then(Then(Then(Then(Then(CommonSet(w, f.common),
       "enabled"), "inverted"), "mult"), "llimit"), "rlimit"), "filter")

Select(w, t) ==
  LET new == Selected(w.prefs, w.gui, t) IN [w EXCEPT !.prefs = new.prefs, !.gui = new.gui]

\* ProfileSelector::refresh: the first profile of the list is selected in between.
Refreshed(w, ns) ==
  Select(IF "Default" \in ns \ {w.gui.profile} THEN Select(w, "Default") ELSE w, w.gui.profile)

\* Profile::addProfile, when there is none of this name
Added(w, f) ==
  IF f.name \in names THEN w
  ELSE LET q == InitAxes(w.prefs, f.name).prefs
       IN Refreshed([w EXCEPT !.prefs = q], Titles(q))

\* on_ImportProfile_pressed
Import(f) ==
  /\ Edit
  /\ \E w \in {Added(World, f)} :
       /\ names' = IF f.name \in names THEN names ELSE Titles(w.prefs)
       /\ \E x \in {IF gui.profile = f.name THEN w ELSE Select(w, f.name)} :
            \E y \in {Refreshed(Imported(x, f), names')} : Becomes(y)
  /\ apart' = (apart \/ (f.name \in names /\ Find(prefs, f.name) = NoSection))
  /\ behind' = FALSE /\ UNCHANGED <<file, align>>

\* on_TransRotDisable_stateChanged, ltr_int_set_tr_align, miscChange; the other global
\* settings have the same form.
SetAlign ==
  /\ Edit /\ align' = ~align /\ prefs' = [prefs EXCEPT !.align = ~align]
  /\ slaves' = [s \in Slaves |->
                  IF slaves[s].profile # Untitled THEN [slaves[s] EXCEPT !.align = ~align]
                  ELSE slaves[s]]
  /\ UNCHANGED <<file, gui, names, behind, apart>>

\* on_SaveButton_pressed
Save ==
  /\ Edit /\ file' = prefs
  /\ UNCHANGED <<prefs, gui, names, align, slaves, behind, apart>>

\* on_DiscardChangesButton_pressed: neither the axes nor the global settings are read
\* again.
Discard ==
  /\ Edit /\ prefs' = file /\ behind' = TRUE /\ apart' = TRUE
  /\ UNCHANGED <<file, gui, names, align, slaves>>

------------------------------------------------------------------------------
(* A game starts: ltr_int_slave, which reads the stored preferences, and in ltr_gui
   ltr_int_register_slave and Tracker::signalNewSlave, which sends all parameters. *)

\* Seeded fault: a game gets nothing but what is stored.
JoinUntold(s, t) ==
  LET own == InitAxes(file, t)
  IN /\ prefs' = InitAxes(prefs, t).prefs
     /\ slaves' = [slaves EXCEPT ![s] = [profile |-> t, val |-> own.val, align |-> file.align]]

Join(s, t) ==
  LET own == InitAxes(file, t).val
      here == InitAxes(prefs, t)
  IN /\ prefs' = here.prefs
     /\ slaves' = [slaves EXCEPT ![s] =
          [profile |-> t, val |-> [here.val EXCEPT !.inverted = own.inverted], align |-> align]]

GameStarts ==
  /\ \E s \in Slaves, t \in Profiles : slaves[s] = Idle /\ Join(s, t)
  /\ UNCHANGED <<file, gui, names, align, behind, apart, edits>>

GameEnds ==
  /\ Edit /\ \E s \in Slaves : slaves[s] # Idle /\ slaves' = [slaves EXCEPT ![s] = Idle]
  /\ UNCHANGED <<prefs, file, gui, names, align, behind, apart>>

ProfileNext ==
  \/ SetInPanel \/ SetSmoothing \/ SetInCurve \/ SetSymmetry
  \/ SelectProfile \/ CopyFromDefault \/ (\E f \in Imports : Import(f))
  \/ SetAlign \/ Save \/ Discard \/ GameStarts \/ GameEnds

ProfileSpec == Init /\ [][ProfileNext]_profileVars

------------------------------------------------------------------------------
\* What the axes are in ltr_gui is what its preferences give for the profile, whatever
\* the widgets set off, unless the preferences were read again, or the default copied,
\* and no profile selected since (ltr_gui.cpp:220, axis.c:686).
StoredIsShown ==
  ~behind => /\ prefs.sections[gui.section].title = gui.profile
             /\ InitAxes(prefs, gui.profile).val = gui.val

\* A game has the settings of ltr_gui that are for all games, and one of the default
\* profile has its axes while they are shown, but for the inversion (tracker.cpp:215,
\* ltr_srv_slave.c:211), unless changes were discarded or sent to the section of another
\* profile (ltr_gui.cpp:220, tracker.cpp:153).
GamesFollow ==
  \A s \in Slaves : slaves[s] # Idle =>
    /\ slaves[s].align = align
    /\ slaves[s].profile = "Default" /\ gui.profile = "Default" /\ ~behind /\ ~apart =>
         \A p \in Params \ {"inverted"} : slaves[s].val[p] = gui.val[p]

\* Setting one profile changes no other (ltr_int_axes_from_default, section), unless the
\* section the axes are stored in was discarded (ltr_gui.cpp:220), after which one of
\* another profile may get its name.
OthersUntouched ==
  ~Discard /\ Section(prefs, gui.section).title = gui.profile =>
    \A s \in DOMAIN prefs.sections :
      prefs.sections[s].title \notin {gui.profile, gui'.profile, Untitled} =>
        \A k \in DOMAIN prefs.sections[s].keys :
          prefs'.sections[s].keys[k] = prefs.sections[s].keys[k]

\* An imported profile is that of the file, but for limits that differ, of an axis whose
\* widgets keep them equal (scurve.cpp:143-161), or when the section the axes are stored
\* in was discarded (ltr_gui.cpp:220).
ImportIsWhole ==
  \A f \in Imports : Import(f) =>
    \/ f.val.llimit # f.val.rlimit
    \/ Section(prefs, gui.section).title # gui.profile
    \/ gui'.val = [f.val EXCEPT !.filter = Least(2, f.common + f.val.filter)]

\* The help says that the controls have an immediate effect on the tracking
\* (qt_gui/help/axes_setup.htm:34): a game has the axes of its profile that ltr_gui shows,
\* here without the inversion, and unless changes were discarded.
ControlsReach ==
  ~behind => \A s \in Slaves : slaves[s].profile = gui.profile =>
    \A p \in Params \ {"inverted"} : slaves[s].val[p] = gui.val[p]
================================================================================
