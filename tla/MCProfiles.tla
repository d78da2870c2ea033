----------------------------- MODULE MCProfiles -----------------------------
(* A user of ltr_gui with one game, whose profile has a section of its own.  *)
EXTENDS Profiles, TLC

Keys == [enabled |-> 1, inverted |-> 0, mult |-> 2, llimit |-> 1, rlimit |-> 1, filter |-> 0]
StoredFiles ==
  {[sections |-> (Named("Default") :> [title |-> "Default", keys |-> Keys]) @@
                 (Named("Profile") :> [title |-> "game", keys |-> Keys]), align |-> TRUE]}
NoImports == {}
=============================================================================
