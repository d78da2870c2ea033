------------------------------ MODULE MCSession ------------------------------
(* Session for TLC: the values of its constants are in the .cfg files.       *)
EXTENDS Session, TLC

\* Slaves are told apart by nothing, nor are the processes of a standalone
\* master; used by the run without liveness properties.
Interchangeable == Permutations(Slaves) \cup Permutations(Masters)
==============================================================================
