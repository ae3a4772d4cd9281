--------------------------- MODULE MCEventJournal ---------------------------
(***************************************************************************)
(* Instances of EventJournal for TLC.                                      *)
(***************************************************************************)
EXTENDS EventJournal, TLC

CONSTANTS w1, w2, f1, k1, k2, k3, c1

Interchangeable == Permutations(Writers) \cup Permutations(Keys)
=============================================================================
