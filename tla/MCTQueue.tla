------------------------------- MODULE MCTQueue -------------------------------
(***************************************************************************)
(* Small instances of TQueue for TLC.                                      *)
(***************************************************************************)
EXTENDS TQueue, TLC

\* Consumers are alike, and so are items.
Symmetry == Permutations(Consumers) \cup Permutations(Items)
===============================================================================
