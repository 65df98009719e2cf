--------------------------- MODULE MCSessionExpiry ---------------------------
(***************************************************************************)
(* Small instances of SessionExpiry for TLC.                               *)
(***************************************************************************)
EXTENDS SessionExpiry, TLC

Symmetry == Permutations(Fds) \cup Permutations(Peers)
===============================================================================
