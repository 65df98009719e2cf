----------------------------- MODULE MCTcpReactor -----------------------------
(***************************************************************************)
(* Small instances of TcpReactor for TLC.                                  *)
(***************************************************************************)
EXTENDS TcpReactor, TLC

Symmetry == Permutations(Conns)
===============================================================================
