------------------------------ MODULE MCSimpleTcp -----------------------------
(***************************************************************************)
(* A small instance of SimpleTcp for TLC.  Number 0 is among the           *)
(* descriptors: a process whose standard input is closed gets it.          *)
(***************************************************************************)
EXTENDS SimpleTcp, TLC
===============================================================================
