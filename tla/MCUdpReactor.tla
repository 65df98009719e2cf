----------------------------- MODULE MCUdpReactor -----------------------------
(***************************************************************************)
(* A small instance of UdpReactor for TLC.                                 *)
(***************************************************************************)
EXTENDS UdpReactor, TLC
===============================================================================
