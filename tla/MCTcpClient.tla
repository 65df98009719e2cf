----------------------------- MODULE MCTcpClient -----------------------------
(***************************************************************************)
(* Small instances of TcpClientSend for TLC.                               *)
(***************************************************************************)
EXTENDS TcpClientSend, TLC
===============================================================================
