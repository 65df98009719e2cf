----------------------------- MODULE MCMeetingPool ----------------------------
(***************************************************************************)
(* A small instance of MeetingPool for TLC: three threads, two parties.    *)
(***************************************************************************)
EXTENDS MeetingPool, TLC
===============================================================================
