------------------------------ MODULE Descriptors ------------------------------
(***************************************************************************)
(* What the reactor and the session table have in common.                  *)
(***************************************************************************)
CONSTANT Fds    \* the file descriptors accept may return (RLIMIT_NOFILE)
================================================================================
