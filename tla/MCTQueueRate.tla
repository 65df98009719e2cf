----------------------------- MODULE MCTQueueRate -----------------------------
(***************************************************************************)
(* Small instances of the rate-limited queue for TLC.                      *)
(***************************************************************************)
EXTENDS TQueue, TLC

Symmetry == Permutations(Consumers)

\* What the future of the limiter depends on: which items are queued or were
\* handed out does not matter to it, and a local variable only while it is live.
Local(c) ==
  <<pc[c],
    IF pc[c] \in {"lock", "wait", "woken"} THEN mode[c] ELSE "dead",
    IF pc[c] \in {"idle", "sleep"} THEN 0 ELSE last_pop_ts[c],
    IF pc[c] = "sleep" THEN deadline[c] ELSE 0>>

View == <<Len(lst_item), limiter, [c \in Consumers |-> Local(c)]>>
===============================================================================
