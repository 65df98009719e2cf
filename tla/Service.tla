-------------------------------- MODULE Service --------------------------------
(***************************************************************************)
(* What the server promises its peers, without descriptors, epoll,         *)
(* handlers and ids.  A connection waits, is admitted, is served by its    *)
(* own handler only while it is open, is closed once, and not before its   *)
(* peer has ended it and all that came before the end has been read.  A    *)
(* connection is known from its admission until a timer forgets it, and no *)
(* connection is known any more when it is closed.                         *)
(***************************************************************************)
CONSTANTS Conns, NoConn

VARIABLES stage,      \* stage[k]: "new", "waiting", "open" or "closed"
          accepting,  \* peers may connect
          unread,     \* the connections with data on the way to the server
          ended,      \* those their peers have closed or reset
          known,      \* those that have a session
          serving     \* the one whose handler runs

peers == <<accepting, unread, ended>>
vars == <<stage, peers, known, serving>>

Init == /\ stage = [k \in Conns |-> "new"]
        /\ accepting = TRUE
        /\ unread = {} /\ ended = {} /\ known = {}
        /\ serving = NoConn

Moves(k, from, to) == /\ stage[k] = from
                      /\ stage' = [stage EXCEPT ![k] = to]

Connected(k) == stage[k] \in {"waiting", "open"} /\ k \notin ended

Arrive(k) == /\ accepting
             /\ Moves(k, "new", "waiting")
             /\ UNCHANGED <<peers, known, serving>>

Send(k) == /\ Connected(k)
           /\ unread' = unread \cup {k}
           /\ UNCHANGED <<stage, accepting, ended, known, serving>>

End(k) == /\ Connected(k)
          /\ ended' = ended \cup {k}
          /\ UNCHANGED <<stage, accepting, unread, known, serving>>

Admit(k) == /\ Moves(k, "waiting", "open")
            /\ known' = known \cup {k}
            /\ UNCHANGED <<peers, serving>>

Begin(k) == /\ serving = NoConn
            /\ stage[k] = "open"
            /\ serving' = k
            /\ UNCHANGED <<stage, peers, known>>

\* The handler reads what there is.
Read == /\ serving # NoConn
        /\ unread' = unread \ {serving}
        /\ serving' = NoConn
        /\ UNCHANGED <<stage, accepting, ended, known>>

Forget(K) == /\ known' = known \ K
             /\ UNCHANGED <<stage, peers, serving>>

Close(k) == /\ serving = NoConn
            /\ k \in ended \ (unread \cup known)
            /\ Moves(k, "open", "closed")
            /\ UNCHANGED <<peers, known, serving>>

Stop == /\ accepting
        /\ accepting' = FALSE
        /\ stage' = [k \in Conns |-> IF stage[k] = "waiting" THEN "closed" ELSE stage[k]]
        /\ UNCHANGED <<unread, ended, known, serving>>

Next == \/ \E k \in Conns : \/ Arrive(k) \/ Send(k) \/ End(k)
                            \/ Admit(k) \/ Begin(k) \/ Close(k)
        \/ Read
        \/ \E K \in SUBSET known : Forget(K)
        \/ Stop

Spec == Init /\ [][Next]_vars
================================================================================
