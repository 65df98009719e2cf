-------------------------------- MODULE IdTable --------------------------------
(***************************************************************************)
(* What SessionMgt promises those who hold a session id, without clocks    *)
(* and without the second map: one table from ids to descriptors.  An id   *)
(* is issued once, stands for the same descriptor as long as it is valid,  *)
(* and remembers the client id it was given last.  A descriptor has one    *)
(* valid id at most.                                                       *)
(***************************************************************************)
EXTENDS Naturals

CONSTANTS Fds, ClientIds

VARIABLES table,    \* what the valid ids stand for
          last      \* the id issued last

vars == <<table, last>>

Init == /\ table = [id \in {} |-> 0]
        /\ last = 0

Entry(fd, n) == [fd |-> fd, client_id |-> n]

Issue(fd) == /\ \A id \in DOMAIN table : table[id].fd # fd
             /\ last' = last + 1
             /\ table' = [id \in DOMAIN table \cup {last'} |->
                            IF id = last' THEN Entry(fd, 0) ELSE table[id]]

Assign(id, n) == /\ table' = [table EXCEPT ![id] = Entry(@.fd, n)]
                 /\ UNCHANGED last

Retire(ids) == /\ table' = [id \in DOMAIN table \ ids |-> table[id]]
               /\ UNCHANGED last

Next == \/ \E fd \in Fds : Issue(fd)
        \/ \E id \in DOMAIN table, n \in ClientIds : Assign(id, n)
        \/ \E ids \in SUBSET DOMAIN table : Retire(ids)

Spec == Init /\ [][Next]_vars
================================================================================
