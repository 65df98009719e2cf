------------------------------ MODULE KeyedStore ------------------------------
(***************************************************************************)
(* What TMapString promises its users, without threads, locks or waiting:  *)
(* a store with at most one item per key.  A consumer says which keys it   *)
(* wants; it is handed the item of the least key among those present, and  *)
(* no item is handed out twice.  An item whose key is present is refused.  *)
(***************************************************************************)
EXTENDS Naturals

CONSTANTS Keys, Items, Consumers, NoItem

VARIABLES store,    \* the items by their keys
          want,     \* want[c]: the keys of the latest request of consumer c
          out       \* out[c]: the item consumer c was handed last

vars == <<store, want, out>>

Init == /\ store = [k \in {} |-> NoItem]
        /\ want = [c \in Consumers |-> {}]
        /\ out = [c \in Consumers |-> NoItem]

Without(s, k) == [l \in DOMAIN s \ {k} |-> s[l]]

Put(k, i) == /\ k \notin DOMAIN store
             /\ store' = [l \in DOMAIN store \cup {k} |-> IF l = k THEN i ELSE store[l]]
             /\ UNCHANGED <<want, out>>

Ask(c, ks) == /\ want' = [want EXCEPT ![c] = ks]
              /\ UNCHANGED <<store, out>>

Hand(c, k) == /\ k \in want[c] \cap DOMAIN store
              /\ \A l \in want[c] \cap DOMAIN store : k <= l
              /\ out' = [out EXCEPT ![c] = store[k]]
              /\ store' = Without(store, k)
              /\ UNCHANGED want

Next == \/ \E k \in Keys, i \in Items : Put(k, i)
        \/ \E c \in Consumers, ks \in SUBSET Keys : Ask(c, ks)
        \/ \E c \in Consumers, k \in Keys : Hand(c, k)

Spec == Init /\ [][Next]_vars
===============================================================================
