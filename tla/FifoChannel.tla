------------------------------ MODULE FifoChannel ------------------------------
(***************************************************************************)
(* What TQueue promises its users, without threads, locks or clocks: a     *)
(* first-in first-out channel.  An accepted item is handed to exactly one  *)
(* consumer, in the order of acceptance.  Capacity 0 means no limit.       *)
(***************************************************************************)
EXTENDS Naturals, Sequences

CONSTANTS Items, Consumers, Capacity, NoItem

VARIABLES chan,     \* the items accepted and not yet handed out
          out       \* out[c]: the item consumer c was handed last

vars == <<chan, out>>

Init == /\ chan = <<>>
        /\ out = [c \in Consumers |-> NoItem]

Accept(i) == /\ Capacity > 0 => Len(chan) < Capacity
             /\ chan' = Append(chan, i)
             /\ UNCHANGED out

Deliver(c) == /\ chan # <<>>
              /\ out' = [out EXCEPT ![c] = Head(chan)]
              /\ chan' = Tail(chan)

Next == \/ \E i \in Items : Accept(i)
        \/ \E c \in Consumers : Deliver(c)

Spec == Init /\ [][Next]_vars
================================================================================
