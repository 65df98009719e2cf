------------------------------ MODULE UdpReactor ------------------------------
(***************************************************************************)
(* The UDP reactor, its clients and a network that loses, duplicates and   *)
(* reorders datagrams.                                                     *)
(*                                                                         *)
(* UDP has no connections: the reactor keeps a handler for every address   *)
(* it receives data from, and an empty datagram is a client's end.  One    *)
(* thread runs svc, and one call of svc handles one datagram, so that an   *)
(* action is a whole call.                                                 *)
(***************************************************************************)
EXTENDS Naturals, Sequences, FiniteSets, SequencesExt

CONSTANTS Clients,      \* the addresses clients send from
          MaxSessions,  \* bound: sessions per address
          MaxNet        \* bound: datagrams of an address on the way

ASSUME UdpAssumption == MaxSessions \in Nat /\ MaxNet \in Nat

Sessions == 1 .. MaxSessions

\* Of a datagram the model keeps its sender's session and whether it is empty.
\* Empty means that recvfrom returns 0: a reactor made with buf_size = 1 takes
\* every datagram for empty.
Datagram == [session : Sessions, empty : BOOLEAN]

VARIABLES is_open,    \* the clients whose UdpClient is not closed
          session,    \* session[c]: the session in which address c sends
          saidEnd,    \* the clients that have sent the end of their session
          net,        \* net[c]: the datagrams of c on the way, oldest first
          handlers,   \* handlers[c]: the sessions whose data the handler of c
                      \* has got; c has a handler if there is one
          orderly     \* history: the clients whose ends all came, in order

client == <<is_open, session, saidEnd>>
udpVars == <<client, net, handlers, orderly>>

UdpInit == /\ is_open = {} /\ saidEnd = {}
           /\ session = [c \in Clients |-> 0]
           /\ net = [c \in Clients |-> <<>>]
           /\ handlers = [c \in Clients |-> {}]
           /\ orderly = Clients

-------------------------------------------------------------------------------
(* UdpClient *)

\* A new socket, which may get the address of one that was closed.
connect(c) == /\ c \notin is_open
              /\ session[c] < MaxSessions
              /\ is_open' = is_open \cup {c}
              /\ session' = [session EXCEPT ![c] = @ + 1]
              /\ orderly' = IF session[c] > 0 /\ c \notin saidEnd
                              THEN orderly \ {c} ELSE orderly
              /\ saidEnd' = saidEnd \ {c}
              /\ UNCHANGED <<net, handlers>>

\* sendto of a client that keeps to the protocol: nothing follows the end.
sendto(c, d) == /\ c \in is_open
                /\ c \notin saidEnd
                /\ Len(net[c]) < MaxNet
                /\ d.session = session[c]
                /\ net' = [net EXCEPT ![c] = Append(@, d)]
                /\ saidEnd' = IF d.empty THEN saidEnd \cup {c} ELSE saidEnd
                /\ UNCHANGED <<is_open, session, handlers, orderly>>

\* close sends nothing: the end is up to the application.
close(c) == /\ c \in is_open
            /\ is_open' = is_open \ {c}
            /\ UNCHANGED <<session, saidEnd, net, handlers, orderly>>

-------------------------------------------------------------------------------
(* The network *)

Lose(c, i) == /\ net' = [net EXCEPT ![c] = RemoveAt(@, i)]
              /\ orderly' = IF net[c][i].empty THEN orderly \ {c} ELSE orderly
              /\ UNCHANGED <<client, handlers>>

Duplicate(c, i) == /\ Len(net[c]) < MaxNet
                   /\ net' = [net EXCEPT ![c] = InsertAt(@, i, @[i])]
                   /\ UNCHANGED <<client, handlers, orderly>>

\* The i-th datagram overtakes an end, or is an end that overtakes another.
CrossesEnd(c, i) == \E j \in 1 .. i - 1 : net[c][i].empty \/ net[c][j].empty

-------------------------------------------------------------------------------
(* UdpReactor::svc *)

\* Mutant: handle_close is called but the handler stays.
ReceiveEndKeeps(c, i) == /\ net[c][i].empty
                         /\ net' = [net EXCEPT ![c] = RemoveAt(@, i)]
                         /\ orderly' = IF CrossesEnd(c, i) THEN orderly \ {c} ELSE orderly
                         /\ UNCHANGED <<client, handlers>>

\* rcv_num = 0: the handler, if there is one, is closed, deleted and erased.
ReceiveEnd(c, i) == /\ net[c][i].empty
                    /\ net' = [net EXCEPT ![c] = RemoveAt(@, i)]
                    /\ handlers' = [handlers EXCEPT ![c] = {}]
                    /\ orderly' = IF CrossesEnd(c, i) THEN orderly \ {c} ELSE orderly
                    /\ UNCHANGED client

\* rcv_num > 0: the handler of that address, or a renewed one, gets the data.
ReceiveData(c, i) == /\ ~net[c][i].empty
                     /\ net' = [net EXCEPT ![c] = RemoveAt(@, i)]
                     /\ handlers' = [handlers EXCEPT ![c] = @ \cup {net[c][i].session}]
                     /\ orderly' = IF CrossesEnd(c, i) THEN orderly \ {c} ELSE orderly
                     /\ UNCHANGED client

svc(c, i) == ReceiveEnd(c, i) \/ ReceiveData(c, i)

-------------------------------------------------------------------------------

UdpNext == \E c \in Clients :
             \/ connect(c)
             \/ \E d \in Datagram : sendto(c, d)
             \/ close(c)
             \/ \E i \in DOMAIN net[c] : Lose(c, i) \/ Duplicate(c, i) \/ svc(c, i)

UdpSpec == UdpInit /\ [][UdpNext]_udpVars

-------------------------------------------------------------------------------
(* Correctness *)

UdpTypeOK == /\ is_open \subseteq Clients
             /\ session \in [Clients -> 0 .. MaxSessions]
             /\ saidEnd \subseteq Clients
             /\ \A c \in Clients : net[c] \in BoundedSeq(Datagram, MaxNet)
             /\ handlers \in [Clients -> SUBSET Sessions]
             /\ orderly \subseteq Clients

\* As long as no end of an address is lost or overtaken, whatever happens to its
\* data, each of its handlers gets the data of a single session, and no handler
\* stays behind whose session has ended and has no datagram left on the way.
HandlerPerSession ==
  \A c \in orderly :
    /\ Cardinality(handlers[c]) <= 1
    /\ net[c] = <<>> /\ handlers[c] # {} => handlers[c] = {session[c]} /\ c \notin saidEnd
===============================================================================
