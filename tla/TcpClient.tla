------------------------------- MODULE TcpClient -------------------------------
(***************************************************************************)
(* One TcpClientEpoll object in its asynchronous mode: a thread that owns  *)
(* it and calls connect() and close(), and the epoll thread that each      *)
(* successful connect() starts, which calls close() itself when it sees    *)
(* the peer's end.  No lock protects _open, _fd and _epfd, so every        *)
(* access that another thread can interfere with is a step of its own.     *)
(*                                                                         *)
(* The process's other threads open and close descriptors of the same      *)
(* table.  Connection k, the epoll instance made for it and its thread     *)
(* share the number k; 0 stands for -1 in _fd and _epfd.                   *)
(*                                                                         *)
(* Left out: the descriptors the epoll instances themselves take, the      *)
(* event arrays (one is leaked by each connect), and the synchronous mode, *)
(* which ConnPool uses.  TcpClientSend adds a thread that sends.           *)
(***************************************************************************)
EXTENDS Descriptors, Integers

CONSTANT MaxConns    \* bound: calls of connect that get a socket

ASSUME ClientAssumption == MaxConns \in Nat /\ Fds \subseteq Nat \ {0}

Conns == 1 .. MaxConns
Owner == 0
Actors == 0 .. MaxConns

\* What a descriptor stands for, if not for a connection of this object.
Nothing == 0
Other == -1

VARIABLES desc,       \* the process's descriptor table
          interest,   \* interest[k]: the descriptors epoll instance k watches
          ended,      \* the connections whose peer has closed
          used,       \* the connections made so far
          m_fd, m_open, m_epfd,   \* _fd, _open, _epfd
          pc,         \* where the owner and the epoll threads are
          overlap,    \* history: a connect or a close began during a close
          early       \* history: connections closed in vain, before _open was set

members == <<m_fd, m_open, m_epfd>>
history == <<overlap, early>>
vars == <<desc, interest, ended, used, members, pc, history>>

Init == /\ desc = [fd \in Fds |-> Nothing]
        /\ interest = [k \in Conns |-> {}]
        /\ ended = {} /\ used = 0
        /\ m_fd = 0 /\ m_open = FALSE /\ m_epfd = 0
        /\ pc = [a \in Actors |-> IF a = Owner THEN "idle" ELSE "none"]
        /\ overlap = FALSE /\ early = {}

Free == {fd \in Fds : desc[fd] = Nothing}
IsLowestFree(fd) == fd \in Free /\ \A other \in Free : fd <= other

\* close(2), of whatever the descriptor stands for now; nothing for -1.
closeFd(fd) == /\ desc' = [f \in Fds |-> IF f = fd THEN Nothing ELSE desc[f]]
               /\ interest' = [k \in Conns |-> interest[k] \ {fd}]

Goto(a, place) == pc' = [pc EXCEPT ![a] = place]

\* The steps of close() after its test, and those of tcp_epoll_cb before it.
InClose(a) == pc[a] \in {"epoll", "fd", "open", "forget"}
NearClose(a) == InClose(a) \/ pc[a] \in {"del", "check"}

-------------------------------------------------------------------------------
(* connect, in the owner's thread *)

SocketFails == /\ pc[Owner] = "idle"
               /\ ~m_open
               /\ m_fd' = 0
               /\ UNCHANGED <<desc, interest, ended, used, m_open, m_epfd, pc, history>>

Socket == /\ pc[Owner] = "idle"
          /\ ~m_open
          /\ used < MaxConns
          /\ \E fd \in Fds : /\ IsLowestFree(fd)
                             /\ desc' = [desc EXCEPT ![fd] = used + 1]
                             /\ m_fd' = fd
          /\ used' = used + 1
          /\ Goto(Owner, "connect")
          /\ overlap' = (overlap \/ \E a \in Actors : NearClose(a))
          /\ UNCHANGED <<interest, ended, m_open, m_epfd, early>>

\* Mutant: the socket is not closed.
ConnectFailsLeaks == /\ pc[Owner] = "connect"
                     /\ m_fd' = 0
                     /\ Goto(Owner, "idle")
                     /\ UNCHANGED <<desc, interest, ended, used, m_open, m_epfd, history>>

ConnectFails == /\ pc[Owner] = "connect"
                /\ closeFd(m_fd)
                /\ m_fd' = 0
                /\ Goto(Owner, "idle")
                /\ UNCHANGED <<ended, used, m_open, m_epfd, history>>

Connected == /\ pc[Owner] = "connect"
             /\ m_fd # 0
             /\ Goto(Owner, "init")
             /\ UNCHANGED <<desc, interest, ended, used, members, history>>

\* epoll_create and EPOLL_CTL_ADD.
DoInit == /\ pc[Owner] = "init"
          /\ m_fd # 0
          /\ m_epfd' = used
          /\ interest' = [interest EXCEPT ![used] = {m_fd}]
          /\ Goto(Owner, "create")
          /\ UNCHANGED <<desc, ended, used, m_fd, m_open, history>>

\* One of the two fails; an instance that was created stays open.
DoInitFails == /\ pc[Owner] = "init"
               /\ m_epfd' \in {0, used}
               /\ closeFd(m_fd)
               /\ m_fd' = 0
               /\ Goto(Owner, "idle")
               /\ UNCHANGED <<ended, used, m_open, history>>

CreateThread == /\ pc[Owner] = "create"
                /\ pc' = [pc EXCEPT ![Owner] = "setopen", ![used] = "wait"]
                /\ UNCHANGED <<desc, interest, ended, used, members, history>>

CreateFails == /\ pc[Owner] = "create"
               /\ m_epfd' = 0
               /\ closeFd(m_fd)
               /\ m_fd' = 0
               /\ Goto(Owner, "idle")
               /\ UNCHANGED <<ended, used, m_open, history>>

SetOpen == /\ pc[Owner] = "setopen"
           /\ m_open' = TRUE
           /\ Goto(Owner, "idle")
           /\ UNCHANGED <<desc, interest, ended, used, m_fd, m_epfd, history>>

-------------------------------------------------------------------------------
(* close and the epoll threads *)

\* epoll_wait reports the end of the peer and handle_input returns nonzero.
HandleInputFails(t) == /\ pc[t] = "wait"
                       /\ m_epfd # 0
                       /\ \E fd \in interest[m_epfd] : desc[fd] \in ended
                       /\ Goto(t, "del")
                       /\ UNCHANGED <<desc, interest, ended, used, members, history>>

\* Or it reports data, which handle_input rejects, or does not find any more
\* because the descriptor has been closed since.  Other data change nothing.
HandleInputRejects(t) == /\ pc[t] = "wait"
                         /\ m_epfd # 0
                         /\ interest[m_epfd] # {}
                         /\ Goto(t, "del")
                         /\ UNCHANGED <<desc, interest, ended, used, members, history>>

\* Mutant: close() is left to the handler.
DeregisterOnly(t) == /\ pc[t] = "del"
                     /\ interest' = [k \in Conns |->
                           IF k = m_epfd THEN interest[k] \ {m_fd} ELSE interest[k]]
                     /\ Goto(t, "wait")
                     /\ UNCHANGED <<desc, ended, used, members, history>>

\* EPOLL_CTL_DEL of _fd, then handle_close.
Deregister(t) == /\ pc[t] = "del"
                 /\ interest' = [k \in Conns |->
                       IF k = m_epfd THEN interest[k] \ {m_fd} ELSE interest[k]]
                 /\ Goto(t, "check")
                 /\ UNCHANGED <<desc, ended, used, members, history>>

OwnerCloses == /\ pc[Owner] = "idle"
               /\ m_open
               /\ Goto(Owner, "epoll")
               /\ overlap' = (overlap \/ \E a \in Conns : InClose(a))
               /\ UNCHANGED <<desc, interest, ended, used, members, early>>

\* if(!_open) return
CloseReturns(t) == /\ pc[t] = "check"
                   /\ ~m_open
                   /\ early' = IF pc[Owner] = "idle" THEN early ELSE early \cup {used}
                   /\ Goto(t, "wait")
                   /\ UNCHANGED <<desc, interest, ended, used, members, overlap>>

CloseGoesOn(t) == /\ pc[t] = "check"
                  /\ m_open
                  /\ Goto(t, "epoll")
                  /\ overlap' = (overlap \/ \E a \in Actors : InClose(a))
                  /\ UNCHANGED <<desc, interest, ended, used, members, early>>

\* _fd leaves the epoll instance, and that is closed.
CloseEpoll(a) == /\ pc[a] = "epoll"
                 /\ interest' = [k \in Conns |-> IF k = m_epfd THEN {} ELSE interest[k]]
                 /\ m_epfd' = 0
                 /\ Goto(a, "fd")
                 /\ UNCHANGED <<desc, ended, used, m_fd, m_open, history>>

CloseFd(a) == /\ pc[a] = "fd"
              /\ closeFd(m_fd)
              /\ Goto(a, "open")
              /\ UNCHANGED <<ended, used, members, history>>

\* Mutant: the connection still counts as open.
ClearOpenForgotten(a) == /\ pc[a] = "open"
                         /\ Goto(a, "forget")
                         /\ UNCHANGED <<desc, interest, ended, used, members, history>>

ClearOpen(a) == /\ pc[a] = "open"
                /\ m_open' = FALSE
                /\ Goto(a, "forget")
                /\ UNCHANGED <<desc, interest, ended, used, m_fd, m_epfd, history>>

ForgetFd(a) == /\ pc[a] = "forget"
               /\ m_fd' = 0
               /\ Goto(a, IF a = Owner THEN "idle" ELSE "wait")
               /\ UNCHANGED <<desc, interest, ended, used, m_open, m_epfd, history>>

-------------------------------------------------------------------------------
(* The rest of the world *)

IsConnected(k) == /\ \E fd \in Fds : desc[fd] = k
                  /\ ~(k = used /\ pc[Owner] = "connect")

PeerEnds(k) == /\ IsConnected(k)
               /\ k \notin ended
               /\ ended' = ended \cup {k}
               /\ UNCHANGED <<desc, interest, used, members, pc, history>>

OthersOpen == /\ \E fd \in Fds : /\ IsLowestFree(fd)
                                 /\ desc' = [desc EXCEPT ![fd] = Other]
              /\ UNCHANGED <<interest, ended, used, members, pc, history>>

OthersClose(fd) == /\ desc[fd] = Other
                   /\ closeFd(fd)
                   /\ UNCHANGED <<ended, used, members, pc, history>>

-------------------------------------------------------------------------------

connect == \/ SocketFails \/ Socket \/ ConnectFails \/ Connected
           \/ DoInit \/ DoInitFails \/ CreateThread \/ CreateFails \/ SetOpen

close(a) == CloseEpoll(a) \/ CloseFd(a) \/ ClearOpen(a) \/ ForgetFd(a)

tcp_epoll_cb(t) == \/ HandleInputFails(t) \/ Deregister(t)
                   \/ CloseReturns(t) \/ CloseGoesOn(t) \/ close(t)

Next == \/ connect \/ OwnerCloses \/ close(Owner)
        \/ \E t \in Conns : tcp_epoll_cb(t) \/ HandleInputRejects(t)
        \/ \E k \in Conns : PeerEnds(k)
        \/ OthersOpen
        \/ \E fd \in Fds : OthersClose(fd)

Spec == Init /\ [][Next]_vars

\* Threads that can run do run, and connect() comes back.
Fairness == /\ WF_vars(pc[Owner] # "idle" /\ connect)
            /\ WF_vars(close(Owner))
            /\ \A t \in Conns : WF_vars(tcp_epoll_cb(t))

FairSpec == Spec /\ Fairness

-------------------------------------------------------------------------------
(* Correctness *)

TypeOK == /\ desc \in [Fds -> {Nothing, Other} \cup Conns]
          /\ interest \in [Conns -> SUBSET Fds]
          /\ ended \subseteq Conns
          /\ used \in 0 .. MaxConns
          /\ m_fd \in Fds \cup {0}
          /\ m_open \in BOOLEAN
          /\ m_epfd \in 0 .. MaxConns
          /\ pc \in [Actors -> {"none", "idle", "connect", "init", "create", "setopen", "wait",
                                "del", "check", "epoll", "fd", "open", "forget"}]
          /\ overlap \in BOOLEAN
          /\ early \subseteq Conns

\* The use the class supports: no connect and no close begins before a close
\* by another thread is over.
Calm == ~overlap

\* Used in this way, the object holds on to the descriptor of its connection:
\* it never loses one that is open.  (TcpClientSend says what it uses it for.)
NothingLost == Calm => \A fd \in Fds : desc[fd] \in Conns => m_fd = fd

\* And it learns of a peer's end, unless its thread's close() came too early to
\* have an effect: there is no second one.
EndIsKnownOnceOpen ==
  \A k \in Conns : k \in ended /\ k = used /\ m_open /\ k \notin early /\ Calm
                     ~> ~m_open \/ k # used \/ ~Calm
===============================================================================
