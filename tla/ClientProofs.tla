----------------------------- MODULE ClientProofs -----------------------------
(***************************************************************************)
(* Proofs about the TCP client.                                            *)
(*                                                                         *)
(* In calm use a client object holds on to its descriptor and uses no      *)
(* other, for any number of connections, threads and descriptors.          *)
(***************************************************************************)
EXTENDS TcpClientSend, TLAPS

Connecting == pc[Owner] \in {"connect", "init", "create", "setopen"}

\* A close has given the descriptor back, and _fd still has its number.
Closed == \E a \in Actors : pc[a] \in {"open", "forget"}

\* _fd stands for the latest connection, unless a close is about to forget it.
FdIsCurrent == m_fd # 0 /\ ~Closed => used \in Conns /\ desc[m_fd] = used

\* When the descriptor is closed no other is open.
ClosedIsGone == Closed => \A fd \in Fds : desc[fd] \notin Conns

\* One close at a time; it begins with _open set, and clears it before _fd.
OneClose == /\ \A a, b \in Actors : InClose(a) /\ InClose(b) => a = b
            /\ \A a \in Actors : pc[a] \in {"epoll", "fd", "open"} => m_open
            /\ \A a \in Actors : pc[a] = "forget" => ~m_open

\* A connect is not interfered with.
ConnectAlone == Connecting => ~m_open /\ m_fd # 0 /\ \A a \in Actors : ~InClose(a)

\* _open and _fd agree between connect and close.
OpenHasFd == m_open => m_fd # 0
ShutHasNone == pc[Owner] = "idle" /\ ~m_open /\ ~Closed => m_fd = 0

\* While the sender's connection is the open one, it has the right descriptor;
\* and a new one has a new number.
SenderIsCurrent == /\ s_conn <= used
                   /\ Connecting => s_conn # used
                   /\ Undisturbed /\ s_pc \in {"send", "wait"} => s_fd = m_fd

CalmInv == /\ NothingLost /\ FdIsCurrent /\ ClosedIsGone /\ OneClose
           /\ ConnectAlone /\ OpenHasFd /\ ShutHasNone /\ SenderIsCurrent

\* Epoll threads are numbered by the connections made so far.
ThreadsCounted == \A k \in Conns : pc[k] # "none" => k <= used

Types == TypeOK /\ ThreadsCounted /\ SendTypeOK
IInv == Types /\ (Calm => CalmInv)

-------------------------------------------------------------------------------
(* Types *)

LEMMA InitTypes == SendInit => Types
<1>. SUFFICES ASSUME SendInit PROVE Types
  OBVIOUS
<1>. USE ClientAssumption DEF SendInit, Init, Actors, Conns
<1>1. TypeOK
  <2>1. used \in 0 .. MaxConns /\ m_epfd \in 0 .. MaxConns
    OBVIOUS
  <2>. QED
    BY <2>1, Zenon DEF TypeOK, Nothing
<1>2. ThreadsCounted
  BY DEF ThreadsCounted, Owner
<1>3. SendTypeOK
  BY DEF SendTypeOK
<1>. QED
  BY <1>1, <1>2, <1>3 DEF Types

LEMMA CloseFdType ==
  ASSUME TypeOK, NEW fd, closeFd(fd)
  PROVE  desc' \in [Fds -> {Nothing, Other} \cup Conns] /\ interest' \in [Conns -> SUBSET Fds]
BY DEF TypeOK, closeFd

LEMMA ConnectTypes == TypeOK /\ connect => TypeOK'
<1>. SUFFICES ASSUME TypeOK, connect PROVE TypeOK'
  OBVIOUS
<1>. USE ClientAssumption DEF TypeOK, history, members, Goto, Actors, Conns, Owner
<1>1. CASE SocketFails
  BY <1>1 DEF SocketFails
<1>2. CASE Socket
  BY <1>2 DEF Socket, NearClose, InClose
<1>3. CASE ConnectFails
  BY <1>3, CloseFdType DEF ConnectFails
<1>4. CASE Connected
  BY <1>4 DEF Connected
<1>5. CASE DoInit
  BY <1>5 DEF DoInit
<1>6. CASE DoInitFails
  BY <1>6, CloseFdType DEF DoInitFails
<1>7. CASE CreateThread
  BY <1>7 DEF CreateThread
<1>8. CASE CreateFails
  BY <1>8, CloseFdType DEF CreateFails
<1>9. CASE SetOpen
  BY <1>9 DEF SetOpen
<1>. QED
  BY <1>1, <1>2, <1>3, <1>4, <1>5, <1>6, <1>7, <1>8, <1>9 DEF connect

LEMMA CloseTypes == ASSUME TypeOK, NEW a \in Actors, close(a) PROVE TypeOK'
<1>. USE ClientAssumption DEF TypeOK, history, members, Goto, Actors, Conns, Owner
<1>1. CASE CloseEpoll(a)
  BY <1>1 DEF CloseEpoll
<1>2. CASE CloseFd(a)
  BY <1>2, CloseFdType DEF CloseFd
<1>3. CASE ClearOpen(a)
  BY <1>3 DEF ClearOpen
<1>4. CASE ForgetFd(a)
  BY <1>4 DEF ForgetFd
<1>. QED
  BY <1>1, <1>2, <1>3, <1>4 DEF close

LEMMA ThreadTypes ==
  ASSUME TypeOK, ThreadsCounted, NEW t \in Conns, tcp_epoll_cb(t) \/ HandleInputRejects(t)
  PROVE  TypeOK'
<1>. t \in Actors
  BY DEF Actors, Conns
<1>1. CASE HandleInputFails(t) \/ HandleInputRejects(t)
  BY <1>1 DEF HandleInputFails, HandleInputRejects, TypeOK, history, members, Goto
<1>2. CASE Deregister(t)
  BY <1>2 DEF Deregister, TypeOK, history, members, Goto
<1>3. CASE CloseReturns(t)
  <2>1. t <= used /\ 1 <= t
    BY <1>3, ClientAssumption DEF CloseReturns, Conns, ThreadsCounted
  <2>2. used \in Conns
    BY <2>1, ClientAssumption DEF TypeOK, Conns
  <2>. QED
    BY <1>3, <2>2 DEF CloseReturns, TypeOK, history, members, Goto
<1>4. CASE CloseGoesOn(t)
  BY <1>4 DEF CloseGoesOn, TypeOK, history, members, Goto, InClose
<1>5. CASE close(t)
  BY <1>5, CloseTypes
<1>. QED
  BY <1>1, <1>2, <1>3, <1>4, <1>5 DEF tcp_epoll_cb

LEMMA WorldTypes ==
  ASSUME TypeOK, OwnerCloses \/ OthersOpen \/ (\E k \in Conns : PeerEnds(k))
                   \/ (\E fd \in Fds : OthersClose(fd))
  PROVE  TypeOK'
<1>. USE DEF TypeOK, history, members
<1>1. CASE OwnerCloses
  BY <1>1 DEF OwnerCloses, Goto, InClose
<1>2. CASE OthersOpen
  BY <1>2 DEF OthersOpen
<1>3. CASE \E k \in Conns : PeerEnds(k)
  BY <1>3 DEF PeerEnds
<1>4. CASE \E fd \in Fds : OthersClose(fd)
  BY <1>4, CloseFdType DEF OthersClose
<1>. QED
  BY <1>1, <1>2, <1>3, <1>4

\* No thread is started but that of the latest connection.
LEMMA CountedStep == TypeOK /\ ThreadsCounted /\ Next => ThreadsCounted'
<1>. SUFFICES ASSUME TypeOK, ThreadsCounted, Next PROVE ThreadsCounted'
  OBVIOUS
<1>. USE ClientAssumption DEF ThreadsCounted, Actors, Conns, Owner, Goto, history
<1>. used \in 0 .. MaxConns /\ pc = [a \in Actors |-> pc[a]]
  BY DEF TypeOK
<1>1. CASE connect
  BY <1>1 DEF connect, SocketFails, Socket, ConnectFails, Connected, DoInit, DoInitFails,
              CreateThread, CreateFails, SetOpen
<1>2. CASE close(Owner)
  BY <1>2 DEF close, CloseEpoll, CloseFd, ClearOpen, ForgetFd
<1>3. ASSUME NEW t \in Conns, tcp_epoll_cb(t) \/ HandleInputRejects(t)
      PROVE  ThreadsCounted'
  <2>1. used' = used /\ pc[t] # "none" /\ \A a \in Actors \ {t} : pc'[a] = pc[a]
    <3>1. CASE close(t)
      BY <3>1 DEF close, CloseEpoll, CloseFd, ClearOpen, ForgetFd
    <3>2. CASE HandleInputFails(t) \/ HandleInputRejects(t) \/ Deregister(t)
      BY <3>2 DEF HandleInputRejects, HandleInputFails, Deregister
    <3>3. CASE CloseReturns(t) \/ CloseGoesOn(t)
      BY <3>3 DEF CloseReturns, CloseGoesOn
    <3>. QED
      BY <1>3, <3>1, <3>2, <3>3 DEF tcp_epoll_cb
  <2>2. ASSUME NEW k \in Conns, pc'[k] # "none" PROVE pc[k] # "none"
    BY <2>1, <2>2
  <2>. QED
    BY <2>1, <2>2
<1>4. CASE OwnerCloses
  BY <1>4, SMTT(20) DEF OwnerCloses
<1>5. CASE OthersOpen \/ (\E k \in Conns : PeerEnds(k)) \/ (\E fd \in Fds : OthersClose(fd))
  BY <1>5 DEF OthersOpen, PeerEnds, OthersClose
<1>. QED
  BY <1>1, <1>2, <1>3, <1>4, <1>5 DEF Next

LEMMA SendTypes == Types /\ send => SendTypeOK'
BY ClientAssumption
   DEF Types, SendTypeOK, TypeOK, send, SendBegins, TakeFd, Write, WaitEnds, Returned

LEMMA StepTypes == Types /\ [SendNext]_allVars => Types'
<1>. SUFFICES ASSUME Types, [SendNext]_allVars PROVE Types'
  OBVIOUS
<1>1. CASE Next /\ UNCHANGED sending
  <2>1. TypeOK'
    <3>1. Owner \in Actors
      BY ClientAssumption DEF Owner, Actors
    <3>. QED
      BY <1>1, <3>1, ConnectTypes, CloseTypes, ThreadTypes, WorldTypes DEF Next, Types
  <2>2. ThreadsCounted'
    BY <1>1, CountedStep DEF Types
  <2>. QED
    BY <1>1, <2>1, <2>2 DEF Types, SendTypeOK, sending
<1>2. CASE send /\ UNCHANGED vars
  BY <1>2, SendTypes DEF Types, TypeOK, ThreadsCounted, vars, members, history
<1>3. CASE UNCHANGED allVars
  BY <1>3 DEF Types, TypeOK, ThreadsCounted, SendTypeOK, allVars, vars, members, history, sending
<1>. QED
  BY <1>1, <1>2, <1>3 DEF SendNext

\* The variables stay within their types.
THEOREM ClientTypeCorrect == SendSpec => []TypeOK
<1>1. Types => TypeOK
  BY DEF Types
<1>. QED
  BY <1>1, InitTypes, StepTypes, PTL DEF SendSpec

-------------------------------------------------------------------------------
(* Calm use *)

LEMMA StaysDisturbed == [SendNext]_allVars /\ Calm' => Calm
<1>. SUFFICES ASSUME [SendNext]_allVars PROVE overlap => overlap'
  BY DEF Calm
<1>. USE DEF history
<1>1. CASE Next
  BY <1>1 DEF Next, connect, SocketFails, Socket, ConnectFails, Connected, DoInit, DoInitFails,
              CreateThread, CreateFails, SetOpen, OwnerCloses, close, CloseEpoll, CloseFd, ClearOpen,
              ForgetFd, tcp_epoll_cb, HandleInputFails, HandleInputRejects, Deregister, CloseReturns,
              CloseGoesOn, PeerEnds, OthersOpen, OthersClose
<1>2. CASE UNCHANGED vars
  BY <1>2 DEF vars
<1>. QED
  BY <1>1, <1>2 DEF SendNext, allVars

LEMMA InitCalm == SendInit => CalmInv
<1>. SUFFICES ASSUME SendInit PROVE CalmInv
  OBVIOUS
<1>. USE ClientAssumption DEF SendInit, Init, Actors, Owner
<1>1. \A a \in Actors : pc[a] \in {"idle", "none"} /\ ~InClose(a)
  BY DEF InClose
<1>2. \A fd \in Fds : desc[fd] \notin Conns
  <2>1. Nothing \notin Conns
    BY DEF Nothing, Conns
  <2>. QED
    BY <2>1
<1>3. ~Closed /\ ~Connecting
  BY <1>1 DEF Closed, Connecting
<1>. QED
  BY <1>1, <1>2, <1>3 DEF CalmInv, NothingLost, FdIsCurrent, ClosedIsGone, OneClose, ConnectAlone,
                          OpenHasFd, ShutHasNone, SenderIsCurrent

\* connect, when nobody closes.
LEMMA ConnectCalm ==
  ASSUME Types, CalmInv, Calm', connect, UNCHANGED sending
  PROVE  CalmInv'
<1>. USE ClientAssumption DEF Types, TypeOK, SendTypeOK, CalmInv, NothingLost, FdIsCurrent,
         ClosedIsGone, OneClose, ConnectAlone, OpenHasFd, ShutHasNone, SenderIsCurrent,
         Connecting, Closed, Undisturbed, InClose, Calm, history, members, sending, Goto,
         Actors, Conns, Owner, Nothing, Other
<1>1. CASE SocketFails
  BY <1>1 DEF SocketFails
<1>2. CASE Socket
  <2>1. /\ Calm /\ pc[Owner] = "idle" /\ ~m_open /\ m_fd = 0
        /\ \A a \in Actors : ~InClose(a)
    BY <1>2 DEF Socket, NearClose
  <2>2. \A fd \in Fds : desc[fd] \notin Conns
    BY <2>1
  <2>3. PICK fd \in Fds : desc' = [desc EXCEPT ![fd] = used + 1] /\ m_fd' = fd
    BY <1>2 DEF Socket
  <2>4. /\ used' = used + 1 /\ used' \in Conns /\ ~m_open' /\ m_fd' # 0
        /\ pc' = [pc EXCEPT ![Owner] = "connect"]
        /\ \A a \in Actors : ~InClose(a)'
    BY <1>2, <2>1, <2>3 DEF Socket
  <2>5. ~Closed' /\ desc'[m_fd'] = used' /\ \A f \in Fds : desc'[f] \in Conns => f = m_fd'
    BY <2>2, <2>3, <2>4
  <2>. QED
    BY <2>4, <2>5
<1>3. CASE ConnectFails
  BY <1>3 DEF ConnectFails, closeFd
<1>4. CASE Connected
  BY <1>4 DEF Connected
<1>5. CASE DoInit
  BY <1>5 DEF DoInit
<1>6. CASE DoInitFails
  BY <1>6 DEF DoInitFails, closeFd
<1>7. CASE CreateThread
  BY <1>7 DEF CreateThread
<1>8. CASE CreateFails
  BY <1>8 DEF CreateFails, closeFd
<1>9. CASE SetOpen
  <2>1. /\ Connecting /\ m_fd # 0 /\ s_conn # used
        /\ \A a \in Actors : ~InClose(a)
    BY <1>9 DEF SetOpen
  <2>2. /\ pc' = [pc EXCEPT ![Owner] = "idle"]
        /\ m_open' /\ UNCHANGED <<desc, used, m_fd, s_conn>>
    BY <1>9 DEF SetOpen
  <2>3. \A a \in Actors : ~InClose(a)'
    BY <2>1, <2>2
  <2>4. ~Connecting' /\ ~Closed /\ ~Closed' /\ pc'[Owner] = "idle"
    BY <2>1, <2>2, <2>3
  <2>5. \A a \in Actors : pc'[a] \notin {"epoll", "fd", "open", "forget"}
    BY <2>3
  <2>6. NothingLost' /\ FdIsCurrent' /\ ClosedIsGone' /\ OpenHasFd' /\ ShutHasNone'
    BY <1>9, <2>1, <2>2, <2>4 DEF SetOpen
  <2>7. OneClose' /\ ConnectAlone' /\ SenderIsCurrent'
    BY <2>1, <2>2, <2>3, <2>4, <2>5
  <2>. QED
    BY <2>6, <2>7
<1>. QED
  BY <1>1, <1>2, <1>3, <1>4, <1>5, <1>6, <1>7, <1>8, <1>9 DEF connect

\* close, from its test of _open to the end.
LEMMA CloseCalm ==
  ASSUME Types, CalmInv, Calm', NEW a \in Actors, close(a), UNCHANGED sending
  PROVE  CalmInv'
<1>. USE ClientAssumption DEF Types, TypeOK, SendTypeOK, CalmInv, NothingLost, FdIsCurrent,
         ClosedIsGone, OneClose, ConnectAlone, OpenHasFd, ShutHasNone, SenderIsCurrent,
         Connecting, Closed, Undisturbed, InClose, Calm, history, members, sending, Goto,
         Actors, Conns, Owner, Nothing, Other
<1>1. CASE CloseEpoll(a)
  BY <1>1 DEF CloseEpoll
<1>2. CASE CloseFd(a)
  BY <1>2 DEF CloseFd, closeFd
<1>3. CASE ClearOpen(a)
  BY <1>3 DEF ClearOpen
<1>4. CASE ForgetFd(a)
  BY <1>4 DEF ForgetFd
<1>. QED
  BY <1>1, <1>2, <1>3, <1>4 DEF close

\* A close that begins when no other is under way finds everything in order.
LEMMA EntersClose ==
  ASSUME Types, CalmInv, Calm, Calm', m_open, NEW a \in Actors, Goto(a, "epoll"),
         \A b \in Actors : ~InClose(b), UNCHANGED <<desc, used, members, sending>>
  PROVE  CalmInv'
<1>. USE ClientAssumption DEF Types, TypeOK, SendTypeOK, CalmInv, NothingLost, FdIsCurrent,
         ClosedIsGone, OneClose, ConnectAlone, OpenHasFd, ShutHasNone, SenderIsCurrent,
         Connecting, Closed, Undisturbed, InClose, Calm, history, members, sending, Goto,
         Actors, Conns, Owner, Nothing, Other
<1>1. /\ ~Connecting /\ ~Closed
      /\ pc'[a] = "epoll" /\ \A b \in Actors \ {a} : pc'[b] = pc[b]
  OBVIOUS
<1>2. ~Connecting' /\ ~Closed' /\ InClose(a)' /\ \A b \in Actors \ {a} : ~InClose(b)'
  BY <1>1
<1>3. NothingLost' /\ FdIsCurrent' /\ ClosedIsGone' /\ OpenHasFd' /\ ShutHasNone'
  BY <1>1, <1>2
<1>4. OneClose' /\ ConnectAlone' /\ SenderIsCurrent'
  BY <1>1, <1>2
<1>. QED
  BY <1>3, <1>4

\* An epoll thread that is outside close before a step and after it changes
\* nothing the invariant speaks of.
LEMMA StaysOutside ==
  ASSUME CalmInv, NEW t \in Conns, t \in Actors, t # Owner,
         ~InClose(t), pc'[t] \notin {"epoll", "fd", "open", "forget"},
         \A b \in Actors \ {t} : pc'[b] = pc[b], Owner \in Actors, Calm <=> Calm',
         UNCHANGED <<desc, used, members, sending>>
  PROVE  CalmInv'
<1>1. \A b \in Actors, x \in {"epoll", "fd", "open", "forget"} : pc'[b] = x <=> pc[b] = x
  BY DEF InClose
<1>2. \A b \in Actors : InClose(b)' <=> InClose(b)
  BY <1>1 DEF InClose
<1>3. /\ Closed' <=> Closed
      /\ \A b \in Actors : /\ pc'[b] \in {"epoll", "fd", "open"} => pc[b] \in {"epoll", "fd", "open"}
                           /\ pc'[b] = "forget" => pc[b] = "forget"
  BY <1>1 DEF Closed
<1>4. Connecting' <=> Connecting
  BY DEF Connecting
<1>5. Undisturbed' <=> Undisturbed
  BY <1>2 DEF Undisturbed, members, sending
<1>6. UNCHANGED <<desc, used, m_fd, m_open, s_pc, s_fd, s_conn>>
  BY DEF members, sending
<1>7. NothingLost' /\ FdIsCurrent' /\ ClosedIsGone'
  BY <1>3, <1>6 DEF CalmInv, NothingLost, FdIsCurrent, ClosedIsGone
<1>8. OneClose'
  BY <1>2, <1>3, <1>6 DEF CalmInv, OneClose
<1>9. ConnectAlone'
  BY <1>2, <1>4, <1>6 DEF CalmInv, ConnectAlone
<1>10. OpenHasFd' /\ ShutHasNone'
  BY <1>1, <1>2, <1>3, <1>4, <1>6 DEF CalmInv, OpenHasFd, ShutHasNone
<1>11. SenderIsCurrent'
  BY <1>4, <1>5, <1>6 DEF CalmInv, SenderIsCurrent
<1>. QED
  BY <1>7, <1>8, <1>9, <1>10, <1>11 DEF CalmInv

\* The epoll threads, up to the test of _open in close.
LEMMA ThreadCalm ==
  ASSUME Types, CalmInv, Calm', NEW t \in Conns, UNCHANGED sending,
         tcp_epoll_cb(t) \/ HandleInputRejects(t)
  PROVE  CalmInv'
<1>. t \in Actors /\ t # Owner /\ Owner \in Actors
  BY ClientAssumption DEF Actors, Conns, Owner
<1>1. \A x : Goto(t, x) => pc'[t] = x /\ \A b \in Actors \ {t} : pc'[b] = pc[b]
  BY DEF Goto, Types, TypeOK
<1>2. CASE HandleInputFails(t) \/ HandleInputRejects(t) \/ Deregister(t)
  <2>1. /\ pc[t] \in {"wait", "del"} /\ (Goto(t, "del") \/ Goto(t, "check"))
        /\ UNCHANGED <<desc, used, members, overlap>>
    BY <1>2 DEF HandleInputFails, HandleInputRejects, Deregister, history
  <2>2. pc'[t] \in {"del", "check"} /\ \A b \in Actors \ {t} : pc'[b] = pc[b]
    BY <1>1, <2>1
  <2>3. ~InClose(t) /\ (Calm <=> Calm')
    BY <2>1 DEF InClose, Calm
  <2>. QED
    BY <2>1, <2>2, <2>3, StaysOutside
<1>3. CASE CloseReturns(t)
  <2>1. /\ pc[t] = "check" /\ Goto(t, "wait")
        /\ UNCHANGED <<desc, used, members, overlap>>
    BY <1>3 DEF CloseReturns
  <2>2. pc'[t] = "wait" /\ \A b \in Actors \ {t} : pc'[b] = pc[b]
    BY <1>1, <2>1
  <2>3. ~InClose(t) /\ (Calm <=> Calm')
    BY <2>1 DEF InClose, Calm
  <2>. QED
    BY <2>1, <2>2, <2>3, StaysOutside
<1>4. CASE CloseGoesOn(t)
  <2>1. Calm /\ \A b \in Actors : ~InClose(b)
    BY <1>4 DEF CloseGoesOn, Calm
  <2>. QED
    BY <1>4, <2>1, EntersClose DEF CloseGoesOn
<1>5. CASE close(t)
  BY <1>5, CloseCalm
<1>. QED
  BY <1>2, <1>3, <1>4, <1>5 DEF tcp_epoll_cb

\* The owner's decision to close, the peers, and the rest of the process.
LEMMA WorldCalm ==
  ASSUME Types, CalmInv, Calm', UNCHANGED sending,
         OwnerCloses \/ OthersOpen \/ (\E k \in Conns : PeerEnds(k))
           \/ (\E fd \in Fds : OthersClose(fd))
  PROVE  CalmInv'
<1>. USE ClientAssumption DEF Types, TypeOK, SendTypeOK, CalmInv, NothingLost, FdIsCurrent,
         ClosedIsGone, OneClose, ConnectAlone, OpenHasFd, ShutHasNone, SenderIsCurrent,
         Connecting, Closed, Undisturbed, InClose, Calm, history, members, sending, Goto,
         Actors, Conns, Owner, Nothing, Other
<1>1. CASE OwnerCloses
  <2>1. \A b \in Actors : ~InClose(b)
    <3>1. \A b \in Conns : ~InClose(b)
      BY <1>1 DEF OwnerCloses
    <3>2. ~InClose(Owner)
      BY <1>1 DEF OwnerCloses
    <3>. QED
      BY <3>1, <3>2
  <2>2. Owner \in Actors
    OBVIOUS
  <2>. QED
    BY <1>1, <2>1, <2>2, EntersClose DEF OwnerCloses
<1>2. CASE OthersOpen
  <2>1. PICK f \in Fds : desc[f] = Nothing /\ desc' = [desc EXCEPT ![f] = Other]
    BY <1>2 DEF OthersOpen, IsLowestFree, Free
  <2>2. \A k \in Conns : k # Nothing /\ k # Other
    OBVIOUS
  <2>3. \A fd \in Fds : desc'[fd] \in Conns <=> desc[fd] \in Conns
    BY <2>1, <2>2
  <2>. QED
    BY <1>2, <2>1, <2>3 DEF OthersOpen
<1>3. CASE \E k \in Conns : PeerEnds(k)
  BY <1>3 DEF PeerEnds
<1>4. CASE \E fd \in Fds : OthersClose(fd)
  BY <1>4 DEF OthersClose, closeFd
<1>. QED
  BY <1>1, <1>2, <1>3, <1>4

LEMMA SendCalm ==
  ASSUME Types, CalmInv, send, UNCHANGED vars
  PROVE  CalmInv'
<1>. USE ClientAssumption DEF Types, TypeOK, SendTypeOK, CalmInv, NothingLost, FdIsCurrent,
         ClosedIsGone, OneClose, ConnectAlone, OpenHasFd, ShutHasNone, SenderIsCurrent,
         Connecting, Closed, Undisturbed, InClose, Calm, history, members, sending, Goto,
         Actors, Conns, Owner, Nothing, Other
<1>1. CASE SendBegins
  BY <1>1 DEF SendBegins, vars
<1>2. CASE TakeFd
  BY <1>2 DEF TakeFd, vars
<1>3. CASE Write \/ WaitEnds
  BY <1>3 DEF Write, WaitEnds, Returned, vars
<1>. QED
  BY <1>1, <1>2, <1>3 DEF send

LEMMA StepCalm == Types /\ CalmInv /\ Calm' /\ [SendNext]_allVars => CalmInv'
<1>. SUFFICES ASSUME Types, CalmInv, Calm', [SendNext]_allVars PROVE CalmInv'
  OBVIOUS
<1>1. CASE Next /\ UNCHANGED sending
  <2>1. Owner \in Actors
    BY ClientAssumption DEF Owner, Actors
  <2>. QED
    BY <1>1, <2>1, ConnectCalm, CloseCalm, ThreadCalm, WorldCalm DEF Next
<1>2. CASE send /\ UNCHANGED vars
  BY <1>2, SendCalm
<1>3. CASE UNCHANGED allVars
  BY <1>3 DEF CalmInv, NothingLost, FdIsCurrent, ClosedIsGone, OneClose, ConnectAlone, OpenHasFd,
              ShutHasNone, SenderIsCurrent, Calm, Connecting, Closed, Undisturbed, InClose,
              allVars, vars, members, history, sending
<1>. QED
  BY <1>1, <1>2, <1>3 DEF SendNext

LEMMA Invariant == SendSpec => []IInv
<1>1. SendInit => IInv
  BY InitTypes, InitCalm DEF IInv
<1>2. IInv /\ [SendNext]_allVars => IInv'
  BY StepTypes, StepCalm, StaysDisturbed DEF IInv
<1>. QED
  BY <1>1, <1>2, PTL DEF SendSpec

\* In calm use the object loses no descriptor: one that stands for a connection
\* of its own is the one in _fd.
THEOREM NothingIsLost == SendSpec => []NothingLost
<1>1. IInv => NothingLost
  BY DEF IInv, CalmInv, NothingLost
<1>. QED
  BY <1>1, Invariant, PTL

\* In calm use close() closes a connection of the object's own, and a send that
\* no close overlaps writes to the connection it found open.
THEOREM OwnDescriptorsOnly == SendSpec => UsesItsOwn
<1>1. ASSUME IInv, NEW a \in Actors, CloseFd(a), Calm
      PROVE  m_fd \in Fds /\ desc[m_fd] \in Conns
  <2>1. pc[a] = "fd" /\ a \in Actors
    BY <1>1 DEF CloseFd
  <2>2. m_open /\ m_fd # 0
    BY <1>1, <2>1 DEF IInv, CalmInv, OneClose, OpenHasFd
  <2>3. ~Closed
    BY <1>1, <2>1 DEF IInv, CalmInv, OneClose, InClose, Closed
  <2>. QED
    BY <1>1, <2>2, <2>3 DEF IInv, CalmInv, FdIsCurrent, Types, TypeOK
<1>2. ASSUME IInv, Write, Undisturbed, Calm
      PROVE  s_fd \in Fds /\ desc[s_fd] = s_conn
  <2>1. s_fd = m_fd
    BY <1>2 DEF IInv, CalmInv, SenderIsCurrent, Write
  <2>2. m_fd # 0 /\ ~Closed
    BY <1>2 DEF IInv, CalmInv, OpenHasFd, Undisturbed, InClose, Closed
  <2>. QED
    BY <1>2, <2>1, <2>2 DEF IInv, CalmInv, FdIsCurrent, Types, TypeOK, Undisturbed
<1>3. IInv /\ [SendNext]_allVars =>
        [/\ \A a \in Actors : CloseFd(a) /\ Calm => m_fd \in Fds /\ desc[m_fd] \in Conns
         /\ Write /\ Undisturbed /\ Calm => s_fd \in Fds /\ desc[s_fd] = s_conn]_allVars
  BY <1>1, <1>2
<1>. QED
  BY <1>3, Invariant, PTL DEF SendSpec, UsesItsOwn
===============================================================================
