----------------------------- MODULE ServerProofs -----------------------------
(***************************************************************************)
(* Proofs about the reactor and about the server that is made of it and of *)
(* the session table, for any number of connections, descriptors and       *)
(* callers of del_fd and any size of the event array.                      *)
(*                                                                         *)
(* The reactor's types are kept whatever del_fd does, and so is what it    *)
(* does for its caller; the rest holds until its first call.  Sessions     *)
(* expire at any moment.                                                   *)
(***************************************************************************)
EXTENDS TcpServer, SessionMgtProofs, FiniteSetTheorems, TLAPS

-------------------------------------------------------------------------------
(* The reactor *)

USE ReactorAssumption

\* What the reactor's thread knows of its conn_fd at each place of svc().
LocalInv ==
  /\ rpc = "add" => /\ cur \in Open \ interest
                    /\ handlers[cur] = NoConn
                    /\ fd_conn[cur] = cur_handler
  /\ rpc = "insert" => /\ cur \in Open
                       /\ cur \in interest \/ fd_conn[cur] \in unwatched
                       /\ handlers[cur] = NoConn
                       /\ fd_conn[cur] = cur_handler
  /\ rpc \in {"input", "del"} => cur \in interest \ batch
  /\ rpc \in {"callback", "close"} => cur \in Open \ (interest \cup batch)
  /\ rpc = "erase" => cur \in Fds \ (Open \cup batch)

\* The inductive invariant, as long as nobody has called del_fd.
RInv == /\ TypeOK
        /\ HandlersMatch
        /\ Served
        /\ NoneLeaked
        /\ BatchCurrent
        /\ LocalInv

LEMMA ListenIsNoFd == Listen \notin Fds
  BY DEF Listen

\* Changing a field of an inbox gives an inbox.
LEMMA InboxUpdate ==
  ASSUME NEW r \in Inbox
  PROVE  /\ \A b \in BOOLEAN : [r EXCEPT !.data = b] \in Inbox
         /\ [r EXCEPT !.end = "eof"] \in Inbox
         /\ [r EXCEPT !.end = "reset"] \in Inbox
<1>1. r = [data |-> r.data, end |-> r.end]
  BY DEF Inbox
<1>2. r.data \in BOOLEAN /\ r.end \in {"none", "eof", "reset"}
  BY DEF Inbox
<1>3. \A b \in BOOLEAN : [r EXCEPT !.data = b] = [data |-> b, end |-> r.end]
  BY <1>1
<1>4. \A e : [r EXCEPT !.end = e] = [data |-> r.data, end |-> e]
  BY <1>1
<1>. QED
  BY <1>2, <1>3, <1>4 DEF Inbox

LEMMA InitRInv == Init => RInv
<1>1. Cardinality({}) = 0
  BY FS_EmptySet
<1>. QED
  BY <1>1 DEF Init, RInv, TypeOK, Inbox, Open, HandlersMatch, Served,
              NoneLeaked, BatchCurrent, LocalInv

\* Taking an event out of the batch leaves a smaller batch.
LEMMA TakesShrinks ==
  ASSUME TypeOK, NEW event, Takes(event)
  PROVE  /\ batch' \subseteq batch
         /\ event \notin batch'
         /\ Cardinality(batch') <= EpollSize
<1>1. IsFiniteSet(Fds \cup {Listen})
  BY FS_AddElement
<1>2. IsFiniteSet(batch)
  BY <1>1, FS_Subset DEF TypeOK
<1>3. event \in batch /\ batch' = batch \ {event}
  BY DEF Takes
<1>4. Cardinality(batch') = Cardinality(batch) - 1
  BY <1>2, <1>3, FS_RemoveElement
<1>5. Cardinality(batch) \in Nat
  BY <1>2, FS_CardinalityType
<1>. QED
  BY <1>3, <1>4, <1>5 DEF TypeOK

\* A peer's step, and the kernel's part of it, concern no descriptor.
LEMMA PeerKeepsRInv ==
  ASSUME RInv, NEW k \in Conns, PeerStep(k)
  PROVE  RInv'
<1>. USE DEF RInv
<1>1. UNCHANGED <<fd_conn, interest, listening, unwatched, handlers, svcVars, delVars>>
  BY DEF PeerStep, Connect, PeerSends, PeerCloses, PeerResets, Receive
<1>2. TypeOK'
  <2>1. CASE Connect(k)
    BY <2>1 DEF Connect, TypeOK, Open, svcVars, delVars
  <2>2. ASSUME NEW what \in Inbox, Receive(k, what) PROVE TypeOK'
    BY <2>2 DEF Receive, TypeOK, Open, svcVars, delVars
  <2>3. /\ [inbox[k] EXCEPT !.data = TRUE] \in Inbox
        /\ [inbox[k] EXCEPT !.end = "eof"] \in Inbox
        /\ [inbox[k] EXCEPT !.end = "reset"] \in Inbox
    BY InboxUpdate DEF TypeOK
  <2>. QED
    BY <2>1, <2>2, <2>3 DEF PeerStep, PeerSends, PeerCloses, PeerResets
<1>. QED
  BY <1>1, <1>2 DEF HandlersMatch, Served, NoneLeaked,
                    BatchCurrent, LocalInv, Open, At, svcVars

LEMMA AcceptKeepsRInv ==
  ASSUME RInv, NEW k \in Conns, AcceptConn(k)
  PROVE  RInv'
<1>. USE DEF RInv
<1>1. PICK fd \in Fds : /\ fd \notin Open
                        /\ cur' = fd
                        /\ fd_conn' = [fd_conn EXCEPT ![fd] = k]
  BY DEF AcceptConn, IsLowestFree, Free
<1>2. /\ batch' \subseteq batch /\ Cardinality(batch') <= EpollSize
      /\ Listen \notin batch' /\ rpc = "loop" /\ rpc' = "add" /\ cur_handler' = k
      /\ UNCHANGED <<used, inbox, interest, listening, unwatched, handlers, dpc, dfd, dtarget>>
      /\ backlog' = backlog \ {k}
  BY TakesShrinks DEF AcceptConn, Takes, delVars
<1>3. Open' = Open \cup {fd}
  BY <1>1 DEF Open, TypeOK
<1>4. handlers[fd] = NoConn
  BY <1>1, <1>2 DEF HandlersMatch, Open, At, TypeOK
<1>5. TypeOK'
  BY <1>1, <1>2, <1>3 DEF TypeOK
<1>6. HandlersMatch'
  BY <1>1, <1>2, <1>4 DEF HandlersMatch, At, TypeOK
<1>7. Served'
  BY <1>1, <1>2 DEF Served, At, TypeOK
<1>8. NoneLeaked'
  BY <1>1, <1>2, <1>3 DEF NoneLeaked, At
<1>9. BatchCurrent'
  BY <1>2 DEF BatchCurrent
<1>10. LocalInv'
  BY <1>1, <1>2, <1>3, <1>4 DEF LocalInv, TypeOK
<1>. QED
  BY <1>5, <1>6, <1>7, <1>8, <1>9, <1>10

\* Steps at the head of the loop that only consume an event.
LEMMA SkipKeepsRInv ==
  ASSUME RInv, NEW event, Takes(event), rpc' = rpc,
         UNCHANGED <<used, inbox, fd_conn, interest, listening, unwatched, handlers, cur,
                     cur_handler, delVars>>,
         backlog' \subseteq backlog
  PROVE  RInv'
<1>1. batch' \subseteq batch /\ Cardinality(batch') <= EpollSize /\ rpc = "loop"
  BY TakesShrinks DEF RInv, Takes
<1>. QED
  BY <1>1 DEF RInv, TypeOK, HandlersMatch, Served, NoneLeaked,
              BatchCurrent, LocalInv, Open, At, delVars

LEMMA SvcKeepsRInv ==
  ASSUME RInv, SvcStep
  PROVE  RInv'
<1>. USE DEF RInv
<1>. DEFINE Rest == /\ HandlersMatch' /\ Served'
                    /\ NoneLeaked' /\ BatchCurrent' /\ LocalInv'
<1>1. CASE EpollWait
  <2>1. PICK events \in SUBSET Ready :
           /\ Cardinality(events) =
                IF Cardinality(Ready) < EpollSize THEN Cardinality(Ready) ELSE EpollSize
           /\ batch' = events
    BY <1>1 DEF EpollWait
  <2>2. Ready \subseteq interest \cup {Listen}
    BY DEF Ready
  <2>3. IsFiniteSet(Ready)
    <3>1. IsFiniteSet(Fds \cup {Listen})
      BY FS_AddElement
    <3>. QED
      BY <2>2, <3>1, FS_Subset DEF TypeOK, Open
  <2>4. Cardinality(batch') <= EpollSize
    BY <2>1, <2>3, FS_CardinalityType
  <2>5. batch' \subseteq interest \cup {Listen}
    BY <2>1, <2>2
  <2>6. /\ rpc = "wait" /\ rpc' = "loop"
        /\ UNCHANGED <<used, backlog, inbox, fd_conn, interest, listening, unwatched, handlers, cur,
                       cur_handler, dpc, dfd, dtarget>>
    BY <1>1 DEF EpollWait, kernel, delVars
  <2>7. TypeOK'
    BY <2>4, <2>5, <2>6 DEF TypeOK, Open
  <2>8. Rest
    BY <2>5, <2>6 DEF HandlersMatch, Served, NoneLeaked,
                      BatchCurrent, LocalInv, Open, At
  <2>. QED
    BY <2>7, <2>8
<1>2. CASE BatchDone
  BY <1>2 DEF BatchDone, kernel, delVars, TypeOK, Open, HandlersMatch,
              Served, NoneLeaked, BatchCurrent, LocalInv, At
<1>3. CASE AcceptFails
  BY <1>3, SkipKeepsRInv DEF AcceptFails, Takes, kernel
<1>4. ASSUME NEW fd \in Fds, DropEvent(fd) PROVE RInv'
  BY <1>4, SkipKeepsRInv DEF DropEvent, Takes, kernel
<1>5. CASE AddToEpoll
  <2>1. /\ cur \in Open \ interest /\ handlers[cur] = NoConn /\ fd_conn[cur] = cur_handler
        /\ fd_conn[cur] \in Conns
        /\ rpc = "add" /\ rpc' = "insert"
        /\ UNCHANGED <<used, backlog, inbox, fd_conn, listening, handlers,
                       batch, cur, cur_handler, dpc, dfd, dtarget>>
    BY <1>5 DEF AddToEpoll, LocalInv, delVars, Open, TypeOK
  <2>0. \/ interest' = interest \cup {cur} /\ unwatched' = unwatched
        \/ interest' = interest /\ unwatched' = unwatched \cup {fd_conn[cur]}
    BY <1>5, <2>1 DEF AddToEpoll, Watch
  <2>2. Open' = Open
    BY <2>1 DEF Open
  <2>3. TypeOK'
    BY <2>0, <2>1, <2>2 DEF TypeOK
  <2>4. Rest
    BY <2>0, <2>1, <2>2 DEF HandlersMatch, Served, NoneLeaked,
                            BatchCurrent, LocalInv, At
  <2>. QED
    BY <2>3, <2>4
<1>6. CASE InsertHandler
  <2>1. /\ cur \in Open /\ handlers[cur] = NoConn /\ fd_conn[cur] = cur_handler
        /\ handlers' = [handlers EXCEPT ![cur] = cur_handler]
        /\ rpc = "insert" /\ rpc' = "loop"
        /\ UNCHANGED <<used, backlog, inbox, fd_conn, interest, listening, unwatched,
                       batch, cur, cur_handler, dpc, dfd, dtarget>>
    BY <1>6 DEF InsertHandler, LocalInv, kernel, delVars
  <2>2. Open' = Open /\ cur \in Fds
    BY <2>1 DEF Open, TypeOK
  <2>3. TypeOK'
    BY <2>1, <2>2 DEF TypeOK
  <2>4. Rest
    BY <2>1, <2>2 DEF HandlersMatch, Served, NoneLeaked,
                      BatchCurrent, LocalInv, At, TypeOK
  <2>. QED
    BY <2>3, <2>4
<1>7. ASSUME NEW fd \in Fds, GetHandler(fd) PROVE RInv'
  <2>1. /\ batch' \subseteq batch /\ Cardinality(batch') <= EpollSize /\ fd \notin batch'
        /\ fd \in batch /\ rpc = "loop" /\ rpc' = "input" /\ cur' = fd
        /\ cur_handler' = handlers[fd]
        /\ UNCHANGED <<used, backlog, inbox, fd_conn, interest, listening, unwatched, handlers,
                       dpc, dfd, dtarget>>
    BY <1>7, TakesShrinks DEF GetHandler, Takes, kernel, delVars
  <2>2. fd \in interest
    BY <2>1, ListenIsNoFd DEF BatchCurrent
  <2>3. TypeOK'
    BY <2>1 DEF TypeOK, Open
  <2>4. Rest
    BY <2>1, <2>2 DEF HandlersMatch, Served, NoneLeaked,
                      BatchCurrent, LocalInv, Open, At
  <2>. QED
    BY <2>3, <2>4
<1>8. CASE EpollDel
  <2>1. /\ cur \in interest \ batch /\ interest' = interest \ {cur}
        /\ rpc = "del" /\ rpc' = "callback"
        /\ UNCHANGED <<used, backlog, inbox, fd_conn, listening, unwatched, handlers,
                       batch, cur, cur_handler, dpc, dfd, dtarget>>
    BY <1>8 DEF EpollDel, LocalInv, delVars
  <2>2. Open' = Open
    BY <2>1 DEF Open
  <2>3. TypeOK'
    BY <2>1, <2>2 DEF TypeOK
  <2>4. Rest
    BY <2>1, <2>2 DEF HandlersMatch, Served, NoneLeaked,
                      BatchCurrent, LocalInv, At, TypeOK
  <2>. QED
    BY <2>3, <2>4
<1>9. CASE CloseConn
  <2>1. /\ cur \in Open \ (interest \cup batch)
        /\ fd_conn' = [fd_conn EXCEPT ![cur] = NoConn] /\ interest' = interest
        /\ rpc = "close" /\ rpc' = "erase"
        /\ UNCHANGED <<used, backlog, inbox, listening, unwatched, handlers,
                       batch, cur, cur_handler, dpc, dfd, dtarget>>
    BY <1>9 DEF CloseConn, close, LocalInv, delVars
  <2>2. Open' = Open \ {cur} /\ cur \in Fds
    BY <2>1 DEF Open, TypeOK
  <2>3. TypeOK'
    BY <2>1, <2>2 DEF TypeOK
  <2>4. Rest
    BY <2>1, <2>2 DEF HandlersMatch, Served, NoneLeaked,
                      BatchCurrent, LocalInv, At, TypeOK
  <2>. QED
    BY <2>3, <2>4
<1>10. CASE EraseHandler
  <2>1. /\ cur \in Fds \ (Open \cup batch)
        /\ handlers' = [handlers EXCEPT ![cur] = NoConn]
        /\ rpc = "erase" /\ rpc' = "loop"
        /\ UNCHANGED <<used, backlog, inbox, fd_conn, interest, listening, unwatched,
                       batch, cur, cur_handler, dpc, dfd, dtarget>>
    BY <1>10 DEF EraseHandler, LocalInv, kernel, delVars
  <2>2. Open' = Open
    BY <2>1 DEF Open
  <2>3. TypeOK'
    BY <2>1, <2>2 DEF TypeOK
  <2>4. Rest
    BY <2>1, <2>2 DEF HandlersMatch, Served, NoneLeaked,
                      BatchCurrent, LocalInv, At, TypeOK
  <2>. QED
    BY <2>3, <2>4
<1>. QED
  BY <1>1, <1>2, <1>3, <1>4, <1>5, <1>6, <1>7, <1>8, <1>9, <1>10 DEF SvcStep

LEMMA HandleInputKeepsRInv ==
  ASSUME RInv, NEW fails \in BOOLEAN, HandleInput(fails)
  PROVE  RInv'
<1>. USE DEF RInv
<1>1. /\ rpc = "input" /\ rpc' \in {"del", "loop"}
      /\ UNCHANGED <<used, backlog, fd_conn, interest, listening, unwatched, handlers,
                     batch, cur, cur_handler, dpc, dfd, dtarget>>
  BY DEF HandleInput, delVars
<1>2. inbox' \in [Conns -> Inbox]
  <2>1. cur \in Fds /\ fd_conn[cur] \in Conns
    BY <1>1 DEF LocalInv, TypeOK, Open
  <2>2. /\ [inbox[fd_conn[cur]] EXCEPT !.data = FALSE] \in Inbox
        /\ [inbox[fd_conn[cur]] EXCEPT !.end = "eof"] \in Inbox
    BY <2>1, InboxUpdate DEF TypeOK
  <2>. QED
    BY <2>1, <2>2 DEF HandleInput, Recv, TypeOK
<1>. QED
  BY <1>1, <1>2 DEF TypeOK, Open, HandlersMatch, Served,
                    NoneLeaked, BatchCurrent, LocalInv, At

LEMMA CallbackKeepsRInv ==
  ASSUME RInv, HandleClose
  PROVE  RInv'
  BY DEF RInv, HandleClose, kernel, delVars, TypeOK, Open, HandlersMatch,
         Served, NoneLeaked, BatchCurrent, LocalInv, At

LEMMA StopKeepsRInv ==
  ASSUME RInv, StopListen
  PROVE  RInv'
  BY DEF RInv, StopListen, svcVars, delVars, TypeOK, Open, HandlersMatch,
         Served, NoneLeaked, BatchCurrent, LocalInv, At

LEMMA StutterKeepsRInv ==
  ASSUME RInv, UNCHANGED vars
  PROVE  RInv'
  BY DEF RInv, vars, kernel, svcVars, delVars, TypeOK, Open, HandlersMatch,
         Served, NoneLeaked, BatchCurrent, LocalInv, At

-------------------------------------------------------------------------------
(* Types, whatever the callers of del_fd do *)

\* Inside svc() and del_fd the local descriptor is one.
LocalFds == /\ rpc \notin {"wait", "loop"} => cur \in Fds
            /\ \A d \in Deleters : dpc[d] # "idle" => dfd[d] \in Fds

LEMMA InitTypes == Init => TypeOK /\ LocalFds
<1>1. Cardinality({}) = 0
  BY FS_EmptySet
<1>. QED
  BY <1>1 DEF Init, TypeOK, LocalFds, Inbox, Open

LEMMA PeerKeepsTypes ==
  ASSUME TypeOK, LocalFds, NEW k \in Conns, PeerStep(k)
  PROVE  TypeOK' /\ LocalFds'
<1>1. LocalFds'
  BY DEF LocalFds, PeerStep, Connect, PeerSends, PeerCloses, PeerResets, Receive, svcVars,
         delVars
<1>2. CASE Connect(k)
  BY <1>1, <1>2 DEF Connect, TypeOK, Open, svcVars, delVars
<1>3. ASSUME NEW what \in Inbox, Receive(k, what) PROVE TypeOK'
  BY <1>3 DEF Receive, TypeOK, Open, svcVars, delVars
<1>4. /\ [inbox[k] EXCEPT !.data = TRUE] \in Inbox
      /\ [inbox[k] EXCEPT !.end = "eof"] \in Inbox
      /\ [inbox[k] EXCEPT !.end = "reset"] \in Inbox
  BY InboxUpdate DEF TypeOK
<1>. QED
  BY <1>1, <1>2, <1>3, <1>4 DEF PeerStep, PeerSends, PeerCloses, PeerResets

\* Closing a descriptor takes it out of the epoll set too.
LEMMA CloseKeepsTypes ==
  ASSUME TypeOK, NEW fd \in Fds, close(fd)
  PROVE  /\ fd_conn' \in [Fds -> Conns \cup {NoConn}]
         /\ interest' \subseteq Open'
<1>1. Open' = Open \ {fd}
  BY DEF close, Open, TypeOK
<1>. QED
  BY <1>1 DEF close, TypeOK

LEMMA SvcKeepsTypes ==
  ASSUME TypeOK, LocalFds, SvcStep
  PROVE  TypeOK' /\ LocalFds'
<1>1. CASE EpollWait
  <2>1. PICK events \in SUBSET Ready :
           /\ Cardinality(events) =
                IF Cardinality(Ready) < EpollSize THEN Cardinality(Ready) ELSE EpollSize
           /\ batch' = events
    BY <1>1 DEF EpollWait
  <2>2. Ready \subseteq Fds \cup {Listen}
    BY DEF Ready, TypeOK, Open
  <2>3. IsFiniteSet(Ready)
    <3>1. IsFiniteSet(Fds \cup {Listen})
      BY FS_AddElement
    <3>. QED
      BY <2>2, <3>1, FS_Subset
  <2>4. Cardinality(batch') <= EpollSize
    BY <2>1, <2>3, FS_CardinalityType
  <2>. QED
    BY <1>1, <2>1, <2>2, <2>4 DEF EpollWait, kernel, delVars, TypeOK, LocalFds, Open
<1>2. CASE BatchDone
  BY <1>2 DEF BatchDone, kernel, delVars, TypeOK, LocalFds, Open
<1>3. ASSUME NEW event, Takes(event),
             UNCHANGED <<kernel, handlers, delVars>>,
             \/ UNCHANGED <<rpc, cur, cur_handler>>
             \/ cur' \in Fds /\ cur_handler' = handlers[cur'] /\ rpc' = "input"
      PROVE  TypeOK' /\ LocalFds'
  BY <1>3, TakesShrinks DEF Takes, kernel, delVars, TypeOK, LocalFds, Open
<1>4. CASE AcceptFails
  BY <1>3, <1>4 DEF AcceptFails
<1>5. ASSUME NEW fd \in Fds, DropEvent(fd) \/ GetHandler(fd) PROVE TypeOK' /\ LocalFds'
  BY <1>3, <1>5 DEF DropEvent, GetHandler
<1>6. CASE AddToEpoll
  <2>1. Open' = Open
    BY <1>6 DEF AddToEpoll, Open
  <2>2. interest' \subseteq Open' /\ unwatched' \subseteq Conns
    BY <1>6, <2>1 DEF AddToEpoll, Watch, TypeOK
  <2>3. /\ rpc = "add" /\ rpc' = "insert"
        /\ UNCHANGED <<used, backlog, inbox, fd_conn, listening, handlers,
                       batch, cur, cur_handler, dpc, dfd, dtarget>>
    BY <1>6 DEF AddToEpoll, delVars
  <2>. QED
    BY <2>2, <2>3 DEF TypeOK, LocalFds
<1>7. CASE InsertHandler
  BY <1>7 DEF InsertHandler, kernel, delVars, TypeOK, LocalFds, Open
<1>8. CASE EpollDel
  BY <1>8 DEF EpollDel, delVars, TypeOK, LocalFds, Open
<1>9. CASE CloseConn
  <2>1. cur \in Fds
    BY <1>9 DEF CloseConn, LocalFds
  <2>2. /\ fd_conn' \in [Fds -> Conns \cup {NoConn}]
        /\ interest' \subseteq Open'
    BY <1>9, <2>1, CloseKeepsTypes DEF CloseConn
  <2>. QED
    BY <1>9, <2>1, <2>2 DEF CloseConn, delVars, TypeOK, LocalFds
<1>10. CASE EraseHandler
  BY <1>10 DEF EraseHandler, kernel, delVars, TypeOK, LocalFds, Open
<1>. QED
  BY <1>1, <1>2, <1>4, <1>5, <1>6, <1>7, <1>8, <1>9, <1>10 DEF SvcStep

LEMMA CallbacksKeepTypes ==
  ASSUME TypeOK, LocalFds,
         \/ \E k \in Conns : AcceptConn(k) \/ RejectConn(k)
         \/ \E fails \in BOOLEAN : HandleInput(fails)
         \/ HandleClose
         \/ StopListen
  PROVE  TypeOK' /\ LocalFds'
<1>1. ASSUME NEW k \in Conns, AcceptConn(k) PROVE TypeOK' /\ LocalFds'
  <2>1. PICK fd \in Fds : /\ fd \notin Open
                          /\ cur' = fd
                          /\ fd_conn' = [fd_conn EXCEPT ![fd] = k]
    BY <1>1 DEF AcceptConn, IsLowestFree, Free
  <2>2. /\ batch' \subseteq batch /\ Cardinality(batch') <= EpollSize
        /\ rpc' = "add" /\ cur_handler' = k /\ backlog' = backlog \ {k}
        /\ UNCHANGED <<used, inbox, interest, listening, unwatched, handlers, dpc, dfd, dtarget>>
    BY <1>1, TakesShrinks DEF AcceptConn, delVars
  <2>3. Open' = Open \cup {fd}
    BY <2>1 DEF Open, TypeOK
  <2>. QED
    BY <2>1, <2>2, <2>3 DEF TypeOK, LocalFds
<1>2. ASSUME NEW k \in Conns, RejectConn(k) PROVE TypeOK' /\ LocalFds'
  BY <1>2, TakesShrinks DEF RejectConn, delVars, TypeOK, LocalFds, Open
<1>3. ASSUME NEW fails \in BOOLEAN, HandleInput(fails) PROVE TypeOK' /\ LocalFds'
  <2>1. cur \in Fds /\ rpc' \in {"del", "loop"}
        /\ UNCHANGED <<used, backlog, fd_conn, interest, listening, unwatched, handlers,
                       batch, cur, cur_handler, dpc, dfd, dtarget>>
    BY <1>3 DEF HandleInput, LocalFds, delVars
  <2>2. inbox' \in [Conns -> Inbox]
    <3>1. CASE RecvResult = "data"
      <4>1. fd_conn[cur] \in Conns
        BY <2>1, <3>1 DEF RecvResult, TypeOK
      <4>2. inbox' = [inbox EXCEPT ![fd_conn[cur]] = [inbox[fd_conn[cur]] EXCEPT !.data = FALSE]]
        BY <1>3, <3>1 DEF HandleInput, Recv
      <4>. QED
        BY <4>1, <4>2, InboxUpdate DEF TypeOK
    <3>2. CASE RecvResult = "error" /\ cur \in Open
      <4>1. fd_conn[cur] \in Conns
        BY <3>2 DEF Open, TypeOK
      <4>2. inbox' = [inbox EXCEPT ![fd_conn[cur]] = [inbox[fd_conn[cur]] EXCEPT !.end = "eof"]]
        BY <1>3, <3>2 DEF HandleInput, Recv
      <4>. QED
        BY <4>1, <4>2, InboxUpdate DEF TypeOK
    <3>3. CASE RecvResult # "data" /\ ~(RecvResult = "error" /\ cur \in Open)
      BY <1>3, <3>3 DEF HandleInput, Recv, TypeOK
    <3>. QED
      BY <3>1, <3>2, <3>3
  <2>. QED
    BY <2>1, <2>2 DEF TypeOK, LocalFds, Open
<1>4. CASE HandleClose
  BY <1>4 DEF HandleClose, kernel, delVars, TypeOK, LocalFds, Open
<1>5. CASE StopListen
  BY <1>5 DEF StopListen, svcVars, delVars, TypeOK, LocalFds, Open
<1>. QED
  BY <1>1, <1>2, <1>3, <1>4, <1>5

LEMMA DelKeepsTypes ==
  ASSUME TypeOK, LocalFds, NEW d \in Deleters, DelStep(d)
  PROVE  TypeOK' /\ LocalFds'
<1>1. ASSUME NEW fd \in Fds, DelBegin(d, fd) PROVE TypeOK' /\ LocalFds'
  BY <1>1 DEF DelBegin, kernel, svcVars, TypeOK, LocalFds, Open
<1>2. CASE DelFromEpoll(d)
  BY <1>2 DEF DelFromEpoll, svcVars, TypeOK, LocalFds, Open
<1>3. CASE DelClose(d)
  <2>1. dfd[d] \in Fds
    BY <1>3 DEF DelClose, LocalFds
  <2>2. /\ fd_conn' \in [Fds -> Conns \cup {NoConn}]
        /\ interest' \subseteq Open'
    BY <1>3, <2>1, CloseKeepsTypes DEF DelClose
  <2>. QED
    BY <1>3, <2>2 DEF DelClose, svcVars, TypeOK, LocalFds
<1>4. CASE DelHandler(d)
  BY <1>4 DEF DelHandler, kernel, svcVars, TypeOK, LocalFds, Open
<1>. QED
  BY <1>1, <1>2, <1>3, <1>4 DEF DelStep

LEMMA StepTypes == TypeOK /\ LocalFds /\ [Next]_vars => TypeOK' /\ LocalFds'
<1>1. ASSUME TypeOK, LocalFds, UNCHANGED vars PROVE TypeOK' /\ LocalFds'
  BY <1>1 DEF vars, kernel, svcVars, delVars, TypeOK, LocalFds, Open
<1>. QED
  BY <1>1, PeerKeepsTypes, SvcKeepsTypes, CallbacksKeepTypes, DelKeepsTypes DEF Next

LEMMA TypeInvariant == Spec => [](TypeOK /\ LocalFds)
  BY InitTypes, StepTypes, PTL DEF Spec

\* The array of events is never overrun, and every variable keeps its type,
\* whichever calls of del_fd interfere.
THEOREM ReactorTypeCorrect == Spec => []TypeOK
  BY TypeInvariant, PTL

-------------------------------------------------------------------------------
(* The agreement of descriptors, epoll and handlers *)

\* A call of del_fd, once begun, leaves its trace in dfd.
LEMMA StaysDisturbed ==
  ASSUME TypeOK, LocalFds, NEW d \in Deleters, DelStep(d)
  PROVE  ~Undisturbed'
<1>1. dfd'[d] \in Fds \/ dpc'[d] # "idle"
  BY DEF DelStep, DelBegin, DelFromEpoll, DelClose, DelHandler, TypeOK, LocalFds
<1>. QED
  BY <1>1, ListenIsNoFd DEF Undisturbed

LEMMA StepRInv == TypeOK /\ LocalFds /\ (Undisturbed => RInv) /\ [Next]_vars => (Undisturbed' => RInv')
<1>. SUFFICES ASSUME TypeOK, LocalFds, Undisturbed => RInv, [Next]_vars, Undisturbed' PROVE RInv'
  OBVIOUS
<1>1. \A d \in Deleters : ~DelStep(d)
  BY StaysDisturbed
<1>2. RInv
  <2>1. ASSUME NEW k \in Conns, PeerStep(k) PROVE UNCHANGED delVars
    BY <2>1 DEF PeerStep, Connect, PeerSends, PeerCloses, PeerResets, Receive, delVars
  <2>2. ASSUME NEW k \in Conns, AcceptConn(k) \/ RejectConn(k) PROVE UNCHANGED delVars
    BY <2>2 DEF AcceptConn, RejectConn, delVars
  <2>3. CASE SvcStep
    BY <2>3 DEF SvcStep, EpollWait, BatchDone, AcceptFails, AddToEpoll, InsertHandler,
                DropEvent, GetHandler, EpollDel, CloseConn, EraseHandler, delVars, Undisturbed
  <2>4. ASSUME NEW fails \in BOOLEAN, HandleInput(fails) PROVE UNCHANGED delVars
    BY <2>4 DEF HandleInput, delVars
  <2>5. CASE HandleClose \/ StopListen \/ UNCHANGED vars
    BY <2>5 DEF HandleClose, StopListen, vars, delVars, Undisturbed
  <2>6. UNCHANGED delVars => RInv
    BY DEF delVars, Undisturbed
  <2>. QED
    BY <1>1, <2>1, <2>2, <2>3, <2>4, <2>5, <2>6 DEF Next
<1>3. ASSUME NEW k \in Conns, RejectConn(k) PROVE RInv'
  BY <1>2, <1>3, SkipKeepsRInv DEF RejectConn, Takes
<1>. QED
  BY <1>1, <1>2, <1>3, PeerKeepsRInv, AcceptKeepsRInv, SvcKeepsRInv, HandleInputKeepsRInv,
     CallbackKeepsRInv, StopKeepsRInv, StutterKeepsRInv DEF Next

\* Until the first call of del_fd, in every reachable state: descriptors, epoll
\* set and _handlers agree about every connection, and nothing is leaked.
THEOREM ReactorInvariant == Spec => [](Undisturbed => RInv)
<1>1. Init => (Undisturbed => RInv)
  BY InitRInv
<1>. QED
  BY <1>1, StepRInv, TypeInvariant, PTL DEF Spec

\* A handler serves the connection it was renewed for and no other.
THEOREM HandlersAreForConnections == Spec => []HandlerIsForConnection
<1>1. (Undisturbed => RInv) => HandlerIsForConnection
  BY DEF RInv, HandlerIsForConnection
<1>. QED
  BY <1>1, ReactorInvariant, PTL

\* What epoll watches has a handler.
THEOREM RegisteredAreServed == Spec => []RegisteredIsServed
<1>1. (Undisturbed => RInv) => RegisteredIsServed
  BY DEF RInv, RegisteredIsServed
<1>. QED
  BY <1>1, ReactorInvariant, PTL

\* No descriptor is leaked, but by an EPOLL_CTL_ADD that failed (TcpReactor.cpp:236).
THEOREM NoDescriptorIsLeaked == Spec => []NoDescriptorLeak
<1>1. (Undisturbed => RInv) => NoDescriptorLeak
  BY DEF RInv, NoDescriptorLeak
<1>. QED
  BY <1>1, ReactorInvariant, PTL

\* An event of the batch is one of the connection it was reported for.
THEOREM EventsStayCurrent == Spec => []EventsAreCurrent
<1>1. (Undisturbed => RInv) => EventsAreCurrent
  BY DEF RInv, EventsAreCurrent
<1>. QED
  BY <1>1, ReactorInvariant, PTL

-------------------------------------------------------------------------------
(* del_fd *)

\* A connection that was accepted has one descriptor at most, and is not in the
\* accept queue.
OneSocket ==
  /\ \A fd \in Fds : fd_conn[fd] # NoConn => fd_conn[fd] \in used \ backlog
  /\ \A fd, gd \in Fds : fd_conn[fd] = fd_conn[gd] /\ fd_conn[fd] # NoConn => fd = gd

\* Until del_fd closes it, what its caller meant has no descriptor but the one it
\* named, which may have been closed and given to another one meanwhile.
Targets ==
  \A d \in Deleters :
    dpc[d] # "idle" =>
      /\ dtarget[d] \in used \ backlog
      /\ \A fd \in Fds : fd_conn[fd] = dtarget[d] => fd = dfd[d] /\ dpc[d] # "erase"

LEMMA ClosingKeepsTargets ==
  ASSUME TypeOK, OneSocket, Targets, UNCHANGED delVars,
         used \subseteq used', backlog' \cap used \subseteq backlog,
         \A fd \in Fds : fd_conn'[fd] \in {fd_conn[fd], NoConn}
  PROVE  OneSocket' /\ Targets'
<1>1. OneSocket'
  BY DEF OneSocket
<1>2. \A d \in Deleters : dpc[d] # "idle" => dtarget[d] # NoConn
  BY ReactorAssumption DEF Targets, TypeOK
<1>3. Targets'
  BY <1>2 DEF Targets, delVars
<1>. QED
  BY <1>1, <1>3

LEMMA AcceptKeepsTargets ==
  ASSUME TypeOK, OneSocket, Targets, NEW k \in Conns, AcceptConn(k)
  PROVE  OneSocket' /\ Targets'
<1>1. PICK fd \in Fds : fd_conn[fd] = NoConn /\ fd_conn' = [fd_conn EXCEPT ![fd] = k]
  BY DEF AcceptConn, IsLowestFree, Free, Open
<1>2. /\ k \in backlog /\ k \in used /\ k # NoConn /\ backlog' = backlog \ {k} /\ used' = used
      /\ UNCHANGED delVars
  BY DEF AcceptConn, TypeOK
<1>3. fd_conn'[fd] = k /\ \A gd \in Fds \ {fd} : fd_conn'[gd] = fd_conn[gd]
  BY <1>1 DEF TypeOK
<1>4. OneSocket'
  BY <1>2, <1>3 DEF OneSocket
<1>5. Targets'
  BY <1>2, <1>3 DEF Targets, delVars
<1>. QED
  BY <1>4, <1>5

LEMMA DelKeepsTargets ==
  ASSUME TypeOK, LocalFds, OneSocket, Targets, NEW d \in Deleters, DelStep(d)
  PROVE  OneSocket' /\ Targets'
<1>1. ASSUME NEW fd \in Fds, DelBegin(d, fd) PROVE OneSocket' /\ Targets'
  <2>1. UNCHANGED <<used, backlog, fd_conn>> /\ fd_conn[fd] # NoConn
    BY <1>1 DEF DelBegin, kernel, TypeOK, Open
  <2>2. OneSocket'
    BY <2>1 DEF OneSocket
  <2>3. /\ dpc'[d] = "del" /\ dfd'[d] = fd /\ dtarget'[d] = fd_conn[fd]
        /\ \A e \in Deleters \ {d} : dpc'[e] = dpc[e] /\ dfd'[e] = dfd[e] /\ dtarget'[e] = dtarget[e]
    BY <1>1 DEF DelBegin, TypeOK
  <2>4. Targets'
    BY <2>1, <2>3 DEF OneSocket, Targets
  <2>. QED
    BY <2>2, <2>4
<1>2. CASE DelFromEpoll(d)
  BY <1>2 DEF DelFromEpoll, OneSocket, Targets, TypeOK
<1>3. CASE DelClose(d)
  <2>1. dfd[d] \in Fds
    BY <1>3 DEF DelClose, LocalFds
  <2>2. /\ fd_conn'[dfd[d]] = NoConn
        /\ \A fd \in Fds \ {dfd[d]} : fd_conn'[fd] = fd_conn[fd]
        /\ UNCHANGED <<used, backlog, dfd, dtarget>>
    BY <1>3, <2>1 DEF DelClose, close, TypeOK
  <2>3. dpc[d] = "close" /\ dpc'[d] = "erase" /\ \A e \in Deleters \ {d} : dpc'[e] = dpc[e]
    BY <1>3 DEF DelClose, TypeOK
  <2>4. \A e \in Deleters : dpc[e] # "idle" => dtarget[e] # NoConn
    BY ReactorAssumption DEF Targets, TypeOK
  <2>5. OneSocket'
    BY <2>2 DEF OneSocket
  <2>6. ASSUME NEW e \in Deleters, dpc'[e] # "idle"
        PROVE  /\ dtarget'[e] \in used' \ backlog'
               /\ \A fd \in Fds : fd_conn'[fd] = dtarget'[e] => fd = dfd'[e] /\ dpc'[e] # "erase"
    <3>1. dpc[e] # "idle" /\ dtarget[e] \in used \ backlog /\ dtarget[e] # NoConn
      BY <2>3, <2>4, <2>6 DEF Targets
    <3>2. ASSUME NEW fd \in Fds, fd_conn'[fd] = dtarget'[e]
          PROVE  fd = dfd[e] /\ dpc'[e] # "erase"
      <4>1. fd # dfd[d] /\ fd_conn[fd] = dtarget[e]
        BY <2>2, <3>1, <3>2
      <4>2. fd = dfd[e] /\ dpc[e] # "erase"
        BY <3>1, <4>1 DEF Targets
      <4>. QED
        BY <2>3, <4>1, <4>2
    <3>. QED
      BY <2>2, <3>1, <3>2
  <2>7. Targets'
    BY <2>6 DEF Targets
  <2>. QED
    BY <2>5, <2>7
<1>4. CASE DelHandler(d)
  BY <1>4 DEF DelHandler, kernel, OneSocket, Targets, TypeOK
<1>. QED
  BY <1>1, <1>2, <1>3, <1>4 DEF DelStep

LEMMA StepTargets ==
  ASSUME TypeOK, LocalFds, OneSocket, Targets, [Next]_vars
  PROVE  OneSocket' /\ Targets'
<1>1. ASSUME NEW k \in Conns, PeerStep(k) PROVE OneSocket' /\ Targets'
  <2>1. /\ UNCHANGED <<fd_conn, delVars>>
        /\ used \subseteq used' /\ backlog' \cap used \subseteq backlog
    BY <1>1 DEF PeerStep, Connect, PeerSends, PeerCloses, PeerResets, Receive
  <2>. QED
    BY <2>1, ClosingKeepsTargets
<1>2. ASSUME NEW k \in Conns, RejectConn(k) PROVE OneSocket' /\ Targets'
  BY <1>2, ClosingKeepsTargets DEF RejectConn
<1>3. CASE SvcStep
  <2>1. CASE CloseConn
    <3>1. \A fd \in Fds : fd_conn'[fd] \in {fd_conn[fd], NoConn}
      BY <2>1 DEF CloseConn, close, TypeOK
    <3>. QED
      BY <2>1, <3>1, ClosingKeepsTargets DEF CloseConn
  <2>2. CASE ~CloseConn
    <3>1. UNCHANGED <<used, backlog, fd_conn, delVars>>
      BY <1>3, <2>2 DEF SvcStep, EpollWait, BatchDone, AcceptFails, AddToEpoll, InsertHandler,
                        DropEvent, GetHandler, EpollDel, EraseHandler, kernel
    <3>. QED
      BY <3>1, ClosingKeepsTargets
  <2>. QED
    BY <2>1, <2>2
<1>4. CASE HandleClose \/ StopListen \/ UNCHANGED vars
  <2>1. UNCHANGED <<used, fd_conn, delVars>> /\ backlog' \subseteq backlog
    BY <1>4 DEF HandleClose, StopListen, vars, kernel
  <2>. QED
    BY <2>1, ClosingKeepsTargets
<1>5. ASSUME NEW fails \in BOOLEAN, HandleInput(fails) PROVE OneSocket' /\ Targets'
  BY <1>5, ClosingKeepsTargets DEF HandleInput
<1>. QED
  BY <1>1, <1>2, <1>3, <1>4, <1>5, AcceptKeepsTargets, DelKeepsTargets DEF Next

LEMMA InvariantTargets == Spec => [](OneSocket /\ Targets)
<1>1. Init => OneSocket /\ Targets
  BY DEF Init, OneSocket, Targets
<1>2. TypeOK /\ LocalFds /\ OneSocket /\ Targets /\ [Next]_vars => OneSocket' /\ Targets'
  BY StepTargets
<1>. QED
  BY <1>1, <1>2, TypeInvariant, PTL DEF Spec

\* When del_fd returns (TcpReactor.cpp:172-190) the connection its caller meant
\* has no descriptor any more, although other calls of del_fd and svc may close and reuse
\* the descriptor while it runs.
THEOREM DelFdClosesIt == Spec => DelFdCloses
<1>1. TypeOK /\ Targets => \A d \in Deleters : DelHandler(d) => ~Live(dtarget[d])
  BY DEF Targets, DelHandler, Live
<1>2. TypeOK /\ Targets /\ [Next]_vars
        => [\A d \in Deleters : DelHandler(d) => ~Live(dtarget[d])]_vars
  BY <1>1
<1>. QED
  BY <1>2, TypeInvariant, InvariantTargets, PTL DEF Spec, DelFdCloses

-------------------------------------------------------------------------------
(* The server *)

USE PeerAssumption

\* Only an open descriptor has a session, and not any more once handle_close
\* has been called for it.
SessionsOpen == /\ DOMAIN sessions \subseteq Open
                /\ rpc = "close" => cur \notin DOMAIN sessions

SInv == RInv /\ SessionTypeOK /\ Mirror /\ SessionIsOfConnection /\ SessionsOpen

LEMMA InitSInv == ServerInit => SInv
<1>. SUFFICES ASSUME ServerInit PROVE SInv
  OBVIOUS
<1>1. /\ DOMAIN sessions = {} /\ DOMAIN fds = {} /\ m_uid = 0
      /\ sessions = [x \in DOMAIN sessions |-> sessions[x]]
      /\ fds = [x \in DOMAIN fds |-> fds[x]]
  BY DEF ServerInit, SessionInit
<1>2. RInv
  BY InitRInv DEF ServerInit
<1>3. SessionTypeOK
  BY <1>1 DEF SessionTypeOK
<1>. QED
  BY <1>1, <1>2, <1>3 DEF SInv, Mirror, SessionIsOfConnection, SessionsOpen, ServerInit, Init

\* Steps that leave the table and the descriptors alone.
LEMMA TableUntouched ==
  ASSUME SInv, RInv', UNCHANGED <<sessionVars, fd_conn>>,
         rpc' = "close" => cur' \notin DOMAIN sessions
  PROVE  SInv'
  BY DEF SInv, sessionVars, SessionTypeOK, Mirror, SessionIsOfConnection, SessionsOpen, Open

\* Dropping sessions, without touching the descriptors.
LEMMA DropKeepsSInv ==
  ASSUME SInv, RInv', NEW dead, dead \subseteq DOMAIN sessions, erase_sessions(dead),
         UNCHANGED fd_conn,
         rpc' = "close" => cur' \notin DOMAIN sessions \ dead
  PROVE  SInv'
<1>1. /\ SessionTypeOK' /\ Mirror'
      /\ DOMAIN sessions' = DOMAIN sessions \ dead
      /\ \A f \in DOMAIN sessions' : sessions'[f] = sessions[f]
  BY EraseKeepsMirror DEF SInv
<1>. QED
  BY <1>1 DEF SInv, SessionIsOfConnection, SessionsOpen, Open

LEMMA AcceptKeepsSInv ==
  ASSUME SInv, NEW k \in Conns, ServerAccept(k)
  PROVE  SInv'
<1>. USE DEF SInv
<1>1. RInv'
  BY AcceptKeepsRInv DEF ServerAccept
<1>2. PICK fd \in Fds : /\ fd \notin Open
                        /\ cur' = fd
                        /\ fd_conn' = [fd_conn EXCEPT ![fd] = k]
  BY DEF ServerAccept, AcceptConn, IsLowestFree, Free
<1>3. insert_session(fd, k, 0) /\ rpc' = "add"
  BY <1>2 DEF ServerAccept, AcceptConn
<1>4. fd \notin DOMAIN sessions
  BY <1>2 DEF SessionsOpen
<1>5. k \in Peers
  OBVIOUS
<1>6. SessionTypeOK' /\ Mirror'
  BY <1>3, <1>4, <1>5, InsertKeepsMirror
<1>7. /\ DOMAIN sessions' = DOMAIN sessions \cup {fd}
      /\ sessions'[fd].peer = k
      /\ \A f \in DOMAIN sessions : sessions'[f] = sessions[f]
  BY <1>3, <1>4 DEF insert_session, Put, NewSession
<1>8. fd_conn \in [Fds -> Conns \cup {NoConn}]
  BY DEF RInv, TypeOK
<1>9. fd_conn'[fd] = k /\ \A f \in Fds : f # fd => fd_conn'[f] = fd_conn[f]
  BY <1>2, <1>8
<1>10. DOMAIN sessions \subseteq Fds
  BY DEF SessionTypeOK
<1>11. SessionIsOfConnection'
  BY <1>4, <1>7, <1>9, <1>10 DEF SessionIsOfConnection
<1>12. SessionsOpen'
  <2>1. k # NoConn
    BY ReactorAssumption
  <2>2. Open \cup {fd} \subseteq Open'
    BY <1>9, <2>1 DEF Open
  <2>3. DOMAIN sessions \subseteq Open
    BY DEF SessionsOpen
  <2>4. rpc' # "close"
    BY <1>3
  <2>. QED
    BY <1>7, <2>2, <2>3, <2>4 DEF SessionsOpen
<1>. QED
  BY <1>1, <1>6, <1>11, <1>12

LEMMA SvcKeepsSInv ==
  ASSUME SInv, SvcStep, UNCHANGED sessionVars
  PROVE  SInv'
<1>. USE DEF SInv
<1>1. RInv'
  BY SvcKeepsRInv
<1>2. CASE CloseConn
  <2>1. /\ fd_conn' = [fd_conn EXCEPT ![cur] = NoConn]
        /\ rpc = "close" /\ rpc' = "erase"
    BY <1>2 DEF CloseConn, close
  <2>2. cur \notin DOMAIN sessions
    BY <2>1 DEF SessionsOpen
  <2>3. \A f \in DOMAIN sessions : f \in Fds /\ fd_conn'[f] = fd_conn[f]
    BY <2>1, <2>2 DEF RInv, TypeOK, SessionTypeOK
  <2>4. sessions' = sessions /\ fds' = fds /\ m_uid' = m_uid
    BY DEF sessionVars
  <2>5. SessionTypeOK' /\ Mirror'
    BY <2>4 DEF SessionTypeOK, Mirror
  <2>6. SessionIsOfConnection' /\ SessionsOpen'
    BY <2>1, <2>3, <2>4 DEF SessionIsOfConnection, SessionsOpen, Open
  <2>. QED
    BY <1>1, <2>5, <2>6
<1>3. CASE ~CloseConn
  <2>1. UNCHANGED fd_conn /\ rpc' # "close"
    BY <1>3 DEF SvcStep, EpollWait, BatchDone, AcceptFails, AddToEpoll, InsertHandler,
                DropEvent, GetHandler, EpollDel, EraseHandler, Takes, kernel
  <2>. QED
    BY <1>1, <2>1, TableUntouched
<1>. QED
  BY <1>2, <1>3

LEMMA StepSInv == SInv /\ [ServerNext]_serverVars => SInv'
<1>. SUFFICES ASSUME SInv, [ServerNext]_serverVars PROVE SInv'
  OBVIOUS
<1>. USE DEF SInv
<1>1. ASSUME NEW k \in Conns, PeerStep(k), UNCHANGED sessionVars PROVE SInv'
  <2>1. UNCHANGED <<fd_conn, rpc, cur>>
    BY <1>1 DEF PeerStep, Connect, PeerSends, PeerCloses, PeerResets, Receive, svcVars
  <2>2. RInv'
    BY <1>1, PeerKeepsRInv
  <2>. QED
    BY <1>1, <2>1, <2>2, TableUntouched DEF SessionsOpen
<1>2. ASSUME NEW k \in Conns, ServerAccept(k) PROVE SInv'
  BY <1>2, AcceptKeepsSInv
<1>3. CASE SvcStep /\ UNCHANGED sessionVars
  BY <1>3, SvcKeepsSInv
<1>4. CASE ServerInput
  <2>1. HandleInput(RecvResult = "closed") /\ UNCHANGED sessionVars
    BY <1>4 DEF ServerInput
  <2>2. RInv'
    BY <2>1, HandleInputKeepsRInv
  <2>3. UNCHANGED fd_conn /\ rpc' # "close"
    BY <2>1 DEF HandleInput
  <2>. QED
    BY <2>1, <2>2, <2>3, TableUntouched
<1>5. CASE ServerClose
  <2>1. HandleClose /\ erase_sessions({cur} \cap DOMAIN sessions)
    BY <1>5 DEF ServerClose, remove_session
  <2>2. RInv'
    BY <2>1, CallbackKeepsRInv
  <2>3. UNCHANGED <<fd_conn, cur>>
    BY <2>1 DEF HandleClose, kernel
  <2>. QED
    BY <2>1, <2>2, <2>3, DropKeepsSInv
<1>6. CASE TimerCheck
  <2>1. PICK idle \in SUBSET DOMAIN sessions : erase_sessions(idle)
    BY <1>6 DEF TimerCheck
  <2>2. UNCHANGED vars
    BY <1>6 DEF TimerCheck
  <2>3. RInv'
    BY <2>2, StutterKeepsRInv
  <2>4. UNCHANGED <<fd_conn, rpc, cur>>
    BY <2>2 DEF vars, kernel, svcVars
  <2>. QED
    BY <2>1, <2>3, <2>4, DropKeepsSInv DEF SessionsOpen
<1>7. CASE StopListen /\ UNCHANGED sessionVars
  <2>1. UNCHANGED <<fd_conn, rpc, cur>>
    BY <1>7 DEF StopListen, svcVars
  <2>2. RInv'
    BY <1>7, StopKeepsRInv
  <2>. QED
    BY <1>7, <2>1, <2>2, TableUntouched DEF SessionsOpen
<1>8. CASE UNCHANGED serverVars
  <2>1. UNCHANGED vars /\ UNCHANGED sessionVars
    BY <1>8 DEF serverVars
  <2>2. UNCHANGED <<fd_conn, rpc, cur>>
    BY <2>1 DEF vars, kernel, svcVars
  <2>3. RInv'
    BY <2>1, StutterKeepsRInv
  <2>. QED
    BY <2>1, <2>2, <2>3, TableUntouched DEF SessionsOpen
<1>. QED
  BY <1>1, <1>2, <1>3, <1>4, <1>5, <1>6, <1>7, <1>8 DEF ServerNext, ServerSvc

LEMMA InvariantSInv == ServerSpec => []SInv
  BY InitSInv, StepSInv, PTL DEF ServerSpec

\* Type correctness of the reactor and the table together.
THEOREM ServerTypeCorrect == ServerSpec => []ServerTypeOK
<1>1. SInv => ServerTypeOK
  BY DEF SInv, RInv, ServerTypeOK
<1>. QED
  BY <1>1, InvariantSInv, PTL

\* In the running server the two maps of the table mirror one another: the
\* reactor inserts only for descriptors that have no session.
THEOREM ServerMirror == ServerSpec => []Mirror
<1>1. SInv => Mirror
  BY DEF SInv
<1>. QED
  BY <1>1, InvariantSInv, PTL

\* A session always describes the connection its descriptor has now: the
\* session is gone before the descriptor is closed and can be used again.
THEOREM SessionsAreOfConnections == ServerSpec => []SessionIsOfConnection
<1>1. SInv => SessionIsOfConnection
  BY DEF SInv
<1>. QED
  BY <1>1, InvariantSInv, PTL

-------------------------------------------------------------------------------
(* What the server implements: the reactor, the table of ids, the service *)

\* The server is a reactor: what its callbacks do are steps of TcpReactor, so that
\* all that holds of the reactor holds of the server.
LEMMA ServerIsReactor == ServerSpec => Spec
<1>1. [ServerNext]_serverVars => [Next]_vars
  BY DEF ServerNext, ServerSvc, ServerAccept, ServerInput, ServerClose, TimerCheck,
         serverVars, Next
<1>. QED
  BY <1>1, PTL DEF ServerSpec, ServerInit, Spec

\* The server's session table implements the table of ids, with the reactor's order
\* of handle_accept, handle_close and close, and a timer that drops any sessions.
THEOREM ServerImplementsTable == ServerSpec => TableSpec
<1>1. ServerInit => Ids!Init
  BY DEF ServerInit, SessionInit, Ids!Init
<1>2. SInv /\ [ServerNext]_serverVars => [Ids!Next]_Ids!vars
  <2>. SUFFICES ASSUME SInv, [ServerNext]_serverVars PROVE [Ids!Next]_Ids!vars
    OBVIOUS
  <2>0. SessionTypeOK /\ Mirror /\ SessionsOpen
    BY DEF SInv
  <2>1. ASSUME NEW k \in Conns, ServerAccept(k) PROVE Ids!Next
    <3>1. PICK fd \in Fds : fd \notin Open /\ insert_session(fd, k, 0)
      BY <2>1 DEF ServerAccept, AcceptConn, IsLowestFree, Free
    <3>2. Ids!Issue(fd)
      BY <2>0, <3>1, InsertIssues DEF SessionsOpen
    <3>. QED
      BY <3>2 DEF Ids!Next
  <2>2. ASSUME NEW dead \in SUBSET DOMAIN sessions, erase_sessions(dead) PROVE Ids!Next
    BY <2>0, <2>2, EraseRetires DEF Ids!Next
  <2>3. CASE ServerClose
    <3>1. erase_sessions({cur} \cap DOMAIN sessions)
      BY <2>3 DEF ServerClose, remove_session
    <3>. QED
      BY <2>2, <3>1
  <2>4. CASE TimerCheck
    BY <2>2, <2>4 DEF TimerCheck
  <2>5. UNCHANGED sessionVars => UNCHANGED Ids!vars
    BY <2>0, TouchStutters DEF sessionVars
  <2>6. \/ UNCHANGED sessionVars \/ ServerClose \/ TimerCheck
        \/ \E k \in Conns : ServerAccept(k)
    BY DEF ServerNext, ServerSvc, ServerInput, serverVars
  <2>. QED
    BY <2>1, <2>3, <2>4, <2>5, <2>6
<1>. QED
  BY <1>1, <1>2, InvariantSInv, PTL DEF ServerSpec, TableSpec, Ids!Spec

\* What svc() knows of the connection behind conn_fd: the handler that runs is its
\* own, and from handle_input's answer to the close it has ended and is read out.
CurrentConn ==
  /\ rpc = "input" => cur_handler = fd_conn[cur]
  /\ rpc \in {"del", "callback", "close"} => fd_conn[cur] \in Ended \ Unread

LEMMA StepCurrentConn ==
  ASSUME SInv, CurrentConn, [ServerNext]_serverVars
  PROVE  CurrentConn'
<1>. USE DEF SInv, RInv
<1>0. /\ rpc \in {"input", "del", "callback", "close"} => cur \in Fds /\ fd_conn[cur] \in Conns
      /\ inbox \in [Conns -> Inbox]
  <2>1. rpc \in {"input", "del", "callback", "close"} => cur \in Open
    BY DEF LocalInv, TypeOK
  <2>. QED
    BY <2>1 DEF TypeOK, Open
<1>1. ASSUME NEW k \in Conns, PeerStep(k) PROVE CurrentConn'
  <2>1. UNCHANGED <<fd_conn, rpc, cur, cur_handler>>
    BY <1>1 DEF PeerStep, Connect, PeerSends, PeerCloses, PeerResets, Receive, svcVars
  <2>2. \A l \in Ended \ Unread : inbox'[l] = inbox[l]
    BY <1>0, <1>1 DEF PeerStep, Connect, PeerSends, PeerCloses, PeerResets, Receive,
                      Ended, Unread
  <2>. QED
    BY <2>1, <2>2 DEF CurrentConn, Ended, Unread
<1>2. CASE ServerInput
  <2>1. rpc = "input" /\ Recv /\ UNCHANGED <<fd_conn, cur>>
        /\ (rpc' = "loop" \/ (rpc' = "del" /\ RecvResult = "closed"))
    BY <1>2 DEF ServerInput, HandleInput
  <2>2. CASE RecvResult = "closed"
    <3>1. ~inbox[fd_conn[cur]].data /\ inbox[fd_conn[cur]].end # "none"
      BY <2>2 DEF RecvResult
    <3>2. inbox' = inbox
      BY <2>1, <2>2 DEF Recv
    <3>. QED
      BY <1>0, <2>1, <3>1, <3>2 DEF CurrentConn, Ended, Unread
  <2>. QED
    BY <2>1, <2>2 DEF CurrentConn
<1>3. CASE SvcStep
  <2>1. ASSUME NEW fd \in Fds, GetHandler(fd) PROVE CurrentConn'
    <3>1. /\ rpc = "loop" /\ handlers[fd] # NoConn
          /\ rpc' = "input" /\ cur' = fd /\ cur_handler' = handlers[fd] /\ fd_conn' = fd_conn
      BY <2>1 DEF GetHandler, Takes, kernel
    <3>2. handlers[fd] = fd_conn[fd]
      BY <3>1 DEF HandlersMatch, At
    <3>. QED
      BY <3>1, <3>2 DEF CurrentConn
  <2>2. CASE EpollDel
    <3>1. rpc = "del" /\ rpc' = "callback" /\ UNCHANGED <<fd_conn, inbox, cur>>
      BY <2>2 DEF EpollDel
    <3>. QED
      BY <3>1 DEF CurrentConn, Ended, Unread
  <2>3. rpc' \in {"input", "del", "callback", "close"}
          => EpollDel \/ \E fd \in Fds : GetHandler(fd)
    BY <1>3 DEF SvcStep, EpollWait, BatchDone, AcceptFails, AddToEpoll, InsertHandler,
                DropEvent, Takes, CloseConn, EraseHandler
  <2>. QED
    BY <2>1, <2>2, <2>3 DEF CurrentConn
<1>4. CASE ServerClose
  <2>1. rpc = "callback" /\ rpc' = "close" /\ UNCHANGED <<fd_conn, inbox, cur>>
    BY <1>4 DEF ServerClose, HandleClose, kernel
  <2>. QED
    BY <2>1 DEF CurrentConn, Ended, Unread
<1>5. CASE TimerCheck \/ StopListen \/ UNCHANGED serverVars
  <2>1. UNCHANGED <<fd_conn, inbox, rpc, cur, cur_handler>>
    BY <1>5 DEF TimerCheck, StopListen, serverVars, vars, kernel, svcVars
  <2>. QED
    BY <2>1 DEF CurrentConn, Ended, Unread
<1>6. ASSUME NEW k \in Conns, ServerAccept(k) PROVE CurrentConn'
  BY <1>6 DEF ServerAccept, AcceptConn, CurrentConn
<1>. QED
  BY <1>1, <1>2, <1>3, <1>4, <1>5, <1>6 DEF ServerNext, ServerSvc

\* Where a connection stands, one stage at a time.
LEMMA StagesAre ==
  ASSUME TypeOK, OneSocket, NEW k \in Conns
  PROVE  /\ k \notin used => Stages[k] = "new"
         /\ k \in backlog => Stages[k] = "waiting"
         /\ (\E fd \in Fds : fd_conn[fd] = k) => Stages[k] = "open"
         /\ k \in used \ backlog /\ (\A fd \in Fds : fd_conn[fd] # k) => Stages[k] = "closed"
<1>1. k # NoConn /\ backlog \subseteq used
  BY DEF TypeOK
<1>2. ASSUME NEW fd \in Fds, fd_conn[fd] = k PROVE k \in used \ backlog
  BY <1>1, <1>2 DEF OneSocket
<1>. QED
  BY <1>1, <1>2 DEF Stages

LEMMA StagesKept ==
  ASSUME UNCHANGED <<used, backlog, fd_conn>>
  PROVE  UNCHANGED Stages
BY DEF Stages

LEMMA KnownKept ==
  ASSUME UNCHANGED sessions
  PROVE  UNCHANGED Known
BY DEF Known, HasSession

\* The peers' steps.
LEMMA PeerStepServes ==
  ASSUME TypeOK, TypeOK', OneSocket, OneSocket', NEW k \in Conns, PeerStep(k), UNCHANGED sessionVars
  PROVE  Peer!Next
<1>0. UNCHANGED <<Serving, Known>>
  BY KnownKept DEF PeerStep, Connect, PeerSends, PeerCloses, PeerResets, Receive, svcVars,
                   Serving, sessionVars
<1>1. CASE Connect(k)
  <2>1. /\ listening = TRUE /\ k \notin used /\ used' = used \cup {k} /\ backlog' = backlog \cup {k}
        /\ UNCHANGED <<inbox, fd_conn, listening>>
    BY <1>1 DEF Connect, TypeOK
  <2>2. UNCHANGED <<Unread, Ended>>
    BY <2>1 DEF Unread, Ended
  <2>3. Stages[k] = "new" /\ Stages'[k] = "waiting"
    <3>1. k \in backlog'
      BY <2>1
    <3>. QED
      BY <2>1, <3>1, StagesAre DEF Stages, TypeOK
  <2>4. \A l \in Conns \ {k} : Stages'[l] = Stages[l]
    BY <2>1 DEF Stages
  <2>5. Stages' = [Stages EXCEPT ![k] = "waiting"]
    BY <2>3, <2>4 DEF Stages
  <2>6. Peer!Arrive(k)
    BY <1>0, <2>1, <2>2, <2>3, <2>5 DEF Peer!Arrive, Peer!Moves, Peer!peers
  <2>. QED
    BY <2>6 DEF Peer!Next
<1>2. CASE ~Connect(k)
  <2>1. PICK what : Receive(k, what)
    BY <1>2 DEF PeerStep, PeerSends, PeerCloses, PeerResets
  <2>2. Live(k) /\ inbox[k].end = "none" /\ UNCHANGED <<used, backlog, fd_conn, listening>>
    BY <2>1 DEF Receive
  <2>3. Peer!Connected(k)
    <3>1. Stages[k] \in {"waiting", "open"}
      BY <2>2, StagesAre DEF Live
    <3>. QED
      BY <2>2, <3>1 DEF Peer!Connected, Ended
  <2>4. UNCHANGED Stages
    BY <2>2, StagesKept
  <2>5. inbox[k] \in Inbox /\ inbox[k] = [data |-> inbox[k].data, end |-> inbox[k].end]
        /\ DOMAIN inbox = Conns
    BY DEF TypeOK, Inbox
  <2>6. CASE PeerSends(k)
    <3>1. inbox' = [inbox EXCEPT ![k] = [data |-> TRUE, end |-> "none"]]
      <4>1. PICK r \in Inbox : r = inbox[k]
        BY <2>5
      <4>2. r.end = "none" /\ r = [data |-> r.data, end |-> r.end]
        BY <2>2, <4>1 DEF Inbox
      <4>3. \A b : [r EXCEPT !.data = b] = [data |-> b, end |-> r.end]
        BY <4>2
      <4>. QED
        BY <2>6, <4>1, <4>2, <4>3 DEF PeerSends, Receive
    <3>2. Unread' = Unread \cup {k} /\ Ended' = Ended
      BY <2>2, <2>5, <3>1 DEF Unread, Ended
    <3>3. Peer!Send(k)
      BY <1>0, <2>2, <2>3, <2>4, <3>2 DEF Peer!Send
    <3>. QED
      BY <3>3 DEF Peer!Next
  <2>7. CASE PeerCloses(k) \/ PeerResets(k)
    <3>1. PICK e \in {"eof", "reset"} :
            inbox' = [inbox EXCEPT ![k] = [data |-> inbox[k].data, end |-> e]]
      BY <2>5, <2>7 DEF PeerCloses, PeerResets, Receive
    <3>2. Unread' = Unread /\ Ended' = Ended \cup {k}
      BY <2>5, <3>1 DEF Unread, Ended
    <3>3. Peer!End(k)
      BY <1>0, <2>2, <2>3, <2>4, <3>2 DEF Peer!End
    <3>. QED
      BY <3>3 DEF Peer!Next
  <2>. QED
    BY <1>2, <2>6, <2>7 DEF PeerStep
<1>. QED
  BY <1>1, <1>2

\* accept and handle_accept.
LEMMA AcceptServes ==
  ASSUME SInv, OneSocket, NEW k \in Conns, ServerAccept(k)
  PROVE  Peer!Admit(k)
<1>0. TypeOK /\ DOMAIN sessions \subseteq Open
  BY DEF SInv, RInv, SessionsOpen
<1>1. PICK fd \in Fds : /\ fd \notin Open
                        /\ fd_conn' = [fd_conn EXCEPT ![fd] = k]
                        /\ insert_session(fd, k, 0)
  BY DEF ServerAccept, AcceptConn, IsLowestFree, Free
<1>2. /\ k \in backlog /\ backlog' = backlog \ {k}
      /\ rpc = "loop" /\ rpc' = "add"
      /\ UNCHANGED <<used, inbox, listening>>
  BY DEF ServerAccept, AcceptConn, Takes
<1>3. /\ fd_conn[fd] = NoConn /\ fd_conn'[fd] = k
      /\ \A f \in Fds : f # fd => fd_conn'[f] = fd_conn[f]
  BY <1>0, <1>1 DEF TypeOK, Open
<1>4. k \in used /\ k # NoConn
  BY <1>0, <1>2 DEF TypeOK
<1>5. UNCHANGED <<Unread, Ended, Serving>>
  BY <1>2 DEF Unread, Ended, Serving
<1>6. Stages' = [Stages EXCEPT ![k] = "open"]
  <2>1. Stages'[k] = "open"
    BY <1>2, <1>3, <1>4 DEF Stages
  <2>2. ASSUME NEW l \in Conns \ {k} PROVE Stages'[l] = Stages[l]
    <3>1. l # NoConn
      BY DEF TypeOK
    <3>2. l \in {fd_conn[f] : f \in Fds} <=> l \in {fd_conn'[f] : f \in Fds}
      BY <1>3, <2>2, <3>1
    <3>. QED
      BY <1>2, <2>2, <3>2 DEF Stages
  <2>. QED
    BY <2>1, <2>2 DEF Stages
<1>7. Known' = Known \cup {k}
  <2>1. fd \notin DOMAIN sessions
    BY <1>0, <1>1
  <2>2. /\ DOMAIN sessions' = DOMAIN sessions \cup {fd}
        /\ sessions'[fd].peer = k
        /\ \A f \in DOMAIN sessions : sessions'[f] = sessions[f]
    BY <1>1, <2>1 DEF insert_session, Put, NewSession
  <2>. QED
    BY <2>1, <2>2 DEF Known, HasSession
<1>8. Stages[k] = "waiting"
  BY <1>0, <1>2, StagesAre
<1>. QED
  BY <1>2, <1>5, <1>6, <1>7, <1>8 DEF Peer!Admit, Peer!Moves, Peer!peers

\* Erasing sessions, as handle_close and the timer do.
LEMMA DropServes ==
  ASSUME SInv, NEW dead, dead \subseteq DOMAIN sessions, erase_sessions(dead),
         UNCHANGED <<kernel, Serving>>
  PROVE  Peer!Next
<1>1. /\ DOMAIN sessions' \subseteq DOMAIN sessions
      /\ \A f \in DOMAIN sessions' : sessions'[f] = sessions[f]
  BY EraseKeepsMirror DEF SInv
<1>2. Known' \subseteq Known
  BY <1>1 DEF Known, HasSession
<1>3. PICK K \in SUBSET Known : Known' = Known \ K
  <2>1. Known' = Known \ (Known \ Known')
    BY <1>2
  <2>. QED
    BY <2>1
<1>4. UNCHANGED <<Stages, Unread, Ended, listening>>
  BY StagesKept DEF kernel, Unread, Ended
<1>5. Peer!Forget(K)
  BY <1>3, <1>4 DEF Peer!Forget, Peer!peers
<1>. QED
  BY <1>5 DEF Peer!Next

\* The steps of svc() without a callback.
LEMMA SvcServes ==
  ASSUME SInv, CurrentConn, OneSocket, SvcStep, UNCHANGED sessionVars
  PROVE  [Peer!Next]_(Peer!vars)
<1>0. TypeOK /\ UNCHANGED Known
  BY KnownKept DEF SInv, RInv, sessionVars
<1>1. ASSUME NEW fd \in Fds, GetHandler(fd) PROVE Peer!Next
  <2>1. /\ rpc = "loop" /\ handlers[fd] # NoConn
        /\ rpc' = "input" /\ cur_handler' = handlers[fd] /\ UNCHANGED kernel
    BY <1>1 DEF GetHandler, Takes
  <2>2. handlers[fd] = fd_conn[fd]
    BY <2>1 DEF SInv, RInv, HandlersMatch, At
  <2>3. handlers[fd] \in Conns
    BY <1>0, <2>1 DEF TypeOK
  <2>4. UNCHANGED <<Stages, Unread, Ended, listening>>
    BY <2>1, StagesKept DEF kernel, Unread, Ended
  <2>5. Serving = NoConn /\ Serving' = handlers[fd]
    BY <2>1 DEF Serving
  <2>6. Stages[handlers[fd]] = "open"
    BY <1>0, <2>2, <2>3, StagesAre
  <2>7. Peer!Begin(handlers[fd])
    BY <1>0, <2>4, <2>5, <2>6 DEF Peer!Begin, Peer!peers
  <2>. QED
    BY <2>3, <2>7 DEF Peer!Next
<1>2. CASE CloseConn
  <2>. DEFINE k == fd_conn[cur]
  <2>1. /\ rpc = "close" /\ rpc' = "erase" /\ fd_conn' = [fd_conn EXCEPT ![cur] = NoConn]
        /\ UNCHANGED <<used, backlog, inbox, listening>>
    BY <1>2 DEF CloseConn, close
  <2>2. cur \in Fds /\ k \in Conns /\ k # NoConn
    BY <1>0, <2>1 DEF SInv, RInv, LocalInv, TypeOK, Open
  <2>3. k \in Ended \ Unread
    BY <2>1 DEF CurrentConn
  <2>4. k \notin Known
    <3>1. ASSUME NEW f \in DOMAIN sessions, sessions[f].peer = k PROVE FALSE
      <4>1. f \in Fds /\ fd_conn[f] = k
        BY <3>1 DEF SInv, SessionIsOfConnection, SessionTypeOK
      <4>2. f = cur
        BY <2>2, <4>1 DEF OneSocket
      <4>. QED
        BY <2>1, <4>2 DEF SInv, SessionsOpen
    <3>. QED
      BY <3>1 DEF Known, HasSession
  <2>5. fd_conn'[cur] = NoConn /\ \A f \in Fds \ {cur} : fd_conn'[f] = fd_conn[f] /\ fd_conn[f] # k
    BY <1>0, <2>1, <2>2 DEF OneSocket, TypeOK
  <2>6. k \in used \ backlog
    BY <2>2 DEF OneSocket
  <2>7. Stages[k] = "open"
    BY <1>0, <2>2, StagesAre
  <2>8. Stages' = [Stages EXCEPT ![k] = "closed"]
    <3>1. Stages'[k] = "closed"
      BY <2>1, <2>2, <2>5, <2>6 DEF Stages
    <3>2. ASSUME NEW l \in Conns \ {k} PROVE Stages'[l] = Stages[l]
      <4>1. l # NoConn
        BY DEF TypeOK
      <4>2. l \in {fd_conn[f] : f \in Fds} <=> l \in {fd_conn'[f] : f \in Fds}
        BY <2>5, <3>2, <4>1
      <4>. QED
        BY <2>1, <3>2, <4>2 DEF Stages
    <3>. QED
      BY <3>1, <3>2 DEF Stages
  <2>9. UNCHANGED <<Unread, Ended>> /\ Serving = NoConn /\ Serving' = NoConn
    BY <2>1 DEF Unread, Ended, Serving
  <2>. HIDE DEF k
  <2>10. Peer!Close(k)
    BY <1>0, <2>1, <2>3, <2>4, <2>7, <2>8, <2>9 DEF Peer!Close, Peer!Moves, Peer!peers
  <2>. QED
    BY <2>2, <2>10 DEF Peer!Next
<1>3. CASE ~CloseConn /\ \A fd \in Fds : ~GetHandler(fd)
  <2>1. /\ UNCHANGED <<used, backlog, inbox, fd_conn, listening>>
        /\ rpc # "input" /\ rpc' # "input"
    BY <1>3 DEF SvcStep, EpollWait, BatchDone, AcceptFails, AddToEpoll, InsertHandler,
                DropEvent, EpollDel, EraseHandler, Takes, kernel
  <2>2. UNCHANGED <<Stages, Unread, Ended, Serving>>
    BY <2>1, StagesKept DEF Unread, Ended, Serving
  <2>. QED
    BY <1>0, <2>1, <2>2 DEF Peer!vars, Peer!peers
<1>. QED
  BY <1>1, <1>2, <1>3

\* handle_input.
LEMMA InputServes ==
  ASSUME SInv, CurrentConn, ServerInput
  PROVE  Peer!Read
<1>. DEFINE k == fd_conn[cur]
<1>1. /\ rpc = "input" /\ rpc' # "input" /\ Recv /\ cur_handler = k
      /\ UNCHANGED <<used, backlog, fd_conn, listening, sessionVars>>
  BY DEF ServerInput, HandleInput, CurrentConn
<1>2. cur \in Open /\ k \in Conns /\ k # NoConn
  BY <1>1 DEF SInv, RInv, LocalInv, TypeOK, Open
<1>3. inbox \in [Conns -> Inbox]
  BY DEF SInv, RInv, TypeOK
<1>4. Serving = k /\ Serving' = NoConn
  BY <1>1 DEF Serving
<1>5. Unread' = Unread \ {k} /\ Ended' = Ended
  <2>1. CASE inbox[k].data
    <3>1. inbox' = [inbox EXCEPT ![k].data = FALSE]
      BY <1>1, <1>2, <2>1 DEF Recv, RecvResult
    <3>2. \A l \in Conns : /\ inbox'[l].data <=> (inbox[l].data /\ l # k)
                           /\ inbox'[l].end = inbox[l].end
      BY <1>2, <1>3, <3>1 DEF Inbox
    <3>. QED
      BY <3>2 DEF Unread, Ended
  <2>2. CASE ~inbox[k].data /\ inbox[k].end = "reset"
    <3>1. inbox' = [inbox EXCEPT ![k].end = "eof"]
      BY <1>1, <1>2, <2>2 DEF Recv, RecvResult
    <3>2. \A l \in Conns : /\ inbox'[l].data = inbox[l].data
                           /\ inbox'[l].end = IF l = k THEN "eof" ELSE inbox[l].end
      BY <1>2, <1>3, <3>1 DEF Inbox
    <3>. QED
      BY <2>2, <3>2 DEF Unread, Ended
  <2>3. CASE ~inbox[k].data /\ inbox[k].end # "reset"
    <3>1. inbox[k].end \in {"none", "eof"}
      BY <1>2, <1>3, <2>3 DEF Inbox
    <3>2. RecvResult \in {"timeout", "closed"}
      BY <1>2, <2>3, <3>1 DEF RecvResult
    <3>3. inbox' = inbox
      BY <1>1, <3>2 DEF Recv
    <3>. QED
      BY <2>3, <3>3 DEF Unread, Ended
  <2>. QED
    BY <2>1, <2>2, <2>3
<1>6. UNCHANGED <<Stages, Known>>
  BY <1>1, StagesKept, KnownKept DEF sessionVars
<1>. HIDE DEF k
<1>. QED
  BY <1>1, <1>2, <1>4, <1>5, <1>6 DEF Peer!Read

\* stop_listen.
LEMMA StopServes ==
  ASSUME TypeOK, OneSocket, StopListen, UNCHANGED sessionVars
  PROVE  Peer!Stop
<1>1. /\ listening = TRUE /\ listening' = FALSE /\ backlog' = {}
      /\ UNCHANGED <<used, inbox, fd_conn, svcVars>>
  BY DEF StopListen, TypeOK
<1>2. UNCHANGED <<Unread, Ended, Serving, Known>>
  BY <1>1, KnownKept DEF Unread, Ended, Serving, svcVars, sessionVars
<1>3. ASSUME NEW l \in Conns
      PROVE  Stages'[l] = IF Stages[l] = "waiting" THEN "closed" ELSE Stages[l]
  <2>1. CASE l \in backlog
    <3>1. l \in used /\ l \notin {fd_conn[fd] : fd \in Fds}
      BY <2>1 DEF OneSocket, TypeOK
    <3>. QED
      BY <1>1, <2>1, <3>1 DEF Stages
  <2>2. CASE l \notin backlog
    BY <1>1, <2>2 DEF Stages
  <2>. QED
    BY <2>1, <2>2
<1>4. Stages' = [l \in Conns |-> IF Stages[l] = "waiting" THEN "closed" ELSE Stages[l]]
  BY <1>3 DEF Stages
<1>. QED
  BY <1>1, <1>2, <1>4 DEF Peer!Stop

\* The server implements the service, from the first step of a peer to the
\* removal of its session and the close: the handler that runs is always that of an open
\* connection, each connection is closed once, and not before its peer has ended
\* it, everything it sent has been read and its session is gone.
THEOREM ServerImplementsService == ServerSpec => ServiceSpec
<1>1. ServerInit => Peer!Init
  BY DEF ServerInit, Init, SessionInit, Peer!Init, Stages, Unread, Ended, Known,
         HasSession, Serving
<1>2. ServerInit => CurrentConn
  BY DEF ServerInit, Init, CurrentConn
<1>3. SInv /\ SInv' /\ OneSocket /\ OneSocket' /\ CurrentConn /\ [ServerNext]_serverVars
        => [Peer!Next]_(Peer!vars)
  <2>. SUFFICES ASSUME SInv, SInv', OneSocket, OneSocket', CurrentConn,
                       [ServerNext]_serverVars
                PROVE  [Peer!Next]_(Peer!vars)
    OBVIOUS
  <2>0. TypeOK /\ TypeOK'
    BY DEF SInv, RInv
  <2>1. ASSUME NEW k \in Conns, PeerStep(k), UNCHANGED sessionVars PROVE Peer!Next
    BY <2>0, <2>1, PeerStepServes
  <2>2. ASSUME NEW k \in Conns, ServerAccept(k) PROVE Peer!Next
    BY <2>2, AcceptServes DEF Peer!Next
  <2>3. CASE SvcStep /\ UNCHANGED sessionVars
    BY <2>3, SvcServes
  <2>4. CASE ServerInput
    BY <2>4, InputServes DEF Peer!Next
  <2>5. CASE ServerClose
    <3>1. HandleClose /\ erase_sessions({cur} \cap DOMAIN sessions)
      BY <2>5 DEF ServerClose, remove_session
    <3>2. UNCHANGED <<kernel, Serving>>
      BY <3>1 DEF HandleClose, Serving
    <3>. QED
      BY <3>1, <3>2, DropServes
  <2>6. CASE TimerCheck
    <3>1. PICK idle \in SUBSET DOMAIN sessions : erase_sessions(idle)
      BY <2>6 DEF TimerCheck
    <3>2. UNCHANGED <<kernel, Serving>>
      BY <2>6 DEF TimerCheck, vars, svcVars, Serving
    <3>. QED
      BY <3>1, <3>2, DropServes
  <2>7. CASE StopListen /\ UNCHANGED sessionVars
    BY <2>0, <2>7, StopServes DEF Peer!Next
  <2>8. CASE UNCHANGED serverVars
    <3>1. UNCHANGED <<kernel, svcVars, sessions>>
      BY <2>8 DEF serverVars, vars, sessionVars
    <3>2. UNCHANGED <<Stages, Unread, Ended, Known, Serving, listening>>
      BY <3>1, StagesKept, KnownKept DEF kernel, svcVars, Unread, Ended, Serving
    <3>. QED
      BY <3>2 DEF Peer!vars, Peer!peers
  <2>. QED
    BY <2>1, <2>2, <2>3, <2>4, <2>5, <2>6, <2>7, <2>8 DEF ServerNext, ServerSvc
<1>4. SInv /\ CurrentConn /\ [ServerNext]_serverVars => CurrentConn'
  BY StepCurrentConn
<1>. QED
  BY <1>1, <1>2, <1>3, <1>4, InvariantSInv, ServerIsReactor, InvariantTargets, PTL
     DEF ServerSpec, ServiceSpec, Peer!Spec
===============================================================================
