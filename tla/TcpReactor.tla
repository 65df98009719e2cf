------------------------------ MODULE TcpReactor ------------------------------
(***************************************************************************)
(* The epoll reactor of TcpReactor.cpp: one thread that runs svc() in a    *)
(* loop, and other threads that call del_fd().  The kernel (descriptors,   *)
(* epoll, the accept queue) and the peers are the environment.             *)
(*                                                                         *)
(* epoll is used level-triggered and only EPOLLIN|EPOLLPRI is asked for;   *)
(* the EPOLLOUT, EPOLLPRI and "other" branches of svc() change no state.   *)
(* A connection, a peer and the handler renewed for the connection share   *)
(* one name.  svc() is cut where another thread can see the difference:    *)
(* at each call of epoll_ctl, of a callback, of close and of _handlers.    *)
(***************************************************************************)
EXTENDS Descriptors, Integers, FiniteSets

CONSTANTS Conns,      \* the connections peers make, each once
          NoConn,     \* no connection, no handler
          EpollSize,  \* _epoll_size: events per epoll_wait
          Deleters    \* the threads that call del_fd

Listen == -1          \* stands for _listen_fd in the batch of events

ASSUME ReactorAssumption == /\ NoConn \notin Conns
                            /\ Fds \subseteq Nat
                            /\ IsFiniteSet(Fds)
                            /\ EpollSize \in Nat \ {0}

VARIABLES used,         \* the connections that have been made
          backlog,      \* those not accepted yet
          inbox,        \* inbox[k]: what recv finds on connection k
          fd_conn,      \* the connection behind a descriptor
          interest,     \* the descriptors registered with epoll
          listening,    \* _listen_fd is open
          unwatched,    \* the connections that epoll refused to watch
          handlers,     \* _handlers
          rpc, batch,   \* where svc() is; the events it has not looked at
          cur, cur_handler,       \* its local variables conn_fd and handler
          dpc, dfd, dtarget       \* the callers of del_fd

kernel == <<used, backlog, inbox, fd_conn, interest, listening, unwatched>>
svcVars == <<rpc, batch, cur, cur_handler>>
delVars == <<dpc, dfd, dtarget>>
vars == <<kernel, handlers, svcVars, delVars>>

Inbox == [data : BOOLEAN, end : {"none", "eof", "reset"}]
Open == {fd \in Fds : fd_conn[fd] # NoConn}
Live(k) == k \in backlog \/ \E fd \in Fds : fd_conn[fd] = k
Readable(k) == inbox[k].data \/ inbox[k].end # "none"

Init == /\ used = {} /\ backlog = {}
        /\ inbox = [k \in Conns |-> [data |-> FALSE, end |-> "none"]]
        /\ fd_conn = [fd \in Fds |-> NoConn]
        /\ interest = {}
        /\ listening = TRUE
        /\ unwatched = {}
        /\ handlers = [fd \in Fds |-> NoConn]
        /\ rpc = "wait" /\ batch = {} /\ cur = Listen /\ cur_handler = NoConn
        /\ dpc = [d \in Deleters |-> "idle"]
        /\ dfd = [d \in Deleters |-> Listen]
        /\ dtarget = [d \in Deleters |-> NoConn]

-------------------------------------------------------------------------------
(* Peers *)

Connect(k) == /\ listening
              /\ k \notin used
              /\ used' = used \cup {k}
              /\ backlog' = backlog \cup {k}
              /\ UNCHANGED <<inbox, fd_conn, interest, listening, unwatched, handlers,
                              svcVars, delVars>>

Receive(k, what) == /\ Live(k)
                    /\ inbox[k].end = "none"
                    /\ inbox' = [inbox EXCEPT ![k] = what]
                    /\ UNCHANGED <<used, backlog, fd_conn, interest, listening, unwatched,
                                   handlers, svcVars, delVars>>

PeerSends(k) == Receive(k, [inbox[k] EXCEPT !.data = TRUE])
PeerCloses(k) == Receive(k, [inbox[k] EXCEPT !.end = "eof"])
PeerResets(k) == Receive(k, [inbox[k] EXCEPT !.end = "reset"])

-------------------------------------------------------------------------------
(* svc *)

Ready == {fd \in interest : Readable(fd_conn[fd])}
           \cup (IF listening /\ backlog # {} THEN {Listen} ELSE {})

\* epoll_wait with no time-out returns at most _epoll_size of the ready events.
EpollWait == /\ rpc = "wait"
             /\ Ready # {}
             /\ \E events \in SUBSET Ready :
                   /\ Cardinality(events) =
                        IF Cardinality(Ready) < EpollSize THEN Cardinality(Ready) ELSE EpollSize
                   /\ batch' = events
             /\ rpc' = "loop"
             /\ UNCHANGED <<kernel, handlers, cur, cur_handler, delVars>>

BatchDone == /\ rpc = "loop"
             /\ batch = {}
             /\ rpc' = "wait"
             /\ UNCHANGED <<kernel, handlers, batch, cur, cur_handler, delVars>>

\* Mutant: the loop looks at the same event again.
TakesAgain(event) == /\ rpc = "loop"
                     /\ event \in batch
                     /\ batch' \in {batch, batch \ {event}}

Takes(event) == /\ rpc = "loop"
                /\ event \in batch
                /\ batch' = batch \ {event}

\* POSIX: accept returns the lowest descriptor that is not open.
Free == Fds \ Open
IsLowestFree(fd) == fd \in Free /\ \A other \in Free : fd <= other

AcceptPossible == listening /\ backlog # {} /\ Free # {}

\* accept, renew and a handle_accept that returns 0.
AcceptConn(k) == /\ Takes(Listen)
                 /\ AcceptPossible
                 /\ k \in backlog
                 /\ backlog' = backlog \ {k}
                 /\ \E fd \in Fds : /\ IsLowestFree(fd)
                                    /\ cur' = fd
                                    /\ fd_conn' = [fd_conn EXCEPT ![fd] = k]
                 /\ cur_handler' = k
                 /\ rpc' = "add"
                 /\ UNCHANGED <<used, inbox, interest, listening, unwatched, handlers, delVars>>

\* handle_accept fails: the descriptor is closed again.
RejectConn(k) == /\ Takes(Listen)
                 /\ AcceptPossible
                 /\ k \in backlog
                 /\ backlog' = backlog \ {k}
                 /\ UNCHANGED <<used, inbox, fd_conn, interest, listening, unwatched, handlers,
                                rpc, cur, cur_handler, delVars>>

\* EMFILE, or _listen_fd has been closed by stop_listen.
AcceptFails == /\ Takes(Listen)
               /\ ~AcceptPossible
               /\ UNCHANGED <<kernel, handlers, rpc, cur, cur_handler, delVars>>

\* EPOLL_CTL_ADD succeeds, or fails for want of memory or of room for watches.
Watch == \/ /\ interest' = interest \cup ({cur} \cap Open)
            /\ UNCHANGED unwatched
         \/ /\ unwatched' = unwatched \cup ({fd_conn[cur]} \cap Conns)
            /\ UNCHANGED interest

\* Mutant: the handler is not entered in _handlers.
AddToEpollOnly == /\ rpc = "add"
                  /\ Watch
                  /\ rpc' = "loop"
                  /\ UNCHANGED <<used, backlog, inbox, fd_conn, listening, handlers,
                                 batch, cur, cur_handler, delVars>>

\* The result of EPOLL_CTL_ADD is ignored: the handler is entered in any case.
AddToEpoll == /\ rpc = "add"
              /\ Watch
              /\ rpc' = "insert"
              /\ UNCHANGED <<used, backlog, inbox, fd_conn, listening, handlers,
                             batch, cur, cur_handler, delVars>>

\* TMapInt::insert does not replace an element that is there.
InsertHandler == /\ rpc = "insert"
                 /\ handlers' = IF handlers[cur] = NoConn
                                THEN [handlers EXCEPT ![cur] = cur_handler] ELSE handlers
                 /\ rpc' = "loop"
                 /\ UNCHANGED <<kernel, batch, cur, cur_handler, delVars>>

\* An event of a descriptor without a handler is dropped.
DropEvent(fd) == /\ Takes(fd)
                 /\ handlers[fd] = NoConn
                 /\ UNCHANGED <<kernel, handlers, rpc, cur, cur_handler, delVars>>

GetHandler(fd) == /\ Takes(fd)
                  /\ handlers[fd] # NoConn
                  /\ cur' = fd
                  /\ cur_handler' = handlers[fd]
                  /\ rpc' = "input"
                  /\ UNCHANGED <<kernel, handlers, delVars>>

\* What SocketUtils::recv reports to handle_input for descriptor cur.
RecvResult == LET k == fd_conn[cur]
              IN IF k = NoConn THEN "error"
                 ELSE IF inbox[k].data THEN "data"
                 ELSE CASE inbox[k].end = "none" -> "timeout"
                        [] inbox[k].end = "reset" -> "error"
                        [] inbox[k].end = "eof" -> "closed"

\* One recv takes the data there is; an error is reported once, then the end.
Recv == inbox' = CASE RecvResult = "data" -> [inbox EXCEPT ![fd_conn[cur]].data = FALSE]
                   [] RecvResult = "error" /\ cur \in Open ->
                        [inbox EXCEPT ![fd_conn[cur]].end = "eof"]
                   [] OTHER -> inbox

\* handle_input reads once; a result other than 0 asks for the close.
HandleInput(fails) == /\ rpc = "input"
                      /\ Recv
                      /\ rpc' = IF fails THEN "del" ELSE "loop"
                      /\ UNCHANGED <<used, backlog, fd_conn, interest, listening, unwatched,
                                     handlers, batch, cur, cur_handler, delVars>>

EpollDel == /\ rpc = "del"
            /\ interest' = interest \ {cur}
            /\ rpc' = "callback"
            /\ UNCHANGED <<used, backlog, inbox, fd_conn, listening, unwatched, handlers,
                           batch, cur, cur_handler, delVars>>

HandleClose == /\ rpc = "callback"
               /\ rpc' = "close"
               /\ UNCHANGED <<kernel, handlers, batch, cur, cur_handler, delVars>>

\* close(2): the descriptor is free, and gone from the epoll set.
close(fd) == /\ fd_conn' = [fd_conn EXCEPT ![fd] = NoConn]
             /\ interest' = interest \ {fd}

\* Mutant: the descriptor leaves epoll but is not closed.
CloseConnForgotten == /\ rpc = "close"
                      /\ interest' = interest \ {cur}
                      /\ rpc' = "erase"
                      /\ UNCHANGED <<used, backlog, inbox, fd_conn, listening, unwatched, handlers,
                                     batch, cur, cur_handler, delVars>>

CloseConn == /\ rpc = "close"
             /\ close(cur)
             /\ rpc' = "erase"
             /\ UNCHANGED <<used, backlog, inbox, listening, unwatched, handlers,
                            batch, cur, cur_handler, delVars>>

\* Mutant: the handler stays in _handlers.
EraseHandlerForgotten == /\ rpc = "erase"
                         /\ rpc' = "loop"
                         /\ UNCHANGED <<kernel, handlers, batch, cur, cur_handler, delVars>>

EraseHandler == /\ rpc = "erase"
                /\ handlers' = [handlers EXCEPT ![cur] = NoConn]
                /\ rpc' = "loop"
                /\ UNCHANGED <<kernel, batch, cur, cur_handler, delVars>>

-------------------------------------------------------------------------------
(* del_fd and stop_listen, called by other threads *)

\* The caller names the descriptor of a connection that is open at this moment.
DelBegin(d, fd) == /\ dpc[d] = "idle"
                   /\ fd \in interest \/ fd_conn[fd] \in unwatched
                   /\ dpc' = [dpc EXCEPT ![d] = "del"]
                   /\ dfd' = [dfd EXCEPT ![d] = fd]
                   /\ dtarget' = [dtarget EXCEPT ![d] = fd_conn[fd]]
                   /\ UNCHANGED <<kernel, handlers, svcVars>>

DelFromEpoll(d) == /\ dpc[d] = "del"
                   /\ interest' = interest \ {dfd[d]}
                   /\ dpc' = [dpc EXCEPT ![d] = "close"]
                   /\ UNCHANGED <<used, backlog, inbox, fd_conn, listening, unwatched, handlers,
                                  svcVars, dfd, dtarget>>

\* Mutant: del_fd closes only a descriptor that has a handler.
DelCloseHandled(d) == /\ dpc[d] = "close"
                      /\ IF handlers[dfd[d]] # NoConn THEN close(dfd[d])
                         ELSE UNCHANGED <<fd_conn, interest>>
                      /\ dpc' = [dpc EXCEPT ![d] = "erase"]
                      /\ UNCHANGED <<used, backlog, inbox, listening, unwatched, handlers, svcVars,
                                     dfd, dtarget>>

DelClose(d) == /\ dpc[d] = "close"
               /\ close(dfd[d])
               /\ dpc' = [dpc EXCEPT ![d] = "erase"]
               /\ UNCHANGED <<used, backlog, inbox, listening, unwatched, handlers, svcVars,
                              dfd, dtarget>>

DelHandler(d) == /\ dpc[d] = "erase"
                 /\ handlers' = [handlers EXCEPT ![dfd[d]] = NoConn]
                 /\ dpc' = [dpc EXCEPT ![d] = "idle"]
                 /\ UNCHANGED <<kernel, svcVars, dfd, dtarget>>

\* The connections still in the accept queue are reset by the kernel.
StopListen == /\ listening
              /\ listening' = FALSE
              /\ backlog' = {}
              /\ UNCHANGED <<used, inbox, fd_conn, interest, unwatched, handlers, svcVars, delVars>>

-------------------------------------------------------------------------------

PeerStep(k) == Connect(k) \/ PeerSends(k) \/ PeerCloses(k) \/ PeerResets(k)

\* The steps of svc() in which no callback of the handler takes part.
SvcStep == \/ EpollWait \/ BatchDone
           \/ AcceptFails \/ AddToEpoll \/ InsertHandler
           \/ \E fd \in Fds : DropEvent(fd) \/ GetHandler(fd)
           \/ EpollDel \/ CloseConn \/ EraseHandler

DelStep(d) == \/ \E fd \in Fds : DelBegin(d, fd)
              \/ DelFromEpoll(d) \/ DelClose(d) \/ DelHandler(d)

\* The reactor by itself: the callbacks may return anything.
Next == \/ \E k \in Conns : PeerStep(k) \/ AcceptConn(k) \/ RejectConn(k)
        \/ SvcStep
        \/ \E fails \in BOOLEAN : HandleInput(fails)
        \/ HandleClose
        \/ \E d \in Deleters : DelStep(d)
        \/ StopListen

Spec == Init /\ [][Next]_vars

-------------------------------------------------------------------------------
(* Correctness *)

\* The array _ep_events has room for every event of a batch.
TypeOK == /\ used \subseteq Conns
          /\ backlog \subseteq used
          /\ inbox \in [Conns -> Inbox]
          /\ fd_conn \in [Fds -> Conns \cup {NoConn}]
          /\ interest \subseteq Open
          /\ listening \in BOOLEAN
          /\ unwatched \subseteq Conns
          /\ handlers \in [Fds -> Conns \cup {NoConn}]
          /\ rpc \in {"wait", "loop", "add", "insert", "input", "del", "callback",
                      "close", "erase"}
          /\ batch \subseteq Fds \cup {Listen}
          /\ Cardinality(batch) <= EpollSize
          /\ cur \in Fds \cup {Listen}
          /\ cur_handler \in Conns \cup {NoConn}
          /\ dpc \in [Deleters -> {"idle", "del", "close", "erase"}]
          /\ dfd \in [Deleters -> Fds \cup {Listen}]
          /\ dtarget \in [Deleters -> Conns \cup {NoConn}]

At(fd, places) == cur = fd /\ rpc \in places

\* Nobody has called del_fd, which takes no part in the order svc() keeps.
Undisturbed == \A d \in Deleters : dpc[d] = "idle" /\ dfd[d] = Listen

HandlersMatch ==
  \A fd \in Fds : handlers[fd] # NoConn =>
                     fd_conn[fd] = handlers[fd] \/ At(fd, {"erase"})

\* As long as nobody calls del_fd, a handler only ever serves the connection it
\* was renewed for, although descriptors are used again as soon as they are closed.
HandlerIsForConnection == Undisturbed => HandlersMatch

Served == \A fd \in interest : handlers[fd] = fd_conn[fd] \/ At(fd, {"insert"})

\* As long as nobody calls del_fd, a connection that epoll watches has its handler,
\* except between the epoll_ctl and the insert that follows it in the same thread.
RegisteredIsServed == Undisturbed => Served

NoneLeaked == \A fd \in Open : \/ fd \in interest
                                \/ fd_conn[fd] \in unwatched
                                \/ At(fd, {"add", "callback", "close"})

\* As long as nobody calls del_fd, the one way to leak a descriptor is an EPOLL_CTL_ADD
\* that failed: outside the few steps that open or close it, any other open
\* descriptor is watched by epoll, whatever accept and the callbacks return.
NoDescriptorLeak == Undisturbed => NoneLeaked

BatchCurrent == batch \subseteq interest \cup {Listen}

\* As long as nobody calls del_fd, an event in the batch is one of the connection it
\* was reported for: no event of the batch closes the descriptor of a later one.
EventsAreCurrent == Undisturbed => BatchCurrent

\* del_fd: when it returns, the connection its caller meant is closed, by it or
\* by the reactor.
DelFdCloses ==
  [][\A d \in Deleters : DelHandler(d) => ~Live(dtarget[d])]_vars
===============================================================================
