------------------------------- MODULE TcpServer -------------------------------
(***************************************************************************)
(* A server as the repository's testSessionMgt.cpp builds it: a TcpReactor *)
(* whose handler keeps the session table.  handle_accept inserts a         *)
(* session, handle_input closes when the peer has closed, handle_close     *)
(* removes the session, and the timer thread drops idle sessions.          *)
(*                                                                         *)
(* SessionExpiry models time; here a check() may find any sessions idle,   *)
(* which covers every timing (the handler records no data).                *)
(***************************************************************************)
EXTENDS TcpReactor, SessionMgt

\* The session table knows a peer by its address.
ASSUME PeerAssumption == Conns \subseteq Peers

serverVars == <<vars, sessionVars>>

ServerInit == Init /\ SessionInit

ServerAccept(k) == AcceptConn(k) /\ insert_session(cur', k, 0)

\* Mutant: the end of the connection is taken for an empty read.
ServerInputDeaf == HandleInput(FALSE) /\ UNCHANGED sessionVars

\* recv returned 0: the peer has closed.  Any other result keeps the connection.
ServerInput == HandleInput(RecvResult = "closed") /\ UNCHANGED sessionVars

\* Mutant: handle_close leaves the session in the table.
ServerCloseForgets == HandleClose /\ UNCHANGED sessionVars

ServerClose == HandleClose /\ remove_session(cur)

\* SessionMgt::check in the timer thread.
TimerCheck == /\ \E idle \in (SUBSET DOMAIN sessions) \ {{}} : erase_sessions(idle)
              /\ UNCHANGED vars

ServerSvc == \/ \E k \in Conns : ServerAccept(k)
             \/ SvcStep /\ UNCHANGED sessionVars
             \/ ServerInput
             \/ ServerClose

ServerNext == \/ \E k \in Conns : PeerStep(k) /\ UNCHANGED sessionVars
              \/ ServerSvc
              \/ TimerCheck
              \/ StopListen /\ UNCHANGED sessionVars

ServerSpec == ServerInit /\ [][ServerNext]_serverVars

\* The reactor's thread runs, and epoll_wait reports what is ready.
ServerFairSpec == ServerSpec /\ WF_serverVars(ServerSvc)

-------------------------------------------------------------------------------
(* Correctness *)

ServerTypeOK == TypeOK /\ SessionTypeOK

\* A session describes the connection that is behind its descriptor now, not
\* one that had the descriptor before.
SessionIsOfConnection ==
  \A fd \in DOMAIN sessions : fd_conn[fd] = sessions[fd].peer

\* Connection k has a session.
HasSession(k) == \E fd \in DOMAIN sessions : sessions[fd].peer = k

\* The server has closed the connection and keeps nothing of it: no session, no
\* handler, no descriptor.
Forgotten(k) == /\ ~Live(k)
                /\ ~HasSession(k)
                /\ \A fd \in Fds : handlers[fd] # k

\* When the peer is gone, the server closes the connection and forgets all about
\* it, though it may learn of the end through data and an error first.  Only a connection
\* that epoll refused to watch, which svc() does not notice, is kept for ever.
PeerGoneIsForgotten ==
  \A k \in Conns : (Live(k) /\ inbox[k].end # "none") ~> (Forgotten(k) \/ k \in unwatched)

\* Every connection is accepted in the end, unless listening stops; there are
\* descriptors enough and no other connection can hold the reactor up.
BacklogIsAccepted == \A k \in Conns : (k \in backlog) ~> (k \notin backlog)

\* What the state means to the peers, in the terms of Service.
Stages == [k \in Conns |-> CASE k \notin used -> "new"
                             [] k \in backlog -> "waiting"
                             [] k \in {fd_conn[fd] : fd \in Fds} -> "open"
                             [] OTHER -> "closed"]
Unread == {k \in Conns : inbox[k].data}
Ended == {k \in Conns : inbox[k].end # "none"}
Known == {k \in Conns : HasSession(k)}
Serving == IF rpc = "input" THEN cur_handler ELSE NoConn

Peer == INSTANCE Service
          WITH stage <- Stages, accepting <- listening, unread <- Unread,
               ended <- Ended, known <- Known, serving <- Serving

\* Descriptors, epoll set, _handlers and sessions together look to a peer like the
\* service: its own handler serves it, and it is closed once, when it has ended and
\* all it sent was read, and not before its session is gone.
ServiceSpec == Peer!Spec
===============================================================================
