---------------------------- MODULE TcpClientSend ----------------------------
(***************************************************************************)
(* TcpClient together with a thread of the application that calls          *)
(* TcpClientEpoll::send while the owner and the epoll threads connect and  *)
(* close.  send looks at _open before it has the object's mutex, and takes *)
(* the descriptor from _fd when it has it; connect and close take no mutex *)
(* at all.  From then on SocketUtils::send_n works with that number.       *)
(*                                                                         *)
(* What the bytes are, and what several senders do to each other, is the   *)
(* subject of Transfer: here there is one sender, and a write is only      *)
(* where it goes.                                                          *)
(***************************************************************************)
EXTENDS TcpClient

VARIABLES s_pc,     \* where the sender is
          s_fd,     \* the argument of send_n
          s_conn    \* history: the connection that was open when send looked

sending == <<s_pc, s_fd, s_conn>>
allVars == <<vars, sending>>

SendInit == Init /\ s_pc = "idle" /\ s_fd = 0 /\ s_conn = 0

Returned == s_pc' = "idle" /\ s_fd' = 0 /\ s_conn' = 0

\* if(!_open) return -1: a closed object is left as it is.
SendBegins == /\ s_pc = "idle"
              /\ m_open
              /\ s_pc' = "lock"
              /\ s_conn' = used
              /\ UNCHANGED s_fd

\* The mutex is taken, and _fd is read for the call of send_n.
TakeFd == /\ s_pc = "lock"
          /\ s_pc' = "send"
          /\ s_fd' = m_fd
          /\ UNCHANGED s_conn

\* One send(2) of the loop.  It takes everything or fails, and the call is
\* over, or the loop waits for room.
Write == /\ s_pc = "send"
         /\ \/ s_pc' = "wait" /\ UNCHANGED <<s_fd, s_conn>>
            \/ Returned

\* select finds room, or the time is up.
WaitEnds == /\ s_pc = "wait"
            /\ \/ s_pc' = "send" /\ UNCHANGED <<s_fd, s_conn>>
               \/ Returned

send == SendBegins \/ TakeFd \/ Write \/ WaitEnds

SendNext == \/ Next /\ UNCHANGED sending
            \/ send /\ UNCHANGED vars

\* Nothing is promised about the sender's progress: it may wait for ever.
SendSpec == SendInit /\ [][SendNext]_allVars /\ Fairness

-------------------------------------------------------------------------------
(* Correctness *)

SendTypeOK == /\ s_pc \in {"idle", "lock", "send", "wait"}
              /\ s_fd \in Fds \cup {0}
              /\ s_conn \in 0 .. MaxConns

\* No close has begun since the sender found the object open: one that has
\* ended has cleared _open, and a later connect has made another connection.
Undisturbed == /\ m_open /\ s_conn = used
               /\ \A a \in Actors : ~InClose(a)

\* In the supported use every descriptor the object works on is its own: close
\* closes none that has been given to somebody else in the meantime, and a send
\* that no close overlaps writes to no other connection than the one it found.
UsesItsOwn ==
  [][/\ \A a \in Actors : CloseFd(a) /\ Calm => m_fd \in Fds /\ desc[m_fd] \in Conns
     /\ Write /\ Undisturbed /\ Calm => s_fd \in Fds /\ desc[s_fd] = s_conn]_allVars
===============================================================================
