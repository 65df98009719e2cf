---------------------------- MODULE SessionExpiry ----------------------------
(***************************************************************************)
(* SessionMgt in use: a server inserts a session for each descriptor it    *)
(* accepts and removes it when it closes the descriptor (SessionMgt.h),    *)
(* any thread calls the other methods at any time, and the timer thread    *)
(* calls check() one TCP_IDLE_TIMEOUT after the last call.  The            *)
(* constructor makes that timer and ignores it when this fails: then no    *)
(* session is ever expired.                                                *)
(*                                                                         *)
(* The methods read the wall clock, the timer counts elapsed time.         *)
(***************************************************************************)
EXTENDS SessionMgt

CONSTANTS Epoch,      \* wall clock at the start
          Slack,      \* how late the timer thread may run
          MaxSetBack, \* by how much the wall clock is ever set back
          MaxUid,     \* bound: sessions inserted
          MaxTime     \* bound: elapsed time

ASSUME ExpiryAssumption == /\ Epoch \in Nat
                           /\ Slack \in Nat
                           /\ MaxSetBack \in Nat /\ MaxSetBack <= Epoch
                           /\ MaxUid \in Nat
                           /\ MaxTime \in Nat
                           /\ Wrap > Epoch + MaxTime

VARIABLES elapsed,    \* time since the start
          set_back,   \* by how much the wall clock has been set back
          timer,      \* whether InitSessionTimer made a timer that runs
          armed,      \* when SelectTimer::svc entered select
          open,       \* the descriptors the server has open
          touched,    \* history: elapsed time of a session's last access
          assigned    \* history: what set_client_id last said of an id

environment == <<elapsed, set_back, timer, armed, open>>
history == <<touched, assigned>>
vars == <<sessionVars, environment, history>>

Clock == Epoch + elapsed - set_back
Idle(fd) == elapsed - touched[fd]

Init == /\ SessionInit
        /\ elapsed = 0 /\ set_back = 0 /\ timer \in BOOLEAN /\ armed = 0
        /\ open = {}
        /\ touched = [fd \in Fds |-> 0]
        /\ assigned = [id \in 1 .. MaxUid |-> 0]

\* accept returned fd; handle_accept registers the session.
Accept(fd, peer) == /\ fd \notin open
                    /\ m_uid < MaxUid
                    /\ insert_session(fd, peer, Clock)
                    /\ open' = open \cup {fd}
                    /\ touched' = [touched EXCEPT ![fd] = elapsed]
                    /\ UNCHANGED <<elapsed, set_back, timer, armed, assigned>>

\* handle_close, then close.
Close(fd) == /\ fd \in open
             /\ remove_session(fd)
             /\ open' = open \ {fd}
             /\ UNCHANGED <<elapsed, set_back, timer, armed, history>>

Access(fd) == /\ update_access(fd, Clock)
              /\ touched' = IF MayUpdate(fd) THEN [touched EXCEPT ![fd] = elapsed]
                            ELSE touched
              /\ UNCHANGED <<environment, assigned>>

SetStatus(fd, status) == /\ update_status(fd, status)
                         /\ UNCHANGED <<environment, history>>

SetClientId(id, n) == /\ set_client_id(id, n)
                      /\ assigned' = [assigned EXCEPT ![id] = n]
                      /\ UNCHANGED <<environment, touched>>

\* select times out in SelectTimer::svc, which calls handle_timeout and is
\* called again.
TimerFires == /\ timer
              /\ elapsed - armed >= Timeout
              /\ check(Clock)
              /\ armed' = elapsed
              /\ UNCHANGED <<elapsed, set_back, timer, open, history>>

\* Time passes, but not beyond what the timer thread may be late.
Tick == /\ elapsed < MaxTime
        /\ timer => elapsed - armed < Timeout + Slack
        /\ elapsed' = elapsed + 1
        /\ UNCHANGED <<sessionVars, set_back, timer, armed, open, history>>

\* gettimeofday follows the wall clock, and that may be corrected.
ClockSetBack == /\ set_back < MaxSetBack
                /\ set_back' = set_back + 1
                /\ UNCHANGED <<sessionVars, elapsed, timer, armed, open, history>>

Next == \/ \E fd \in Fds : \/ \E peer \in Peers : Accept(fd, peer)
                           \/ Close(fd)
                           \/ Access(fd)
                           \/ \E status \in BOOLEAN : SetStatus(fd, status)
        \/ \E id \in DOMAIN fds, n \in ClientIds : SetClientId(id, n)
        \/ TimerFires
        \/ Tick
        \/ ClockSetBack

Spec == Init /\ [][Next]_vars

-------------------------------------------------------------------------------
(* Correctness *)

TypeOK == /\ SessionTypeOK
          /\ m_uid <= MaxUid
          /\ elapsed \in 0 .. MaxTime
          /\ set_back \in 0 .. MaxSetBack
          /\ timer \in BOOLEAN
          /\ armed \in 0 .. elapsed
          /\ open \subseteq Fds
          /\ touched \in [Fds -> 0 .. elapsed]
          /\ assigned \in [1 .. MaxUid -> ClientIds \cup {0}]

\* Only a descriptor that is open has a session.
SessionsAreOpen == DOMAIN sessions \subseteq open

\* An id given to a client never comes to mean another connection: it leads to
\* the same descriptor until it becomes invalid, and then stays invalid.
IdNeverReused ==
  [][\A id \in 1 .. m_uid :
        id \in DOMAIN fds' => id \in DOMAIN fds /\ fds'[id] = fds[id]]_vars

\* A client id that was set is the one get_client_id returns, for as long as
\* the session id is valid, whatever happens to other sessions and descriptors.
ClientIdKept == \A id \in DOMAIN fds : get_client_id(id) = assigned[id]

\* The wall clock has not been set back so far.
SteadyClock == set_back = 0

\* If the timer runs, and with a steady clock, a session that no data is recorded for is gone after two
\* time-outs and the timer's delay at the latest (the timer's period is one
\* time-out, and a session is seldom expired at the first check).
IdleSessionsExpire ==
  timer /\ SteadyClock => \A fd \in DOMAIN sessions : Idle(fd) <= 2 * Timeout + Slack

\* The sessions with data recorded in the last time-out that a step drops
\* although the server does not close their descriptors.
DroppedInUse == {fd \in DOMAIN sessions \ DOMAIN sessions' :
                    fd \in open' /\ Idle(fd) <= Timeout}

\* "If there is no data for 60 s": with a steady clock, check() drops no session
\* that is in use.
ActiveSessionsStay == [][SteadyClock => DroppedInUse = {}]_vars
===============================================================================
