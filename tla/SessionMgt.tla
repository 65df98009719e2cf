------------------------------ MODULE SessionMgt ------------------------------
(***************************************************************************)
(* The session table of SessionMgt.cpp: two maps that mirror one another.  *)
(* Every method holds _mutex from beginning to end and is one action.      *)
(*                                                                         *)
(* An id "<ip>_<port>_<second>_<uid>" is represented by its uid alone, the *)
(* part that tells ids apart.  Of a session's fields only those a method   *)
(* reads back are kept; "peer" stands for _ip and _port.                   *)
(***************************************************************************)
EXTENDS Descriptors, Integers, Functions, FiniteSets

CONSTANTS Peers,      \* the remote sockets
          ClientIds,  \* what set_client_id is called with; 0 is "not set"
          Timeout,    \* TCP_IDLE_TIMEOUT
          Wrap        \* 2^64: times are unsigned long long

ASSUME SessionAssumption == /\ Timeout \in Nat \ {0}
                            /\ Wrap \in Nat \ {0}
                            /\ ClientIds \subseteq Nat

VARIABLES sessions,   \* _sessions: fd -> session
          fds,        \* _fds: session id -> fd
          m_uid       \* m_uid

sessionVars == <<sessions, fds, m_uid>>

Session == [id : Nat, peer : Peers, status : BOOLEAN,
            access_time : Int, client_id : ClientIds \cup {0}]

\* std::map: operator[] and erase.
Put(map, k, v) == [x \in DOMAIN map \cup {k} |-> IF x = k THEN v ELSE map[x]]
Erase(map, K) == Restrict(map, DOMAIN map \ K)

SessionInit == /\ sessions = [fd \in {} |-> 0]
               /\ fds = [id \in {} |-> 0]
               /\ m_uid = 0

-------------------------------------------------------------------------------

\* Mutant: numbered by the live sessions in place of a counter.
gen_uid_by_size == Cardinality(DOMAIN fds) + 1

gen_uid == m_uid + 1

NewSession(peer, t) == [id |-> gen_uid, peer |-> peer, status |-> TRUE,
                        access_time |-> t, client_id |-> 0]

insert_session(fd, peer, t) ==
  /\ m_uid' = gen_uid
  /\ sessions' = Put(sessions, fd, NewSession(peer, t))
  /\ fds' = Put(fds, gen_uid, fd)

\* What remove_session and check do to every session they drop.
erase_sessions(dead) ==
  /\ sessions' = Erase(sessions, dead)
  /\ fds' = Erase(fds, {sessions[fd].id : fd \in dead})
  /\ UNCHANGED m_uid

\* Mutant: the id stays in _fds.
remove_session_half(fd) ==
  /\ sessions' = Erase(sessions, {fd})
  /\ UNCHANGED <<fds, m_uid>>

remove_session(fd) == erase_sessions({fd} \cap DOMAIN sessions)

is_valid_session(id) == id \in DOMAIN fds

update_status(fd, status) ==
  /\ sessions' = IF fd \in DOMAIN sessions
                 THEN [sessions EXCEPT ![fd].status = status] ELSE sessions
  /\ UNCHANGED <<fds, m_uid>>

\* update_read and update_write touch a session whose status is true only.
MayUpdate(fd) == fd \in DOMAIN sessions /\ sessions[fd].status

update_access(fd, t) ==
  /\ sessions' = IF MayUpdate(fd)
                 THEN [sessions EXCEPT ![fd].access_time = t] ELSE sessions
  /\ UNCHANGED <<fds, m_uid>>

\* The call that returns true.  It does so even if _sessions lacks the fd.
set_client_id(id, n) ==
  /\ is_valid_session(id)
  /\ sessions' = IF fds[id] \in DOMAIN sessions
                 THEN [sessions EXCEPT ![fds[id]].client_id = n] ELSE sessions
  /\ UNCHANGED <<fds, m_uid>>

\* What get_client_id hands out for a valid id; -1: the argument is not assigned.
get_client_id(id) ==
  IF fds[id] \in DOMAIN sessions THEN sessions[fds[id]].client_id ELSE -1

\* Mutant: a session idle for exactly the time-out goes too.
ExpiredEarly(fd, t) == (t - sessions[fd].access_time) % Wrap >= Timeout

\* cur_stmp - _access_time is computed in unsigned long long.
Expired(fd, t) == (t - sessions[fd].access_time) % Wrap > Timeout

\* Mutant: only the first expired session is erased.
check_first(t) ==
  \/ /\ \A fd \in DOMAIN sessions : ~Expired(fd, t)
     /\ UNCHANGED sessionVars
  \/ \E fd \in DOMAIN sessions : Expired(fd, t) /\ erase_sessions({fd})

\* The connection of an expired session is not touched (TODO in the source).
check(t) == erase_sessions({fd \in DOMAIN sessions : Expired(fd, t)})

-------------------------------------------------------------------------------
(* Correctness of the two maps *)

SessionTypeOK == /\ m_uid \in Nat
                 /\ DOMAIN sessions \subseteq Fds
                 /\ sessions \in [DOMAIN sessions -> Session]
                 /\ DOMAIN fds \subseteq 1 .. m_uid
                 /\ fds \in [DOMAIN fds -> Fds]

\* Every live session is found under its id, and every valid id leads to the
\* session that carries it: the two maps are inverse to one another.
Mirror == /\ \A fd \in DOMAIN sessions :
                /\ sessions[fd].id \in DOMAIN fds
                /\ fds[sessions[fd].id] = fd
          /\ \A id \in DOMAIN fds :
                /\ fds[id] \in DOMAIN sessions
                /\ sessions[fds[id]].id = id

Ids == INSTANCE IdTable
         WITH table <- [id \in DOMAIN fds |->
                          [fd |-> fds[id], client_id |-> get_client_id(id)]],
              last <- m_uid

\* The two maps, the ids inside the sessions and the counter together are one
\* table of ids: an id is issued once, stands for one descriptor until it becomes
\* invalid, and get_client_id returns what was set for that id last.
TableSpec == Ids!Spec
===============================================================================
