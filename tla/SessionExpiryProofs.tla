-------------------------- MODULE SessionExpiryProofs --------------------------
(***************************************************************************)
(* Proofs about the session table in use, for any number of descriptors,   *)
(* peers and client ids, any time-out and any corrections of the clock.    *)
(***************************************************************************)
EXTENDS SessionExpiry, SessionMgtProofs

USE SessionAssumption, ExpiryAssumption

\* No client id has been set for an id that is still to be handed out.
FreshUnassigned == \A id \in 1 .. MaxUid : id > m_uid => assigned[id] = 0

\* The inductive invariant.
IInv == TypeOK /\ Mirror /\ SessionsAreOpen /\ ClientIdKept /\ FreshUnassigned

LEMMA InitIInv == Init => IInv
<1>. SUFFICES ASSUME Init PROVE IInv
  OBVIOUS
<1>1. /\ DOMAIN sessions = {} /\ DOMAIN fds = {} /\ m_uid = 0
      /\ sessions = [x \in DOMAIN sessions |-> sessions[x]]
      /\ fds = [x \in DOMAIN fds |-> fds[x]]
  BY DEF Init, SessionInit
<1>2. SessionTypeOK
  BY <1>1 DEF SessionTypeOK
<1>. QED
  BY <1>1, <1>2 DEF Init, IInv, TypeOK, Mirror, SessionsAreOpen, ClientIdKept,
                    FreshUnassigned

\* What get_client_id returns for a valid id when the maps mirror one another.
LEMMA ClientIdOfSession ==
  ASSUME Mirror
  PROVE  \A id \in DOMAIN fds : get_client_id(id) = sessions[fds[id]].client_id
  BY DEF Mirror, get_client_id

\* A step that drops sessions, as remove_session and check do.
LEMMA EraseKeepsIInv ==
  ASSUME IInv, NEW dead, dead \subseteq DOMAIN sessions, erase_sessions(dead),
         open \ dead \subseteq open', open' \subseteq open,
         elapsed' = elapsed, set_back' = set_back, armed' \in 0 .. elapsed,
         timer' = timer, UNCHANGED history
  PROVE  IInv'
<1>. USE DEF IInv
<1>1. /\ SessionTypeOK' /\ Mirror'
      /\ DOMAIN sessions' = DOMAIN sessions \ dead
      /\ \A f \in DOMAIN sessions' : sessions'[f] = sessions[f]
      /\ DOMAIN fds' \subseteq DOMAIN fds
      /\ \A i \in DOMAIN fds' : fds'[i] = fds[i]
      /\ m_uid' = m_uid
  BY EraseKeepsMirror DEF TypeOK, erase_sessions
<1>2. TypeOK'
  BY <1>1 DEF TypeOK, history
<1>3. SessionsAreOpen'
  BY <1>1 DEF SessionsAreOpen
<1>4. ClientIdKept'
  <2>. SUFFICES ASSUME NEW id \in DOMAIN fds' PROVE get_client_id(id)' = assigned'[id]
    BY DEF ClientIdKept
  <2>1. fds'[id] = fds[id] /\ fds'[id] \in DOMAIN sessions'
    BY <1>1 DEF Mirror
  <2>2. get_client_id(id)' = sessions[fds[id]].client_id
    BY <1>1, <2>1 DEF get_client_id
  <2>. QED
    BY <1>1, <2>2, ClientIdOfSession DEF ClientIdKept, history
<1>5. FreshUnassigned'
  BY <1>1 DEF FreshUnassigned, history
<1>. QED
  BY <1>1, <1>2, <1>3, <1>4, <1>5

LEMMA StepIInv == IInv /\ [Next]_vars => IInv'
<1>. SUFFICES ASSUME IInv, [Next]_vars PROVE IInv'
  OBVIOUS
<1>. USE DEF IInv
<1>0. /\ SessionTypeOK
      /\ Clock \in Int
  BY DEF TypeOK, Clock
<1>1. ASSUME NEW fd \in Fds, NEW peer \in Peers, Accept(fd, peer) PROVE IInv'
  <2>1. fd \notin DOMAIN sessions
    BY <1>1 DEF Accept, SessionsAreOpen
  <2>2. SessionTypeOK' /\ Mirror'
    BY <1>0, <1>1, <2>1, InsertKeepsMirror DEF Accept
  <2>3. /\ DOMAIN sessions' = DOMAIN sessions \cup {fd}
        /\ sessions'[fd].client_id = 0
        /\ \A f \in DOMAIN sessions : sessions'[f] = sessions[f]
        /\ DOMAIN fds' = DOMAIN fds \cup {m_uid + 1}
        /\ fds'[m_uid + 1] = fd
        /\ m_uid' = m_uid + 1
        /\ \A i \in DOMAIN fds : fds'[i] = fds[i]
    BY <1>0, <1>1, <2>1 DEF Accept, insert_session, Put, NewSession, gen_uid, SessionTypeOK
  <2>4. TypeOK'
    <3>1. m_uid' <= MaxUid
      BY <1>0, <1>1, <2>3 DEF Accept, SessionTypeOK
    <3>. QED
      BY <1>1, <2>2, <3>1 DEF Accept, TypeOK
  <2>5. SessionsAreOpen'
    BY <1>1, <2>3 DEF Accept, SessionsAreOpen
  <2>6. ClientIdKept'
    <3>. SUFFICES ASSUME NEW id \in DOMAIN fds' PROVE get_client_id(id)' = assigned'[id]
      BY DEF ClientIdKept
    <3>1. CASE id = m_uid + 1
      <4>1. id \in 1 .. MaxUid /\ id > m_uid
        BY <1>0, <1>1, <3>1 DEF Accept, SessionTypeOK
      <4>. QED
        BY <1>1, <2>3, <3>1, <4>1 DEF Accept, get_client_id, FreshUnassigned
    <3>2. CASE id # m_uid + 1
      <4>1. id \in DOMAIN fds /\ fds[id] \in DOMAIN sessions
        BY <2>3, <3>2 DEF Mirror
      <4>. QED
        BY <1>1, <2>3, <4>1 DEF Accept, get_client_id, ClientIdKept
    <3>. QED
      BY <3>1, <3>2
  <2>7. FreshUnassigned'
    BY <1>0, <1>1, <2>3 DEF Accept, FreshUnassigned, SessionTypeOK
  <2>. QED
    BY <2>2, <2>4, <2>5, <2>6, <2>7
<1>2. ASSUME NEW fd \in Fds, Close(fd) PROVE IInv'
  <2>. DEFINE dead == {fd} \cap DOMAIN sessions
  <2>1. erase_sessions(dead) /\ open \ {fd} = open'
    BY <1>2 DEF Close, remove_session
  <2>2. dead \subseteq DOMAIN sessions
    OBVIOUS
  <2>3. /\ elapsed' = elapsed /\ set_back' = set_back /\ armed' \in 0 .. elapsed
        /\ timer' = timer /\ UNCHANGED history
    BY <1>2 DEF Close, TypeOK
  <2>4. /\ SessionTypeOK' /\ Mirror'
        /\ DOMAIN sessions' = DOMAIN sessions \ dead
    BY <1>0, <2>1, <2>2, EraseKeepsMirror
  <2>5. SessionsAreOpen'
    BY <2>1, <2>4 DEF SessionsAreOpen
  <2>6. open' \subseteq open
    BY <2>1
  <2>7. CASE fd \in DOMAIN sessions
    <3>1. open \ dead \subseteq open'
      BY <2>1, <2>7
    <3>. HIDE DEF dead
    <3>. QED
      BY <2>1, <2>2, <2>3, <2>6, <3>1, EraseKeepsIInv
  <2>8. CASE fd \notin DOMAIN sessions
    <3>1. /\ sessions' = sessions /\ fds' = fds /\ m_uid' = m_uid
      <4>1. dead = {}
        BY <2>8
      <4>2. /\ sessions' = [x \in DOMAIN sessions |-> sessions[x]]
            /\ fds' = [x \in DOMAIN fds |-> fds[x]]
            /\ m_uid' = m_uid
        BY <2>1, <4>1 DEF erase_sessions, Erase, Restrict
      <4>. QED
        BY <1>0, <4>2 DEF SessionTypeOK
    <3>2. TypeOK'
      BY <2>1, <2>3, <2>4, <3>1 DEF TypeOK, history
    <3>3. ClientIdKept' /\ FreshUnassigned'
      BY <2>3, <3>1 DEF ClientIdKept, FreshUnassigned, get_client_id, history
    <3>. QED
      BY <2>4, <2>5, <3>2, <3>3
  <2>. QED
    BY <2>7, <2>8
<1>3. ASSUME NEW fd \in Fds, Access(fd) PROVE IInv'
  <2>. DEFINE s == [sessions[fd] EXCEPT !.access_time = Clock]
  <2>1. CASE MayUpdate(fd)
    <3>1. fd \in DOMAIN sessions /\ sessions[fd] \in Session
      BY <1>0, <2>1 DEF MayUpdate, SessionTypeOK
    <3>2. s \in Session /\ s.id = sessions[fd].id /\ s.client_id = sessions[fd].client_id
      BY <1>0, <3>1 DEF Session
    <3>3. sessions' = [sessions EXCEPT ![fd] = s] /\ UNCHANGED <<fds, m_uid>>
      BY <1>3, <2>1 DEF Access, update_access
    <3>. HIDE DEF s
    <3>4. SessionTypeOK' /\ Mirror' /\ DOMAIN sessions' = DOMAIN sessions
      BY <1>0, <3>1, <3>2, <3>3, UpdateKeepsMirror
    <3>5. \A f \in DOMAIN sessions : sessions'[f].client_id = sessions[f].client_id
      BY <3>2, <3>3
    <3>6. TypeOK'
      BY <1>3, <3>3, <3>4 DEF Access, TypeOK, environment
    <3>7. ClientIdKept'
      BY <1>3, <3>3, <3>4, <3>5 DEF Access, ClientIdKept, get_client_id
    <3>8. SessionsAreOpen' /\ FreshUnassigned'
      BY <1>3, <3>3, <3>4 DEF Access, SessionsAreOpen, FreshUnassigned, environment
    <3>. QED
      BY <3>4, <3>6, <3>7, <3>8
  <2>2. CASE ~MayUpdate(fd)
    BY <1>3, <2>2 DEF Access, update_access, environment, TypeOK, SessionTypeOK,
                      Mirror, SessionsAreOpen, ClientIdKept, get_client_id, FreshUnassigned
  <2>. QED
    BY <2>1, <2>2
<1>4. ASSUME NEW fd \in Fds, NEW status \in BOOLEAN, SetStatus(fd, status) PROVE IInv'
  <2>. DEFINE s == [sessions[fd] EXCEPT !.status = status]
  <2>1. CASE fd \in DOMAIN sessions
    <3>1. sessions[fd] \in Session
      BY <1>0, <2>1 DEF SessionTypeOK
    <3>2. s \in Session /\ s.id = sessions[fd].id /\ s.client_id = sessions[fd].client_id
      BY <3>1 DEF Session
    <3>3. sessions' = [sessions EXCEPT ![fd] = s] /\ UNCHANGED <<fds, m_uid>>
      BY <1>4, <2>1 DEF SetStatus, update_status
    <3>. HIDE DEF s
    <3>4. SessionTypeOK' /\ Mirror' /\ DOMAIN sessions' = DOMAIN sessions
      BY <1>0, <2>1, <3>2, <3>3, UpdateKeepsMirror
    <3>5. \A f \in DOMAIN sessions : sessions'[f].client_id = sessions[f].client_id
      BY <3>2, <3>3
    <3>6. TypeOK'
      BY <1>4, <3>3, <3>4 DEF SetStatus, TypeOK, environment, history
    <3>7. ClientIdKept'
      BY <1>4, <3>3, <3>4, <3>5 DEF SetStatus, ClientIdKept, get_client_id, history
    <3>8. SessionsAreOpen' /\ FreshUnassigned'
      BY <1>4, <3>3, <3>4 DEF SetStatus, SessionsAreOpen, FreshUnassigned, environment, history
    <3>. QED
      BY <3>4, <3>6, <3>7, <3>8
  <2>2. CASE fd \notin DOMAIN sessions
    BY <1>4, <2>2 DEF SetStatus, update_status, environment, history, TypeOK, SessionTypeOK,
                      Mirror, SessionsAreOpen, ClientIdKept, get_client_id, FreshUnassigned
  <2>. QED
    BY <2>1, <2>2
<1>5. ASSUME NEW id \in DOMAIN fds, NEW n \in ClientIds, SetClientId(id, n) PROVE IInv'
  <2>. DEFINE fd == fds[id]
              s == [sessions[fd] EXCEPT !.client_id = n]
  <2>1. fd \in DOMAIN sessions /\ sessions[fd] \in Session /\ id \in 1 .. MaxUid
    BY <1>0, SMTT(20) DEF Mirror, SessionTypeOK, TypeOK
  <2>2. s \in Session /\ s.id = sessions[fd].id /\ s.client_id = n
    BY <2>1 DEF Session
  <2>3. sessions' = [sessions EXCEPT ![fd] = s] /\ UNCHANGED <<fds, m_uid>>
    BY <1>5, <2>1 DEF SetClientId, set_client_id
  <2>. HIDE DEF s
  <2>4. SessionTypeOK' /\ Mirror' /\ DOMAIN sessions' = DOMAIN sessions
    BY <1>0, <2>1, <2>2, <2>3, UpdateKeepsMirror
  <2>5. TypeOK'
    BY <1>5, <2>1, <2>3, <2>4 DEF SetClientId, TypeOK, environment
  <2>6. ClientIdKept'
    <3>. SUFFICES ASSUME NEW i \in DOMAIN fds PROVE get_client_id(i)' = assigned'[i]
      BY <2>3 DEF ClientIdKept
    <3>1. CASE i = id
      BY <1>5, <2>1, <2>2, <2>3, <3>1 DEF SetClientId, get_client_id, TypeOK
    <3>2. CASE i # id
      <4>1. fds[i] # fd /\ fds[i] \in DOMAIN sessions
        BY <3>2 DEF Mirror
      <4>. QED
        BY <1>5, <2>3, <2>4, <3>2, <4>1 DEF SetClientId, get_client_id, ClientIdKept, TypeOK
    <3>. QED
      BY <3>1, <3>2
  <2>7. SessionsAreOpen'
    BY <1>5, <2>4 DEF SetClientId, SessionsAreOpen, environment
  <2>8. FreshUnassigned'
    <3>1. id <= m_uid /\ m_uid \in Nat
      BY <1>0 DEF SessionTypeOK
    <3>. QED
      BY <1>5, <2>1, <2>3, <3>1 DEF SetClientId, FreshUnassigned, TypeOK
  <2>. QED
    BY <2>4, <2>5, <2>6, <2>7, <2>8
<1>6. CASE TimerFires
  <2>. DEFINE dead == {fd \in DOMAIN sessions : Expired(fd, Clock)}
  <2>1. erase_sessions(dead)
    BY <1>6 DEF TimerFires, check
  <2>2. /\ elapsed' = elapsed /\ set_back' = set_back /\ armed' \in 0 .. elapsed
        /\ open' = open /\ timer' = timer /\ UNCHANGED history
    BY <1>6 DEF TimerFires, TypeOK
  <2>3. dead \subseteq DOMAIN sessions
    OBVIOUS
  <2>. HIDE DEF dead
  <2>. QED
    BY <2>1, <2>2, <2>3, EraseKeepsIInv
<1>7. CASE Tick
  <2>1. TypeOK'
    <3>1. /\ elapsed' \in 0 .. MaxTime /\ armed' \in 0 .. elapsed'
          /\ 0 .. elapsed \subseteq 0 .. elapsed'
      BY <1>7, ExpiryAssumption DEF Tick, TypeOK
    <3>2. touched' \in [Fds -> 0 .. elapsed']
      BY <1>7, <3>1 DEF Tick, history, TypeOK
    <3>. QED
      BY <1>7, <3>1, <3>2 DEF Tick, sessionVars, history, TypeOK, SessionTypeOK
  <2>. QED
    BY <1>7, <2>1 DEF Tick, sessionVars, history, Mirror, SessionsAreOpen,
                      ClientIdKept, get_client_id, FreshUnassigned
<1>8. CASE ClockSetBack
  <2>1. TypeOK'
    BY <1>8, ExpiryAssumption, SMTT(20) DEF ClockSetBack, sessionVars, history, TypeOK, SessionTypeOK
  <2>. QED
    BY <1>8, <2>1 DEF ClockSetBack, sessionVars, history, Mirror, SessionsAreOpen,
                      ClientIdKept, get_client_id, FreshUnassigned
<1>9. CASE UNCHANGED vars
  BY <1>9 DEF vars, sessionVars, environment, history, TypeOK, SessionTypeOK, Mirror,
              SessionsAreOpen, ClientIdKept, get_client_id, FreshUnassigned
<1>. QED
  BY <1>1, <1>2, <1>3, <1>4, <1>5, <1>6, <1>7, <1>8, <1>9 DEF Next

LEMMA InvariantIInv == Spec => []IInv
  BY InitIInv, StepIInv, PTL DEF Spec

\* Type correctness.
THEOREM SessionTypeCorrect == Spec => []TypeOK
  BY InvariantIInv, PTL DEF IInv

\* The two maps are inverse to one another in every reachable state, whatever
\* the order of insertions, removals, expiries and updates.
THEOREM MapsMirror == Spec => []Mirror
  BY InvariantIInv, PTL DEF IInv

\* Only an open descriptor has a session.
THEOREM SessionsOnlyForOpen == Spec => []SessionsAreOpen
  BY InvariantIInv, PTL DEF IInv

\* get_client_id returns what set_client_id said of the same id.
THEOREM ClientIdsKept == Spec => []ClientIdKept
  BY InvariantIInv, PTL DEF IInv

\* An id that has been handed out never leads to another descriptor, and never
\* becomes valid again: ids are only added above m_uid.
THEOREM IdsNeverReused == Spec => IdNeverReused
<1>1. IInv /\ [Next]_vars =>
        [\A id \in 1 .. m_uid :
            id \in DOMAIN fds' => id \in DOMAIN fds /\ fds'[id] = fds[id]]_vars
  <2>. SUFFICES ASSUME IInv, Next, NEW id \in 1 .. m_uid, id \in DOMAIN fds'
                PROVE  id \in DOMAIN fds /\ fds'[id] = fds[id]
    OBVIOUS
  <2>0. SessionTypeOK /\ Mirror
    BY DEF IInv, TypeOK
  <2>1. ASSUME NEW fd \in Fds, NEW peer \in Peers, Accept(fd, peer)
        PROVE  id \in DOMAIN fds /\ fds'[id] = fds[id]
    <3>1. m_uid \in Nat /\ id # m_uid + 1
      BY <2>0 DEF SessionTypeOK
    <3>. QED
      BY <2>1, <3>1 DEF Accept, insert_session, Put, gen_uid
  <2>2. ASSUME NEW dead, erase_sessions(dead)
        PROVE  id \in DOMAIN fds /\ fds'[id] = fds[id]
    BY <2>2 DEF erase_sessions, Erase, Restrict
  <2>3. ASSUME NEW fd \in Fds, Close(fd)
        PROVE  id \in DOMAIN fds /\ fds'[id] = fds[id]
    BY <2>2, <2>3 DEF Close, remove_session
  <2>4. ASSUME UNCHANGED fds PROVE id \in DOMAIN fds /\ fds'[id] = fds[id]
    BY <2>4
  <2>5. CASE TimerFires
    BY <2>2, <2>5 DEF TimerFires, check
  <2>. QED
    BY <2>1, <2>3, <2>4, <2>5
       DEF Next, Access, update_access, SetStatus, update_status, SetClientId,
           set_client_id, Tick, ClockSetBack, sessionVars
<1>. QED
  BY <1>1, InvariantIInv, PTL DEF Spec, IdNeverReused

-------------------------------------------------------------------------------
(* Expiry, as long as the wall clock has not been set back *)

\* Access times are true elapsed times, and a session that survived the last
\* check had been touched at most one time-out before it.
TimesTrue == /\ timer => elapsed - armed <= Timeout + Slack
             /\ \A fd \in DOMAIN sessions :
                   /\ sessions[fd].access_time = Epoch + touched[fd]
                   /\ armed - touched[fd] <= Timeout

TimeInv == SteadyClock => TimesTrue

LEMMA StepTimeInv == IInv /\ TimeInv /\ [Next]_vars => TimeInv'
<1>. SUFFICES ASSUME IInv, TimeInv, [Next]_vars, set_back' = 0 PROVE TimesTrue'
  BY DEF TimeInv, SteadyClock
<1>s. set_back = 0 /\ TimesTrue
  <2>1. set_back \in Nat
    BY DEF IInv, TypeOK
  <2>2. set_back' = set_back \/ set_back' = set_back + 1
    BY DEF Next, Accept, Close, Access, SetStatus, SetClientId, TimerFires, Tick,
           ClockSetBack, vars, environment
  <2>3. set_back = 0
    BY <2>1, <2>2
  <2>. QED
    BY <2>3 DEF TimeInv, SteadyClock
<1>0. /\ elapsed \in Nat /\ armed \in 0 .. elapsed /\ elapsed <= MaxTime
      /\ touched \in [Fds -> 0 .. elapsed]
      /\ DOMAIN sessions \subseteq Fds
      /\ set_back = 0 /\ Clock = Epoch + elapsed
  BY <1>s DEF IInv, TypeOK, SessionTypeOK, Clock
<1>1. ASSUME NEW fd \in Fds, NEW peer \in Peers, Accept(fd, peer) PROVE TimesTrue'
  <2>1. /\ DOMAIN sessions' = DOMAIN sessions \cup {fd}
        /\ sessions'[fd].access_time = Epoch + elapsed
        /\ \A f \in DOMAIN sessions : f # fd => sessions'[f] = sessions[f]
    BY <1>0, <1>1 DEF Accept, insert_session, Put, NewSession
  <2>2. touched'[fd] = elapsed /\ \A f \in Fds : f # fd => touched'[f] = touched[f]
    BY <1>0, <1>1 DEF Accept
  <2>3. /\ elapsed' = elapsed /\ set_back' = 0 /\ armed' = armed /\ timer' = timer
    BY <1>0, <1>1 DEF Accept
  <2>4. ASSUME NEW f \in DOMAIN sessions'
        PROVE  sessions'[f].access_time = Epoch + touched'[f] /\ armed' - touched'[f] <= Timeout
    <3>1. CASE f = fd
      BY <1>0, <2>1, <2>2, <2>3, <3>1
    <3>2. CASE f # fd
      <4>1. f \in DOMAIN sessions /\ f \in Fds
        BY <1>0, <2>1, <3>2
      <4>. QED
        BY <1>s, <2>1, <2>2, <2>3, <3>2, <4>1 DEF TimesTrue
    <3>. QED
      BY <3>1, <3>2
  <2>. QED
    BY <1>s, <2>3, <2>4 DEF TimesTrue
<1>2. ASSUME NEW fd \in Fds, Close(fd) PROVE TimesTrue'
  BY <1>s, <1>2 DEF Close, remove_session, erase_sessions, Erase, Restrict, TimesTrue, history
<1>3. ASSUME NEW fd \in Fds, Access(fd) PROVE TimesTrue'
  <2>1. CASE MayUpdate(fd)
    <3>1. fd \in DOMAIN sessions /\ sessions[fd] \in Session
      BY <2>1 DEF MayUpdate, IInv, TypeOK, SessionTypeOK
    <3>2. /\ DOMAIN sessions' = DOMAIN sessions
          /\ sessions'[fd].access_time = Epoch + elapsed
          /\ \A f \in DOMAIN sessions : f # fd => sessions'[f] = sessions[f]
      BY <1>0, <1>3, <2>1, <3>1 DEF Access, update_access, Session
    <3>3. touched'[fd] = elapsed /\ \A f \in Fds : f # fd => touched'[f] = touched[f]
      BY <1>0, <1>3, <2>1 DEF Access
    <3>4. elapsed' = elapsed /\ set_back' = 0 /\ armed' = armed /\ timer' = timer
      BY <1>0, <1>3 DEF Access, environment
    <3>5. ASSUME NEW f \in DOMAIN sessions'
          PROVE  sessions'[f].access_time = Epoch + touched'[f] /\ armed' - touched'[f] <= Timeout
      <4>1. CASE f = fd
        BY <1>0, <3>2, <3>3, <3>4, <4>1
      <4>2. CASE f # fd
        <5>1. f \in Fds
          BY <1>0, <3>2
        <5>. QED
          BY <1>s, <3>2, <3>3, <3>4, <4>2, <5>1 DEF TimesTrue
      <4>. QED
        BY <4>1, <4>2
    <3>. QED
      BY <1>s, <3>4, <3>5 DEF TimesTrue
  <2>2. CASE ~MayUpdate(fd)
    BY <1>s, <1>3, <2>2 DEF Access, update_access, environment, TimesTrue
  <2>. QED
    BY <2>1, <2>2
<1>4. ASSUME NEW fd \in Fds, NEW status \in BOOLEAN, SetStatus(fd, status) PROVE TimesTrue'
  <2>1. DOMAIN sessions' = DOMAIN sessions
    BY <1>4 DEF SetStatus, update_status
  <2>2. \A f \in DOMAIN sessions : sessions'[f].access_time = sessions[f].access_time
    BY <1>4 DEF SetStatus, update_status, IInv, TypeOK, SessionTypeOK, Session
  <2>. QED
    BY <1>s, <1>4, <2>1, <2>2 DEF SetStatus, TimesTrue, environment, history
<1>5. ASSUME NEW id \in DOMAIN fds, NEW n \in ClientIds, SetClientId(id, n) PROVE TimesTrue'
  <2>1. DOMAIN sessions' = DOMAIN sessions
    BY <1>5 DEF SetClientId, set_client_id
  <2>2. \A f \in DOMAIN sessions : sessions'[f].access_time = sessions[f].access_time
    BY <1>5 DEF SetClientId, set_client_id, IInv, TypeOK, SessionTypeOK, Session
  <2>. QED
    BY <1>s, <1>5, <2>1, <2>2 DEF SetClientId, TimesTrue, environment
<1>6. CASE TimerFires
  <2>1. /\ elapsed' = elapsed /\ set_back' = 0 /\ armed' = elapsed /\ touched' = touched
        /\ timer' = timer
    BY <1>0, <1>6 DEF TimerFires, history
  <2>2. ASSUME NEW f \in DOMAIN sessions'
        PROVE  /\ f \in DOMAIN sessions /\ sessions'[f] = sessions[f]
               /\ ~Expired(f, Clock)
    BY <1>6 DEF TimerFires, check, erase_sessions, Erase, Restrict
  <2>3. ASSUME NEW f \in DOMAIN sessions' PROVE elapsed - touched[f] <= Timeout
    <3>1. touched[f] \in 0 .. elapsed
      BY <1>0, <2>2
    <3>2. Clock - sessions[f].access_time = elapsed - touched[f]
      <4>1. sessions[f].access_time = Epoch + touched[f]
        BY <1>s, <2>2 DEF TimesTrue
      <4>. QED
        BY <1>0, <3>1, <4>1
    <3>3. elapsed - touched[f] \in 0 .. (Wrap - 1)
      BY <1>0, <3>1
    <3>4. (elapsed - touched[f]) % Wrap = elapsed - touched[f]
      BY <3>3
    <3>. QED
      BY <2>2, <3>2, <3>3, <3>4 DEF Expired
  <2>. QED
    BY <1>s, <1>0, <2>1, <2>2, <2>3 DEF TimesTrue
<1>7. CASE Tick
  BY <1>s, <1>0, <1>7 DEF Tick, sessionVars, history, TimesTrue
<1>8. CASE ClockSetBack
  BY <1>0, <1>8 DEF ClockSetBack
<1>9. CASE UNCHANGED vars
  BY <1>s, <1>9 DEF vars, sessionVars, environment, history, TimesTrue
<1>. QED
  BY <1>1, <1>2, <1>3, <1>4, <1>5, <1>6, <1>7, <1>8, <1>9 DEF Next

LEMMA InvariantTimeInv == Spec => [](IInv /\ TimeInv)
<1>1. Init => TimeInv
  BY DEF Init, SessionInit, TimeInv, TimesTrue
<1>2. IInv /\ TimeInv /\ [Next]_vars => TimeInv'
  BY StepTimeInv
<1>. QED
  BY <1>1, <1>2, InvariantIInv, PTL DEF Spec

\* If the timer runs, and while the wall clock has not been set back, an idle session
\* is gone after two time-outs and the timer's delay.
THEOREM IdleExpire == Spec => []IdleSessionsExpire
<1>1. IInv /\ TimeInv => IdleSessionsExpire
  <2>. SUFFICES ASSUME IInv, TimesTrue, timer, NEW fd \in DOMAIN sessions
                PROVE  Idle(fd) <= 2 * Timeout + Slack
    BY DEF IdleSessionsExpire, TimeInv
  <2>1. elapsed \in Nat /\ armed \in Nat /\ touched[fd] \in 0 .. elapsed
    BY DEF IInv, TypeOK, SessionTypeOK
  <2>2. elapsed - armed <= Timeout + Slack /\ armed - touched[fd] <= Timeout
    BY DEF TimesTrue
  <2>. QED
    BY <2>1, <2>2 DEF Idle
<1>. QED
  BY <1>1, InvariantTimeInv, PTL

\* While the wall clock has not been set back, check() spares every session with
\* data recorded in the last time-out.
THEOREM ActiveStay == Spec => ActiveSessionsStay
<1>1. IInv /\ TimeInv /\ [Next]_vars => [SteadyClock => DroppedInUse = {}]_vars
  <2>. SUFFICES ASSUME IInv, TimesTrue, SteadyClock, Next,
                       NEW fd \in DOMAIN sessions, fd \in open', Idle(fd) <= Timeout
                PROVE  fd \in DOMAIN sessions'
    BY DEF TimeInv, DroppedInUse
  <2>1. ASSUME NEW f \in Fds, NEW peer \in Peers, Accept(f, peer)
        PROVE  fd \in DOMAIN sessions'
    BY <2>1 DEF Accept, insert_session, Put
  <2>2. ASSUME NEW f \in Fds, Close(f) PROVE fd \in DOMAIN sessions'
    BY <2>2 DEF Close, remove_session, erase_sessions, Erase, Restrict
  <2>3. ASSUME NEW f \in Fds, Access(f) \/ \E status \in BOOLEAN : SetStatus(f, status)
        PROVE  fd \in DOMAIN sessions'
    BY <2>3 DEF Access, update_access, SetStatus, update_status
  <2>4. ASSUME NEW id \in DOMAIN fds, NEW n \in ClientIds, SetClientId(id, n)
        PROVE  fd \in DOMAIN sessions'
    BY <2>4 DEF SetClientId, set_client_id
  <2>5. CASE TimerFires
    <3>1. /\ elapsed \in Nat /\ elapsed <= MaxTime /\ set_back = 0
          /\ touched[fd] \in 0 .. elapsed
      BY DEF IInv, TypeOK, SessionTypeOK, SteadyClock
    <3>2. Clock - sessions[fd].access_time = elapsed - touched[fd]
      BY <3>1 DEF TimesTrue, Clock
    <3>3. elapsed - touched[fd] \in 0 .. (Wrap - 1)
      BY <3>1
    <3>4. (elapsed - touched[fd]) % Wrap = elapsed - touched[fd]
      BY <3>3
    <3>5. ~Expired(fd, Clock)
      BY <3>1, <3>2, <3>3, <3>4 DEF Expired, Idle
    <3>. QED
      BY <2>5, <3>5 DEF TimerFires, check, erase_sessions, Erase, Restrict
  <2>6. CASE Tick \/ ClockSetBack
    BY <2>6 DEF Tick, ClockSetBack, sessionVars
  <2>. QED
    BY <2>1, <2>2, <2>3, <2>4, <2>5, <2>6 DEF Next
<1>. QED
  BY <1>1, InvariantTimeInv, PTL DEF Spec, ActiveSessionsStay

-------------------------------------------------------------------------------
(* The table of ids *)

\* The session table in use (SessionMgt.cpp:43-293) implements the table of ids:
\* every step issues an id, sets a client id, retires ids or changes nothing that
\* the holder of an id can see.
THEOREM ImplementsTable == Spec => TableSpec
<1>1. Init => Ids!Init
  BY DEF Init, SessionInit, Ids!Init
<1>2. IInv /\ [Next]_vars => [Ids!Next]_Ids!vars
  <2>. SUFFICES ASSUME IInv, [Next]_vars PROVE [Ids!Next]_Ids!vars
    OBVIOUS
  <2>0. SessionTypeOK /\ Mirror /\ SessionsAreOpen
    BY DEF IInv, TypeOK
  <2>1. ASSUME NEW fd \in Fds, NEW peer \in Peers, Accept(fd, peer) PROVE Ids!Next
    <3>1. fd \notin DOMAIN sessions /\ insert_session(fd, peer, Clock)
      BY <2>0, <2>1 DEF Accept, SessionsAreOpen
    <3>2. Ids!Issue(fd)
      BY <2>0, <3>1, InsertIssues
    <3>. QED
      BY <3>2 DEF Ids!Next
  <2>2. ASSUME NEW dead, dead \subseteq DOMAIN sessions, erase_sessions(dead) PROVE Ids!Next
    BY <2>0, <2>2, EraseRetires DEF Ids!Next
  <2>3. ASSUME NEW fd \in Fds, Close(fd) PROVE Ids!Next
    <3>1. erase_sessions({fd} \cap DOMAIN sessions)
      BY <2>3 DEF Close, remove_session
    <3>. QED
      BY <2>2, <3>1
  <2>4. ASSUME NEW fd \in Fds,
               Access(fd) \/ \E status \in BOOLEAN : SetStatus(fd, status)
        PROVE  UNCHANGED Ids!vars
    <3>1. UNCHANGED <<fds, m_uid>> /\ DOMAIN sessions' = DOMAIN sessions
      BY <2>4 DEF Access, update_access, SetStatus, update_status
    <3>2. \A f \in DOMAIN sessions : sessions'[f].client_id = sessions[f].client_id
      BY <2>0, <2>4 DEF Access, update_access, SetStatus, update_status, SessionTypeOK, Session
    <3>. QED
      BY <2>0, <3>1, <3>2, TouchStutters
  <2>5. ASSUME NEW id \in DOMAIN fds, NEW n \in ClientIds, SetClientId(id, n) PROVE Ids!Next
    <3>1. Ids!Assign(id, n)
      BY <2>0, <2>5, SetAssigns DEF SetClientId
    <3>. QED
      BY <3>1 DEF Ids!Next
  <2>6. CASE TimerFires
    <3>1. PICK dead \in SUBSET DOMAIN sessions : erase_sessions(dead)
      BY <2>6 DEF TimerFires, check
    <3>. QED
      BY <2>2, <3>1
  <2>7. CASE Tick \/ ClockSetBack \/ UNCHANGED vars
    <3>1. UNCHANGED sessionVars
      BY <2>7 DEF Tick, ClockSetBack, vars
    <3>. QED
      BY <2>0, <3>1, TouchStutters DEF sessionVars
  <2>. QED
    BY <2>1, <2>3, <2>4, <2>5, <2>6, <2>7 DEF Next
<1>. QED
  BY <1>1, <1>2, InvariantIInv, PTL DEF Spec, TableSpec, Ids!Spec
===============================================================================
