--------------------------- MODULE SessionMgtProofs ---------------------------
(***************************************************************************)
(* What each operation of the session table preserves, for any tables.     *)
(***************************************************************************)
EXTENDS SessionMgt, TLAPS

\* Inserting a session for a descriptor that has none keeps the maps mirrored:
\* the new id is above every id in use.
LEMMA InsertKeepsMirror ==
  ASSUME SessionTypeOK, Mirror, NEW fd \in Fds, NEW peer \in Peers, NEW t \in Int,
         fd \notin DOMAIN sessions, insert_session(fd, peer, t)
  PROVE  SessionTypeOK' /\ Mirror'
<1>. DEFINE new == NewSession(peer, t)
            id == gen_uid
<1>1. id \in Nat /\ id = m_uid + 1 /\ m_uid' = id /\ id \notin DOMAIN fds
  BY DEF insert_session, gen_uid, SessionTypeOK
<1>2. new \in Session /\ new.id = id
  BY <1>1 DEF NewSession, Session
<1>3. /\ DOMAIN sessions' = DOMAIN sessions \cup {fd}
      /\ sessions'[fd] = new
      /\ \A x \in DOMAIN sessions : x # fd => sessions'[x] = sessions[x]
  BY DEF insert_session, Put
<1>4. /\ DOMAIN fds' = DOMAIN fds \cup {id}
      /\ fds'[id] = fd
      /\ \A x \in DOMAIN fds : x # id => fds'[x] = fds[x]
  BY DEF insert_session, Put
<1>5. sessions' = [x \in DOMAIN sessions' |-> sessions'[x]]
  BY DEF insert_session, Put
<1>6. fds' = [x \in DOMAIN fds' |-> fds'[x]]
  BY DEF insert_session, Put
<1>. HIDE DEF new, id
<1>7. SessionTypeOK'
  <2>1. \A x \in DOMAIN sessions' : sessions'[x] \in Session
    BY <1>2, <1>3 DEF SessionTypeOK
  <2>2. \A x \in DOMAIN fds' : fds'[x] \in Fds
    BY <1>4 DEF SessionTypeOK
  <2>3. DOMAIN fds' \subseteq 1 .. m_uid'
    BY <1>1, <1>4 DEF SessionTypeOK
  <2>4. DOMAIN sessions' \subseteq Fds
    BY <1>3 DEF SessionTypeOK
  <2>. QED
    BY <1>1, <1>5, <1>6, <2>1, <2>2, <2>3, <2>4 DEF SessionTypeOK
<1>8. ASSUME NEW f \in DOMAIN sessions'
      PROVE  sessions'[f].id \in DOMAIN fds' /\ fds'[sessions'[f].id] = f
  <2>1. CASE f = fd
    BY <1>2, <1>3, <1>4, <2>1
  <2>2. CASE f # fd
    <3>1. f \in DOMAIN sessions /\ sessions'[f] = sessions[f]
      BY <1>3, <2>2
    <3>2. sessions[f].id \in DOMAIN fds /\ fds[sessions[f].id] = f
      BY <3>1 DEF Mirror
    <3>. QED
      BY <1>1, <1>4, <3>1, <3>2
  <2>. QED
    BY <2>1, <2>2
<1>9. ASSUME NEW i \in DOMAIN fds'
      PROVE  fds'[i] \in DOMAIN sessions' /\ sessions'[fds'[i]].id = i
  <2>1. CASE i = id
    BY <1>2, <1>3, <1>4, <2>1
  <2>2. CASE i # id
    <3>1. i \in DOMAIN fds /\ fds'[i] = fds[i]
      BY <1>4, <2>2
    <3>2. fds[i] \in DOMAIN sessions /\ sessions[fds[i]].id = i
      BY <3>1 DEF Mirror
    <3>. QED
      BY <1>3, <3>1, <3>2
  <2>. QED
    BY <2>1, <2>2
<1>. QED
  BY <1>7, <1>8, <1>9 DEF Mirror

\* Erasing sessions together with their ids keeps the maps mirrored; the other
\* sessions and ids stay as they are.
LEMMA EraseKeepsMirror ==
  ASSUME SessionTypeOK, Mirror, NEW dead, dead \subseteq DOMAIN sessions,
         erase_sessions(dead)
  PROVE  /\ SessionTypeOK' /\ Mirror'
         /\ DOMAIN sessions' = DOMAIN sessions \ dead
         /\ \A f \in DOMAIN sessions' : sessions'[f] = sessions[f]
         /\ DOMAIN fds' \subseteq DOMAIN fds
         /\ \A i \in DOMAIN fds' : fds'[i] = fds[i]
<1>. DEFINE ids == {sessions[fd].id : fd \in dead}
<1>1. /\ DOMAIN sessions' = DOMAIN sessions \ dead
      /\ \A x \in DOMAIN sessions' : sessions'[x] = sessions[x]
      /\ sessions' = [x \in DOMAIN sessions' |-> sessions'[x]]
  BY DEF erase_sessions, Erase, Restrict
<1>2. /\ DOMAIN fds' = DOMAIN fds \ ids
      /\ \A x \in DOMAIN fds' : fds'[x] = fds[x]
      /\ fds' = [x \in DOMAIN fds' |-> fds'[x]]
  BY DEF erase_sessions, Erase, Restrict
<1>3. m_uid' = m_uid
  BY DEF erase_sessions
<1>4. SessionTypeOK'
  <2>1. \A x \in DOMAIN sessions' : sessions'[x] \in Session
    BY <1>1 DEF SessionTypeOK
  <2>2. \A x \in DOMAIN fds' : fds'[x] \in Fds
    BY <1>2 DEF SessionTypeOK
  <2>. QED
    BY <1>1, <1>2, <1>3, <2>1, <2>2 DEF SessionTypeOK
<1>5. ASSUME NEW f \in DOMAIN sessions'
      PROVE  sessions'[f].id \in DOMAIN fds' /\ fds'[sessions'[f].id] = f
  <2>1. sessions[f].id \in DOMAIN fds /\ fds[sessions[f].id] = f
    BY <1>1 DEF Mirror
  <2>2. sessions[f].id \notin ids
    <3>1. ASSUME NEW g \in dead, sessions[g].id = sessions[f].id PROVE FALSE
      BY <1>1, <2>1, <3>1 DEF Mirror
    <3>. QED
      BY <3>1
  <2>. QED
    BY <1>1, <1>2, <2>1, <2>2
<1>6. ASSUME NEW i \in DOMAIN fds'
      PROVE  fds'[i] \in DOMAIN sessions' /\ sessions'[fds'[i]].id = i
  <2>1. fds'[i] = fds[i] /\ fds[i] \in DOMAIN sessions /\ sessions[fds[i]].id = i
    BY <1>2 DEF Mirror
  <2>2. fds[i] \notin dead
    BY <1>2, <2>1
  <2>. QED
    BY <1>1, <2>1, <2>2
<1>. QED
  BY <1>1, <1>2, <1>4, <1>5, <1>6 DEF Mirror

\* Changing a field other than the id keeps the maps mirrored.
LEMMA UpdateKeepsMirror ==
  ASSUME SessionTypeOK, Mirror, UNCHANGED <<fds, m_uid>>,
         NEW fd, NEW s \in Session,
         fd \in DOMAIN sessions => s.id = sessions[fd].id,
         sessions' = IF fd \in DOMAIN sessions
                     THEN [sessions EXCEPT ![fd] = s] ELSE sessions
  PROVE  SessionTypeOK' /\ Mirror' /\ DOMAIN sessions' = DOMAIN sessions
<1>1. DOMAIN sessions' = DOMAIN sessions
  OBVIOUS
<1>2. \A f \in DOMAIN sessions : sessions'[f].id = sessions[f].id
  OBVIOUS
<1>3. SessionTypeOK'
  BY DEF SessionTypeOK
<1>4. Mirror'
  BY <1>1, <1>2 DEF Mirror
<1>. QED
  BY <1>1, <1>3, <1>4

-------------------------------------------------------------------------------
(* Each operation as a step of the table of ids *)

\* Inserting a session issues an id.
LEMMA InsertIssues ==
  ASSUME SessionTypeOK, Mirror, NEW fd \in Fds, NEW peer, NEW t,
         fd \notin DOMAIN sessions, insert_session(fd, peer, t)
  PROVE  Ids!Issue(fd)
<1>1. m_uid' = m_uid + 1 /\ m_uid + 1 \notin DOMAIN fds
  BY DEF insert_session, gen_uid, SessionTypeOK
<1>2. /\ DOMAIN fds' = DOMAIN fds \cup {m_uid + 1}
      /\ fds'[m_uid + 1] = fd
      /\ \A id \in DOMAIN fds : fds'[id] = fds[id]
  BY <1>1 DEF insert_session, Put, gen_uid
<1>3. /\ DOMAIN sessions' = DOMAIN sessions \cup {fd}
      /\ sessions'[fd].client_id = 0
      /\ \A f \in DOMAIN sessions : sessions'[f] = sessions[f]
  BY DEF insert_session, Put, NewSession
<1>4. \A id \in DOMAIN fds : fds[id] \in DOMAIN sessions /\ fds[id] # fd
  BY DEF Mirror
<1>5. \A id \in DOMAIN fds : get_client_id(id)' = get_client_id(id)
  BY <1>2, <1>3, <1>4 DEF get_client_id
<1>6. \A id : id = m_uid + 1 => get_client_id(id)' = 0
  BY <1>2, <1>3 DEF get_client_id
<1>. QED
  BY <1>1, <1>2, <1>4, <1>5, <1>6 DEF Ids!Issue, Ids!Entry

\* Erasing sessions retires their ids and leaves the other entries alone.
LEMMA EraseRetires ==
  ASSUME SessionTypeOK, Mirror, NEW dead, dead \subseteq DOMAIN sessions,
         erase_sessions(dead)
  PROVE  \E ids \in SUBSET DOMAIN fds : Ids!Retire(ids)
<1>1. /\ DOMAIN sessions' = DOMAIN sessions \ dead
      /\ \A f \in DOMAIN sessions' : sessions'[f] = sessions[f]
      /\ DOMAIN fds' \subseteq DOMAIN fds
      /\ \A id \in DOMAIN fds' : fds'[id] = fds[id]
      /\ Mirror'
  BY EraseKeepsMirror
<1>2. m_uid' = m_uid
  BY DEF erase_sessions
<1>3. \A id \in DOMAIN fds' : get_client_id(id)' = get_client_id(id)
  <2>. SUFFICES ASSUME NEW id \in DOMAIN fds' PROVE get_client_id(id)' = get_client_id(id)
    OBVIOUS
  <2>1. fds'[id] = fds[id] /\ fds'[id] \in DOMAIN sessions'
    BY <1>1 DEF Mirror
  <2>. QED
    BY <1>1, <2>1 DEF get_client_id
<1>4. PICK ids \in SUBSET DOMAIN fds : DOMAIN fds' = DOMAIN fds \ ids
  <2>1. DOMAIN fds' = DOMAIN fds \ (DOMAIN fds \ DOMAIN fds')
    BY <1>1
  <2>. QED
    BY <2>1
<1>5. Ids!Retire(ids)
  BY <1>1, <1>2, <1>3, <1>4 DEF Ids!Retire
<1>. QED
  BY <1>5

\* Setting a client id is an assignment to the entry.
LEMMA SetAssigns ==
  ASSUME SessionTypeOK, Mirror, NEW id \in DOMAIN fds, NEW n, set_client_id(id, n)
  PROVE  Ids!Assign(id, n)
<1>1. fds[id] \in DOMAIN sessions /\ sessions[fds[id]] \in Session
  BY DEF Mirror, SessionTypeOK
<1>2. /\ DOMAIN sessions' = DOMAIN sessions
      /\ sessions'[fds[id]].client_id = n
      /\ \A f \in DOMAIN sessions : f # fds[id] => sessions'[f] = sessions[f]
      /\ fds' = fds /\ m_uid' = m_uid
  BY <1>1 DEF set_client_id, Session
<1>3. \A i \in DOMAIN fds : i # id => fds[i] # fds[id] /\ fds[i] \in DOMAIN sessions
  BY DEF Mirror
<1>4. \A i \in DOMAIN fds : get_client_id(i)' = IF i = id THEN n ELSE get_client_id(i)
  BY <1>1, <1>2, <1>3 DEF get_client_id
<1>. QED
  BY <1>2, <1>4 DEF Ids!Assign, Ids!Entry

\* A step that changes neither ids nor client ids is a stutter of the table.
LEMMA TouchStutters ==
  ASSUME Mirror, UNCHANGED <<fds, m_uid>>, DOMAIN sessions' = DOMAIN sessions,
         \A f \in DOMAIN sessions : sessions'[f].client_id = sessions[f].client_id
  PROVE  UNCHANGED Ids!vars
<1>1. \A id \in DOMAIN fds : get_client_id(id)' = get_client_id(id)
  BY DEF Mirror, get_client_id
<1>. QED
  BY <1>1 DEF Ids!vars
===============================================================================
