------------------------------- MODULE ConnPool -------------------------------
(***************************************************************************)
(* The pool of connections of ConnMgtLB: refresh brings it in line with a  *)
(* list of servers, a timer reconnects what is closed, and get_conn hands  *)
(* out the open connections in turn.                                       *)
(*                                                                         *)
(* Every method holds the pool's mutex from its first to its last line,    *)
(* but for init: it writes _index before the refresh it calls takes the    *)
(* mutex, so that write falls into whatever the holder is doing.  The      *)
(* connections have no part in the mutex: their users close them at any    *)
(* time, and a server comes and goes while the pool is connecting.  A      *)
(* method that connects, or looks at one connection after the other, is    *)
(* therefore a sequence of steps of the thread that holds the mutex.       *)
(*                                                                         *)
(* One thread calls init, and calls it again only if the timer failed.     *)
(***************************************************************************)
EXTENDS Integers, Sequences, FiniteSets, SequencesExt

CONSTANTS Servers,   \* a server is an address and a port
          MaxList    \* bound: length of the list given to refresh

ASSUME PoolAssumption == IsFiniteSet(Servers) /\ MaxList \in Nat

VARIABLES up,        \* the servers that accept a connection now
          conns,     \* _conns, a connection named by its server
          open,      \* the connections that are not closed, is_close() being false
          live,      \* those of them that have their server at the other end
          index,     \* _index
          timer,     \* whether the timer that calls check_conn runs
          starting,  \* whether init has reset _index and not yet got the mutex
          busy,      \* which method holds the mutex
          rest,      \* the part of its list or of _conns that it has yet to treat
          tag,       \* get_conn: the index it started from
          conn,      \* get_conn: the place in _conns it looks at, counted from 1
          wanted,    \* svrs of the refresh, of the last one when there is none
          steady,    \* history: the connections open since get_conn began
          moved,     \* history: whether init has reset _index since then
          passedBy   \* history: how often others were got while this was open

world == <<up, open, live>>
pool == <<conns, index, timer, starting>>
method == <<busy, rest, tag, conn>>
past == <<wanted, steady, moved, passedBy>>
poolVars == <<world, pool, method, past>>

Methods == {"init", "refresh", "check", "get"}

\* The constructor leaves _index alone; init sets it.
PoolInit == /\ up \in SUBSET Servers
            /\ conns = <<>> /\ open = {} /\ live = {}
            /\ index \in 0 .. Cardinality(Servers)
            /\ timer = FALSE /\ starting = FALSE
            /\ busy = "no" /\ rest = <<>> /\ tag = 0 /\ conn = 0
            /\ wanted = {} /\ steady = {} /\ moved = FALSE
            /\ passedBy = [s \in Servers |-> 0]

\* connect() of a connection: one that is open already refuses, whether its
\* server is still there or not; else it depends on the server.
Connect(s) == LET done == s \notin open /\ s \in up
              IN  /\ open' = IF done THEN open \cup {s} ELSE open
                  /\ live' = IF done THEN live \cup {s} ELSE live

-------------------------------------------------------------------------------
(* init and refresh *)

Listed(svrs, s) == s \in ToSet(svrs)

RefreshBegins(m, svrs) ==
  /\ busy = "no"
  /\ busy' = m
  /\ rest' = svrs
  /\ wanted' = ToSet(svrs)
  /\ passedBy' = [s \in Servers |-> 0]
  /\ UNCHANGED <<world, conns, index, timer, tag, conn, steady, moved>>

refresh(svrs) == RefreshBegins("refresh", svrs) /\ UNCHANGED starting

\* The first line of init, without the mutex.  When get_conn has read its
\* connection, the write may fall before, into or after its ++_index.
ResetIndex == /\ ~timer /\ ~starting /\ busy # "init"
              /\ starting' = TRUE
              /\ index' \in IF conn = 0 THEN {0} ELSE {0, 1, index}
              /\ moved' = (busy = "get")
              /\ UNCHANGED <<world, conns, timer, method, wanted, steady, passedBy>>

\* The rest of init, from the refresh on.
init(svrs) == RefreshBegins("init", svrs) /\ starting /\ starting' = FALSE

Refreshing == busy \in {"init", "refresh"}

\* The first loop of refresh: what is not listed is closed and erased.
ReleaseConn(i) == /\ Refreshing
                  /\ conns[i] \notin wanted
                  /\ \A j \in 1 .. i - 1 : conns[j] \in wanted
                  /\ open' = open \ {conns[i]}
                  /\ live' = live \ {conns[i]}
                  /\ conns' = RemoveAt(conns, i)
                  /\ UNCHANGED <<up, index, timer, starting, method, past>>

AllReleased == Refreshing /\ ToSet(conns) \subseteq wanted

\* Mutant: the list is taken to name every server once, and new ones only.
AddConnBlind == /\ AllReleased
                /\ rest # <<>>
                /\ Connect(Head(rest))
                /\ conns' = Append(conns, Head(rest))
                /\ rest' = Tail(rest)
                /\ UNCHANGED <<up, index, timer, starting, busy, tag, conn, past>>

\* The second loop: a server that has no connection gets one, open or not.
AddConn == /\ AllReleased
           /\ rest # <<>>
           /\ ~Listed(conns, Head(rest))
           /\ Connect(Head(rest))
           /\ conns' = Append(conns, Head(rest))
           /\ rest' = Tail(rest)
           /\ UNCHANGED <<up, index, timer, starting, busy, tag, conn, past>>

HasConn == /\ AllReleased
           /\ rest # <<>>
           /\ Listed(conns, Head(rest))
           /\ rest' = Tail(rest)
           /\ UNCHANGED <<world, pool, busy, tag, conn, past>>

\* After the refresh, init starts the timer, which may fail.
RefreshEnds == /\ AllReleased
               /\ rest = <<>>
               /\ busy' = "no"
               /\ \/ busy = "refresh" /\ timer' = timer
                  \/ busy = "init" /\ timer' \in BOOLEAN
               /\ UNCHANGED <<world, conns, index, starting, rest, tag, conn, past>>

-------------------------------------------------------------------------------
(* check_conn, in the timer's thread *)

CheckBegins == /\ timer
               /\ busy = "no"
               /\ busy' = "check"
               /\ rest' = conns
               /\ UNCHANGED <<world, pool, tag, conn, past>>

\* Mutant: the iteration ends with its first connection.
CheckNextOnly == /\ busy = "check"
                 /\ rest # <<>>
                 /\ Connect(Head(rest))
                 /\ rest' = <<>>
                 /\ UNCHANGED <<up, pool, busy, tag, conn, past>>

CheckNext == /\ busy = "check"
             /\ rest # <<>>
             /\ Connect(Head(rest))
             /\ rest' = Tail(rest)
             /\ UNCHANGED <<up, pool, busy, tag, conn, past>>

CheckEnds == /\ busy = "check"
             /\ rest = <<>>
             /\ busy' = "no"
             /\ UNCHANGED <<world, pool, rest, tag, conn, past>>

-------------------------------------------------------------------------------
(* get_conn *)

Wrapped(i) == IF i >= Len(conns) THEN 0 ELSE i

\* An empty pool has nothing to get: no change.
GetBegins == /\ busy = "no"
             /\ conns # <<>>
             /\ busy' = "get"
             /\ index' = Wrapped(index)
             /\ tag' = Wrapped(index)
             /\ steady' = open
             /\ UNCHANGED <<world, conns, timer, starting, rest, conn, wanted, moved, passedBy>>

GetLooks == /\ busy = "get" /\ conn = 0
            /\ conn' = index + 1
            /\ index' = index + 1
            /\ UNCHANGED <<world, conns, timer, starting, busy, rest, tag, past>>

GetEnds == busy' = "no" /\ tag' = 0 /\ conn' = 0 /\ steady' = {} /\ moved' = FALSE

PassBy == passedBy' = [s \in Servers |->
            IF s \in open \ {conns[conn]} /\ Listed(conns, s) THEN passedBy[s] + 1 ELSE 0]

\* Mutant: the index goes back to the connection that was taken.
GetTakesStays == /\ busy = "get" /\ conn # 0
                 /\ conns[conn] \in open
                 /\ GetEnds
                 /\ PassBy
                 /\ index' = conn - 1
                 /\ UNCHANGED <<world, conns, timer, starting, rest, wanted>>

GetTakes == /\ busy = "get" /\ conn # 0
            /\ conns[conn] \in open
            /\ GetEnds
            /\ PassBy
            /\ UNCHANGED <<world, pool, rest, wanted>>

\* Mutant: the loop ends with the vector, not where it began.
GetSkipsToEnd == /\ busy = "get" /\ conn # 0
                 /\ conns[conn] \notin open
                 /\ index' = Wrapped(index)
                 /\ \/ Wrapped(index) # 0 /\ conn' = 0 /\ UNCHANGED <<busy, tag, steady, moved>>
                    \/ Wrapped(index) = 0 /\ GetEnds
                 /\ UNCHANGED <<world, conns, timer, starting, rest, wanted, passedBy>>

\* Not this one.  When the loop is back at its start get_conn returns false.
GetSkips == /\ busy = "get" /\ conn # 0
            /\ conns[conn] \notin open
            /\ index' = Wrapped(index)
            /\ \/ Wrapped(index) # tag /\ conn' = 0 /\ UNCHANGED <<busy, tag, steady, moved>>
               \/ Wrapped(index) = tag /\ GetEnds
            /\ UNCHANGED <<world, conns, timer, starting, rest, wanted, passedBy>>

-------------------------------------------------------------------------------
(* Users of the connections, and the servers *)

\* The user of a connection closes it, or the epoll thread of an asynchronous one.
CloseConn(s) == /\ s \in open
                /\ open' = open \ {s}
                /\ live' = live \ {s}
                /\ steady' = steady \ {s}
                /\ passedBy' = [passedBy EXCEPT ![s] = 0]
                /\ UNCHANGED <<up, pool, method, wanted, moved>>

ServerUp(s) == s \notin up /\ up' = up \cup {s} /\ UNCHANGED <<open, live, pool, method, past>>

\* Its connection is dead from now on, but open until somebody closes it.
ServerDown(s) == /\ s \in up
                 /\ up' = up \ {s}
                 /\ live' = live \ {s}
                 /\ UNCHANGED <<open, pool, method, past>>

-------------------------------------------------------------------------------

Lists == BoundedSeq(Servers, MaxList)

RefreshStep == (\E i \in DOMAIN conns : ReleaseConn(i)) \/ AddConn \/ HasConn \/ RefreshEnds
CheckStep == CheckNext \/ CheckEnds
GetStep == GetLooks \/ GetTakes \/ GetSkips

PoolNext == \/ ResetIndex
            \/ \E svrs \in Lists : init(svrs) \/ refresh(svrs)
            \/ RefreshStep
            \/ CheckBegins \/ CheckStep
            \/ GetBegins \/ GetStep
            \/ \E s \in Servers : CloseConn(s) \/ ServerUp(s) \/ ServerDown(s)

PoolSpec == PoolInit /\ [][PoolNext]_poolVars

\* A method that has the mutex goes on, and the timer's thread gets it at last.
PoolFairness == /\ WF_poolVars(RefreshStep \/ CheckStep \/ GetStep)
                /\ SF_poolVars(CheckBegins)

PoolFairSpec == PoolSpec /\ PoolFairness

-------------------------------------------------------------------------------
(* Correctness *)

PoolTypeOK == /\ up \subseteq Servers
              /\ conns \in BoundedSeq(Servers, Cardinality(Servers))
              /\ open \subseteq ToSet(conns) /\ live \subseteq open
              /\ index \in 0 .. Cardinality(Servers)
              /\ timer \in BOOLEAN /\ starting \in BOOLEAN
              /\ busy \in Methods \cup {"no"}
              /\ rest \in Seq(Servers)
              \* A refresh may have made _conns shorter than _index was.
              /\ busy = "get" /\ conn = 0 => index < Len(conns)
              /\ conn \in 0 .. Len(conns) /\ tag \in Nat
              /\ wanted \subseteq Servers
              /\ steady \subseteq Servers /\ moved \in BOOLEAN
              /\ passedBy \in [Servers -> Nat]

\* After a refresh the pool has one connection for each server of the list,
\* whatever the list repeats and whatever was in the pool before.
PoolIsWanted == ~Refreshing => IsInjective(conns) /\ ToSet(conns) = wanted

\* get_conn returns false only if no connection was open all the time.  The one
\* exception is an init that resets _index, without the mutex, while get_conn
\* goes around: it may bring the loop back to its start too early.
FailsOnlyIfNoneOpen == [][GetSkips /\ busy' = "no" /\ ~moved => steady = {}]_poolVars

\* No open connection is starved: between two refreshes it is got at the latest
\* when every other connection has been.  The reset of _index by an init, before
\* its refresh has the mutex, costs a connection one more round, and no more.
NotStarved == \A s \in ToSet(conns) :
                passedBy[s] < IF starting THEN 2 * Len(conns) ELSE Len(conns)

\* The timer connects a server of the pool that is up for good, once nobody
\* keeps the connection of an earlier time open: connect() refuses one that is
\* open, and what is dead is closed by its user or by its epoll thread, not by
\* the pool.
ComesBack == \A s \in Servers :
  (<>[](timer /\ s \in wanted /\ s \in up) /\ []<>(s \notin open \ live)) => []<>(s \in live)
===============================================================================
