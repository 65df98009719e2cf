# cppbrick in TLA+

cppbrick (`src/src`) is a C++ library for servers on Linux: blocking queues, threads, an epoll
reactor for TCP and one for UDP, a table of client sessions with expiry, a pool of outgoing
connections, timers and a number of wrappers of system calls. This directory holds its
specification: TLA+ modules that follow the code method by method, TLC configurations that check
them on small instances, and theorems, proved with TLAPS, that hold for every instance.

Paths such as `TQueue.h:58` are relative to `src/src`.

## 1. Inventory

| component | state | operations | hard part |
|---|---|---|---|
| `TQueue`, `TVector` | list, `_try_pop_cnt`, `_wake_up_ts`, mutex, condition | `push`, `pop` forever / timed | wake-ups stolen, timed out or spurious; limiter reads `_wake_up_ts` without the lock |
| `SessionMgt` | `_sessions` fd -> session, `_fds` id -> fd, `m_uid` | insert, remove, update, client id, `check` | two maps that mirror each other, two threads, wall clock in unsigned arithmetic |
| `SelectTimer` | interval, one thread | `svc`: select, then the handler | how late and how often `check` runs |
| `TcpReactor` | `_handlers`, epoll set, batch of events, listening socket | `svc`, `del_fd`, `stop_listen` | descriptors are reused at once; a batch is older than the callbacks that run in it; `del_fd` in other threads |
| `TMapInt` | map fd -> pointer | `get`, `insert`, `del` | `insert` keeps the old element |
| `ThreadMutex`, `ThreadCond` | pthread objects | lock, wait, `TimeWait`, broadcast | `TimeWait(0)` waits for ever |
| `TMapString` | map key -> item, condition | `push`, `pop` by key, timed, `pop_front` | `pop` waits for any item and takes a given one; all waiters wake for every push |
| `ThreadMeet` | `count`, `maxCount`, condition | `Meet`, `Reset`, `SetMaxcount` | time-outs and spurious wake-ups at a barrier; `maxCount` is never set |
| `Thread` | `_status`, `_stop`, `_attr` | `init`, `run`, `stop`, `thread_proc` | one status for many threads |
| `TcpClientEpoll` | `_open`, `_fd`, `_epfd`, mutex of `send` | `connect`, `close`, `send`, `rcv`, the epoll thread | owner and epoll thread both close, without a lock; partial sends |
| `ConnMgtLB` | `_conns`, `_index`, timer, mutex | `init`, `refresh`, `check_conn`, `get_conn` | connections close while the pool looks at them; an index older than the list |
| `UdpReactor`, `UdpClient` | `_handlers` by peer address | `svc`; `connect`, `sendto`, `close` | lost, duplicated and reordered datagrams |
| `SimpleTcpBase` | `sockfd` | `InitTcpClient`, `InitTcpServer`, `Accept`, `Connect`, `ReadData`, `WriteData`, `Disconnect` | failures half way through an init; partial sends; a number that outlives its socket |
| `SocketUtils` | none | loops around send, recv, connect | partial results, time-outs |
| `TSingleton`, `ThreadRWMutex`, `TimeStamp` | pointer; pthread object; a time | `instance`; lock; arithmetic | double-checked locking |
| `StringUtils`, `Base64`, `XMLParser`, `Cryptopp`, `OSUtils`, logging | none | pure functions, wrappers | - |

How they interact. `TcpReactor::svc` runs in one thread and calls an `EventHandler` (callbacks
`handle_accept`, `handle_input`, `handle_close`), which it has made with `renew` for each connection.
In a server as `test/testSessionMgt.cpp` builds it these callbacks call `SessionMgt`, whose
`check` is called by the thread of a `SelectTimer`. All maps have a mutex of their own
(`TMapInt`, `SessionMgt`); no lock spans two of them, so the agreement between descriptors, epoll
set, handlers and sessions rests on the order of the calls alone. `TQueue` and `TVector` connect
threads of the same process; so does `TMapString`, by key; they sleep in `ThreadCond`. The threads of a `Thread`
may wait for one another in a `ThreadMeet`, which `stop` knows nothing of. On the client side `ConnMgtLB` owns
`TcpClientEpoll` objects and shares them with the threads that call `get_conn`; its mutex protects the list and
not the connections in it. An asynchronous `TcpClientEpoll` is also closed by its own epoll thread.

What makes the components correct, in a word each: a queue hands out each item once, in order, and
leaves nobody asleep; the session table means by an id one connection for ever and drops the idle
sessions and no others; the reactor serves each connection by its own handler and leaks no
descriptor; the server forgets a connection when its peer is gone; a client object keeps hold of its
descriptor and learns of the peer's end; the pool hands out every open connection in turn and reconnects a lost one; a stream
arrives without gaps however often calls time out; a mailbox hands each item to one who asked for its key;
a meeting lets its parties go together; a thread that is told to stop does. The hazards that a test would
hardly reach are listed in `PROJECT.json`, each with the line where it bites and the properties
that watch it. Where the code does go wrong no property that holds can watch it: then the hazard's note says so, and so does the
list at the end of section 3.

## 2. Modules

| module | models | kind |
|---|---|---|
| `FifoChannel` | what a queue promises | abstract specification |
| `TQueue` | `TQueue.h`, `TVector.h`, `ThreadCond.cpp` | component, implements `FifoChannel` |
| `Descriptors` | the constant `Fds` that two modules share | - |
| `IdTable` | what the session table promises those who hold an id | abstract specification |
| `SessionMgt` | the methods of `SessionMgt.cpp` | operators of the table |
| `SessionExpiry` | the table in use, the timer, the wall clock | component, implements `IdTable` |
| `TcpReactor` | `TcpReactor.cpp`, `TMapInt.h`, sockets, epoll, peers | component |
| `Service` | what the server promises its peers | abstract specification |
| `TcpServer` | `test/testSessionMgt.cpp` | composition of `TcpReactor` and `SessionMgt`, implements `Service` and `IdTable` |
| `TcpClient` | `TcpClientEpoll::connect`, `close`, `tcp_epoll_cb` | component |
| `TcpClientSend` | `TcpClientEpoll::send` while others connect and close | composition with `TcpClient` |
| `Transfer` | `TcpClientEpoll::send`, `SocketUtils::send_n`, `recv_n`, `recv` | component |
| `ConnPool` | `ConnMgtLB` | component |
| `UdpReactor` | `UdpReactor.cpp`, `UdpClient.cpp`, a network | component |
| `KeyedStore` | what a mailbox promises | abstract specification |
| `Mailbox` | `TMapString.h`, `ThreadCond.cpp` | component, implements `KeyedStore` |
| `ThreadLife` | `Thread.cpp` | component |
| `ThreadMeet` | `ThreadMeet.cpp` | component |
| `MeetingPool` | `test/testThreadMeet.cpp` | composition of `ThreadLife` and `ThreadMeet` |
| `SimpleTcp` | `SimpleTcpBase.cpp` | component |
| `MC...` | symmetry and views for TLC | instances |
| `...Proofs` | theorems | proofs |

### TQueue

Each method holds `_mutex` from its first statement, so a critical section is one action, from
`lock` (or the return of the wait, `woken`) to the next wait or unlock. `pc[c]` is the
place of consumer `c`: `lock` (called, mutex not taken yet), `wait` (in the condition's wait set),
`woken`, `check`, `measure`, `sleep` (after the unlock), `idle`. `push` is `PushAccepted` or
`PushRejected`; any thread may call it. `pop` begins with `PopEnter`, which takes the time before
the lock as the code does, and chooses the overload: `forever` (waits in a loop), `timed` (waits
once and ignores the result) or `zero` (`TimeWait(0)` waits without a limit, and only once).
The limiter (`_rate_limit > 0`) has one action for each branch of the code; all of them move the
clock by one tick, because a removal takes time. After the unlock the code reads `_wake_up_ts`
twice: `PopCheck` and `PopMeasure`. A negative difference becomes a huge `useconds_t`: any sleep.
`popped` is a history variable, the number of removals in the second of the latest one.

Abstracted: items are names; two items with one name are never in the queue together. The two
words of a `TimeStamp` are read together. Failures of pthread calls are not modelled.

### SessionMgt and SessionExpiry

`SessionMgt` has an operator per method. An id "ip_port_second_uid" is its uid: the
counter is advanced under the lock and tells ids apart by itself. `Expired` computes
`cur_stmp - _access_time` modulo `Wrap` (2^64), so a time in the future gives a huge difference.
`SessionExpiry` calls the methods: `Accept` and `Close` as the header asks a server to, the other
methods at any time and for any argument, `TimerFires` one time-out after the last call. `elapsed` is
true time, `Clock` the wall clock, which `ClockSetBack` sets back. `timer` is whether `InitSessionTimer` made a timer that
runs: it may fail at three calls, the constructor ignores that, and then no session ever expires. `touched` and `assigned` are
history variables: the true time of a session's last access, and the last client id set.

`IdTable` is the table without the second map, the ids inside the sessions and the clocks: `Issue`, `Assign`, `Retire`.
Its `table` maps an id to what `_fds` and `get_client_id` give for it, its `last` is `m_uid`. Accesses, status changes and
the clocks are stutters; a removal and a run of `check` are `Retire`, of all ids at once.

The timer thread is late by at most `Slack`. This assumes that no signal handler runs in the
timer thread: `SelectTimer::svc` starts its select over after `EINTR`. The library installs none.

### TcpReactor

One thread runs `svc` (variable `rpc`), others call `del_fd` (`dpc`), and peers connect, send, close
and reset. `svc` is cut at each call after which another thread, or the kernel, can see a
difference: epoll_wait, accept with `renew` and `handle_accept`, `EPOLL_CTL_ADD`, `_handlers.insert`,
`_handlers.get`, `handle_input`, `EPOLL_CTL_DEL`, `handle_close`, `close`, `_handlers.del`. The kernel is
modelled as far as the reactor can tell: `fd_conn` maps descriptors to connections, `accept` returns the
lowest free one, `close` also removes it from epoll, epoll is level-triggered, recv gives data,
an error once and then the end. `EPOLL_CTL_ADD` may fail, which the reactor ignores: such a connection has its
handler and is in `unwatched`, the set of those that epoll refused. A connection and the handler made for it have the same name. As
`do_listen` asks for `EPOLLIN|EPOLLPRI`, the branch for `EPOLLOUT` is dead; the other branches
only log. In `Next` the callbacks return anything; the batch is looked at in any order.

`del_fd` is modelled as its comment allows it: called by another thread for a descriptor that is open at
the time of the call.

### TcpServer

The two components together, with the callbacks of `test/testSessionMgt.cpp`: `handle_accept`
inserts a session, `handle_input` returns nonzero only if `recv` returned 0, `handle_close` removes the
session. `TimerCheck` drops any set of sessions at any time; time itself is left out, and
this covers every timing.

`Service` is what the peers can tell. The stage of a connection is read off `used`, `backlog` and `fd_conn`
(`Stages`): new, waiting, open, closed; `Known` are the connections with a session, and `Serving` is the *handler* whose
`handle_input` runs, so that serving an open connection by the wrong handler is no step of `Service`. Epoll, the batch,
`_handlers` and the descriptors' numbers are gone; what is left of them is that `Close` is allowed once per
connection, after its peer's end, after all data and after its session.

### TcpClient, TcpClientSend

One object in asynchronous mode. The owner's thread is actor 0, the epoll thread of the k-th connection is
actor k, and connection, epoll instance and thread share the number k. `connect` is cut where
another thread can see a difference: socket, connect, `do_init`, thread creation, `_open = true`
(`pc` values `connect`, `init`, `create`, `setopen`). `close` is cut after its test of `_open` and after each of
its calls and assignments (`check`, `epoll`, `fd`, `open`, `forget`); `tcp_epoll_cb` is
`handle_input`, `EPOLL_CTL_DEL`, then `close`. A thread reads `_fd` and `_epfd` when it uses them, so that the thread of an
old connection acts on the new one, as in the code. The descriptor table is shared with the rest of
the process (`OthersOpen`, `OthersClose`), which makes a second close of a number visible.

The class has no lock and no rule of use. Its properties are stated for `Calm` histories: no `connect` and no
`close` begins while a `close` of another thread is under way. `early` remembers connections whose
end was handled before `_open` was set. Left out: the descriptors of the epoll instances, the event
arrays, failures of `epoll_wait`.

`TcpClientSend` extends it with an application thread in `send`: the look at `_open` before the mutex, the reading of
`_fd` after it, and each `send(2)` of `send_n` on that number are steps of their own, between which the others connect and close.
`s_conn` remembers which connection the sender found open. When a close overlaps the send, the code really may write to a
descriptor that is somebody else's by then; `UsesItsOwn` says that this is the only case.

### Transfer

A message is `MsgSize` bytes, a byte is its sender, its message and its place in it, the kernel's buffers are one
bounded sequence `pipe`. `msg` and `done` are the message a thread is sending and how much of it its calls have reported. An iteration of `send_n`, `recv_n` or `recv` is an action: all of the rest, a part,
nothing (poll again), time-out, failure. The mutex spans a call (`Lock`, `Return`), not a message. Callers go on after a
time-out where `len` says, which is what `len` is for. `holder` is a set, so that a lost lock shows.
The connection stays open on the sending side; the peer may close.

### ConnPool

The mutex spans every method but the first line of `init`, and a method is a sequence of steps of its holder (`busy`): each round
of refresh's erasing loop (`ReleaseConn`), each connect, each look of
`check_conn` and of `get_conn` at one connection is a step, because connections are closed by
their users (`CloseConn`), and servers come and go (`ServerUp`, `ServerDown`), meanwhile. A
connection is named by its server, and `connect` of the synchronous mode is one step. `open` are the connections
for which `is_close()` is false; `live` are those of them whose server is still at the other end, which the code does not know: a server that
goes down leaves its connection open, and `connect` refuses an open connection.

`init` sets `_index` to 0 before the refresh it calls takes the mutex (`ConnMgtLB.h:41`). `ResetIndex` is that write; from then on,
until `init` gets the mutex, `starting` holds. It falls into whatever the holder of the mutex is doing, so that a look of `get_conn` at a connection is
two steps, the reading of `_conns[_index]` (`GetLooks`, which sets the local `conn`) and what follows from it (`GetTakes`, `GetSkips`), and
the write may get lost in, or be followed by, the `++_index` between them. One thread calls `init`, and again only if the timer failed.
`wanted`, `steady`, `moved` and `passedBy` are history variables; `moved` is whether such a write came since `get_conn` began.
`_index` survives a refresh, as in the code.
`get_conn` is private and takes its result by value (`ConnMgtLB.h`), so nobody can call it from outside today;
it is modelled as the caller of a fixed signature would meet it.

### UdpReactor

A call of `svc` handles one datagram and is an action. A datagram carries its sender, the sender's session (a
number the code does not have: it tells which socket sent it) and whether it is empty: an empty one is the
client's end. The network loses, duplicates and reorders. `orderly` is the set of clients whose ends all came, in order.

### ThreadLife

`opc` is the owner's place in `run`, `tpc[t]` a thread's place in `thread_proc`. Creation of a thread and the
assignment of `_status` behind it are two steps, and so are `clean_up` and `ST_EXIT`. `init` leaves the
status alone when one of its calls fails, and `_attr` unusable if that call is `pthread_attr_init`. `pthread_join` of a thread that was never made is undefined and left out (`CreateFails`).

### Mailbox

As in `TQueue`, a critical section is one action, up to the next wait or the return. `mode[c]` is the
method: `key` (`pop(key, item)`, waits in a loop while the map is *empty*, whatever its key), `timed`, `zero`
(`TimeWait(0)` has no limit) and `front`. `want[c]` is the set of keys that will do: one, or all for
`pop_front`, so that `Take` is one action for the three methods: each takes the least of the wanted keys that are there.
`push` is `PushInserts` or `PushDropped`, for `map::insert` keeps the item that is there. Both broadcast.
`ret` is what the method returns; `got` remembers whether the latest call removed an item.

### ThreadMeet and MeetingPool

`ThreadMeet` has an action per way through `Meet`: `PassesBy` (the count is down), `Waits`, `Completes`,
`Returns` after a wake-up, and the wake-ups without a broadcast (`TimeOut`, `SpuriousWakeup`), which do not give the
count back. The member `maxCount` holds anything (`Garbage`), since constructor and `SetMaxcount` assign
their parameter to itself; `Reset` copies it to `count`. `MeetingPool` puts `Meet` into the `svc` of the threads of
`ThreadLife`; svc then returns, fails or exits. The threads of `Timed` call it with a time-out. The repository's test
has three objects of one thread where the model has one pool, which is more: the members of `Thread` are shared as well.

### SimpleTcp

One object and the thread that uses it. Every method is one action, except `WriteData`, whose calls of `send` are a
step each (`WriteBegins`, `Sends`, `SendFails`, `WriteReturns`) with the locals `leastLen` and `sendLen`.
`InitTcpServer` ignores the result of `listen`, and may succeed with a socket that does not listen (`new`).
`Targets` are the descriptors the overloads take: `sockfd`, and what `Accept` returned. `desc` is the descriptor table
of the process, in which others open and close. A byte is its offset in the caller's buffer; `wire` is what
the current `WriteData` has sent, and offsets beyond the length are memory behind the buffer, which a negative `leastLen` reaches.
`result` is the last method's value.

## 3. What the runs show

| run | instance | distinct states | shows |
|---|---|---|---|
| `TQueue_channel` | 2 consumers, 3 items, `MaxSize` 1 | 14 thousand | `NoLostWakeup`, `ChannelSpec`, `ItemsAreServed`, `TimedPopReturns` |
| `TQueue_rate` | 2 consumers, 2 items per second, 6 ticks per second, 17 ticks | 2.9 million | `RateKept` |
| `Session` | 2 descriptors, 3 sessions, time-out 2, 7 ticks, clock set back by 1 | 414 thousand | `Mirror`, `TableSpec`, `IdleSessionsExpire`, `ActiveSessionsStay` |
| `Reactor` | 3 connections, 2 descriptors, batch of 2, one caller of `del_fd` | 6.4 million | `HandlerIsForConnection`, `RegisteredIsServed`, `NoDescriptorLeak`, `EventsAreCurrent`, `DelFdCloses` |
| `Server` | 2 connections, 2 descriptors, batch of 2 | 26 thousand | `SessionIsOfConnection`, `ServiceSpec`, `PeerGoneIsForgotten`, `BacklogIsAccepted` |
| `Client` | 2 connections, 2 descriptors, 1 sender | 713 thousand | `NothingLost`, `UsesItsOwn`, `EndIsKnownOnceOpen` |
| `Pool` | 3 servers, lists of up to 3 | 1.1 million | `PoolIsWanted`, `NotStarved`, `FailsOnlyIfNoneOpen`, `ComesBack` |
| `Udp` | 2 addresses, 2 sessions each, 3 datagrams on the way | 381 thousand | `HandlerPerSession` |
| `Transfer` | 2 senders, 2 messages of 3 bytes each, buffers of 2 | 426 thousand | `StreamIsExact`, `FramesAreMessages`, `SendReturns` |
| `Mailbox` | 2 consumers, 2 keys, 2 items | 75 thousand | `NobodySleepsBesideItem`, `AnswerIsHonest`, `StoreSpec`, `WantedIsTaken` |
| `Meeting` | pools of 1 or 2, 3 threads in all, one with a time-out; 2 parties; the member is 0 or 3 | 975 thousand | `OneThreadIsSafe`, `NobodyLeavesAlone`, `NobodyIsLeftBehind`, `StopEndsAll` |
| `SimpleTcp` | 3 descriptors, one of them 0; messages of up to 3 bytes, 1 byte behind | 1.2 million | `HoldsItsOwn`, `NothingLost`, `WriteIsTrue` |

What the less obvious ones say. `ChannelSpec`, `StoreSpec`, `TableSpec` and `ServiceSpec` say that a component implements its
abstract specification. `TableSpec`: an id is issued once, stands for one descriptor as long as it is valid, and never comes
back. `ServiceSpec`: the reactor, the handlers and the session table together serve each connection by its own handler,
close it once, and only when its peer has ended it, everything it sent was read and its session is gone.
`UsesItsOwn`: in calm use `close` never closes a number that somebody else has got in the meantime,
and a `send` that no close overlaps writes to the connection it found open.
`NoDescriptorLeak`: descriptors are leaked for connections that epoll refused to watch and for no others. `PeerGoneIsForgotten`
says of all others that the server closes them and drops their handler and session when their peer is gone.
`IdleSessionsExpire` is stated for a timer that runs and a clock that was not set back.
`NotStarved`: no open connection is passed over by `get_conn` more often than there are others; while an `init` that has
reset `_index` waits for the mutex, it may be one round more (with the shorter bound the run fails).
`FailsOnlyIfNoneOpen`: `get_conn` fails only if no connection was open during the whole call, or if an `init` has reset
`_index` meanwhile. Without that exception the run fails: with three connections and a circle begun at 1, `get_conn` looks at 1,
the index becomes 0, it looks at 0, and is back at 1 without a look at 2.
`ComesBack`: a server of the pool that is up for good is connected again and again, if whoever holds its dead connection
closes it each time. Without that premise the run fails: the dead connection is open, and `connect` refuses it for ever.
`HandlerPerSession`: one handler serves one session, and none outlives the session and its datagrams.
`FramesAreMessages`: time-outs alone do not shift message boundaries, which the mutex of `send` has to guarantee together
with `len`. `OneThreadIsSafe`: with one thread, `_attr` is valid when it is used, `ST_EXIT` means that the thread
is over, and so does the return of an attached `run`.
`WantedIsTaken`: an item does not stay in the mailbox while somebody is popping by its key.
`NobodyLeavesAlone`: as long as each wait ends by the broadcast and nobody calls `Reset`, no thread leaves the meeting
before enough *different* threads have come; a time-out breaks it, because the thread's count stays taken and it may come again.
`NobodyIsLeftBehind` needs no such condition. `StopEndsAll`: after a `stop` that no `init` takes back every thread ends, unless it waits
without a time-out for parties that are missing (or `Reset` has set the count to a 0 that the member happened to hold).
`HoldsItsOwn`: until `Disconnect` the number in `sockfd` is that of the object's own socket. `WriteIsTrue`: a length
that `WriteData` returns is exactly what it has sent of the buffer, though it may be less than the message.

`RateKept`: until the limiter starts over, no second sees more removals than `max(RateLimit, 2)` and one for each consumer.

The type invariants, the bound of `_index` among them, are proved (section 4) and are not repeated by the runs.

Why these bounds. A race for an item needs two consumers, and a third adds only another thief;
with `MaxSize` 1 the queue reaches its limit of two, so that a push is refused, and order matters.
The limiter's history is one calendar second; three seconds hold a second before,
a full one and one after, and begin in the middle of one. Three sessions over two descriptors let a
descriptor be used again while the other stays; 7 ticks hold three time-outs. Three connections
over two descriptors make accept fail, reuse descriptors, and fill the batch
(the listening socket takes part); a second caller of `del_fd` acts as the first does. Two connections let the epoll
thread of an old one meet a new one, and two descriptors let a number be given to somebody else. Three servers
are the fewest for which the round robin, a shrinking refresh and a circle begun in the middle differ. Messages of three
bytes over a buffer of two are always sent in parts, and an end of a part can fall anywhere. Two sessions per
address let an old datagram meet the new session; three datagrams hold data, an end and a duplicate.
Two consumers and two keys let one be woken for the
other's item. Three threads are two pools, of two and of one, or a thread that meets twice; two parties with three threads let one
come after the meeting, and a `Reset` to three strands two. Three bytes are the fewest that `WriteData` can send so that its
error shows (1 + 1 returns early, 1 + 2 goes on behind the buffer); three descriptors are 0, its own, and somebody else's. Liveness is checked without symmetry.

Fairness. `TQueue`: each thread is scheduled, timed waits expire, and consumers call `pop` again as
the loops in `test/testTQueue.cpp` do; pushes and spurious wake-ups are never required.
`TcpServer`: the reactor's thread runs (`WF(ServerSvc)`), nothing is asked of peers or of the timer.
`TcpClient` (the sender owes nothing) and `MeetingPool`: threads that can run do, timed waits expire, and `svc` comes back from anything but a
meeting, which a subclass has to provide for; nobody owes a `Reset` or an arrival. `Mailbox`: a thread inside a pop runs, and timed waits
expire; nobody has to push or pop, and a pop may wait for ever.
`ConnPool`: a method once begun goes on, and the timer's thread gets the mutex if it is free again and again (strong
fairness of `CheckBegins`); servers and users owe nothing. `Transfer`: a loop's iteration ends, at the latest by its
time-out, and a thread that waits for the mutex gets it in the end (strong fairness of `Lock`); the reader owes nothing.
The strong fairness is that of the pthread mutex, which the code relies on: it has no queue of its own.
`ItemsAreServed` needs no strong fairness: a consumer that sees an item takes it under the lock.
`BacklogIsAccepted` holds as the batch is worked off before epoll_wait is called again, and with
descriptors enough for all connections. It says that a connection leaves the accept queue, by
`accept` or when listening stops.

### Where the code and its comments disagree

Seen while modelling. The properties are stated so that they hold of the code as it is, and each names the condition
that one of these would break.

* After two idle seconds the limiter uses `getMSeconds()` for a number of seconds (`TQueue.h:78`):
  `_wake_up_ts` is near 1970, and nothing is limited any more. `RateKept` is stated for the time before.
  A removal at the very end of a pause is counted without a look at the quota (`TQueue.h:72`), so that a quota of one
  item per second lets two pass.
* The epoll thread may handle the peer's end before `connect` has set `_open` (`TcpClientEpoll.cpp:116`). Its `close` then
  returns at once, the descriptor is out of epoll, and the client never learns of the end, which `Conn.h:24`
  says it does at once. `EndIsKnownOnceOpen` leaves such a connection out (`early`).
* `push` of a key that is there drops the new item and returns 0 (`TMapString.h:124`). `pop` with a time-out returns 0
  without an item when a wake-up was for another key (`TMapString.h:91`). `pop(key, item)` waits while the map is empty,
  and not for its key.
* `ThreadMeet::maxCount` is never set (`ThreadMeet.cpp:23`, `:93`): `Reset` takes an arbitrary count. A thread whose wait
  timed out has still used up a count. The deadline is made of `time(NULL)`, so a time-out below a second may be over when it begins.
* `WriteData` reduces `leastLen` by the running total (`SimpleTcpBase.cpp:193`, `:226`). When a send takes only a part,
  the loop may return a length that is too small, or goes on with memory behind the buffer until `send` fails.
  The repository says nothing about partial sends; `WriteIsTrue` states what is left of the loop's promise.
* `Disconnect` keeps the number in `sockfd`, so that a second call closes somebody else's descriptor, and it does not
  close number 0. An init with a socket open loses that socket; an `InitTcpServer` that fails leaves the old one in place,
  an `InitTcpClient` that fails does not. `InitTcpServer` ignores the result of `listen` (`SimpleTcpBase.cpp:85`).
* The queue takes `_max_size + 1` items (`TQueue.h:181`), its comment calls `_max_size` the maximum. `CapacityTheorem` proves
  the bound the code does keep. A consumer that entered `pop` before the pause ended sleeps
  although the limit is not reached (`TQueue.h:99`).
* When the wall clock is set back, `check` drops sessions in use (`SessionMgt.cpp:257`): the difference is unsigned.
  An expired session is forgotten, but nothing closes its connection (TODO at `SessionMgt.cpp:279`).
* The result of `EPOLL_CTL_ADD` is ignored (`TcpReactor.cpp:236`). A connection that epoll refuses, for want of memory or at the
  limit of watches, keeps its descriptor, its handler and its session (until that expires), and is never read or closed.
* A timer that fails to start is ignored by the constructor of `SessionMgt` (`SessionMgt.cpp:13`): no session ever expires.
* `del_fd` closes the descriptor before it erases the handler: a connection accepted on it in between stays
  without a handler, or is closed in place of the one meant (`TcpReactor.cpp:180`). This is why the reactor's
  invariants are stated for the time before `del_fd` is first called.
* `send` looks at `_open` before it takes the mutex, and `close` takes none (`TcpClientEpoll.cpp:129`): a send that a close
  overlaps writes to -1, or to whoever has got the number since.
* A synchronous connection whose peer has closed stays open in the pool's eyes: a receive of 0 does not mark it
  (`TcpClientEpoll.cpp:156`), although `Conn.h:24-27` says that the pool then no longer hands it out. The timer does not reconnect it either, for
  `connect` refuses an open connection (`TcpClientEpoll.cpp:57`), until its user closes it.
* `ConnMgtLB::init` resets `_index` without the mutex (`ConnMgtLB.h:41`). A `get_conn` that is looking meanwhile may fail beside an
  open connection. This takes an `init` after a refresh, or after an `init` whose timer failed.
* Each asynchronous `connect` leaks the array of events. `connect_s` does
  not use its time-out, and blocks with the pool's mutex held.
* A `UdpReactor` with `buf_size` 1 takes every datagram for an end.
* `recv_n` of no bytes reports a closed connection.
* With two threads in a `Thread`, the first one to end destroys the attributes `run` still makes threads
  with, sets `ST_EXIT` for all, and only the one made last is joined. `init` during the life of a thread takes a
  stop back that the thread has not seen.

## 4. What is proved

Every safety property of the runs is a theorem, and so are the refinements and the types of every component. All theorems
hold for every value of the constants under the assumptions the modules name
(`SizeAssumption`, `ClockAssumption`, `SessionAssumption`, ...), which say that limits are natural numbers, the
markers are no items or connections, there are finitely many consumers and servers, and 2^64 is larger than any time. As the code fixes
none of the numbers, no assumption bounds them.

* `TQueueProofs`. `TypeCorrect`: `TypeOK` is inductive; the unsigned `_try_pop_cnt` does not
  go below zero. `NoWakeupIsLost`: inductive, since a consumer sleeps only on an empty queue and every push empties
  the wait set. `ImplementsChannel`: every step is an `Accept`, a `Deliver` or a stutter of
  `FifoChannel`. `CapacityTheorem`. `RateIsKept` needs to know what bounds the removals once the pause has begun: each one
  keeps its consumer from the next until the pause is over. `HeldBack` is the set of those consumers, and the invariant
  `LimiterInv` says that before the pause every removal of the second was counted (`PauseAhead`), that in it the
  removals exceed the quota by at most `Cardinality(HeldBack)` (`PauseBegun`), and what the local `last_pop_ts` may be
  at each place (`StampsArePast`), which is where the unlocked reads of `_wake_up_ts` come in.
* `SessionMgtProofs`: what insert, erase and update do to the mirror, and which step of `IdTable` each is, one lemma each, used by both
  `SessionExpiryProofs` and `ServerProofs`.
* `SessionExpiryProofs`. Inductive invariant `IInv`: `TypeOK`, `Mirror`, `SessionsAreOpen`
  (without it `Accept` could overwrite a session and strand its id), `ClientIdKept` (what `get_client_id` returns is what was set) and
  `FreshUnassigned` (an id not handed out yet has no client id). `IdsNeverReused` follows from it, and so does `ImplementsTable`: under
`Mirror` an id that is retired or assigned to is nobody else's, so that each method is one step of `IdTable`. For the
  times, `TimeInv` relates `_access_time`, the true time of access and the timer: with an undisturbed clock a session
  outlives one check only if it was accessed within the time-out before it, and the next check comes within
  `Timeout + Slack` if the timer runs. This gives `IdleExpire` and `ActiveStay`.
* `ServerProofs`, the reactor alone. Types and the bound of the event array hold whatever `del_fd` does
  (`TypeOK /\ LocalFds`). Until its first call `RInv` is inductive: the four properties together with
  `LocalInv`, what `svc` knows about `conn_fd` at each place (for example: before `EPOLL_CTL_ADD` the
  descriptor has no handler, and after `close` no event of the batch names it). `DelFdClosesIt` holds without that
  condition: `OneSocket /\ Targets` says that what a caller of `del_fd` means has no descriptor but the one it named, even
  if that was closed and given to another connection meanwhile.
* `ServerProofs`, the server. `SInv` joins `RInv`, the mirror, `SessionIsOfConnection` and `SessionsOpen` (a session's descriptor
  is open, and has no session any more once `handle_close` has run); each action is
  an action of the reactor and one of the table, so the lemmas of both carry over (`ServerIsReactor`, `ServerImplementsTable`).
* `ServerProofs`, the service. `ServerImplementsService` has a lemma for each kind of step. It needs two facts more than `SInv`.
  `OneSocket`, from the reactor: no two descriptors are of one connection, so that `close` ends the stage `open`.
  `CurrentConn`: while `handle_input` runs, the current handler is that of the connection behind `conn_fd`, and from the
  decision to remove it up to `close` its peer has ended it and nothing is left unread. This is where the test of `recv`'s
  result enters: only a 0, which comes after all data and after an error, leads to the removal.
* `ClientProofs`. `NothingIsLost` and `OwnDescriptorsOnly`. `Types` is inductive for any use of the object; in calm use so is
  `CalmInv`: one thread at most is inside `close` (`OneClose`), nobody is while `connect` runs (`ConnectAlone`), an open
  object holds the descriptor of its latest connection (`FdIsCurrent`, `OpenHasFd`), an object that is shut holds none
  (`ShutHasNone`), and the sender that no close disturbed holds the same (`SenderIsCurrent`).
* `RendezvousProofs`, the mailbox. `NobodySleepsBesideItem` is inductive with the types: a push of any key wakes all, and a consumer that
  goes to sleep has just looked. `AnswerIsHonest` needs to know what `ret` may be inside a call. `ImplementsStore`: a
  step inserts under a free key, hands out an item that was asked for, or stutters.
* `RendezvousProofs`, the meeting. Each step of the pool is a step or a stutter of `ThreadLife` (`LifeStep`) and of `ThreadMeet`
  (`MeetStep`), so that each has its own inductive invariant. `LifeInv` says for one thread what is alive, and whether
  the attributes are valid, at each place of `run`; it survives `init` because `restarted` tells of threads alive then.
  `MeetInv` counts: in an undisturbed meeting who has come is waiting, and count and comers add up to the parties.
* `SimpleTcpProofs`. The descriptors: `HoldsItsOwn` and `NothingLost` are inductive with the types. `WriteInv`:
  what was sent is a prefix of memory as long as `sendLen`, and `leastLen <= dataLen - sendLen`; so when it is 0 the loop is within
  the buffer.
* `TransportProofs`, the pool. `PoolInv` has a part for each method. `RestIsLeft`: inside refresh, what is wanted is listed or
  left to do, which gives `PoolIsAsWanted`. `SoonGot`: the round robin's progress; the connection at place p has been
  passed over no more often than `_index` is past it, counted around the list (`Ahead`), and one round more while `starting`, which pays for the
  reset. With the list's length bounded by the number of servers this is `NobodyStarves`. `OpenIsPassed`: only open connections are counted,
  and refresh starts the count again. `IndexInRange`: `get_conn` reads within the vector, wherever the reset has put the index.
  `LookedAtIsClosed`: unless the index was reset, what `get_conn` has looked at, from `tag` around to `_index`, was not open all the time,
  so that coming back to `tag` without a find means that none was (`FailureIsJustified`).
* `TransportProofs`, UDP. `HandlersArePerSession`: of an address whose ends came in order `Tidy` says that between data of
  two sessions on the way there is an end, that one follows what a session that is over has sent, and that the
  handler's session is older than all of it. Loss, duplication and reordering of data keep it unless they cross an end.
* `TransportProofs`, the stream. `TransferInv`: `BytesComeOnceAndInOrder` holds for any use; `FramesAreWhole` as long as no call
  begins amid another thread's message (`mixed`). `Framed` is what makes it inductive: nobody but the holder of the mutex is amid a message, and
  what the reader has of its frame, followed by what is on the way, consists of whole messages but for the last. The lemmas
  on sequences at the head of the module are used by all three parts.

Only model-checked: the liveness properties (`ItemsAreServed`, `TimedPopReturns`, `PeerGoneIsForgotten`, `BacklogIsAccepted`,
`EndIsKnownOnceOpen`, `ComesBack`, `SendReturns`, `WantedIsTaken`, `StopEndsAll`), which are out of the prover's reach.

## 5. What is not modelled, and the plan

`PROJECT.json` lists the parts with their status. What is left out, and why:

* `SelectTimer` under signals: a signal handler in the timer thread starts the interval over. The library installs none, and
  the models assume it (`Slack`).
* `TSingleton`, through which the session table is reached (`SessionMgt.h:58`): what can go wrong there is a matter of the memory model, not of
  the order of steps. `ThreadRWMutex` is one call of pthread_rwlock per method, and nothing in the library uses it.
* `StringUtils` and `Base64` are pure functions on strings, which tests reach.
* `SocketUtils::send`, `send_s` and `connect` have no caller in the library; `shutdown` calls itself.
* `TcpClientEpoll::rcv` in the synchronous mode (the asynchronous one refuses it), the destructors, `release` of the reactors, and the failures of `do_init`.
* Wrappers of vendored libraries (tinyxml, Crypto++), of system calls, and logging have no behaviour of their own.

What could follow: an abstract specification of the pool (a set of wanted servers, a call that answers with one of those
open) and one of the stream (a sequence of bytes to which callers append), with the proofs that `ConnPool` and `Transfer`
implement them, whose invariants are there; `rcv`, which shares the mutex of `send`.
