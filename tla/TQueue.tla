-------------------------------- MODULE TQueue --------------------------------
(***************************************************************************)
(* The blocking queue TQueue<T> (TQueue.h; TVector.h has the same code     *)
(* over a vector), with its capacity limit and its rate limiter.           *)
(*                                                                         *)
(* Every method holds _mutex from its first statement, so a critical       *)
(* section is one action: it runs until it blocks in _cond or unlocks.     *)
(* What runs without the lock - the TimeStamp taken at the entry of pop    *)
(* and the two reads of _wake_up_ts at its end - is an action of its own.  *)
(*                                                                         *)
(* Time is counted in ticks, TicksPerSec of them per second.  The clock    *)
(* matters to the limiter only and stands still when RateLimit = 0.        *)
(***************************************************************************)
EXTENDS Integers, Sequences, FiniteSets

CONSTANTS Consumers,    \* the threads that call pop
          Items,        \* the objects pushed
          NoItem,       \* what "item" holds before the first pop
          MaxSize,      \* _max_size, 0: no limit
          RateLimit,    \* _rate_limit, items per second, 0: no limit
          TicksPerSec,  \* resolution of the clock
          StartTime,    \* when the queue was constructed
          MaxTime       \* bound: the clock stops here

ASSUME SizeAssumption == MaxSize \in Nat /\ RateLimit \in Nat
ASSUME ConsumerAssumption == IsFiniteSet(Consumers)
ASSUME ItemAssumption == NoItem \notin Items
\* The program starts long after 1970: _wake_up_ts set to a number of
\* milliseconds (below 1000) is more than two seconds in the past.
ASSUME ClockAssumption == /\ TicksPerSec \in Nat \ {0}
                          /\ StartTime \in Nat
                          /\ StartTime >= 1001 * TicksPerSec
                          /\ MaxTime \in Nat
                          /\ MaxTime >= StartTime

\* "forever": pop(item).  "timed": pop(item, timeout).  "zero": pop(item, 0),
\* for which ThreadCond::TimeWait falls back to an untimed wait.
Modes == {"forever", "timed", "zero"}

VARIABLES lst_item,      \* _lst_item
          try_pop_cnt,   \* _try_pop_cnt
          wake_up_ts,    \* _wake_up_ts
          now,           \* the clock TimeStamp reads
          pc,            \* pc[c]: where consumer c is
          mode,          \* mode[c]: the overload of pop it called
          item,          \* item[c]: its "item" argument
          last_pop_ts,   \* last_pop_ts[c]: its local variable
          deadline,      \* deadline[c]: when its usleep ends
          popped         \* history: the removals of the latest second

limiter == <<try_pop_cnt, wake_up_ts, now, popped>>
vars == <<lst_item, limiter, pc, mode, item, last_pop_ts, deadline>>

PC == {"idle", "lock", "wait", "woken", "check", "measure", "sleep"}

Second(t) == t \div TicksPerSec
\* TimeStamp::getMSeconds: the milliseconds WITHIN the second, 0..999.
MSeconds(t) == ((t % TicksPerSec) * 1000) \div TicksPerSec
Never == MaxTime + 1

Init == /\ lst_item = <<>>
        /\ try_pop_cnt = 0
        /\ wake_up_ts = StartTime
        /\ now = StartTime
        /\ pc = [c \in Consumers |-> "idle"]
        /\ mode = [c \in Consumers |-> "forever"]
        /\ item = [c \in Consumers |-> NoItem]
        /\ last_pop_ts = [c \in Consumers |-> StartTime]
        /\ deadline = [c \in Consumers |-> StartTime]
        /\ popped = [second |-> Second(StartTime), count |-> 0]

-------------------------------------------------------------------------------
(* push *)

full == MaxSize > 0 /\ Len(lst_item) > MaxSize

InQueue(i) == \E n \in 1 .. Len(lst_item) : lst_item[n] = i

\* Mutant: signal() in place of broadcast().
signalOnly == IF \E c \in Consumers : pc[c] = "wait"
              THEN \E c \in Consumers : /\ pc[c] = "wait"
                                        /\ pc' = [pc EXCEPT ![c] = "woken"]
              ELSE UNCHANGED pc

\* Mutant: push forgets the condition variable.
noBroadcast == UNCHANGED pc

\* ThreadCond::broadcast: every waiter leaves the wait set.
broadcast == pc' = [c \in Consumers |-> IF pc[c] = "wait" THEN "woken" ELSE pc[c]]

\* Items in the queue at one time are told apart by their names.
PushAccepted(i) == /\ ~full
                   /\ ~InQueue(i)
                   /\ lst_item' = Append(lst_item, i)
                   /\ broadcast
                   /\ UNCHANGED <<limiter, mode, item, last_pop_ts, deadline>>

PushRejected == /\ full
                /\ UNCHANGED vars

Push(i) == PushAccepted(i) \/ PushRejected

-------------------------------------------------------------------------------
(* pop *)

\* TimeStamp last_pop_ts is constructed before the mutex is taken.
PopEnter(c, m) == /\ pc[c] = "idle"
                  /\ pc' = [pc EXCEPT ![c] = "lock"]
                  /\ mode' = [mode EXCEPT ![c] = m]
                  /\ last_pop_ts' = [last_pop_ts EXCEPT ![c] = now]
                  /\ UNCHANGED <<lst_item, limiter, item, deadline>>

\* Mutant: pop(item, timeout) waits in a loop as pop(item) does.
MayWaitAgain(c) == pc[c] \in {"lock", "woken"}

\* pop(item) waits in a loop, pop(item, timeout) only once.
MayWait(c) == pc[c] = "lock" \/ (pc[c] = "woken" /\ mode[c] = "forever")

PopWait(c) == /\ MayWait(c)
              /\ lst_item = <<>>
              /\ pc' = [pc EXCEPT ![c] = "wait"]
              /\ UNCHANGED <<lst_item, limiter, mode, item, last_pop_ts, deadline>>

\* pthread_cond_wait may return without a signal.
SpuriousWakeup(c) == /\ pc[c] = "wait"
                     /\ pc' = [pc EXCEPT ![c] = "woken"]
                     /\ UNCHANGED <<lst_item, limiter, mode, item, last_pop_ts, deadline>>

\* pthread_cond_timedwait expires; the result of TimeWait is not looked at.
WaitTimeout(c) == /\ pc[c] = "wait"
                  /\ mode[c] = "timed"
                  /\ pc' = [pc EXCEPT ![c] = "woken"]
                  /\ UNCHANGED <<lst_item, limiter, mode, item, last_pop_ts, deadline>>

\* The timed pop found the queue empty after its one wait and returns -1.
PopFails(c) == /\ pc[c] = "woken"
               /\ mode[c] # "forever"
               /\ lst_item = <<>>
               /\ pc' = [pc EXCEPT ![c] = "idle"]
               /\ UNCHANGED <<lst_item, limiter, mode, item, last_pop_ts, deadline>>

\* Mutant: the item is copied from the back and removed from the front.
RemoveBack(c) == /\ pc[c] \in {"lock", "woken"}
                 /\ lst_item # <<>>
                 /\ item' = [item EXCEPT ![c] = lst_item[Len(lst_item)]]
                 /\ lst_item' = Tail(lst_item)
                 /\ UNCHANGED <<mode, deadline>>

RemoveFront(c) == /\ pc[c] \in {"lock", "woken"}
                  /\ lst_item # <<>>
                  /\ item' = [item EXCEPT ![c] = Head(lst_item)]
                  /\ lst_item' = Tail(lst_item)
                  /\ UNCHANGED <<mode, deadline>>

PopUnlimited(c) == /\ RateLimit = 0
                   /\ RemoveFront(c)
                   /\ pc' = [pc EXCEPT ![c] = "idle"]
                   /\ UNCHANGED <<limiter, last_pop_ts>>

CountRemoval ==
  popped' = [second |-> Second(now),
             count |-> IF Second(now) = popped.second THEN popped.count + 1 ELSE 1]

\* pop_ts is the clock at the removal.  No two removals read the same clock
\* value: the tick is finer than the time a removal takes.
PopLimited(c) == /\ RateLimit > 0
                 /\ RemoveFront(c)
                 /\ pc' = [pc EXCEPT ![c] = "check"]
                 /\ now < MaxTime
                 /\ now' = now + 1
                 /\ CountRemoval

\* delta_cond_wait.ToUSeconds()/1000000 > 1
LongIdle == Second(now - wake_up_ts) > 1

\* More than two seconds since _wake_up_ts: the limiter starts over.
PopAfterIdle(c) == /\ PopLimited(c)
                   /\ wake_up_ts < now /\ LongIdle
                   /\ try_pop_cnt' = 1
                   /\ wake_up_ts' = (MSeconds(now) - 1) * TicksPerSec
                   /\ UNCHANGED last_pop_ts

\* The last item of this second's quota: pause until the next second.
PopReachesLimit(c) == /\ PopLimited(c)
                      /\ wake_up_ts < now /\ ~LongIdle
                      /\ try_pop_cnt + 1 >= RateLimit
                      /\ try_pop_cnt' = 0
                      /\ wake_up_ts' = (Second(now) + 1) * TicksPerSec
                      /\ last_pop_ts' = [last_pop_ts EXCEPT ![c] = wake_up_ts']

PopBelowLimit(c) == /\ PopLimited(c)
                    /\ wake_up_ts < now /\ ~LongIdle
                    /\ try_pop_cnt + 1 < RateLimit
                    /\ try_pop_cnt' = try_pop_cnt + 1
                    /\ UNCHANGED <<wake_up_ts, last_pop_ts>>

\* Mutant: the comparison with _wake_up_ts is left out of a pop in the pause.
PopInPauseNoSleep(c) == /\ PopLimited(c)
                        /\ wake_up_ts >= now
                        /\ try_pop_cnt' = try_pop_cnt + 1
                        /\ last_pop_ts' = [last_pop_ts EXCEPT ![c] = wake_up_ts]
                        /\ UNCHANGED wake_up_ts

\* A removal while the pause lasts.
PopInPause(c) == /\ PopLimited(c)
                 /\ wake_up_ts >= now
                 /\ try_pop_cnt' = try_pop_cnt + 1
                 /\ last_pop_ts' = [last_pop_ts EXCEPT ![c] = now]
                 /\ UNCHANGED wake_up_ts

PopTake(c) == \/ PopUnlimited(c)
              \/ PopAfterIdle(c)
              \/ PopReachesLimit(c)
              \/ PopBelowLimit(c)
              \/ PopInPause(c)

\* The comparison with _wake_up_ts, after the unlock.
PopCheck(c) == /\ pc[c] = "check"
               /\ pc' = [pc EXCEPT ![c] = IF wake_up_ts > last_pop_ts[c]
                                          THEN "measure" ELSE "idle"]
               /\ UNCHANGED <<lst_item, limiter, mode, item, last_pop_ts, deadline>>

\* howlong reads _wake_up_ts a second time.  A negative difference becomes an
\* arbitrary useconds_t, up to 71 minutes.
PopMeasure(c) == /\ pc[c] = "measure"
                 /\ pc' = [pc EXCEPT ![c] = "sleep"]
                 /\ LET howlong == wake_up_ts - last_pop_ts[c]
                    IN \E d \in IF howlong >= 0 THEN {now + howlong} ELSE now .. Never :
                          deadline' = [deadline EXCEPT ![c] = d]
                 /\ UNCHANGED <<lst_item, limiter, mode, item, last_pop_ts>>

\* usleep sleeps at least as long as it was told to.
PopWakesUp(c) == /\ pc[c] = "sleep"
                 /\ now >= deadline[c]
                 /\ pc' = [pc EXCEPT ![c] = "idle"]
                 /\ UNCHANGED <<lst_item, limiter, mode, item, last_pop_ts, deadline>>

Tick == /\ RateLimit > 0
        /\ now < MaxTime
        /\ now' = now + 1
        /\ UNCHANGED <<lst_item, try_pop_cnt, wake_up_ts, popped, pc, mode, item,
                       last_pop_ts, deadline>>

-------------------------------------------------------------------------------

\* The steps of a thread inside pop that depend on nothing but the scheduler.
PopStep(c) == PopWait(c) \/ PopFails(c) \/ PopTake(c) \/ PopCheck(c)
                \/ PopMeasure(c) \/ PopWakesUp(c)

Next == \/ \E i \in Items : Push(i)
        \/ \E c \in Consumers :
              \/ \E m \in Modes : PopEnter(c, m)
              \/ SpuriousWakeup(c)
              \/ WaitTimeout(c)
              \/ PopStep(c)
        \/ Tick

Spec == Init /\ [][Next]_vars

\* The scheduler runs every thread, a timed wait expires, and the consumers
\* call pop in a loop as those of the tests do.  Nobody has to push.
Fairness == \A c \in Consumers :
               /\ WF_vars(PopStep(c))
               /\ WF_vars(WaitTimeout(c))
               /\ WF_vars(\E m \in Modes : PopEnter(c, m))

FairSpec == Spec /\ Fairness

-------------------------------------------------------------------------------
(* Correctness *)

\* The values the variables range over.  try_pop_cnt is unsigned in the code.
TypeOK == /\ lst_item \in Seq(Items)
          /\ try_pop_cnt \in Nat
          /\ wake_up_ts \in Int
          /\ now \in StartTime .. MaxTime
          /\ pc \in [Consumers -> PC]
          /\ mode \in [Consumers -> Modes]
          /\ item \in [Consumers -> Items \cup {NoItem}]
          /\ last_pop_ts \in [Consumers -> Int]
          /\ deadline \in [Consumers -> Int]
          /\ popped \in [second : Int, count : Nat]

\* No lost wake-up: whatever the order of pushes, removals, time-outs and
\* spurious returns, nobody is left in the wait set of _cond while the queue
\* holds an item (push broadcasts, pop looks again under the lock).
NoLostWakeup == (\E c \in Consumers : pc[c] = "wait") => lst_item = <<>>

\* The bound push keeps: it tests size() > _max_size before it appends, so the
\* queue holds up to one item more than _max_size.
CapacityKept == MaxSize > 0 => Len(lst_item) <= MaxSize + 1

\* The queue is a FIFO channel: the threads' interleaved pushes and pops only
\* ever append one item, or hand the head to one consumer.
Channel == INSTANCE FifoChannel
             WITH chan <- lst_item, out <- item,
                  Capacity <- IF MaxSize = 0 THEN 0 ELSE MaxSize + 1

ChannelSpec == Channel!Spec

\* Every accepted item reaches a consumer, although the consumers wait in
\* different ways, time out, wake without reason and take items from one another.
ItemsAreServed == \A i \in Items : InQueue(i) ~> ~InQueue(i)

\* pop(item, timeout) comes back, with an item or with -1, even when nothing is
\* pushed or the others take every item: it waits once and never again.
TimedPopReturns ==
  \A c \in Consumers :
     (pc[c] = "lock" /\ mode[c] = "timed") ~> (pc[c] = "idle")

\* The limiter has not started over: PopAfterIdle puts _wake_up_ts near 1970.
NeverIdle == wake_up_ts >= StartTime

\* The most that is removed in a second before the pause begins: the quota, but
\* two items if that is one, as a removal at the very end of the last pause is
\* counted without a look at the quota.
BeforePause == IF RateLimit < 2 THEN 2 ELSE RateLimit

\* What the limiter guarantees until then: a thread that gets an item in the
\* pause sleeps until the pause is over, so each consumer exceeds the second's
\* quota by at most one item, whichever way the unlocked reads interleave.
RateKept == NeverIdle => popped.count <= BeforePause + Cardinality(Consumers)
===============================================================================
