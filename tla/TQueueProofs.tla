----------------------------- MODULE TQueueProofs -----------------------------
(***************************************************************************)
(* Proofs about TQueue, for any number of consumers and items, any limits  *)
(* and any clock resolution.                                               *)
(***************************************************************************)
EXTENDS TQueue, FiniteSetTheorems, TLAPS

USE SizeAssumption, ItemAssumption, ClockAssumption

\* What _wake_up_ts is set to is an integer number of ticks.
LEMMA WakeUpIsInt ==
  ASSUME NEW t \in Int
  PROVE  /\ (MSeconds(t) - 1) * TicksPerSec \in Int
         /\ (Second(t) + 1) * TicksPerSec \in Int
<1>1. t % TicksPerSec \in Int
  OBVIOUS
<1>2. ((t % TicksPerSec) * 1000) \div TicksPerSec \in Int
  BY <1>1
<1>3. Second(t) \in Int
  BY DEF Second
<1>. QED
  BY <1>2, <1>3 DEF MSeconds

\* Every variable keeps its type; the counter never goes below zero.
LEMMA TypeInductive == TypeOK /\ [Next]_vars => TypeOK'
<1>. SUFFICES ASSUME TypeOK, [Next]_vars PROVE TypeOK'
  OBVIOUS
<1>. USE DEF TypeOK
<1>1. ASSUME NEW i \in Items, Push(i) PROVE TypeOK'
  <2>1. CASE PushAccepted(i)
    BY <2>1 DEF PushAccepted, broadcast, limiter, PC
  <2>2. CASE PushRejected
    BY <2>2 DEF PushRejected, vars, limiter
  <2>. QED
    BY <1>1, <2>1, <2>2 DEF Push
<1>2. ASSUME NEW c \in Consumers, NEW m \in Modes, PopEnter(c, m) PROVE TypeOK'
  BY <1>2 DEF PopEnter, limiter, PC
<1>3. ASSUME NEW c \in Consumers, SpuriousWakeup(c) \/ WaitTimeout(c) PROVE TypeOK'
  BY <1>3 DEF SpuriousWakeup, WaitTimeout, limiter, PC
<1>4. ASSUME NEW c \in Consumers, PopWait(c) \/ PopFails(c) PROVE TypeOK'
  BY <1>4 DEF PopWait, PopFails, limiter, PC
<1>5. ASSUME NEW c \in Consumers, RemoveFront(c)
      PROVE  /\ lst_item' \in Seq(Items)
             /\ item' \in [Consumers -> Items \cup {NoItem}]
             /\ mode' \in [Consumers -> Modes]
             /\ deadline' \in [Consumers -> Int]
  BY <1>5 DEF RemoveFront
<1>6. ASSUME NEW c \in Consumers, PopTake(c) PROVE TypeOK'
  <2>1. CASE PopUnlimited(c)
    BY <1>5, <2>1 DEF PopUnlimited, limiter, PC
  <2>2. ASSUME PopLimited(c)
        PROVE  /\ now \in Int
               /\ now' \in StartTime .. MaxTime
               /\ pc' \in [Consumers -> PC]
               /\ RemoveFront(c)
               /\ popped' \in [second : Int, count : Nat]
    <3>1. now \in Int /\ Second(now) \in Int
      BY DEF Second
    <3>2. popped' \in [second : Int, count : Nat]
      BY <2>2, <3>1 DEF PopLimited, CountRemoval
    <3>3. now' \in StartTime .. MaxTime
      BY <2>2 DEF PopLimited
    <3>4. pc' \in [Consumers -> PC]
      BY <2>2 DEF PopLimited, PC
    <3>. QED
      BY <2>2, <3>1, <3>2, <3>3, <3>4 DEF PopLimited
  <2>3. CASE PopAfterIdle(c)
    <3>1. wake_up_ts' \in Int /\ try_pop_cnt' \in Nat
      BY <2>2, <2>3, WakeUpIsInt DEF PopAfterIdle
    <3>. QED
      BY <1>5, <2>2, <2>3, <3>1 DEF PopAfterIdle
  <2>4. CASE PopReachesLimit(c)
    <3>1. wake_up_ts' \in Int /\ try_pop_cnt' \in Nat
      BY <2>2, <2>4, WakeUpIsInt DEF PopReachesLimit
    <3>. QED
      BY <1>5, <2>2, <2>4, <3>1 DEF PopReachesLimit
  <2>5. CASE PopBelowLimit(c)
    BY <1>5, <2>2, <2>5 DEF PopBelowLimit
  <2>6. CASE PopInPause(c)
    BY <1>5, <2>2, <2>6 DEF PopInPause
  <2>. QED
    BY <1>6, <2>1, <2>3, <2>4, <2>5, <2>6 DEF PopTake
<1>7. ASSUME NEW c \in Consumers, PopCheck(c) \/ PopWakesUp(c) PROVE TypeOK'
  BY <1>7 DEF PopCheck, PopWakesUp, limiter, PC
<1>8. ASSUME NEW c \in Consumers, PopMeasure(c) PROVE TypeOK'
  <2>1. PICK d \in Int : deadline' = [deadline EXCEPT ![c] = d]
    <3>1. now \in Int /\ now + (wake_up_ts - last_pop_ts[c]) \in Int
      BY <1>8
    <3>2. now .. Never \subseteq Int
      BY DEF Never
    <3>. QED
      BY <1>8, <3>1, <3>2 DEF PopMeasure
  <2>. QED
    BY <1>8, <2>1 DEF PopMeasure, limiter, PC
<1>9. CASE Tick
  BY <1>9 DEF Tick
<1>10. CASE UNCHANGED vars
  BY <1>10 DEF vars, limiter
<1>. QED
  BY <1>1, <1>2, <1>3, <1>4, <1>6, <1>7, <1>8, <1>9, <1>10, ZenonT(30) DEF Next, PopStep

\* Type correctness.
THEOREM TypeCorrect == Spec => []TypeOK
<1>1. Init => TypeOK
  <2>1. Second(StartTime) \in Int
    BY DEF Second
  <2>. QED
    BY <2>1 DEF Init, TypeOK, PC, Modes
<1>. QED
  BY <1>1, TypeInductive, PTL DEF Spec

\* No thread sleeps in _cond while the queue holds an item: only a push makes
\* the queue non-empty, and it wakes every waiter; a thread goes to wait only
\* when it has seen the queue empty under the lock.
THEOREM NoWakeupIsLost == Spec => []NoLostWakeup
<1>1. Init => NoLostWakeup
  BY DEF Init, NoLostWakeup
<1>2. TypeOK /\ NoLostWakeup /\ [Next]_vars => NoLostWakeup'
  <2>. SUFFICES ASSUME TypeOK, NoLostWakeup, [Next]_vars,
                       NEW w \in Consumers, pc'[w] = "wait"
                PROVE  lst_item' = <<>>
    BY DEF NoLostWakeup
  <2>. USE DEF TypeOK
  <2>1. ASSUME NEW i \in Items, Push(i) PROVE lst_item' = <<>>
    <3>1. ~PushAccepted(i)
      BY DEF PushAccepted, broadcast
    <3>. QED
      BY <2>1, <3>1 DEF Push, PushRejected, vars, NoLostWakeup
  <2>2. ASSUME NEW c \in Consumers, RemoveFront(c),
               pc'[w] = "wait" => pc[w] = "wait"
        PROVE  lst_item' = <<>>
    BY <2>2 DEF RemoveFront, NoLostWakeup
  <2>3. ASSUME NEW c \in Consumers, PopTake(c) PROVE lst_item' = <<>>
    BY <2>2, <2>3 DEF PopTake, PopUnlimited, PopAfterIdle, PopReachesLimit,
                      PopBelowLimit, PopInPause, PopLimited
  <2>4. ASSUME NEW c \in Consumers, PopWait(c) PROVE lst_item' = <<>>
    BY <2>4 DEF PopWait
  <2>5. ASSUME NEW c \in Consumers, NEW m \in Modes, PopEnter(c, m)
        PROVE  lst_item' = <<>>
    BY <2>5 DEF PopEnter, NoLostWakeup
  <2>6. ASSUME NEW c \in Consumers,
               \/ SpuriousWakeup(c) \/ WaitTimeout(c) \/ PopFails(c)
               \/ PopCheck(c) \/ PopMeasure(c) \/ PopWakesUp(c)
        PROVE  lst_item' = <<>>
    BY <2>6 DEF SpuriousWakeup, WaitTimeout, PopFails, PopCheck, PopMeasure,
                PopWakesUp, NoLostWakeup
  <2>7. CASE Tick \/ UNCHANGED vars
    BY <2>7 DEF Tick, vars, NoLostWakeup
  <2>. QED
    BY <2>1, <2>3, <2>4, <2>5, <2>6, <2>7 DEF Next, PopStep
<1>. QED
  BY <1>1, <1>2, TypeCorrect, PTL DEF Spec

-------------------------------------------------------------------------------
(* Refinement *)

\* A step of the queue appends one item, hands the head to one consumer, or
\* leaves the channel as it is.
LEMMA StepRefinement ==
  ASSUME TypeOK, [Next]_vars
  PROVE  [Channel!Next]_(Channel!vars)
<1>. USE DEF Channel!vars
<1>1. ASSUME NEW i \in Items, Push(i) PROVE [Channel!Next]_(Channel!vars)
  <2>1. CASE PushAccepted(i)
    <3>1. Len(lst_item) \in Nat
      BY DEF TypeOK
    <3>2. Channel!Accept(i)
      BY <2>1, <3>1 DEF PushAccepted, full, Channel!Accept
    <3>. QED
      BY <3>2 DEF Channel!Next
  <2>2. CASE PushRejected
    BY <2>2 DEF PushRejected, vars
  <2>. QED
    BY <1>1, <2>1, <2>2 DEF Push
<1>2. ASSUME NEW c \in Consumers, PopTake(c) PROVE [Channel!Next]_(Channel!vars)
  <2>1. RemoveFront(c)
    BY <1>2 DEF PopTake, PopUnlimited, PopAfterIdle, PopReachesLimit,
                PopBelowLimit, PopInPause, PopLimited
  <2>2. Channel!Deliver(c)
    BY <2>1 DEF RemoveFront, Channel!Deliver
  <2>. QED
    BY <2>2 DEF Channel!Next
<1>3. ASSUME NEW c \in Consumers,
             \/ \E m \in Modes : PopEnter(c, m)
             \/ SpuriousWakeup(c) \/ WaitTimeout(c) \/ PopWait(c) \/ PopFails(c)
             \/ PopCheck(c) \/ PopMeasure(c) \/ PopWakesUp(c)
      PROVE  UNCHANGED Channel!vars
  BY <1>3 DEF PopEnter, SpuriousWakeup, WaitTimeout, PopWait, PopFails, PopCheck,
              PopMeasure, PopWakesUp
<1>4. CASE Tick \/ UNCHANGED vars
  BY <1>4 DEF Tick, vars
<1>. QED
  BY <1>1, <1>2, <1>3, <1>4 DEF Next, PopStep

\* TQueue implements the FIFO channel.
THEOREM ImplementsChannel == Spec => ChannelSpec
<1>1. Init => Channel!Init
  BY DEF Init, Channel!Init
<1>2. TypeOK /\ [Next]_vars => [Channel!Next]_(Channel!vars)
  BY StepRefinement
<1>. QED
  BY <1>1, <1>2, TypeCorrect, PTL DEF Spec, ChannelSpec, Channel!Spec

\* The queue never holds more than _max_size + 1 items, however many producers
\* race for the last place.
THEOREM CapacityTheorem == Spec => []CapacityKept
<1>1. Init => CapacityKept
  BY DEF Init, CapacityKept
<1>2. TypeOK /\ CapacityKept /\ [Next]_vars => CapacityKept'
  <2>. SUFFICES ASSUME TypeOK, CapacityKept, [Next]_vars PROVE CapacityKept'
    OBVIOUS
  <2>1. [Channel!Next]_(Channel!vars)
    BY StepRefinement
  <2>2. lst_item \in Seq(Items)
    BY DEF TypeOK
  <2>3. ASSUME NEW i \in Items, Channel!Accept(i) PROVE CapacityKept'
    BY <2>2, <2>3 DEF Channel!Accept, CapacityKept
  <2>4. ASSUME NEW c \in Consumers, Channel!Deliver(c) PROVE CapacityKept'
    BY <2>2, <2>4 DEF Channel!Deliver, CapacityKept
  <2>5. CASE UNCHANGED Channel!vars
    BY <2>5 DEF Channel!vars, CapacityKept
  <2>. QED
    BY <2>1, <2>3, <2>4, <2>5 DEF Channel!Next
<1>. QED
  BY <1>1, <1>2, TypeCorrect, PTL DEF Spec
-------------------------------------------------------------------------------
(* The limiter *)

SecondBegins(s) == s * TicksPerSec

\* When the second after the one of the latest removal begins.
SecondEnds == SecondBegins(popped.second + 1)

\* The consumers that will not remove an item before the pause is over: they are
\* about to see that it lasts, or asleep.
HeldBack == {c \in Consumers :
               \/ pc[c] \in {"check", "measure"} /\ last_pop_ts[c] < wake_up_ts
               \/ pc[c] = "sleep" /\ wake_up_ts < deadline[c]}

\* Before the pause every removal of this second has been counted.
PauseAhead == wake_up_ts < SecondEnds =>
                /\ popped.count <= try_pop_cnt
                /\ popped.count <= BeforePause - 1
                /\ wake_up_ts <= now
                /\ popped.count > 0 => wake_up_ts < now

\* In the pause each further removal holds a consumer back.
PauseBegun == wake_up_ts = SecondEnds =>
                /\ popped.count <= BeforePause + Cardinality(Consumers)
                /\ now <= wake_up_ts => popped.count <= BeforePause + Cardinality(HeldBack)

\* The local variable is a time of the past, or the end of the pause.
StampsArePast ==
  \A c \in Consumers :
    /\ pc[c] \in {"lock", "wait", "woken"} => last_pop_ts[c] <= now
    /\ pc[c] \in {"check", "measure"} => last_pop_ts[c] < now \/ last_pop_ts[c] = wake_up_ts

RateInv == /\ popped.second <= Second(now)
           /\ wake_up_ts <= SecondEnds
           /\ PauseAhead /\ PauseBegun /\ StampsArePast

\* Once the limiter has started over it does so at each removal.
StaysIdle == ~NeverIdle => wake_up_ts <= 998 * TicksPerSec

LimiterInv == StaysIdle /\ (NeverIdle => RateInv)

LEMMA Products ==
  \A a, b \in Int : /\ SecondBegins(a) \in Int
                    /\ a < b => SecondBegins(a + 1) <= SecondBegins(b)
<1>. SUFFICES ASSUME NEW a \in Int, NEW b \in Int
              PROVE  /\ a * TicksPerSec \in Int
                     /\ a < b => (a + 1) * TicksPerSec <= b * TicksPerSec
  BY DEF SecondBegins
<1>1. a < b => (b - (a + 1)) * TicksPerSec >= 0
  OBVIOUS
<1>. QED
  BY <1>1

LEMMA SecondOf == \A t \in Int : /\ Second(t) \in Int
                                 /\ SecondBegins(Second(t)) <= t
                                 /\ t < SecondBegins(Second(t) + 1)
BY DEF Second, SecondBegins

LEMMA SecondsGrow == \A s, t \in Int : s <= t => Second(s) <= Second(t)
<1>. SUFFICES ASSUME NEW s \in Int, NEW t \in Int, s <= t, Second(t) < Second(s) PROVE FALSE
  BY SecondOf
<1>1. SecondBegins(Second(t) + 1) <= SecondBegins(Second(s))
  BY Products, SecondOf
<1>. QED
  BY <1>1, Products, SecondOf

LEMMA MSecondsBelow1000 == \A t \in Int : MSeconds(t) \in Int /\ MSeconds(t) <= 999
BY DEF MSeconds

\* A limiter that has started over does so again, whatever the time is.
LEMMA IdleForever ==
  ASSUME TypeOK, StaysIdle, ~NeverIdle
  PROVE  wake_up_ts < now /\ LongIdle
<1>1. wake_up_ts <= 998 * TicksPerSec /\ now >= 1001 * TicksPerSec /\ wake_up_ts \in Int /\ now \in Int
  BY DEF StaysIdle, TypeOK
<1>. DEFINE d == now - wake_up_ts
<1>2. d \in Int /\ d >= SecondBegins(3)
  BY <1>1 DEF SecondBegins
<1>3. Second(d) + 1 > 2
  <2>. SUFFICES ASSUME Second(d) + 1 <= 2 PROVE FALSE
    BY <1>2, SecondOf
  <2>. HIDE DEF d
  <2>1. Second(d) \in Int /\ d < SecondBegins(Second(d) + 1)
    BY <1>2, SecondOf
  <2>2. SecondBegins(Second(d) + 1) \in Int /\ SecondBegins(3) \in Int
    BY <2>1, Products
  <2>3. SecondBegins(Second(d) + 1) <= SecondBegins(3)
    <3>1. CASE Second(d) + 1 = 2
      BY <3>1, Products
    <3>2. CASE Second(d) + 1 < 2
      <4>1. SecondBegins(Second(d) + 1) <= SecondBegins(2) /\ SecondBegins(2) <= SecondBegins(3)
        BY <2>1, <3>2, Products
      <4>. QED
        BY <2>2, <4>1, Products
    <3>. QED
      BY <2>1, <3>1, <3>2
  <2>. QED
    BY <1>2, <2>1, <2>2, <2>3
<1>. QED
  BY <1>1, <1>2, <1>3, SecondOf DEF LongIdle

LEMMA HeldBackFinite ==
  ASSUME NEW S \in SUBSET Consumers
  PROVE  IsFiniteSet(S) /\ Cardinality(S) \in Nat /\ Cardinality(S) <= Cardinality(Consumers)
BY ConsumerAssumption, FS_Subset, FS_CardinalityType

\* A step that removes nothing keeps the invariant if it frees no consumer.
LEMMA QuietStep ==
  ASSUME TypeOK, RateInv, UNCHANGED <<try_pop_cnt, wake_up_ts, popped>>,
         now' \in Int, now <= now', StampsArePast',
         now' <= wake_up_ts => HeldBack \subseteq HeldBack'
  PROVE  RateInv'
<1>1. popped.second <= Second(now)'
  BY SecondsGrow, SecondOf DEF RateInv, TypeOK
<1>2. HeldBack' \subseteq Consumers
  BY DEF HeldBack
<1>3. now' <= wake_up_ts => Cardinality(HeldBack) <= Cardinality(HeldBack')
  BY <1>2, HeldBackFinite, FS_Subset
<1>4. Cardinality(HeldBack) \in Nat /\ Cardinality(HeldBack') \in Nat
  BY <1>2, HeldBackFinite DEF HeldBack
<1>5. PauseAhead' /\ PauseBegun'
  BY <1>3, <1>4, HeldBackFinite DEF RateInv, PauseAhead, PauseBegun, SecondEnds, TypeOK, BeforePause
<1>. QED
  BY <1>1, <1>5 DEF RateInv, SecondEnds

\* The steps of a consumer that neither remove an item nor block the clock.
WaitStep(c) == PopWait(c) \/ SpuriousWakeup(c) \/ WaitTimeout(c) \/ PopFails(c)

LEMMA WaitsAreQuiet ==
  ASSUME TypeOK, RateInv, NEW c \in Consumers,
         WaitStep(c) \/ \E m \in Modes : PopEnter(c, m)
  PROVE  RateInv'
<1>. USE DEF TypeOK, limiter
<1>1. /\ UNCHANGED <<try_pop_cnt, wake_up_ts, popped, now, deadline>>
      /\ \A k \in Consumers \ {c} : pc'[k] = pc[k] /\ last_pop_ts'[k] = last_pop_ts[k]
      /\ pc[c] \notin {"check", "measure", "sleep"} /\ pc'[c] \notin {"check", "measure", "sleep"}
      /\ pc[c] \in {"lock", "wait", "woken"} => last_pop_ts'[c] = last_pop_ts[c]
      /\ pc[c] \notin {"lock", "wait", "woken"} => last_pop_ts'[c] = now
  BY DEF WaitStep, PopWait, SpuriousWakeup, WaitTimeout, PopFails, PopEnter, MayWait
<1>2. StampsArePast'
  <2>. SUFFICES ASSUME NEW k \in Consumers
                PROVE  /\ pc'[k] \in {"lock", "wait", "woken"} => last_pop_ts'[k] <= now
                       /\ pc'[k] \in {"check", "measure"}
                            => last_pop_ts'[k] < now \/ last_pop_ts'[k] = wake_up_ts
    BY <1>1 DEF StampsArePast
  <2>1. /\ pc[k] \in {"lock", "wait", "woken"} => last_pop_ts[k] <= now
        /\ pc[k] \in {"check", "measure"} => last_pop_ts[k] < now \/ last_pop_ts[k] = wake_up_ts
    BY DEF RateInv, StampsArePast
  <2>2. CASE k = c
    <3>1. now \in Int
      OBVIOUS
    <3>. HIDE DEF TypeOK
    <3>. QED
      BY <1>1, <2>1, <2>2, <3>1
  <2>3. CASE k # c
    BY <1>1, <2>1, <2>3
  <2>. QED
    BY <2>2, <2>3
<1>3. HeldBack \subseteq HeldBack'
  BY <1>1 DEF HeldBack
<1>. QED
  BY <1>1, <1>2, <1>3, QuietStep

\* What a consumer does after its removal: one held back by the pause sleeps
\* beyond its end.
LEMMA SleepsAreQuiet ==
  ASSUME TypeOK, RateInv, NEW c \in Consumers,
         PopCheck(c) \/ PopMeasure(c) \/ PopWakesUp(c)
  PROVE  RateInv'
<1>. USE DEF TypeOK, limiter
<1>1. /\ UNCHANGED <<try_pop_cnt, wake_up_ts, popped, now, last_pop_ts>>
      /\ \A k \in Consumers \ {c} : pc'[k] = pc[k] /\ deadline'[k] = deadline[k]
  BY DEF PopCheck, PopMeasure, PopWakesUp
<1>2. pc[c] \in {"check", "measure", "sleep"} /\ pc'[c] \notin {"lock", "wait", "woken", "check"}
  BY DEF PopCheck, PopMeasure, PopWakesUp
<1>3. StampsArePast'
  <2>1. pc'[c] = "measure" => pc[c] = "check"
    BY DEF PopCheck, PopMeasure, PopWakesUp
  <2>. QED
    BY <1>1, <1>2, <2>1 DEF RateInv, StampsArePast
<1>4. ASSUME now <= wake_up_ts, c \in HeldBack
      PROVE  c \in HeldBack'
  <2>1. CASE PopCheck(c)
    BY <1>4, <2>1 DEF HeldBack, PopCheck
  <2>2. CASE PopMeasure(c)
    <3>1. last_pop_ts[c] < wake_up_ts /\ last_pop_ts[c] < now
      BY <1>4, <2>2 DEF HeldBack, PopMeasure, RateInv, StampsArePast
    <3>2. pc'[c] = "sleep" /\ deadline'[c] = now + (wake_up_ts - last_pop_ts[c])
      BY <2>2, <3>1 DEF PopMeasure
    <3>. QED
      BY <1>1, <3>1, <3>2 DEF HeldBack
  <2>3. CASE PopWakesUp(c)
    BY <1>4, <2>3 DEF HeldBack, PopWakesUp
  <2>. QED
    BY <2>1, <2>2, <2>3
<1>5. now <= wake_up_ts => HeldBack \subseteq HeldBack'
  BY <1>1, <1>4 DEF HeldBack
<1>. QED
  BY <1>1, <1>3, <1>5, QuietStep

\* The clock at a removal, and the second it falls into: it is that of the
\* latest removal, or a later one.
LEMMA RemovalSecond ==
  ASSUME TypeOK, RateInv, NEW c \in Consumers, PopLimited(c)
  PROVE  /\ now \in Int /\ now' = now + 1
         /\ SecondEnds \in Int /\ SecondEnds' \in Int
         /\ SecondEnds' = SecondBegins(Second(now) + 1) /\ now < SecondEnds'
         /\ popped.second' <= Second(now)'
         /\ popped.count' \in Nat
         /\ \/ popped.count' = popped.count + 1 /\ SecondEnds' = SecondEnds
            \/ popped.count' = 1 /\ SecondEnds <= now
<1>. DEFINE S == Second(now)
<1>1. now \in Int /\ now' = now + 1 /\ popped.second \in Int /\ popped.count \in Nat
  BY DEF TypeOK, PopLimited
<1>2. /\ popped.second' = S
      /\ popped.count' = IF S = popped.second THEN popped.count + 1 ELSE 1
  BY DEF PopLimited, CountRemoval
<1>3. S \in Int /\ SecondBegins(S) <= now /\ now < SecondBegins(S + 1)
  BY <1>1, SecondOf
<1>4. S <= Second(now)'
  BY <1>1, SecondsGrow
<1>5. SecondEnds' = SecondBegins(S + 1)
  BY <1>2 DEF SecondEnds, SecondBegins
<1>6. SecondEnds \in Int /\ SecondEnds' \in Int
  BY <1>1, <1>3, <1>5, Products DEF SecondEnds
<1>7. CASE S = popped.second
  BY <1>1, <1>2, <1>3, <1>4, <1>5, <1>6, <1>7 DEF SecondEnds
<1>8. CASE S # popped.second
  <2>1. popped.second < S
    BY <1>1, <1>3, <1>8 DEF RateInv
  <2>2. SecondEnds <= SecondBegins(S)
    BY <1>1, <1>3, <2>1, Products DEF SecondEnds
  <2>3. SecondEnds <= now
    BY <1>1, <1>3, <1>6, <2>2, Products
  <2>. QED
    BY <1>1, <1>2, <1>3, <1>4, <1>5, <1>6, <1>8, <2>3
<1>. QED
  BY <1>7, <1>8

\* A removal after the last pause, within the quota.
LEMMA BelowKeeps ==
  ASSUME TypeOK, RateInv, NEW c \in Consumers, PopBelowLimit(c)
  PROVE  RateInv'
<1>1. /\ PopLimited(c) /\ wake_up_ts \in Int /\ wake_up_ts < now
      /\ try_pop_cnt \in Nat /\ try_pop_cnt' = try_pop_cnt + 1 /\ try_pop_cnt' < RateLimit
      /\ wake_up_ts' = wake_up_ts /\ last_pop_ts' = last_pop_ts
      /\ popped.count \in Nat
  BY DEF PopBelowLimit, TypeOK
<1>2. StampsArePast'
  BY <1>1, RemovalSecond DEF PopLimited, RemoveFront, TypeOK, RateInv, StampsArePast
<1>3. wake_up_ts' < SecondEnds' /\ wake_up_ts' < now'
  BY <1>1, RemovalSecond
<1>4. popped.count' <= try_pop_cnt'
  <2>1. CASE popped.count' = popped.count + 1 /\ SecondEnds' = SecondEnds
    <3>1. popped.count <= try_pop_cnt
      BY <1>1, <1>3, <2>1 DEF RateInv, PauseAhead
    <3>. QED
      BY <1>1, <2>1, <3>1
  <2>2. CASE popped.count' = 1
    BY <1>1, <2>2
  <2>. QED
    BY <1>1, <2>1, <2>2, RemovalSecond
<1>5. RateLimit \in Nat /\ popped.count' \in Nat /\ now' \in Int /\ SecondEnds' \in Int
  BY <1>1, RemovalSecond, SizeAssumption
<1>6. PauseAhead'
  BY <1>1, <1>3, <1>4, <1>5 DEF PauseAhead, BeforePause
<1>7. PauseBegun'
  BY <1>1, <1>3, <1>5 DEF PauseBegun
<1>. QED
  BY <1>1, <1>2, <1>3, <1>5, <1>6, <1>7, RemovalSecond DEF RateInv

\* The removal that begins the pause.
LEMMA ReachKeeps ==
  ASSUME TypeOK, RateInv, NEW c \in Consumers, PopReachesLimit(c)
  PROVE  RateInv'
<1>1. /\ PopLimited(c) /\ wake_up_ts \in Int /\ wake_up_ts < now
      /\ last_pop_ts' = [last_pop_ts EXCEPT ![c] = wake_up_ts']
      /\ wake_up_ts' = SecondBegins(Second(now) + 1)
  BY DEF PopReachesLimit, SecondBegins, TypeOK
<1>2. wake_up_ts' = SecondEnds' /\ SecondEnds' \in Int /\ now \in Int /\ now' = now + 1
  BY <1>1, RemovalSecond
<1>3. StampsArePast'
  <2>1. \A k \in Consumers : last_pop_ts[k] \in Int
    BY DEF TypeOK
  <2>2. \A k \in Consumers : /\ pc[k] \in {"check", "measure"} => last_pop_ts[k] < now'
                             /\ pc[k] \in {"lock", "wait", "woken"} => last_pop_ts[k] <= now'
    BY <1>1, <1>2, <2>1 DEF RateInv, StampsArePast
  <2>3. pc' = [pc EXCEPT ![c] = "check"]
    BY <1>1 DEF PopLimited
  <2>. QED
    BY <1>1, <2>2, <2>3 DEF StampsArePast, TypeOK
<1>4. popped.count' <= BeforePause
  <2>1. BeforePause \in Nat /\ BeforePause >= 2 /\ popped.count \in Nat
    BY SizeAssumption DEF BeforePause, TypeOK
  <2>2. CASE popped.count' = popped.count + 1 /\ SecondEnds' = SecondEnds
    <3>1. wake_up_ts < SecondEnds
      BY <1>1, <1>2, <2>2, RemovalSecond
    <3>2. popped.count <= BeforePause - 1
      BY <3>1 DEF RateInv, PauseAhead
    <3>. QED
      BY <2>1, <2>2, <3>2
  <2>3. CASE popped.count' = 1
    BY <2>1, <2>3
  <2>. QED
    BY <1>1, <2>2, <2>3, RemovalSecond
<1>5. Cardinality(HeldBack') \in Nat /\ Cardinality(Consumers) \in Nat
  <2>1. HeldBack' \subseteq Consumers
    BY DEF HeldBack
  <2>. QED
    BY <2>1, HeldBackFinite
<1>6. BeforePause \in Nat /\ popped.count' \in Nat
  BY <1>1, RemovalSecond, SizeAssumption DEF BeforePause
<1>7. PauseAhead'
  BY <1>2 DEF PauseAhead
<1>8. PauseBegun'
  BY <1>4, <1>5, <1>6 DEF PauseBegun
<1>. QED
  BY <1>1, <1>2, <1>3, <1>7, <1>8, RemovalSecond DEF RateInv

\* A removal in the pause, or at the very end of the last one.
LEMMA PauseKeeps ==
  ASSUME TypeOK, RateInv, NEW c \in Consumers, PopInPause(c)
  PROVE  RateInv'
<1>1. /\ PopLimited(c) /\ wake_up_ts \in Int /\ now <= wake_up_ts
      /\ try_pop_cnt \in Nat /\ try_pop_cnt' = try_pop_cnt + 1
      /\ last_pop_ts' = [last_pop_ts EXCEPT ![c] = now] /\ wake_up_ts' = wake_up_ts
  BY DEF PopInPause, TypeOK
<1>2. /\ pc[c] \in {"lock", "woken"} /\ pc' = [pc EXCEPT ![c] = "check"] /\ deadline' = deadline
      /\ popped.count \in Nat /\ wake_up_ts <= SecondEnds
  BY <1>1 DEF PopLimited, RemoveFront, TypeOK, RateInv
<1>3. StampsArePast'
  BY <1>1, <1>2, RemovalSecond DEF TypeOK, RateInv, StampsArePast
<1>4. BeforePause \in Nat /\ BeforePause >= 2
  BY SizeAssumption DEF BeforePause
\* The first removal of a new second, at its first tick, or the very first.
<1>5. CASE popped.count' = 1 /\ wake_up_ts < SecondEnds'
  <2>1. /\ now \in Int /\ now' = now + 1 /\ SecondEnds \in Int /\ SecondEnds' \in Int
        /\ \/ popped.count' = popped.count + 1 /\ SecondEnds' = SecondEnds
           \/ SecondEnds <= now
    BY <1>1, RemovalSecond
  <2>2. wake_up_ts <= now
    <3>1. CASE SecondEnds <= now
      BY <1>1, <1>2, <2>1, <3>1
    <3>2. CASE SecondEnds' = SecondEnds
      BY <1>5, <3>2 DEF RateInv, PauseAhead
    <3>. QED
      BY <2>1, <3>1, <3>2
  <2>3. wake_up_ts' < now'
    BY <1>1, <2>1, <2>2
  <2>4. PauseAhead'
    BY <1>1, <1>4, <1>5, <2>1, <2>3 DEF PauseAhead
  <2>5. PauseBegun'
    BY <1>1, <1>5, <2>1 DEF PauseBegun
  <2>. QED
    BY <1>1, <1>3, <1>5, <2>1, <2>4, <2>5, RemovalSecond DEF RateInv
<1>6. CASE SecondEnds' = SecondEnds /\ popped.count' = popped.count + 1 /\ wake_up_ts = SecondEnds
  <2>1. now < wake_up_ts
    BY <1>1, <1>6, RemovalSecond
  <2>2. c \notin HeldBack /\ HeldBack \cup {c} \subseteq HeldBack'
    BY <1>1, <1>2, <2>1 DEF HeldBack, TypeOK
  <2>3. HeldBack \subseteq Consumers /\ HeldBack' \subseteq Consumers
    BY DEF HeldBack
  <2>4. Cardinality(HeldBack \cup {c}) = Cardinality(HeldBack) + 1
    BY <2>2, <2>3, HeldBackFinite, FS_AddElement
  <2>5. Cardinality(HeldBack) + 1 <= Cardinality(HeldBack')
    BY <2>2, <2>3, <2>4, HeldBackFinite, FS_Subset
  <2>6. /\ Cardinality(HeldBack) \in Nat /\ Cardinality(HeldBack') \in Nat
        /\ Cardinality(Consumers) \in Nat /\ Cardinality(HeldBack') <= Cardinality(Consumers)
    BY <2>3, HeldBackFinite
  <2>7. popped.count <= BeforePause + Cardinality(HeldBack)
    BY <1>1, <1>6 DEF RateInv, PauseBegun
  <2>8. popped.count' <= BeforePause + Cardinality(HeldBack')
    BY <1>2, <1>4, <1>6, <2>5, <2>6, <2>7
  <2>9. PauseAhead' /\ PauseBegun'
    BY <1>1, <1>4, <1>6, <2>6, <2>8, RemovalSecond DEF PauseAhead, PauseBegun
  <2>. QED
    BY <1>1, <1>3, <1>6, <2>9, RemovalSecond DEF RateInv
<1>7. wake_up_ts < SecondEnds => popped.count = 0
  BY <1>1, <1>2, RemovalSecond DEF RateInv, PauseAhead
<1>8. /\ SecondEnds \in Int /\ SecondEnds' \in Int /\ now \in Int /\ now < SecondEnds'
      /\ \/ popped.count' = popped.count + 1 /\ SecondEnds' = SecondEnds
         \/ popped.count' = 1 /\ SecondEnds <= now
  BY <1>1, RemovalSecond
<1>. QED
  BY <1>1, <1>2, <1>5, <1>6, <1>7, <1>8

\* The steps that leave _mutex and the limiter alone, and the clock.
LEMMA OthersAreQuiet ==
  ASSUME TypeOK, TypeOK', RateInv,
         \/ \E i \in Items : PushAccepted(i)
         \/ \E c \in Consumers : PopUnlimited(c)
         \/ Tick
         \/ UNCHANGED vars
  PROVE  RateInv'
<1>1. /\ UNCHANGED <<try_pop_cnt, wake_up_ts, popped, last_pop_ts, deadline>>
      /\ now \in Int /\ now' \in Int /\ now <= now'
  BY DEF PushAccepted, PopUnlimited, RemoveFront, Tick, vars, limiter, TypeOK
<1>2. \A k \in Consumers : \/ pc'[k] = pc[k]
                           \/ /\ pc[k] \in {"lock", "wait", "woken"}
                              /\ pc'[k] \in {"woken", "idle"}
  BY DEF PushAccepted, broadcast, PopUnlimited, RemoveFront, Tick, vars, TypeOK
<1>3. StampsArePast'
  <2>. SUFFICES ASSUME NEW k \in Consumers
                PROVE  /\ pc'[k] \in {"lock", "wait", "woken"} => last_pop_ts'[k] <= now'
                       /\ pc'[k] \in {"check", "measure"}
                            => last_pop_ts'[k] < now' \/ last_pop_ts'[k] = wake_up_ts'
    BY DEF StampsArePast
  <2>1. /\ pc[k] \in {"lock", "wait", "woken"} => last_pop_ts[k] <= now
        /\ pc[k] \in {"check", "measure"} => last_pop_ts[k] < now \/ last_pop_ts[k] = wake_up_ts
    BY DEF RateInv, StampsArePast
  <2>2. last_pop_ts[k] \in Int
    BY DEF TypeOK
  <2>. QED
    BY <1>1, <1>2, <2>1, <2>2
<1>4. HeldBack \subseteq HeldBack'
  BY <1>1, <1>2 DEF HeldBack
<1>. QED
  BY <1>1, <1>3, <1>4, QuietStep

\* Starting over puts _wake_up_ts before the program began.
LEMMA AfterIdle ==
  ASSUME TypeOK, NEW c \in Consumers, PopAfterIdle(c)
  PROVE  ~NeverIdle' /\ StaysIdle'
<1>. DEFINE m == MSeconds(now)
<1>1. wake_up_ts' = (m - 1) * TicksPerSec /\ m \in Int /\ m <= 999
  BY MSecondsBelow1000 DEF PopAfterIdle, TypeOK
<1>. HIDE DEF m
<1>2. (m - 1) * TicksPerSec + (999 - m) * TicksPerSec = 998 * TicksPerSec
  BY <1>1, ClockAssumption
<1>3. (999 - m) * TicksPerSec >= 0 /\ (m - 1) * TicksPerSec \in Int
  BY <1>1, ClockAssumption
<1>4. (m - 1) * TicksPerSec <= 998 * TicksPerSec
  BY <1>1, <1>2, <1>3, ClockAssumption
<1>5. 998 * TicksPerSec < StartTime
  BY ClockAssumption
<1>. QED
  BY <1>1, <1>3, <1>4, <1>5, ClockAssumption DEF NeverIdle, StaysIdle

\* What becomes of the limiter in a step: a limiter that has started over stays
\* so, one that has not keeps the quota.
LEMMA LimiterStep ==
  ASSUME TypeOK, TypeOK', LimiterInv, [Next]_vars
  PROVE  LimiterInv'
<1>1. CASE \E c \in Consumers : PopAfterIdle(c)
  BY <1>1, AfterIdle DEF LimiterInv
<1>2. CASE \E c \in Consumers : PopReachesLimit(c) \/ PopBelowLimit(c) \/ PopInPause(c)
  <2>1. PICK c \in Consumers : PopReachesLimit(c) \/ PopBelowLimit(c) \/ PopInPause(c)
    BY <1>2
  <2>2. NeverIdle
    <3>. SUFFICES ASSUME ~NeverIdle PROVE FALSE
      OBVIOUS
    <3>1. wake_up_ts < now /\ LongIdle
      BY IdleForever DEF LimiterInv
    <3>. QED
      BY <2>1, <3>1 DEF PopReachesLimit, PopBelowLimit, PopInPause, TypeOK
  <2>3. RateInv'
    BY <2>1, <2>2, ReachKeeps, BelowKeeps, PauseKeeps DEF LimiterInv
  <2>4. NeverIdle'
    <3>1. CASE PopReachesLimit(c)
      <4>1. wake_up_ts' = SecondBegins(Second(now) + 1)
        BY <3>1 DEF PopReachesLimit, SecondBegins
      <4>2. now \in Int /\ now >= StartTime
        BY DEF TypeOK
      <4>. QED
        BY <4>1, <4>2, SecondOf, Products, ClockAssumption DEF NeverIdle
    <3>2. CASE PopBelowLimit(c) \/ PopInPause(c)
      BY <2>2, <3>2 DEF NeverIdle, PopBelowLimit, PopInPause
    <3>. QED
      BY <2>1, <3>1, <3>2
  <2>. QED
    BY <2>3, <2>4 DEF LimiterInv, StaysIdle
<1>3. ASSUME UNCHANGED wake_up_ts, NeverIdle => RateInv'
      PROVE  LimiterInv'
  BY <1>3 DEF LimiterInv, StaysIdle, NeverIdle
<1>4. CASE \E c \in Consumers : WaitStep(c) \/ \E m \in Modes : PopEnter(c, m)
  <2>1. UNCHANGED wake_up_ts
    BY <1>4 DEF WaitStep, PopWait, SpuriousWakeup, WaitTimeout, PopFails, PopEnter, limiter
  <2>. QED
    BY <1>3, <1>4, <2>1, WaitsAreQuiet DEF LimiterInv
<1>5. CASE \E c \in Consumers : PopCheck(c) \/ PopMeasure(c) \/ PopWakesUp(c)
  <2>1. UNCHANGED wake_up_ts
    BY <1>5 DEF PopCheck, PopMeasure, PopWakesUp, limiter
  <2>. QED
    BY <1>3, <1>5, <2>1, SleepsAreQuiet DEF LimiterInv
<1>6. CASE \/ \E i \in Items : PushAccepted(i)
           \/ \E c \in Consumers : PopUnlimited(c)
           \/ Tick
           \/ UNCHANGED vars
  <2>1. UNCHANGED wake_up_ts
    BY <1>6 DEF PushAccepted, PopUnlimited, Tick, vars, limiter
  <2>. QED
    BY <1>3, <1>6, <2>1, OthersAreQuiet DEF LimiterInv
<1>. QED
  BY <1>1, <1>2, <1>4, <1>5, <1>6
     DEF Next, Push, PushRejected, PopStep, PopTake, WaitStep

LEMMA LimiterBegins == Init => LimiterInv
<1>. SUFFICES ASSUME Init PROVE LimiterInv
  OBVIOUS
<1>. DEFINE s == Second(StartTime)
<1>1. /\ StartTime \in Int /\ s \in Int
      /\ StartTime < SecondBegins(s + 1) /\ SecondBegins(s + 1) \in Int
  BY SecondOf, Products, ClockAssumption
<1>2. popped.second = s /\ popped.count = 0 /\ SecondEnds = SecondBegins(s + 1)
  BY DEF Init, SecondEnds
<1>3. now = StartTime /\ wake_up_ts = StartTime /\ try_pop_cnt = 0
  BY DEF Init
<1>4. StampsArePast
  BY DEF Init, StampsArePast
<1>5. BeforePause \in Nat /\ BeforePause >= 2
  BY SizeAssumption DEF BeforePause
<1>6. PauseAhead /\ PauseBegun
  BY <1>1, <1>2, <1>3, <1>5 DEF PauseAhead, PauseBegun
<1>. QED
  BY <1>1, <1>2, <1>3, <1>4, <1>6 DEF LimiterInv, StaysIdle, NeverIdle, RateInv

\* Until the limiter starts over, the removals of one second (TQueue.h:43-119)
\* exceed the quota of the second by at most one for each consumer: those that
\* come after the pause has begun each put their thread to sleep.
THEOREM RateIsKept == Spec => []RateKept
<1>1. TypeOK /\ LimiterInv => RateKept
  <2>. SUFFICES ASSUME TypeOK, RateInv
                PROVE  popped.count <= BeforePause + Cardinality(Consumers)
    BY DEF LimiterInv, RateKept
  <2>1. /\ popped.count \in Nat /\ BeforePause \in Nat
        /\ wake_up_ts \in Int /\ SecondEnds \in Int /\ Cardinality(Consumers) \in Nat
    <3>1. popped.count \in Nat /\ popped.second \in Int /\ wake_up_ts \in Int
      BY DEF TypeOK
    <3>2. BeforePause \in Nat
      BY SizeAssumption DEF BeforePause
    <3>3. SecondEnds \in Int
      BY <3>1, Products DEF SecondEnds
    <3>4. Cardinality(Consumers) \in Nat
      BY HeldBackFinite
    <3>. QED
      BY <3>1, <3>2, <3>3, <3>4
  <2>2. CASE wake_up_ts < SecondEnds
    <3>1. popped.count <= BeforePause - 1
      BY <2>2 DEF RateInv, PauseAhead
    <3>. QED
      BY <2>1, <3>1
  <2>3. CASE wake_up_ts = SecondEnds
    BY <2>3 DEF RateInv, PauseBegun
  <2>4. wake_up_ts <= SecondEnds
    BY DEF RateInv
  <2>. QED
    BY <2>1, <2>2, <2>3, <2>4
<1>2. Init => LimiterInv
  BY LimiterBegins
<1>3. TypeOK /\ TypeOK' /\ LimiterInv /\ [Next]_vars => LimiterInv'
  BY LimiterStep
<1>. QED
  BY <1>1, <1>2, <1>3, TypeCorrect, PTL DEF Spec
=============================================================================
