--------------------------- MODULE RendezvousProofs ---------------------------
(***************************************************************************)
(* Proofs about the places where threads wait for each other.              *)
(*                                                                         *)
(* The mailbox (TMapString), for any consumers, keys and items; and the    *)
(* thread pool that meets (Thread, ThreadMeet), for every number of        *)
(* threads and parties.                                                    *)
(***************************************************************************)
EXTENDS Mailbox, MeetingPool, FiniteSetTheorems, TLAPS

-------------------------------------------------------------------------------
(* The mailbox *)

\* The steps of a consumer after which it has no item it did not have before.
TakesNothing(c) == \/ \E m \in Modes, k \in Keys : PopEnter(c, m, k)
                   \/ PopFrontEnter(c)
                   \/ WokenUnasked(c) \/ WaitTimeout(c)
                   \/ Wait(c) \/ NotThere(c) \/ GivesUp(c)

LEMMA StepCases ==
  ASSUME [MailboxNext]_mailboxVars
  PROVE  \/ \E k \in Keys, i \in Items : PushInserts(k, i) \/ PushDropped(k, i)
         \/ \E c \in Consumers : Take(c) \/ TakesNothing(c)
         \/ UNCHANGED mailboxVars
BY DEF MailboxNext, push, PopStep, TakesNothing

\* Entering a pop, for one key or (pop_front) for all.
LEMMA EnterCases ==
  ASSUME NEW c \in Consumers,
         (\E m \in Modes, k \in Keys : PopEnter(c, m, k)) \/ PopFrontEnter(c)
  PROVE  \E m \in Modes, ks \in SUBSET Keys : Enter(c, m, ks)
<1>1. CASE PopFrontEnter(c)
  BY <1>1 DEF PopFrontEnter, Modes
<1>2. ASSUME NEW m \in Modes, NEW k \in Keys, PopEnter(c, m, k)
      PROVE  \E n \in Modes, ks \in SUBSET Keys : Enter(c, n, ks)
  <2>1. Enter(c, m, {k}) /\ {k} \in SUBSET Keys
    BY <1>2 DEF PopEnter
  <2>. QED
    BY <2>1
<1>. QED
  BY <1>1, <1>2

-------------------------------------------------------------------------------
(* The types *)

LEMMA TypeInductive == MailboxTypeOK /\ [MailboxNext]_mailboxVars => MailboxTypeOK'
<1>. SUFFICES ASSUME MailboxTypeOK, [MailboxNext]_mailboxVars PROVE MailboxTypeOK'
  OBVIOUS
<1>. USE DEF MailboxTypeOK
<1>1. ASSUME NEW k \in Keys, NEW i \in Items, PushInserts(k, i) PROVE MailboxTypeOK'
  <2>1. /\ DOMAIN items' = DOMAIN items \cup {k}
        /\ items' \in [DOMAIN items' -> Items]
    BY <1>1 DEF PushInserts
  <2>. QED
    BY <1>1, <2>1 DEF PushInserts, broadcast
<1>2. ASSUME NEW k \in Keys, NEW i \in Items, PushDropped(k, i) PROVE MailboxTypeOK'
  BY <1>2 DEF PushDropped, broadcast
<1>3. ASSUME NEW c \in Consumers, Take(c) PROVE MailboxTypeOK'
  <2>1. PICK k \in Keys : /\ Least(c, k)
                          /\ item' = [item EXCEPT ![c] = items[k]]
                          /\ items' = [l \in DOMAIN items \ {k} |-> items[l]]
    BY <1>3 DEF Take
  <2>2. items[k] \in Items
    BY <2>1 DEF Least, Present
  <2>3. DOMAIN items' \subseteq Keys /\ items' \in [DOMAIN items' -> Items]
    BY <2>1
  <2>4. item' \in [Consumers -> Items \cup {NoItem}]
    BY <2>1, <2>2
  <2>. QED
    BY <1>3, <2>3, <2>4 DEF Take
<1>4. ASSUME NEW c \in Consumers, NEW m \in Modes, NEW ks \in SUBSET Keys, Enter(c, m, ks)
      PROVE  MailboxTypeOK'
  BY <1>4 DEF Enter
<1>5. ASSUME NEW c \in Consumers,
             \/ WokenUnasked(c) \/ WaitTimeout(c)
             \/ Wait(c) \/ NotThere(c) \/ GivesUp(c)
      PROVE  MailboxTypeOK'
  BY <1>5 DEF WokenUnasked, WaitTimeout, Wait, NotThere, GivesUp
<1>6. ASSUME NEW c \in Consumers, TakesNothing(c) PROVE MailboxTypeOK'
  BY <1>4, <1>5, <1>6, EnterCases DEF TakesNothing
<1>7. CASE UNCHANGED mailboxVars
  BY <1>7 DEF mailboxVars, callVars
<1>. QED
  BY <1>1, <1>2, <1>3, <1>6, <1>7, StepCases

\* Type correctness: in particular an item is only ever under one of the keys.
THEOREM MailboxTypeCorrect == MailboxSpec => []MailboxTypeOK
<1>1. MailboxInit => MailboxTypeOK
  BY DEF MailboxInit, MailboxTypeOK, Modes
<1>. QED
  BY <1>1, TypeInductive, PTL DEF MailboxSpec

-------------------------------------------------------------------------------
(* No consumer sleeps beside an item it could take. *)

LEMMA SleepInductive ==
  MailboxTypeOK /\ NobodySleepsBesideItem /\ [MailboxNext]_mailboxVars => NobodySleepsBesideItem'
<1>. SUFFICES ASSUME MailboxTypeOK, NobodySleepsBesideItem, [MailboxNext]_mailboxVars,
                     NEW w \in Consumers, pc'[w] = "wait"
              PROVE  want'[w] \cap DOMAIN items' = {}
  BY DEF NobodySleepsBesideItem, Present
<1>. USE DEF MailboxTypeOK, NobodySleepsBesideItem, Present
<1>1. ASSUME NEW k \in Keys, NEW i \in Items, PushInserts(k, i) \/ PushDropped(k, i)
      PROVE  FALSE
  BY <1>1 DEF PushInserts, PushDropped, broadcast
<1>2. ASSUME NEW c \in Consumers, Take(c) PROVE want'[w] \cap DOMAIN items' = {}
  <2>1. DOMAIN items' \subseteq DOMAIN items
    BY <1>2 DEF Take
  <2>2. pc[w] = "wait" /\ want' = want
    BY <1>2 DEF Take
  <2>. QED
    BY <2>1, <2>2
<1>3. ASSUME NEW c \in Consumers, Wait(c) PROVE want'[w] \cap DOMAIN items' = {}
  BY <1>3 DEF Wait, WaitsInLoop, WaitsOnce
<1>4. ASSUME NEW c \in Consumers, NEW m \in Modes, NEW ks \in SUBSET Keys, Enter(c, m, ks)
      PROVE  want'[w] \cap DOMAIN items' = {}
  BY <1>4 DEF Enter
<1>5. ASSUME NEW c \in Consumers,
             WokenUnasked(c) \/ WaitTimeout(c) \/ NotThere(c) \/ GivesUp(c)
      PROVE  want'[w] \cap DOMAIN items' = {}
  BY <1>5 DEF WokenUnasked, WaitTimeout, NotThere, GivesUp
<1>6. ASSUME NEW c \in Consumers, TakesNothing(c) PROVE want'[w] \cap DOMAIN items' = {}
  BY <1>3, <1>4, <1>5, <1>6, EnterCases DEF TakesNothing
<1>7. CASE UNCHANGED mailboxVars
  BY <1>7 DEF mailboxVars, callVars
<1>. QED
  BY <1>1, <1>2, <1>6, <1>7, StepCases

\* A push of any key empties the wait set, and a consumer goes to sleep only
\* when, under the lock, it has seen nothing that it wants.
THEOREM NobodySleeps == MailboxSpec => []NobodySleepsBesideItem
<1>1. MailboxInit => NobodySleepsBesideItem
  BY DEF MailboxInit, NobodySleepsBesideItem
<1>. QED
  BY <1>1, SleepInductive, MailboxTypeCorrect, PTL DEF MailboxSpec

-------------------------------------------------------------------------------
(* What a call returns is what it did. *)

\* A call that is still going on has taken nothing; its nRet is 0 or the result
\* of the one wait that may time out.
CallInv == \A c \in Consumers : pc[c] # "idle" =>
             /\ ~got[c]
             /\ ret[c] = "ok" \/ (ret[c] = "timeout" /\ mode[c] = "timed")

LEMMA AnswerInductive ==
  MailboxTypeOK /\ AnswerIsHonest /\ CallInv /\ [MailboxNext]_mailboxVars => AnswerIsHonest' /\ CallInv'
<1>. SUFFICES ASSUME MailboxTypeOK, AnswerIsHonest, CallInv, [MailboxNext]_mailboxVars
              PROVE  AnswerIsHonest' /\ CallInv'
  OBVIOUS
<1>. USE DEF MailboxTypeOK, AnswerIsHonest, CallInv
<1>1. ASSUME NEW k \in Keys, NEW i \in Items, PushInserts(k, i) \/ PushDropped(k, i)
      PROVE  AnswerIsHonest' /\ CallInv'
  BY <1>1 DEF PushInserts, PushDropped, broadcast
<1>2. ASSUME NEW c \in Consumers, Take(c) PROVE AnswerIsHonest' /\ CallInv'
  BY <1>2 DEF Take
<1>3. ASSUME NEW c \in Consumers, NEW m \in Modes, NEW ks \in SUBSET Keys, Enter(c, m, ks)
      PROVE  AnswerIsHonest' /\ CallInv'
  BY <1>3 DEF Enter
<1>4. ASSUME NEW c \in Consumers, WokenUnasked(c) \/ WaitTimeout(c) \/ Wait(c)
      PROVE  AnswerIsHonest' /\ CallInv'
  BY <1>4 DEF WokenUnasked, WaitTimeout, Wait, Inside
<1>5. ASSUME NEW c \in Consumers, NotThere(c) \/ GivesUp(c)
      PROVE  AnswerIsHonest' /\ CallInv'
  BY <1>5 DEF NotThere, GivesUp, Inside
<1>6. ASSUME NEW c \in Consumers, TakesNothing(c) PROVE AnswerIsHonest' /\ CallInv'
  BY <1>3, <1>4, <1>5, <1>6, EnterCases DEF TakesNothing
<1>7. CASE UNCHANGED mailboxVars
  BY <1>7 DEF mailboxVars, callVars
<1>. QED
  BY <1>1, <1>2, <1>6, <1>7, StepCases

\* An error means that nothing was taken, and 0 from the pops without a timeout
\* that an item was.
THEOREM AnswersAreHonest == MailboxSpec => []AnswerIsHonest
<1>1. MailboxInit => AnswerIsHonest /\ CallInv
  BY DEF MailboxInit, AnswerIsHonest, CallInv
<1>. QED
  BY <1>1, AnswerInductive, MailboxTypeCorrect, PTL DEF MailboxSpec

-------------------------------------------------------------------------------
(* Refinement *)

LEMMA StepRefinement ==
  ASSUME MailboxTypeOK, [MailboxNext]_mailboxVars
  PROVE  [Store!Next]_(Store!vars)
<1>. USE DEF Store!vars
<1>1. ASSUME NEW k \in Keys, NEW i \in Items, PushInserts(k, i)
      PROVE  [Store!Next]_(Store!vars)
  BY <1>1 DEF PushInserts, Store!Put, Store!Next
<1>2. ASSUME NEW k \in Keys, NEW i \in Items, PushDropped(k, i)
      PROVE  UNCHANGED Store!vars
  BY <1>2 DEF PushDropped
<1>3. ASSUME NEW c \in Consumers, Take(c) PROVE [Store!Next]_(Store!vars)
  <2>1. PICK k \in Keys : /\ Least(c, k)
                          /\ item' = [item EXCEPT ![c] = items[k]]
                          /\ items' = [l \in DOMAIN items \ {k} |-> items[l]]
    BY <1>3 DEF Take
  <2>2. want' = want
    BY <1>3 DEF Take
  <2>3. Store!Hand(c, k)
    BY <2>1, <2>2 DEF Least, Present, Store!Hand, Store!Without
  <2>. QED
    BY <2>3 DEF Store!Next
<1>4. ASSUME NEW c \in Consumers, NEW m \in Modes, NEW ks \in SUBSET Keys, Enter(c, m, ks)
      PROVE  [Store!Next]_(Store!vars)
  BY <1>4 DEF Enter, Store!Ask, Store!Next
<1>5. ASSUME NEW c \in Consumers,
             \/ WokenUnasked(c) \/ WaitTimeout(c)
             \/ Wait(c) \/ NotThere(c) \/ GivesUp(c)
      PROVE  UNCHANGED Store!vars
  BY <1>5 DEF WokenUnasked, WaitTimeout, Wait, NotThere, GivesUp
<1>6. ASSUME NEW c \in Consumers, TakesNothing(c) PROVE [Store!Next]_(Store!vars)
  BY <1>4, <1>5, <1>6, EnterCases DEF TakesNothing
<1>7. CASE UNCHANGED mailboxVars
  BY <1>7 DEF mailboxVars, callVars
<1>. QED
  BY <1>1, <1>2, <1>3, <1>6, <1>7, StepCases

\* TMapString implements the keyed store: each removal hands the item of the
\* least wanted key to one consumer, and a push adds an item or changes nothing.
THEOREM ImplementsStore == MailboxSpec => StoreSpec
<1>1. MailboxInit => Store!Init
  BY DEF MailboxInit, Store!Init
<1>2. MailboxTypeOK /\ [MailboxNext]_mailboxVars => [Store!Next]_(Store!vars)
  BY StepRefinement
<1>. QED
  BY <1>1, <1>2, MailboxTypeCorrect, PTL DEF MailboxSpec, StoreSpec, Store!Spec

-------------------------------------------------------------------------------
(* The meeting pool: the step lemmas of ThreadLife and ThreadMeet are stated *)
(* for each of them alone; every step of the pool is a step, or a stutter,   *)
(* of both.                                                                  *)

\* What one thread, and an init that found none alive, make true of the members.
LifeInv ==
  thr_cnt = 1 /\ ~restarted =>
    /\ \A t, u \in Alive : t = u
    /\ status = "EXIT" => Alive = {}
    /\ opc = "idle" => /\ status = "INIT" => Alive = {} /\ attr = "valid"
                       /\ ~detached => Alive = {}
    /\ opc = "create" /\ made = 0 => Alive = {} /\ attr = "valid" /\ status = "INIT"
    /\ opc = "create" /\ made = 1 => /\ status = "INIT" => Alive = {} /\ attr = "valid"
                                     /\ ~detached => Alive \subseteq {thread}
    /\ opc = "created" => Alive \subseteq {thread}

\* An undisturbed meeting: who has come is waiting until the last one comes.
MeetInv ==
  /\ NobodyIsLeftBehind
  /\ ~disturbed /\ count > 0 =>
       /\ \A t \in Threads : mpc[t] = IF t \in came THEN "wait" ELSE "away"
       /\ count + Cardinality(came) = Parties
  /\ ~disturbed /\ count = 0 => Cardinality(came) >= Parties

MeetNext == \/ Reset \/ SetMaxcount
            \/ \E t \in Threads : \/ PassesBy(t) \/ Waits(t) \/ Completes(t) \/ Returns(t)
                                  \/ TimeOut(t) \/ SpuriousWakeup(t) \/ GoesOn(t)

\* A step of the pool is a step of its threads' lives, or leaves them alone.
LEMMA LifeStep == [PoolNext]_poolVars => [Next]_vars
BY DEF PoolNext, PoolThread, Meet, Spurious, SvcEnds, OutsideSvc, Owner, Next,
       thread_proc, poolVars

\* A step of the pool is a step of the meeting, or leaves it alone.
LEMMA MeetStep == [PoolNext]_poolVars => [MeetNext]_meetVars
BY DEF PoolNext, PoolThread, Meet, Spurious, SvcEnds, OutsideSvc, Owner, MeetNext, poolVars

-------------------------------------------------------------------------------

LEMMA LifeType == TypeOK /\ [Next]_vars => TypeOK'
<1> SUFFICES ASSUME TypeOK, [Next]_vars PROVE TypeOK'
  OBVIOUS
<1> USE ThreadAssumption DEF TypeOK, members, locals, Threads, NoThread
<1>1. ASSUME NEW cnt \in 1 .. MaxCnt, NEW detach \in BOOLEAN, InitWith(cnt, detach),
             status' \in {"INIT", status}, attr' \in {"none", "valid"}
      PROVE  TypeOK'
  <2>1. restarted' \in BOOLEAN
    BY <1>1, Zenon DEF InitWith
  <2>2. /\ opc' = "idle" /\ made' = made /\ thr_cnt' = cnt /\ detached' = detach
        /\ opc = "idle" /\ stopped' = FALSE /\ thread' = thread
        /\ tpc' = tpc
    BY <1>1 DEF InitWith
  <2>3. made' \in 0 .. thr_cnt' /\ made' = 0 /\ thr_cnt' \in 1 .. MaxCnt
    BY <2>2
  <2> QED BY <1>1, <2>1, <2>2, <2>3, Zenon
<1>2. CASE RunBegins \/ CreateFails \/ SetRun \/ RunReturns \/ RunJoins
  BY <1>2 DEF RunBegins, CreateFails, SetRun, RunReturns, RunJoins, LeavesRun
<1>3. CASE Create
  BY <1>3 DEF Create, CreateIn
<1>4. CASE stop
  BY <1>4 DEF stop
<1>5. ASSUME NEW t \in Threads, thread_proc(t) PROVE TypeOK'
  BY <1>5 DEF thread_proc, Prepared, PrepareFails, svc, svcFails, exit, ChecksStop,
              clean_up, SetExit, Goto
<1>6. CASE UNCHANGED vars
  BY <1>6 DEF vars
<1> QED BY <1>1, <1>2, <1>3, <1>4, <1>5, <1>6 DEF Next, init, InitFails, run

LEMMA MeetType == MeetTypeOK(Threads) /\ [MeetNext]_meetVars => MeetTypeOK(Threads)'
<1> SUFFICES ASSUME MeetTypeOK(Threads), [MeetNext]_meetVars PROVE MeetTypeOK(Threads)'
  OBVIOUS
<1> USE MeetAssumption DEF MeetTypeOK
<1>1. CASE Reset \/ SetMaxcount \/ UNCHANGED meetVars
  BY <1>1 DEF Reset, SetMaxcount, meetVars
<1>2. ASSUME NEW t \in Threads,
             PassesBy(t) \/ Waits(t) \/ Returns(t) \/ WaitEnds(t) \/ GoesOn(t)
      PROVE  MeetTypeOK(Threads)'
  <2>1. mpc' \in [Threads -> {"away", "wait", "woken", "back"}] /\ came' \subseteq Threads
    BY <1>2 DEF PassesBy, Waits, Returns, WaitEnds, GoesOn, Arrive
  <2>2. count' \in Nat /\ maxCount' = maxCount
    BY <1>2 DEF PassesBy, Waits, Returns, WaitEnds, GoesOn
  <2>3. disturbed' = disturbed \/ disturbed' = TRUE
    BY <1>2 DEF PassesBy, Waits, Returns, WaitEnds, GoesOn
  <2> QED BY <2>1, <2>2, <2>3
<1>3. ASSUME NEW t \in Threads, Completes(t) PROVE MeetTypeOK(Threads)'
  <2>1. mpc' \in [Threads -> {"away", "wait", "woken", "back"}]
    BY <1>3 DEF Completes
  <2> QED BY <1>3, <2>1 DEF Completes, Arrive
<1> QED BY <1>1, <1>2, <1>3 DEF MeetNext, TimeOut, SpuriousWakeup

\* The types, and that a thread is in Meet only during its svc.
THEOREM PoolTypeCorrect == PoolSpec => []PoolTypeOK
<1>1. PoolInit => PoolTypeOK
  <2> SUFFICES ASSUME PoolInit PROVE PoolTypeOK
    OBVIOUS
  <2>1. TypeOK
    <3>1. tpc \in [Threads -> {"none"}] /\ thr_cnt \in 1 .. MaxCnt /\ made \in 0 .. thr_cnt
      BY ThreadAssumption DEF PoolInit, Init
    <3> QED BY <3>1 DEF PoolInit, Init, TypeOK
  <2>2. MeetTypeOK(Threads)
    BY MeetAssumption DEF PoolInit, MeetInit, MeetTypeOK, Parties
  <2> QED BY <2>1, <2>2 DEF PoolInit, MeetInit, PoolTypeOK
<1>2. PoolTypeOK /\ [PoolNext]_poolVars => PoolTypeOK'
  <2> SUFFICES ASSUME PoolTypeOK, [PoolNext]_poolVars PROVE PoolTypeOK'
    OBVIOUS
  <2>1. TypeOK' /\ MeetTypeOK(Threads)'
    BY LifeStep, MeetStep, LifeType, MeetType DEF PoolTypeOK
  <2> SUFFICES \A t \in Threads : mpc'[t] # "away" => tpc'[t] = "svc"
    BY <2>1 DEF PoolTypeOK
  <2> USE DEF PoolTypeOK, TypeOK, MeetTypeOK
  <2>2. ASSUME NEW t \in Threads, Meet(t)
        PROVE  \A u \in Threads : mpc'[u] # "away" => tpc'[u] = "svc"
    BY <2>2 DEF Meet, PassesBy, Waits, Completes, Returns, TimeOut, WaitEnds, Arrive, vars
  <2>3. ASSUME NEW t \in Threads, SvcEnds(t)
        PROVE  \A u \in Threads : mpc'[u] # "away" => tpc'[u] = "svc"
    BY <2>3 DEF SvcEnds, GoesOn, svc, svcFails, exit, Goto
  <2>4. ASSUME NEW t \in Threads, OutsideSvc(t)
        PROVE  \A u \in Threads : mpc'[u] # "away" => tpc'[u] = "svc"
    BY <2>4 DEF OutsideSvc, Prepared, PrepareFails, ChecksStop, clean_up, SetExit, Goto,
                meetVars
  <2>5. ASSUME NEW t \in Threads, Spurious(t)
        PROVE  \A u \in Threads : mpc'[u] # "away" => tpc'[u] = "svc"
    BY <2>5 DEF Spurious, SpuriousWakeup, WaitEnds, vars
  <2>6. CASE Owner
    <3>1. CASE Create
      BY <2>6, <3>1 DEF Owner, Create, CreateIn, meetVars
    <3>2. CASE UNCHANGED tpc
      BY <2>6, <3>2 DEF Owner, meetVars
    <3> QED BY <2>6, <3>1, <3>2 DEF Owner, run, RunBegins, CreateFails, SetRun, RunReturns,
                                    RunJoins
  <2>7. CASE UNCHANGED <<tpc, mpc>>
    BY <2>7
  <2>8. ASSUME NEW cnt \in 1 .. MaxCnt, NEW detach \in BOOLEAN,
               init(cnt, detach) \/ InitFails(cnt, detach), UNCHANGED meetVars
        PROVE  UNCHANGED <<tpc, mpc>>
    BY <2>8 DEF init, InitFails, InitWith, meetVars
  <2>9. ASSUME \/ stop /\ UNCHANGED meetVars
               \/ (Reset \/ SetMaxcount) /\ UNCHANGED vars
               \/ UNCHANGED poolVars
        PROVE  UNCHANGED <<tpc, mpc>>
    BY <2>9 DEF stop, Reset, SetMaxcount, meetVars, vars, poolVars
  <2> QED BY <2>2, <2>3, <2>4, <2>5, <2>6, <2>7, <2>8, <2>9 DEF PoolNext, PoolThread
<1> QED BY <1>1, <1>2, PTL DEF PoolSpec

-------------------------------------------------------------------------------

\* A thread's steps end at most its own life, and make none.
LEMMA AliveShrinks ==
  ASSUME TypeOK, NEW t \in Threads, thread_proc(t)
  PROVE  t \in Alive /\ Alive' \subseteq Alive /\ UNCHANGED <<locals, thr_cnt, detached, restarted>>
BY DEF TypeOK, thread_proc, Prepared, PrepareFails, svc, svcFails, exit, ChecksStop,
       clean_up, SetExit, Goto, Alive, members, locals

LEMMA LifeInductive == TypeOK /\ LifeInv /\ [Next]_vars => LifeInv'
<1> SUFFICES ASSUME TypeOK, LifeInv, [Next]_vars, thr_cnt' = 1, ~restarted' PROVE LifeInv'
  BY DEF LifeInv
<1> USE DEF LifeInv
<1>1. ASSUME NEW cnt \in 1 .. MaxCnt, NEW detach \in BOOLEAN, InitWith(cnt, detach),
             (status' = "INIT" /\ attr' = "valid") \/ status' = status
      PROVE  LifeInv'
  <2>1. Alive = {} /\ Alive' = Alive
    BY <1>1 DEF InitWith, Alive
  <2>2. opc' = "idle" /\ (status' = "INIT" => attr' = "valid")
    BY <1>1 DEF InitWith, locals
  <2> QED BY <2>1, <2>2
<1>2. CASE RunBegins
  <2>1. Alive' = Alive /\ thr_cnt = 1 /\ ~restarted /\ opc = "idle" /\ status = "INIT"
        /\ opc' = "create" /\ made' = 0 /\ status' = status /\ attr' = attr
    BY <1>2 DEF RunBegins, Alive, members
  <2> QED BY <2>1
<1>3. CASE Create
  <2>1. PICK t \in Threads : CreateIn(t)
    BY <1>3 DEF Create
  <2>2. thr_cnt = 1 /\ ~restarted /\ opc = "create" /\ made < thr_cnt
    BY <1>3, <2>1 DEF Create, CreateIn, members
  <2>3. made = 0 /\ Alive = {} /\ status = "INIT"
    BY <2>2 DEF TypeOK
  <2>4. Alive' \subseteq {t}
    BY <2>1, <2>3 DEF CreateIn, Alive, TypeOK
  <2>5. thread' = t /\ opc' = "created" /\ status' = status
    BY <2>1 DEF CreateIn, members
  <2> QED BY <2>3, <2>4, <2>5
<1>4. CASE CreateFails
  <2>1. Alive' = Alive /\ thr_cnt = 1 /\ ~restarted /\ opc = "create" /\ made < thr_cnt
        /\ opc' = "create" /\ made' = made + 1 /\ status' = status /\ attr' = attr
    BY <1>4 DEF CreateFails, Alive, members
  <2>2. made = 0 /\ Alive = {} /\ attr = "valid"
    BY <2>1 DEF TypeOK
  <2> QED BY <2>1, <2>2
<1>5. CASE SetRun
  <2>1. Alive' = Alive /\ thr_cnt = 1 /\ ~restarted /\ opc = "created"
        /\ opc' = "create" /\ made' = made + 1 /\ status' = "RUN" /\ thread' = thread
    BY <1>5 DEF SetRun, Alive
  <2>2. made' # 0
    BY <2>1 DEF TypeOK
  <2> QED BY <2>1, <2>2
<1>6. CASE RunReturns \/ RunJoins
  <2>1. Alive' = Alive /\ thr_cnt = 1 /\ ~restarted /\ opc = "create" /\ made = 1
        /\ opc' = "idle" /\ status' = status /\ attr' = attr /\ detached' = detached
    BY <1>6 DEF RunReturns, RunJoins, LeavesRun, Alive, members
  <2>2. ~detached => thread \notin Alive
    BY <1>6 DEF RunReturns, RunJoins, Alive
  <2>3. ~detached => Alive = {}
    BY <2>1, <2>2
  <2> QED BY <2>1, <2>3
<1>7. CASE stop
  BY <1>7 DEF stop, locals, Alive
<1>8. ASSUME NEW t \in Threads, thread_proc(t) PROVE LifeInv'
  <2>1. /\ t \in Alive /\ Alive' \subseteq Alive /\ opc' = opc /\ made' = made
        /\ thread' = thread /\ detached' = detached /\ thr_cnt = 1 /\ ~restarted
    BY <1>8, AliveShrinks DEF locals
  <2>2. status' = status \/ Alive' = {}
    <3>1. CASE SetExit(t)
      <4>1. t \notin Alive'
        BY <3>1 DEF SetExit, Goto, Alive, TypeOK
      <4> QED BY <2>1, <4>1
    <3>2. CASE ~SetExit(t)
      BY <1>8, <3>2 DEF thread_proc, Prepared, PrepareFails, svc, svcFails, exit, ChecksStop,
                        clean_up, members
    <3> QED BY <3>1, <3>2
  <2>3. status' = status \/ status' = "EXIT"
    BY <1>8 DEF thread_proc, Prepared, PrepareFails, svc, svcFails, exit, ChecksStop,
                clean_up, SetExit, members
  <2> QED BY <2>1, <2>2, <2>3
<1>9. CASE UNCHANGED vars
  BY <1>9 DEF vars, members, locals, Alive
<1> QED
  BY <1>1, <1>2, <1>3, <1>4, <1>5, <1>6, <1>7, <1>8, <1>9 DEF Next, run, init, InitFails

\* For every size of the pool: with one thread the unlocked members tell the truth.
THEOREM OneThreadSafe == PoolSpec => []OneThreadIsSafe
<1>1. PoolInit => LifeInv
  BY DEF PoolInit, Init, LifeInv, Alive
<1>2. PoolTypeOK /\ LifeInv /\ [PoolNext]_poolVars => LifeInv'
  BY LifeStep, LifeInductive DEF PoolTypeOK
<1>3. PoolTypeOK /\ LifeInv => OneThreadIsSafe
  <2> SUFFICES ASSUME TypeOK, LifeInv, thr_cnt = 1, ~restarted
               PROVE  AttrIsValid /\ ExitMeansOver /\ JoinedIsOver
    BY DEF PoolTypeOK, OneThreadIsSafe
  <2>1. made < thr_cnt => made = 0
    BY DEF TypeOK
  <2> QED BY <2>1 DEF LifeInv, AttrIsValid, ExitMeansOver, JoinedIsOver
<1> QED BY <1>1, <1>2, <1>3, PoolTypeCorrect, PTL DEF PoolSpec

-------------------------------------------------------------------------------

LEMMA MeetInductive == MeetTypeOK(Threads) /\ MeetInv /\ [MeetNext]_meetVars => MeetInv'
<1> SUFFICES ASSUME MeetTypeOK(Threads), MeetInv, [MeetNext]_meetVars PROVE MeetInv'
  OBVIOUS
<1> USE MeetAssumption DEF MeetInv, MeetTypeOK, NobodyIsLeftBehind, Parties
<1>1. IsFiniteSet(came) /\ Cardinality(came) \in Nat
  <2>1. IsFiniteSet(Threads)
    BY ThreadAssumption, FS_Interval DEF Threads
  <2> QED BY <2>1, FS_Subset, FS_CardinalityType
<1>2. ASSUME NEW t \in Threads
      PROVE  /\ t \notin came => Cardinality(came \cup {t}) = Cardinality(came) + 1
             /\ t \in came => came \cup {t} = came
  <2>1. t \in came => came \cup {t} = came
    OBVIOUS
  <2>2. t \notin came => Cardinality(came \cup {t}) = Cardinality(came) + 1
    BY <1>1, FS_AddElement
  <2> QED BY <2>1, <2>2
<1>3. ASSUME NEW t \in Threads, PassesBy(t) PROVE MeetInv'
  <2>1. Cardinality(came') >= Cardinality(came) /\ Cardinality(came') \in Nat
    BY <1>1, <1>2, <1>3 DEF PassesBy, Arrive
  <2> QED BY <1>1, <1>3, <2>1 DEF PassesBy, Arrive
<1>4. ASSUME NEW t \in Threads, Waits(t) PROVE MeetInv'
  <2>1. ~disturbed => t \notin came
    BY <1>4 DEF Waits, Arrive
  <2>2. ~disturbed => Cardinality(came') = Cardinality(came) + 1
    BY <1>2, <1>4, <2>1 DEF Waits, Arrive
  <2>3. count' = count - 1 /\ count' > 0 /\ disturbed' = disturbed /\ maxCount' = maxCount
    BY <1>4 DEF Waits
  <2>4. ~disturbed => \A u \in Threads : mpc'[u] = IF u \in came' THEN "wait" ELSE "away"
    BY <1>4, <2>3 DEF Waits, Arrive
  <2> QED BY <1>1, <2>2, <2>3, <2>4
<1>5. ASSUME NEW t \in Threads, Completes(t) PROVE MeetInv'
  <2>1. ~disturbed => t \notin came
    BY <1>5 DEF Completes, Arrive
  <2>2. ~disturbed => Cardinality(came') = Cardinality(came) + 1
    BY <1>2, <1>5, <2>1 DEF Completes, Arrive
  <2>3. count = 1 /\ count' = 0 /\ disturbed' = disturbed /\ maxCount' = maxCount
    BY <1>5 DEF Completes
  <2>4. \A u \in DOMAIN mpc' : mpc'[u] # "wait"
    BY <1>5 DEF Completes
  <2> QED BY <1>1, <2>2, <2>3, <2>4
<1>6. ASSUME NEW t \in Threads, Returns(t) \/ GoesOn(t) PROVE MeetInv'
  <2>1. UNCHANGED <<count, maxCount, came, disturbed>> /\ mpc[t] \in {"woken", "back"}
        /\ mpc' \in {[mpc EXCEPT ![t] = "back"], [mpc EXCEPT ![t] = "away"]}
    BY <1>6 DEF Returns, GoesOn
  <2>2. ~disturbed /\ count > 0 => FALSE
    BY <2>1
  <2>3. \A u \in Threads : mpc'[u] = "wait" => mpc[u] = "wait"
    BY <2>1
  <2>4. DOMAIN mpc' = Threads /\ DOMAIN mpc = Threads
    BY <2>1
  <2> QED BY <1>1, <2>1, <2>2, <2>3, <2>4
<1>7. ASSUME NEW t \in Threads, WaitEnds(t) PROVE MeetInv'
  <2>1. disturbed' /\ count' = count /\ maxCount' = maxCount
        /\ mpc' = [mpc EXCEPT ![t] = "woken"]
    BY <1>7 DEF WaitEnds
  <2> QED BY <2>1
<1>8. CASE Reset
  <2>1. disturbed' /\ count' = maxCount /\ maxCount' = maxCount
    BY <1>8 DEF Reset
  <2> QED BY <2>1
<1>9. CASE SetMaxcount \/ UNCHANGED meetVars
  BY <1>9 DEF SetMaxcount, meetVars
<1> QED
  BY <1>3, <1>4, <1>5, <1>6, <1>7, <1>8, <1>9 DEF MeetNext, TimeOut, SpuriousWakeup

LEMMA MeetInvHolds == PoolSpec => []MeetInv
<1>1. PoolInit => MeetInv
  <2> SUFFICES ASSUME PoolInit PROVE MeetInv
    OBVIOUS
  <2>1. Cardinality({}) = 0
    BY FS_EmptySet
  <2> QED BY <2>1, MeetAssumption
             DEF PoolInit, MeetInit, MeetInv, NobodyIsLeftBehind, Parties
<1>2. PoolTypeOK /\ MeetInv /\ [PoolNext]_poolVars => MeetInv'
  BY MeetStep, MeetInductive DEF PoolTypeOK
<1> QED BY <1>1, <1>2, PoolTypeCorrect, PTL DEF PoolSpec

\* For every number of parties: nobody leaves an undisturbed meeting alone.
THEOREM LeaveTogether == PoolSpec => []NobodyLeavesAlone
<1>1. PoolTypeOK /\ MeetInv => NobodyLeavesAlone
  BY DEF PoolTypeOK, MeetTypeOK, MeetInv, NobodyLeavesAlone
<1> QED BY <1>1, MeetInvHolds, PoolTypeCorrect, PTL

\* For every number of parties: once all have come, none is left waiting.
THEOREM NobodyBehind == PoolSpec => []NobodyIsLeftBehind
<1>1. MeetInv => NobodyIsLeftBehind
  BY DEF MeetInv
<1> QED BY <1>1, MeetInvHolds, PTL
===============================================================================
