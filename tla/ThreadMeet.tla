------------------------------ MODULE ThreadMeet ------------------------------
(***************************************************************************)
(* ThreadMeet: a place where threads wait for one another.                 *)
(*                                                                         *)
(* Meet holds the mutex from its first statement to its last, so that it   *)
(* is one action up to its wait or its return.  The deadline of a timed    *)
(* wait is made from time(NULL), which is without its fraction of a second *)
(* and so may be over from the start: TimeOut can come at any time.        *)
(***************************************************************************)
EXTENDS Naturals, FiniteSets

CONSTANTS MaxCount,   \* the constructor's parameter
          Garbage     \* bound: what the unset member may hold

ASSUME MeetAssumption == MaxCount \in Nat /\ Garbage \subseteq Nat

VARIABLES count, maxCount,   \* the members
          mpc,         \* mpc[t]: "away", "wait" (in cond's wait set), "woken", "back"
          came,        \* history: the threads that have called Meet
          disturbed    \* history: a wait was cut short, or Reset was called

meetVars == <<count, maxCount, mpc, came, disturbed>>

Parties == IF MaxCount = 0 THEN 1 ELSE MaxCount

\* "count = maxCount = maxCount" sets the parameter, and the member keeps what
\* was in its memory.
MeetInit(callers) == /\ count = Parties
                     /\ maxCount \in Garbage
                     /\ mpc = [t \in callers |-> "away"]
                     /\ came = {}
                     /\ disturbed = FALSE

-------------------------------------------------------------------------------
(* Meet *)

Arrive(t) == mpc[t] = "away" /\ came' = came \cup {t}

\* All have met already.
PassesBy(t) == /\ Arrive(t)
               /\ count = 0
               /\ mpc' = [mpc EXCEPT ![t] = "back"]
               /\ UNCHANGED <<count, maxCount, disturbed>>

Waits(t) == /\ Arrive(t)
            /\ count > 1
            /\ count' = count - 1
            /\ mpc' = [mpc EXCEPT ![t] = "wait"]
            /\ UNCHANGED <<maxCount, disturbed>>

\* Mutant: the others are woken when one is still missing.
CompletesEarly(t) ==
  /\ Arrive(t)
  /\ count \in {1, 2}
  /\ count' = count - 1
  /\ mpc' = [u \in DOMAIN mpc |-> IF u = t THEN "back"
                                  ELSE IF mpc[u] = "wait" THEN "woken" ELSE mpc[u]]
  /\ UNCHANGED <<maxCount, disturbed>>

\* Mutant: pthread_cond_signal in place of the broadcast.
CompletesBySignal(t) ==
  /\ Arrive(t)
  /\ count = 1
  /\ count' = 0
  /\ mpc' \in {[mpc EXCEPT ![t] = "back", ![u] = "woken"] :
                 u \in {v \in DOMAIN mpc : mpc[v] = "wait"}}
  /\ UNCHANGED <<maxCount, disturbed>>

\* The last one wakes the others.
Completes(t) ==
  /\ Arrive(t)
  /\ count = 1
  /\ count' = 0
  /\ mpc' = [u \in DOMAIN mpc |-> IF u = t THEN "back"
                                  ELSE IF mpc[u] = "wait" THEN "woken" ELSE mpc[u]]
  /\ UNCHANGED <<maxCount, disturbed>>

\* A wait without a broadcast ends: the count is not given back.
WaitEnds(t) == /\ mpc[t] = "wait"
               /\ mpc' = [mpc EXCEPT ![t] = "woken"]
               /\ disturbed' = TRUE
               /\ UNCHANGED <<count, maxCount, came>>

SpuriousWakeup(t) == WaitEnds(t)
TimeOut(t) == WaitEnds(t)

\* Meet does not look at the count again, nor at the reason it was woken for.
Returns(t) == /\ mpc[t] = "woken"
              /\ mpc' = [mpc EXCEPT ![t] = "back"]
              /\ UNCHANGED <<count, maxCount, came, disturbed>>

\* The caller has been told that it met, and goes its way.
GoesOn(t) == /\ mpc[t] = "back"
             /\ mpc' = [mpc EXCEPT ![t] = "away"]
             /\ UNCHANGED <<count, maxCount, came, disturbed>>

Reset == /\ count' = maxCount
         /\ disturbed' = TRUE
         /\ UNCHANGED <<maxCount, mpc, came>>

\* "maxCount = maxCount" again: the parameter is assigned to itself.
SetMaxcount == UNCHANGED meetVars

-------------------------------------------------------------------------------
(* Correctness *)

MeetTypeOK(callers) == /\ count \in Nat
                       /\ maxCount \in Garbage
                       /\ mpc \in [callers -> {"away", "wait", "woken", "back"}]
                       /\ came \subseteq callers
                       /\ disturbed \in BOOLEAN

\* As long as every wait ends by a broadcast and nobody calls Reset, no thread
\* leaves the meeting point before MaxCount different threads have come there.
NobodyLeavesAlone ==
  (\E t \in DOMAIN mpc : mpc[t] \in {"woken", "back"}) /\ ~disturbed
     => Cardinality(came) >= Parties

\* Who waits is waited for: when the count is down nobody is left behind, unless
\* Reset took it from a member that happens to hold 0.
NobodyIsLeftBehind ==
  count = 0 /\ maxCount # 0 => \A t \in DOMAIN mpc : mpc[t] # "wait"
===============================================================================
