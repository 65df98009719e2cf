------------------------------ MODULE ThreadLife ------------------------------
(***************************************************************************)
(* The life of a Thread object: init, run, stop, and the threads that run  *)
(* makes, all of which execute thread_proc on the same object.  A thread   *)
(* has no lock and shares with its creator and its brothers the members    *)
(* _status, _stop and _attr.                                               *)
(*                                                                         *)
(* One thread, the owner, calls init and run; anyone may call stop.  A     *)
(* subclass provides prepare, do_init and svc, which may fail.             *)
(***************************************************************************)
EXTENDS Naturals, FiniteSets

CONSTANTS MaxCnt,       \* the largest thr_cnt
          MaxThreads    \* bound: threads made in all

ASSUME ThreadAssumption == MaxCnt \in Nat \ {0} /\ MaxThreads \in Nat

Threads == 1 .. MaxThreads
NoThread == 0

VARIABLES status, stopped, detached, thr_cnt,   \* _status, _stop, _detach, _thr_cnt
          attr,        \* _attr: "none" (nothing to rely on), "valid" or "destroyed"
          opc,         \* where the owner is in run
          made,        \* run: how often the loop has been through
          thread,      \* run: the local variable thread
          tpc,         \* where each thread is in thread_proc
          restarted    \* history: init was called while threads were alive

members == <<status, stopped, detached, thr_cnt, attr>>
locals == <<opc, made, thread>>
vars == <<members, locals, tpc, restarted>>

Init == /\ status = "EXIT" /\ stopped = FALSE /\ detached = TRUE
        /\ thr_cnt = 1 /\ attr = "none"
        /\ opc = "idle" /\ made = 0 /\ thread = NoThread
        /\ tpc = [t \in Threads |-> "none"]
        /\ restarted = FALSE

Alive == {t \in Threads : tpc[t] \notin {"none", "over"}}

-------------------------------------------------------------------------------
(* init: refused, without a change, only between another init and run *)

InitWith(cnt, detach) == /\ opc = "idle"
                         /\ status # "INIT"
                         /\ stopped' = FALSE
                         /\ detached' = detach
                         /\ thr_cnt' = cnt
                         /\ restarted' = (restarted \/ Alive # {})
                         /\ UNCHANGED <<locals, tpc>>

init(cnt, detach) == InitWith(cnt, detach) /\ attr' = "valid" /\ status' = "INIT"

\* pthread_attr_init, the size of the stack or do_init fails: the status stays,
\* what precedes is done.
InitFails(cnt, detach) == InitWith(cnt, detach) /\ attr' \in {"none", "valid"} /\ UNCHANGED status

-------------------------------------------------------------------------------
(* run *)

RunBegins == /\ opc = "idle"
             /\ status = "INIT"
             /\ opc' = "create"
             /\ made' = 0
             /\ thread' = NoThread
             /\ UNCHANGED <<members, tpc, restarted>>

CreateIn(t) == /\ t \in Threads
               /\ tpc[t] = "none" /\ \A u \in Threads : tpc[u] = "none" => t <= u
               /\ tpc' = [tpc EXCEPT ![t] = "prepare"]
               /\ thread' = t
               /\ opc' = "created"
               /\ UNCHANGED <<members, made, restarted>>

Create == opc = "create" /\ made < thr_cnt /\ \E t \in Threads : CreateIn(t)

\* pthread_create fails: the loop goes on.  A pool to be joined gets at least
\* one thread; pthread_join of none is undefined and left out.
CreateFails == /\ opc = "create"
               /\ made < thr_cnt
               /\ detached \/ thread # NoThread \/ made + 1 < thr_cnt
               /\ made' = made + 1
               /\ UNCHANGED <<members, opc, thread, tpc, restarted>>

\* Back in run the status is set, when the thread may be over already.
SetRun == /\ opc = "created"
          /\ status' = "RUN"
          /\ made' = made + 1
          /\ opc' = "create"
          /\ UNCHANGED <<stopped, detached, thr_cnt, attr, thread, tpc, restarted>>

LeavesRun == opc' = "idle" /\ made' = 0 /\ thread' = NoThread

RunReturns == /\ opc = "create"
              /\ made = thr_cnt
              /\ detached
              /\ LeavesRun
              /\ UNCHANGED <<members, tpc, restarted>>

\* Mutant: run returns without join.
RunJoinsNot == /\ opc = "create"
               /\ made = thr_cnt
               /\ ~detached
               /\ LeavesRun
               /\ UNCHANGED <<members, tpc, restarted>>

\* Only the thread made last is joined.
RunJoins == /\ opc = "create"
            /\ made = thr_cnt
            /\ ~detached
            /\ tpc[thread] = "over"
            /\ LeavesRun
            /\ UNCHANGED <<members, tpc, restarted>>

stop == /\ ~stopped
        /\ stopped' = TRUE
        /\ UNCHANGED <<status, detached, thr_cnt, attr, locals, tpc, restarted>>

-------------------------------------------------------------------------------
(* thread_proc *)

Goto(t, from, to) == tpc[t] = from /\ tpc' = [tpc EXCEPT ![t] = to]

Prepared(t) == Goto(t, "prepare", "svc") /\ UNCHANGED <<members, locals, restarted>>

\* The thread is over, and the status is not set.
PrepareFails(t) == Goto(t, "prepare", "over") /\ UNCHANGED <<members, locals, restarted>>

svc(t) == Goto(t, "svc", "check") /\ UNCHANGED <<members, locals, restarted>>

svcFails(t) == Goto(t, "svc", "cleanup") /\ UNCHANGED <<members, locals, restarted>>

\* svc calls exit: pthread_exit does not come back to set the status.
exit(t) == Goto(t, "svc", "over") /\ UNCHANGED <<members, locals, restarted>>

\* Mutant: is_stop is not asked.
ChecksNot(t) == Goto(t, "check", "svc") /\ UNCHANGED <<members, locals, restarted>>

ChecksStop(t) == /\ Goto(t, "check", IF stopped THEN "cleanup" ELSE "svc")
                 /\ UNCHANGED <<members, locals, restarted>>

\* Each thread destroys the attributes they have in common.
clean_up(t) == /\ Goto(t, "cleanup", "status")
               /\ attr' = "destroyed"
               /\ UNCHANGED <<status, stopped, detached, thr_cnt, locals, restarted>>

SetExit(t) == /\ Goto(t, "status", "over")
              /\ status' = "EXIT"
              /\ UNCHANGED <<stopped, detached, thr_cnt, attr, locals, restarted>>

-------------------------------------------------------------------------------

run == \/ RunBegins \/ Create \/ CreateFails \/ SetRun \/ RunReturns \/ RunJoins

thread_proc(t) == \/ Prepared(t) \/ PrepareFails(t)
                  \/ svc(t) \/ svcFails(t) \/ exit(t)
                  \/ ChecksStop(t) \/ clean_up(t) \/ SetExit(t)

Next == \/ \E cnt \in 1 .. MaxCnt, detach \in BOOLEAN :
             init(cnt, detach) \/ InitFails(cnt, detach)
        \/ run \/ stop
        \/ \E t \in Threads : thread_proc(t)

Spec == Init /\ [][Next]_vars

-------------------------------------------------------------------------------
(* Correctness *)

TypeOK == /\ status \in {"INIT", "RUN", "EXIT"}
          /\ stopped \in BOOLEAN /\ detached \in BOOLEAN
          /\ thr_cnt \in 1 .. MaxCnt
          /\ attr \in {"none", "valid", "destroyed"}
          /\ opc \in {"idle", "create", "created"}
          /\ made \in 0 .. thr_cnt
          /\ opc = "idle" => made = 0
          /\ opc = "created" => made < thr_cnt
          /\ thread \in Threads \cup {NoThread}
          /\ tpc \in [Threads -> {"none", "prepare", "svc", "check",
                                  "cleanup", "status", "over"}]
          /\ restarted \in BOOLEAN

\* Threads are only made with attributes that nobody has destroyed.
AttrIsValid == opc = "create" /\ made < thr_cnt => attr = "valid"

\* ST_EXIT, which thr_status tells a user, means that nothing runs any more.
ExitMeansOver == status = "EXIT" => Alive = {}

\* So does the return of run, when the pool is not detached.
JoinedIsOver == opc = "idle" /\ ~detached => Alive = {}

\* With one thread, and init called again only when that is over, the members
\* can be relied on without a lock.  None of the three holds for two threads.
OneThreadIsSafe ==
  thr_cnt = 1 /\ ~restarted => AttrIsValid /\ ExitMeansOver /\ JoinedIsOver
===============================================================================
