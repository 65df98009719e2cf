------------------------------ MODULE MeetingPool -----------------------------
(***************************************************************************)
(* A thread pool that meets: svc calls Meet of one ThreadMeet object, and  *)
(* then returns, fails or exits, as in test/testThreadMeet.cpp.  The       *)
(* threads of ThreadLife are the callers of ThreadMeet.                    *)
(***************************************************************************)
EXTENDS ThreadLife, ThreadMeet

CONSTANT Timed   \* the threads that call Meet with a time-out

ASSUME PoolAssumption == Timed \subseteq Threads

poolVars == <<vars, meetVars>>

PoolInit == Init /\ MeetInit(Threads)

-------------------------------------------------------------------------------

Meet(t) == /\ \/ PassesBy(t) \/ Waits(t) \/ Completes(t) \/ Returns(t)
              \/ t \in Timed /\ TimeOut(t)
           /\ tpc[t] = "svc"
           /\ UNCHANGED vars

\* A wake-up without cause; nothing has to bring it.
Spurious(t) == SpuriousWakeup(t) /\ UNCHANGED vars

SvcEnds(t) == GoesOn(t) /\ (svc(t) \/ svcFails(t) \/ exit(t))

OutsideSvc(t) == /\ \/ Prepared(t) \/ PrepareFails(t)
                    \/ ChecksStop(t) \/ clean_up(t) \/ SetExit(t)
                 /\ UNCHANGED meetVars

PoolThread(t) == Meet(t) \/ SvcEnds(t) \/ OutsideSvc(t)

Owner == run /\ UNCHANGED meetVars

PoolNext ==
  \/ \E cnt \in 1 .. MaxCnt, detach \in BOOLEAN :
       (init(cnt, detach) \/ InitFails(cnt, detach)) /\ UNCHANGED meetVars
  \/ Owner
  \/ stop /\ UNCHANGED meetVars
  \/ (Reset \/ SetMaxcount) /\ UNCHANGED vars
  \/ \E t \in Threads : PoolThread(t) \/ Spurious(t)

PoolSpec == PoolInit /\ [][PoolNext]_poolVars

\* Threads run, timed waits expire, and nobody owes a Reset or a spurious return.
FairPoolSpec == /\ PoolSpec
                /\ WF_poolVars(opc # "idle" /\ Owner)
                /\ \A t \in Threads : WF_poolVars(PoolThread(t))

-------------------------------------------------------------------------------
(* Correctness *)

PoolTypeOK == /\ TypeOK
              /\ MeetTypeOK(Threads)
              /\ \A t \in Threads : mpc[t] # "away" => tpc[t] = "svc"

\* A thread whose meeting does not come about: it waits without a time-out and
\* parties are missing, or Reset set the count to the 0 the member held.
Stranded(t) == mpc[t] = "wait" /\ t \notin Timed /\ (count > 0 \/ maxCount = 0)

\* After a stop which no init takes back every thread ends, those too that run
\* had yet to make; only a meeting with parties missing can hold a thread for ever.
StopEndsAll == <>[]stopped => <>[](\A t \in Alive : Stranded(t))
===============================================================================
