-------------------------------- MODULE Mailbox --------------------------------
(***************************************************************************)
(* TMapString<T>: a map from keys to items whose pops wait.                *)
(*                                                                         *)
(* Every method holds _mutex from its first statement, so a critical       *)
(* section is one action: it runs until it blocks in _cond or returns.     *)
(* The keys are numbers, for the order of std::map; an item is a name.     *)
(* Failures of the pthread calls, and the EINVAL that a negative timeout   *)
(* gets from TimeWait, are left out.                                       *)
(***************************************************************************)
EXTENDS Naturals

CONSTANTS Consumers,   \* the threads that pop
          Keys,        \* the keys in use
          Items,       \* the objects pushed
          NoItem       \* what "item" holds before the first pop

ASSUME MailboxAssumption == Keys \subseteq Nat /\ NoItem \notin Items

\* "key": pop(key, item).  "timed": pop(key, item, timeout).  "zero": the same
\* with timeout = 0, for which TimeWait waits without a limit.  "front": pop_front.
Modes == {"key", "timed", "zero", "front"}

VARIABLES items,     \* _items
          pc,        \* pc[c]: where consumer c is
          mode,      \* mode[c]: the method it called
          want,      \* want[c]: the keys it asked for, one or (pop_front) all
          item,      \* item[c]: its "item" argument
          ret,       \* ret[c]: nRet, and what the method returned
          got        \* history: got[c]: its latest call removed an item

callVars == <<pc, mode, want, item, ret, got>>
mailboxVars == <<items, callVars>>

MailboxInit == /\ items = [k \in {} |-> NoItem]
               /\ pc = [c \in Consumers |-> "idle"]
               /\ mode = [c \in Consumers |-> "key"]
               /\ want = [c \in Consumers |-> {}]
               /\ item = [c \in Consumers |-> NoItem]
               /\ ret = [c \in Consumers |-> "none"]
               /\ got = [c \in Consumers |-> FALSE]

-------------------------------------------------------------------------------
(* push *)

\* Mutant: push wakes nobody.
noBroadcast == UNCHANGED pc

\* ThreadCond::broadcast: every waiter leaves the wait set.
broadcast == pc' = [c \in Consumers |-> IF pc[c] = "wait" THEN "woken" ELSE pc[c]]

PushInserts(k, i) ==
  /\ k \notin DOMAIN items
  /\ items' = [l \in DOMAIN items \cup {k} |-> IF l = k THEN i ELSE items[l]]
  /\ broadcast
  /\ UNCHANGED <<mode, want, item, ret, got>>

\* Mutant: operator[] in place of insert, which replaces the item.
PushReplaces(k, i) ==
  /\ k \in DOMAIN items
  /\ items' = [items EXCEPT ![k] = i]
  /\ broadcast
  /\ UNCHANGED <<mode, want, item, ret, got>>

\* The key is there: map::insert keeps the old item, the new one is dropped,
\* and push returns 0 all the same.
PushDropped(k, i) == /\ k \in DOMAIN items
                     /\ broadcast
                     /\ UNCHANGED <<items, mode, want, item, ret, got>>

push(k, i) == PushInserts(k, i) \/ PushDropped(k, i)

-------------------------------------------------------------------------------
(* pop and pop_front *)

Enter(c, m, ks) == /\ pc[c] = "idle"
                   /\ pc' = [pc EXCEPT ![c] = "lock"]
                   /\ mode' = [mode EXCEPT ![c] = m]
                   /\ want' = [want EXCEPT ![c] = ks]
                   /\ ret' = [ret EXCEPT ![c] = "ok"]
                   /\ got' = [got EXCEPT ![c] = FALSE]
                   /\ UNCHANGED <<items, item>>

PopEnter(c, m, k) == m # "front" /\ Enter(c, m, {k})
PopFrontEnter(c) == Enter(c, "front", Keys)

Inside(c) == pc[c] \in {"lock", "woken"}
Present(c) == want[c] \cap DOMAIN items

\* pop(key) and pop_front wait for any item, in a loop; pop with a timeout waits
\* for its key, and only once.
WaitsInLoop(c) == mode[c] \in {"key", "front"} /\ DOMAIN items = {}
WaitsOnce(c) == mode[c] \in {"timed", "zero"} /\ pc[c] = "lock" /\ Present(c) = {}

Wait(c) == /\ Inside(c)
           /\ WaitsInLoop(c) \/ WaitsOnce(c)
           /\ pc' = [pc EXCEPT ![c] = "wait"]
           /\ UNCHANGED <<items, mode, want, item, ret, got>>

\* pthread_cond_wait and pthread_cond_timedwait may return 0 without a signal.
WokenUnasked(c) == /\ pc[c] = "wait"
                   /\ pc' = [pc EXCEPT ![c] = "woken"]
                   /\ UNCHANGED <<items, mode, want, item, ret, got>>

WaitTimeout(c) == /\ pc[c] = "wait"
                  /\ mode[c] = "timed"
                  /\ pc' = [pc EXCEPT ![c] = "woken"]
                  /\ ret' = [ret EXCEPT ![c] = "timeout"]
                  /\ UNCHANGED <<items, mode, want, item, got>>

\* begin() or the find of the one key: the least of those wanted.
Least(c, k) == k \in Present(c) /\ \A l \in Present(c) : k <= l

\* Mutant: the time-out is returned although the second look found the item.
TakeReturnsTimeout(c) ==
  /\ Inside(c)
  /\ \E k \in Keys : /\ Least(c, k)
                     /\ item' = [item EXCEPT ![c] = items[k]]
                     /\ items' = [l \in DOMAIN items \ {k} |-> items[l]]
  /\ pc' = [pc EXCEPT ![c] = "idle"]
  /\ got' = [got EXCEPT ![c] = TRUE]
  /\ UNCHANGED <<mode, want, ret>>

Take(c) == /\ Inside(c)
           /\ \E k \in Keys : /\ Least(c, k)
                              /\ item' = [item EXCEPT ![c] = items[k]]
                              /\ items' = [l \in DOMAIN items \ {k} |-> items[l]]
           /\ pc' = [pc EXCEPT ![c] = "idle"]
           /\ ret' = [ret EXCEPT ![c] = "ok"]
           /\ got' = [got EXCEPT ![c] = TRUE]
           /\ UNCHANGED <<mode, want>>

\* pop(key): there are items, but not this one.  It does not wait for it.
NotThere(c) == /\ Inside(c)
               /\ mode[c] = "key"
               /\ DOMAIN items # {} /\ Present(c) = {}
               /\ pc' = [pc EXCEPT ![c] = "idle"]
               /\ ret' = [ret EXCEPT ![c] = "absent"]
               /\ UNCHANGED <<items, mode, want, item, got>>

\* Mutant: pop with a timeout does not look again after its wait.
GivesUpUnlooked(c) == /\ pc[c] = "woken"
                      /\ mode[c] \in {"timed", "zero"}
                      /\ pc' = [pc EXCEPT ![c] = "idle"]
                      /\ UNCHANGED <<items, mode, want, item, ret, got>>

\* pop with a timeout returns what TimeWait returned: 0, if it was woken.
GivesUp(c) == /\ pc[c] = "woken"
              /\ mode[c] \in {"timed", "zero"}
              /\ Present(c) = {}
              /\ pc' = [pc EXCEPT ![c] = "idle"]
              /\ UNCHANGED <<items, mode, want, item, ret, got>>

-------------------------------------------------------------------------------

PopStep(c) == Wait(c) \/ Take(c) \/ NotThere(c) \/ GivesUp(c)

MailboxNext == \/ \E k \in Keys, i \in Items : push(k, i)
               \/ \E c \in Consumers :
                     \/ \E m \in Modes, k \in Keys : PopEnter(c, m, k)
                     \/ PopFrontEnter(c)
                     \/ WokenUnasked(c) \/ WaitTimeout(c) \/ PopStep(c)

MailboxSpec == MailboxInit /\ [][MailboxNext]_mailboxVars

\* The scheduler runs every thread inside a pop, and timed waits expire.  Nobody
\* has to push or to pop.
MailboxFairSpec ==
  MailboxSpec /\ \A c \in Consumers : WF_mailboxVars(PopStep(c)) /\ WF_mailboxVars(WaitTimeout(c))

-------------------------------------------------------------------------------
(* Correctness *)

MailboxTypeOK == /\ DOMAIN items \subseteq Keys
                 /\ items \in [DOMAIN items -> Items]
                 /\ pc \in [Consumers -> {"idle", "lock", "wait", "woken"}]
                 /\ mode \in [Consumers -> Modes]
                 /\ want \in [Consumers -> SUBSET Keys]
                 /\ item \in [Consumers -> Items \cup {NoItem}]
                 /\ ret \in [Consumers -> {"none", "ok", "timeout", "absent"}]
                 /\ got \in [Consumers -> BOOLEAN]

\* Nobody sleeps beside an item it could take, whatever the order of pushes,
\* wake-ups, time-outs and the removals of others: a push of any key wakes all.
NobodySleepsBesideItem == \A c \in Consumers : pc[c] = "wait" => Present(c) = {}

\* What a call returns is what it did: an error means that it took nothing, and
\* 0 from pop(key) and pop_front that it took an item.  (A pop with a timeout
\* may return 0 without an item, if a wake-up was not for its key.)
AnswerIsHonest ==
  \A c \in Consumers : pc[c] = "idle" =>
     /\ ret[c] # "ok" => ~got[c]
     /\ ret[c] = "ok" /\ mode[c] \in {"key", "front"} => got[c]

\* The map with its waiting threads is a keyed store: every item goes to one
\* consumer, which asked for its key, and a push never replaces an item.
Store == INSTANCE KeyedStore WITH store <- items, out <- item

StoreSpec == Store!Spec

\* An item somebody is popping by its key does not stay: a consumer that waits
\* for the key is woken and takes it, or another was faster.
WantedIsTaken ==
  \A c \in Consumers, k \in Keys :
     (pc[c] # "idle" /\ want[c] = {k} /\ k \in DOMAIN items) ~> (k \notin DOMAIN items)
===============================================================================
