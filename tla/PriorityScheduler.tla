------------------------- MODULE PriorityScheduler --------------------------
(***************************************************************************)
(* The priority scheduler (src/priority_scheduler.cpp): main posts items   *)
(* through executors of three priorities, last of all the call of stop()   *)
(* with the lowest priority, and runs the scheduler.  run() may be called  *)
(* by more threads; those of Helpers call it as soon as there is a first   *)
(* executor.                                                               *)
(*                                                                         *)
(* mutex_ is held from one wait or item to the next, so each such stretch  *)
(* is one step.                                                            *)
(***************************************************************************)
EXTENDS Integers, Sequences, FiniteSets

CONSTANTS
    Priorities, \* Seq(Int): the items that main posts, by priority, in their order
    Helpers     \* the threads beside main

Items == 1..Len(Priorities)
Stop == Len(Priorities)
Runners == Helpers \cup {"main"}
None == 0

VARIABLES
    stopped,   \* stopped_, which no constructor of the scheduler sets
    queue,     \* SUBSET Items: queue_
    executors, \* 0..2: none, the first three, all
    posted,    \* 0..Stop: what main has posted
    place,     \* [Runners -> Places]
    item,      \* [Runners -> Items \cup {None}]: what p points to
    executed   \* Seq(Items)

vars == <<stopped, queue, executors, posted, place, item, executed>>

Places == {"out", "run", "wait", "item", "returned"}

Init ==
    /\ stopped \in BOOLEAN
    /\ queue = {} /\ executors = 0 /\ posted = 0
    /\ place = [r \in Runners |-> "out"] /\ item = [r \in Runners |-> None]
    /\ executed = <<>>

GoTo(r, p) == place' = [place EXCEPT ![r] = p]

\* condition_.notify_one() and notify_all().
NotifyOne(p) ==
    IF \E r \in Runners : p[r] = "wait"
      THEN {[p EXCEPT ![r] = "run"] : r \in {s \in Runners : p[s] = "wait"}}
      ELSE {p}
NotifyAll_one(p) == NotifyOne(p) \* mutant: stop() notifies one runner
NotifyAll(p) == {[r \in Runners |-> IF p[r] = "wait" THEN "run" ELSE p[r]]}

-----------------------------------------------------------------------------
\* main() makes its executors, which clear stopped_ without the mutex: three
\* first, the last one when only the call of stop() is to be posted.
LastAfter == Stop - 1

GetExecutor ==
    /\ executors = 0 \/ (executors = 1 /\ posted = LastAfter)
    /\ executors' = executors + 1 /\ stopped' = FALSE
    /\ UNCHANGED <<queue, posted, place, item, executed>>

\* post()
Post ==
    /\ executors > 0 /\ posted < Stop
    /\ posted = LastAfter => executors = 2
    /\ posted' = posted + 1
    /\ queue' = queue \cup {posted'}
    /\ place' \in NotifyOne(place)
    /\ UNCHANGED <<stopped, executors, item, executed>>

\* run() is called: by main when all is posted, by a helper at any time.
Call(r) ==
    /\ place[r] = "out" /\ executors > 0
    /\ r = "main" => posted = Stop /\ executors = 2
    /\ GoTo(r, "run")
    /\ UNCHANGED <<stopped, queue, executors, posted, item, executed>>

\* queue_.top(): of equal priorities any may be the first.
First_lowest(i, j) == Priorities[i] <= Priorities[j] \* mutant: item_comp the other way round
First(i, j) == Priorities[i] >= Priorities[j]
Top == {i \in queue : \A j \in queue : First(i, j)}

\* With the lock: return, pop an item and unlock, or wait.
Run(r) ==
    /\ place[r] = "run"
    /\ \/ stopped /\ GoTo(r, "returned") /\ UNCHANGED <<queue, item>>
       \/ /\ ~stopped /\ queue = {} /\ GoTo(r, "wait") /\ UNCHANGED <<queue, item>>
       \/ /\ ~stopped
          /\ \E i \in Top :
                queue' = queue \ {i} /\ item' = [item EXCEPT ![r] = i]
          /\ GoTo(r, "item")
    /\ UNCHANGED <<stopped, executors, posted, executed>>

\* p->execute_(p) without the lock; the last item calls stop().
Execute(r) ==
    /\ place[r] = "item"
    /\ executed' = Append(executed, item[r])
    /\ item' = [item EXCEPT ![r] = None]
    /\ IF item[r] = Stop
         THEN stopped' = TRUE /\ place' \in NotifyAll([place EXCEPT ![r] = "run"])
         ELSE UNCHANGED stopped /\ GoTo(r, "run")
    /\ UNCHANGED <<queue, executors, posted>>

\* The wait has a predicate: to wake up for nothing does no harm.
Spurious(r) ==
    /\ place[r] = "wait" /\ GoTo(r, "run")
    /\ UNCHANGED <<stopped, queue, executors, posted, item, executed>>

Main == GetExecutor \/ Post
Runner(r) == Call(r) \/ Run(r) \/ Execute(r)

Next == Main \/ \E r \in Runners : Runner(r) \/ Spurious(r)

Fairness == WF_vars(Main) /\ \A r \in Runners : WF_vars(Runner(r))

Spec == Init /\ [][Next]_vars /\ Fairness
-----------------------------------------------------------------------------
\* Every variable has its type.
TypeOK ==
    /\ stopped \in BOOLEAN /\ queue \in SUBSET Items /\ executors \in 0..2
    /\ posted \in 0..Stop /\ place \in [Runners -> Places]
    /\ item \in [Runners -> Items \cup {None}] /\ executed \in Seq(Items)

\* When stop() has been called nothing is left in the queue (its priority is the
\* lowest and main posts it last), so no item is dropped by the return of run();
\* and no item is executed twice.
NothingDropped ==
    /\ Stop \in {executed[i] : i \in DOMAIN executed} => queue = {}
    /\ \A i, j \in DOMAIN executed : executed[i] = executed[j] => i = j

\* stop() ends run() in every thread, however they wait, and all that was posted
\* has been executed then (115, 128-133): no executor that is made at that time
\* takes the flag back, and notify_all() reaches every thread.
AllReturned ==
    /\ \A r \in Runners : place[r] = "returned"
    /\ {executed[i] : i \in DOMAIN executed} = Items
RunReturns == <>[]AllReturned

\* The inductive invariant: each item that was posted is in the queue, with a
\* runner or executed, in one of the three and once; and behind the item that
\* calls stop() there is none.
IsExecuted(i) == \E k \in DOMAIN executed : executed[k] = i
IInv ==
    /\ TypeOK
    /\ \A i \in queue : i <= posted /\ ~IsExecuted(i) /\ \A r \in Runners : item[r] # i
    /\ \A r \in Runners : place[r] = "item" => item[r] \in 1..posted /\ ~IsExecuted(item[r])
    /\ \A r \in Runners : place[r] # "item" => item[r] = None
    /\ \A q, r \in Runners : item[q] = item[r] /\ item[r] # None => q = r
    /\ \A i, j \in DOMAIN executed : executed[i] = executed[j] => i = j
    /\ \A k \in DOMAIN executed : executed[k] <= posted
    /\ IsExecuted(Stop) \/ (\E r \in Runners : place[r] = "item" /\ item[r] = Stop) => queue = {}
=============================================================================
