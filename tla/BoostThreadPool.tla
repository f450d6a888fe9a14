-------------------------- MODULE BoostThreadPool ---------------------------
(***************************************************************************)
(* Agentpp::ThreadPool and TaskManager over Boost.Thread                   *)
(* (src/threadpool.cpp, 83-654, and src/threadpool.hpp).                   *)
(*                                                                         *)
(* A worker holds its manager's mutex except while it waits for a task, so *)
(* also while it runs one and in idle_notification(), where it wants the   *)
(* pool's lock.  The pool looks at a manager without the manager's mutex,  *)
(* and set_task() only tries to get it.                                    *)
(***************************************************************************)
EXTENDS Naturals, FiniteSets

CONSTANTS
    PoolSize,    \* the number of task managers
    MaxTasks,    \* bound: the tasks, numbered in the order of their submission
    MaxThreads,  \* bound: the threads that use the pool at a time
    MaxCalls,    \* bound: the calls the callers make together
    None

ASSUME BoostAssumption ==
    /\ PoolSize \in Nat \ {0} /\ MaxTasks \in Nat /\ MaxCalls \in Nat
    /\ MaxThreads \in Nat /\ None \notin Nat

Managers == 1..PoolSize
Tasks == 1..MaxTasks
Callers == 1..MaxThreads

VARIABLES
    tmGo,      \* [Managers -> BOOLEAN]: TaskManager::go
    slot,      \* [Managers -> Tasks \cup {None}]: TaskManager::task
    wpc,       \* [Managers -> WorkerStates]: the worker threads
    status,    \* [Managers -> Statuses]: Thread::status
    runs,      \* [Tasks -> Nat]: calls of run()
    deletes,   \* [Tasks -> Nat]: deletes
    owner,     \* who has the pool's mutex
    signal,    \* Synchronized::signal of the pool
    object,    \* how far the pool is destroyed
    pc, op, cur, hand, answer, \* [Callers -> ...]: a caller's place in its call,
               \* the call, the cursor, the task it carries, the result
    calls,     \* 0..MaxCalls: calls made (counts the bound)
    submitted  \* the tasks execute() was called with

tmVars == <<tmGo, slot, wpc, status, runs, deletes>>
poolVars == <<owner, signal, object>>
callVars == <<pc, op, cur, hand, answer>>
vars == <<tmVars, poolVars, callVars, calls, submitted>>

\* "running" and "notify" hold the manager's mutex; "leaving" is behind run().
WorkerStates == {"entered", "running", "notify", "waiting", "woken", "leaving", "ended"}
Statuses == {"IDLE", "RUNNING", "FINISHED"}
CallerStates == {"out", "enter", "probe", "assign", "waiting", "woken", "late", "answer",
                 "stop", "free", "joining", "base"}
Operations == {"none", "execute", "is_idle", "is_busy", "terminate", "destroy"}
Objects == {"whole", "terminated", "closing", "gone"}

\* TaskManager::is_idle(), without a lock.
IsIdle(m) == slot[m] = None /\ status[m] = "RUNNING"

\* Only the worker keeps the manager's mutex for more than a step.
TmFree(m) == wpc[m] \notin {"running", "notify"}

\* notify() of a manager.
Notified_lost(m) == wpc \* mutant: a signal is lost
Notified(m) == [wpc EXCEPT ![m] = IF @ = "waiting" THEN "woken" ELSE @]

\* task = 0, behind its delete.
Emptied_dangling(m) == slot \* mutant: the pointer stays
Emptied(m) == [slot EXCEPT ![m] = None]

\* set_task() of a free manager sets the task if nobody has the mutex.
Accepts(m) == slot[m] = None /\ TmFree(m)

\* The caller's task behind a set_task() that has set it.
HandedOver_twice(c) == hand \* mutant: set_task() returns false all the same
HandedOver(c) == [hand EXCEPT ![c] = None]

\* The loops over the managers.
More(c) == cur[c] < PoolSize

\* When set_task() comes to its end.
SetTaskEnds_blocked(m) == TmFree(m) \* mutant: set_task() takes a Lock (520-521)
SetTaskEnds(m) == TRUE

LockFree_any == TRUE \* mutant: a Lock that excludes nobody
LockFree == owner = None

\* Thread::join() returns.
Joinable_early(m) == TRUE \* mutant: the thread is detached
Joinable(m) == wpc[m] = "ended"

-----------------------------------------------------------------------------
Init ==
    /\ tmGo = [m \in Managers |-> TRUE]
    /\ slot = [m \in Managers |-> None]
    /\ wpc = [m \in Managers |-> "entered"]
    /\ status = [m \in Managers |-> "RUNNING"]
    /\ runs = [t \in Tasks |-> 0] /\ deletes = [t \in Tasks |-> 0]
    /\ owner = None /\ signal = FALSE /\ object = "whole"
    /\ pc = [c \in Callers |-> "out"] /\ op = [c \in Callers |-> "none"]
    /\ cur = [c \in Callers |-> 1] /\ hand = [c \in Callers |-> None]
    /\ answer = [c \in Callers |-> FALSE]
    /\ calls = 0 /\ submitted = {}

-----------------------------------------------------------------------------
(* TaskManager::run() and thread_starter()                                 *)

\* With the mutex, taken at the start or at the end of cond.wait(): leave and
\* delete the rest, run the task, or wait for one.
WorkerLoop(m) ==
    /\ wpc[m] \in {"entered", "woken"}
    /\ \/ /\ ~tmGo[m]
          /\ wpc' = [wpc EXCEPT ![m] = "leaving"]
          /\ slot' = Emptied(m)
          /\ deletes' = [t \in Tasks |-> deletes[t] + (IF slot[m] = t THEN 1 ELSE 0)]
          /\ UNCHANGED runs
       \/ /\ tmGo[m] /\ slot[m] # None
          /\ wpc' = [wpc EXCEPT ![m] = "running"]
          /\ runs' = [runs EXCEPT ![slot[m]] = @ + 1]
          /\ UNCHANGED <<slot, deletes>>
       \/ /\ tmGo[m] /\ slot[m] = None
          /\ wpc' = [wpc EXCEPT ![m] = "waiting"]
          /\ UNCHANGED <<slot, runs, deletes>>
    /\ UNCHANGED <<status, signal, pc>>

\* run() returned or threw.
WorkerFinish(m) ==
    /\ wpc[m] = "running"
    /\ deletes' = [deletes EXCEPT ![slot[m]] = @ + 1]
    /\ slot' = Emptied(m)
    /\ wpc' = [wpc EXCEPT ![m] = "notify"]
    /\ UNCHANGED <<status, runs, signal, pc>>

\* idle_notification(): one waiting execute() may wake up; then around the loop.
WorkerNotify(m) ==
    /\ wpc[m] = "notify" /\ LockFree
    /\ signal' = TRUE
    /\ LET W == {c \in Callers : pc[c] = "waiting"}
       IN  IF W = {} THEN UNCHANGED pc ELSE \E c \in W : pc' = [pc EXCEPT ![c] = "woken"]
    /\ wpc' = [wpc EXCEPT ![m] = IF tmGo[m] THEN "waiting" ELSE "leaving"]
    /\ UNCHANGED <<slot, status, runs, deletes>>

WorkerLeave(m) ==
    /\ wpc[m] = "leaving"
    /\ wpc' = [wpc EXCEPT ![m] = "ended"]
    /\ status' = [status EXCEPT ![m] = "FINISHED"]
    /\ UNCHANGED <<slot, runs, deletes, signal, pc>>

Worker(m) ==
    /\ WorkerLoop(m) \/ WorkerFinish(m) \/ WorkerNotify(m) \/ WorkerLeave(m)
    /\ UNCHANGED <<tmGo, owner, object, op, cur, hand, answer, calls, submitted>>

-----------------------------------------------------------------------------
(* Calls                                                                   *)

Begin(c, o, t) ==
    /\ pc[c] = "out" /\ calls < MaxCalls
    /\ calls' = calls + 1
    /\ op' = [op EXCEPT ![c] = o]
    /\ hand' = [hand EXCEPT ![c] = t]
    /\ pc' = [pc EXCEPT ![c] = IF o = "destroy" THEN "free" ELSE "enter"]
    /\ submitted' = submitted \cup ({t} \ {None})
    /\ UNCHANGED <<tmVars, owner, signal, cur, answer>>

\* "The ThreadPool cannot be used thereafter and should be destroyed": behind
\* terminate() only the destructor comes, when no call is left.  Callers stand
\* for any threads: the first that is in no call makes the next one.
Call(c) ==
    /\ \A d \in 1..(c - 1) : pc[d] # "out"
    /\ \/ object = "whole" /\ UNCHANGED object /\
          \/ \E t \in Tasks : submitted = 1..(t - 1) /\ Begin(c, "execute", t)
          \/ \E o \in {"is_idle", "is_busy"} : Begin(c, o, None)
       \/ object = "whole" /\ object' = "terminated" /\ Begin(c, "terminate", None)
       \/ /\ object \in {"whole", "terminated"} /\ object' = "closing"
          /\ \A d \in Callers : pc[d] = "out"
          /\ Begin(c, "destroy", None)

\* The pool's lock, at the start and at the end of wait_for(): a waiter that was
\* notified goes back to wait if another one has cleared `signal` since.
Enter(c) ==
    /\ pc[c] \in {"enter", "woken", "late"}
    /\ LockFree
    /\ IF pc[c] = "woken" /\ ~signal
         THEN pc' = [pc EXCEPT ![c] = "waiting"] /\ UNCHANGED owner
         ELSE /\ pc' = [pc EXCEPT ![c] = IF op[c] = "terminate" THEN "stop" ELSE "probe"]
              /\ owner' = c
    /\ UNCHANGED <<tmVars, signal, object, op, cur, hand, answer>>

Leave(c) ==
    /\ pc' = [pc EXCEPT ![c] = "out"] /\ op' = [op EXCEPT ![c] = "none"]
    /\ owner' = None

-----------------------------------------------------------------------------
(* execute()                                                               *)

\* Is this manager idle?
Probe(c) ==
    /\ pc[c] = "probe" /\ op[c] = "execute" /\ cur[c] <= PoolSize
    /\ IF IsIdle(cur[c])
         THEN pc' = [pc EXCEPT ![c] = "assign"] /\ UNCHANGED cur
         ELSE cur' = [cur EXCEPT ![c] = @ + 1] /\ UNCHANGED pc
    /\ UNCHANGED <<tmVars, poolVars, op, hand, answer>>

\* set_task(): it succeeds, or the loop goes on.
Assign(c) ==
    /\ pc[c] = "assign" /\ SetTaskEnds(cur[c])
    /\ IF Accepts(cur[c])
         THEN /\ slot' = [slot EXCEPT ![cur[c]] = hand[c]]
              /\ wpc' = Notified(cur[c])
              /\ hand' = HandedOver(c)
              /\ Leave(c)
              /\ cur' = [cur EXCEPT ![c] = 1]
         ELSE /\ pc' = [pc EXCEPT ![c] = "probe"]
              /\ cur' = [cur EXCEPT ![c] = @ + 1]
              /\ UNCHANGED <<slot, wpc, hand, owner, op>>
    /\ UNCHANGED <<tmGo, status, runs, deletes, signal, object, answer>>

\* wait_for(rand() % 113): `signal` is cleared and the lock given up.
NobodyIdle(c) ==
    /\ pc[c] = "probe" /\ op[c] = "execute" /\ cur[c] > PoolSize
    /\ signal' = FALSE /\ owner' = None
    /\ pc' = [pc EXCEPT ![c] = "waiting"]
    /\ cur' = [cur EXCEPT ![c] = 1]
    /\ UNCHANGED <<tmVars, object, op, hand, answer>>

TimeOut(c) ==
    /\ pc[c] = "waiting"
    /\ pc' = [pc EXCEPT ![c] = "late"]
    /\ UNCHANGED <<tmVars, poolVars, op, cur, hand, answer>>

-----------------------------------------------------------------------------
(* is_idle(), is_busy(), terminate(), ~ThreadPool()                        *)

\* One manager says no to the question, or all say yes.
Query(c) ==
    /\ pc[c] = "probe" /\ op[c] \in {"is_idle", "is_busy"}
    /\ LET no == IsIdle(cur[c]) = (op[c] = "is_busy")
       IN  IF no \/ ~More(c)
             THEN /\ pc' = [pc EXCEPT ![c] = "answer"]
                  /\ answer' = [answer EXCEPT ![c] = ~no]
                  /\ cur' = [cur EXCEPT ![c] = 1]
             ELSE cur' = [cur EXCEPT ![c] = @ + 1] /\ UNCHANGED <<pc, answer>>
    /\ UNCHANGED <<tmVars, poolVars, op, hand>>

QueryReturn(c) ==
    /\ pc[c] = "answer"
    /\ Leave(c)
    /\ answer' = [answer EXCEPT ![c] = FALSE]
    /\ UNCHANGED <<tmVars, signal, object, cur, hand>>

\* stop() of one manager: nobody is notified; behind the last, notify_all() of
\* the pool.
TerminateStop(c) ==
    /\ pc[c] = "stop"
    /\ tmGo' = [tmGo EXCEPT ![cur[c]] = FALSE]
    /\ IF More(c)
         THEN cur' = [cur EXCEPT ![c] = @ + 1] /\ UNCHANGED <<pc, op, owner, signal>>
         ELSE /\ cur' = [cur EXCEPT ![c] = 1]
              /\ pc' = [d \in Callers |-> IF d = c THEN "out" ELSE
                                          IF pc[d] = "waiting" THEN "woken" ELSE pc[d]]
              /\ op' = [op EXCEPT ![c] = "none"]
              /\ owner' = None /\ signal' = TRUE
    /\ UNCHANGED <<slot, wpc, status, runs, deletes, object, hand, answer>>

\* ~TaskManager(): go = false and notify() with the manager's mutex, ...
DestroyQuit(c) ==
    /\ pc[c] = "free" /\ TmFree(cur[c])
    /\ tmGo' = [tmGo EXCEPT ![cur[c]] = FALSE]
    /\ wpc' = Notified(cur[c])
    /\ pc' = [pc EXCEPT ![c] = "joining"]
    /\ UNCHANGED <<slot, status, runs, deletes, poolVars, op, cur, hand, answer>>

\* ... and join().
DestroyJoin(c) ==
    /\ pc[c] = "joining" /\ Joinable(cur[c])
    /\ status' = [status EXCEPT ![cur[c]] = "IDLE"]
    /\ IF More(c)
         THEN cur' = [cur EXCEPT ![c] = @ + 1] /\ pc' = [pc EXCEPT ![c] = "free"]
         ELSE cur' = [cur EXCEPT ![c] = 1] /\ pc' = [pc EXCEPT ![c] = "base"]
    /\ UNCHANGED <<tmGo, slot, wpc, runs, deletes, poolVars, op, hand, answer>>

\* ~Synchronized() of the pool.
DestroyBase(c) ==
    /\ pc[c] = "base" /\ (signal \/ owner = None)
    /\ signal' = TRUE /\ object' = "gone"
    /\ Leave(c)
    /\ UNCHANGED <<tmVars, cur, hand, answer>>

Actor(c) ==
    /\ \/ Enter(c) \/ Probe(c) \/ Assign(c) \/ NobodyIdle(c) \/ TimeOut(c)
       \/ Query(c) \/ QueryReturn(c) \/ TerminateStop(c)
       \/ DestroyQuit(c) \/ DestroyJoin(c) \/ DestroyBase(c)
    /\ UNCHANGED <<calls, submitted>>

Quiescent == (\A c \in Callers : pc[c] = "out") /\ UNCHANGED vars

Next ==
    \/ \E m \in Managers : Worker(m)
    \/ \E c \in Callers : Actor(c) \/ Call(c)
    \/ Quiescent

\* Threads that can go on do, tasks end, and a timed wait ends.  The pool's mutex
\* is got by whoever wants it if it is free again and again: execute() sleeps
\* without it between two scans.
Fairness ==
    /\ \A m \in Managers : WF_vars(Worker(m)) /\ SF_vars(WorkerNotify(m) /\ Worker(m))
    /\ \A c \in Callers : WF_vars(Actor(c)) /\ SF_vars(Enter(c) /\ Actor(c))

Spec == Init /\ [][Next]_vars /\ Fairness

-----------------------------------------------------------------------------
(* Properties                                                              *)

\* Every variable has its type; a cursor stays inside the vector where it is used.
TypeOK ==
    /\ tmGo \in [Managers -> BOOLEAN] /\ slot \in [Managers -> Tasks \cup {None}]
    /\ wpc \in [Managers -> WorkerStates] /\ status \in [Managers -> Statuses]
    /\ runs \in [Tasks -> Nat] /\ deletes \in [Tasks -> Nat]
    /\ owner \in Callers \cup {None} /\ signal \in BOOLEAN /\ object \in Objects
    /\ pc \in [Callers -> CallerStates] /\ op \in [Callers -> Operations]
    /\ cur \in [Callers -> 1..PoolSize + 1]
    /\ \A c \in Callers : pc[c] \in {"assign", "stop", "free", "joining"} => cur[c] \in Managers
    /\ hand \in [Callers -> Tasks \cup {None}] /\ answer \in [Callers -> BOOLEAN]
    /\ calls \in 0..MaxCalls /\ submitted \in SUBSET Tasks

\* A submitted task that is not deleted is with one caller or one manager, any
\* other with none, and a worker runs the task its manager holds, although the
\* pool sets and reads the pointer without a common lock (515-570).
TaskOwnership ==
    /\ \A t \in Tasks :
         /\ runs[t] <= 1 /\ deletes[t] <= 1
         /\ Cardinality({c \in Callers : hand[c] = t}) + Cardinality({m \in Managers : slot[m] = t})
              = IF t \in submitted /\ deletes[t] = 0 THEN 1 ELSE 0
    /\ \A m \in Managers : wpc[m] = "running" => slot[m] # None /\ runs[slot[m]] = 1

\* When is_idle() says true, no manager has a task at that instant, although it
\* asks one after the other without their mutexes: only execute(), which the
\* pool's lock keeps out, gives tasks (581-592).
IdleAnswer ==
    \A c \in Callers :
        pc[c] = "answer" /\ op[c] = "is_idle" /\ answer[c] => \A m \in Managers : slot[m] = None

\* The types, one owner for every task, and a true answer of is_idle().
Consistent == TypeOK /\ TaskOwnership /\ IdleAnswer

\* "Destructor will wait for termination of all threads" (threadpool.hpp 608-611):
\* behind it no thread is left that could use the pool, and a task that was not
\* deleted is in a manager whose run() was over when the task came.
DestroyedIsClean ==
    object = "gone" =>
        /\ owner = None /\ \A m \in Managers : wpc[m] = "ended"
        /\ \A t \in submitted : deletes[t] = 1 \/ \E m \in Managers : slot[m] = t

\* "The task will be deleted after call of its run() method" (threadpool.hpp
\* 613-617): when the pool is gone, every task was deleted.
NoTaskLeaks == object = "gone" => \A t \in submitted : deletes[t] = 1

\* What becomes of a task, as TaskExecution says it.
LifeOf(t) ==
    CASE t \notin submitted -> "new"
      [] t \in submitted /\ <<runs[t], deletes[t]>> = <<0, 0>> -> "accepted"
      [] <<runs[t], deletes[t]>> = <<1, 0>> -> "running"
      [] <<runs[t], deletes[t]>> = <<1, 1>> -> "finished"
      [] <<runs[t], deletes[t]>> = <<0, 1>> -> "discarded"
      [] OTHER -> "corrupt"

Abstract == INSTANCE TaskExecution WITH
    Capacity <- PoolSize,
    state <- [t \in Tasks |-> LifeOf(t)],
    closing <- object # "whole"

\* The boost pool keeps the promise of TaskExecution, too.
ImplementsTaskExecution == Abstract!Spec

\* execute() returns and its task is run and deleted, until terminate() is called:
\* neither the lock that idle_notification() wants while it holds another one nor
\* a `signal` cleared by the next execute() stops it for good.  (As MaxCalls are
\* made: from some time on no task is open.)
TasksEnd ==
    <>[](object = "whole" => \A t \in submitted : deletes[t] = 1 /\ \A c \in Callers : hand[c] = None)

\* The destructor ends, although terminate() has told no worker to wake up.
DestroyReturns == <>[](\A c \in Callers : op[c] # "destroy")

\* Tasks, calls and the destructor come to their end (512-654).
WorkEnds == TasksEnd /\ DestroyReturns
=============================================================================
