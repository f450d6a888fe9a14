-------------------------- MODULE AgentThreadPool ---------------------------
(***************************************************************************)
(* Agentpp::ThreadPool and QueuedThreadPool (src/threads.cpp, 670-960, and *)
(* src/agent_pp/threads.h): the pools of AGENT++ that the posix pools      *)
(* descend from.  The object is of one class or the other, and virtual     *)
(* functions go by it.                                                     *)
(*                                                                         *)
(* A worker holds its manager's lock except in wait(), and so does whoever *)
(* asks or assigns for an instant.  execute() of a QueuedThreadPool and    *)
(* its queue thread hold the lock of `thread`, everybody else the pool's.  *)
(***************************************************************************)
EXTENDS Naturals, Sequences, FiniteSets

CONSTANTS
    PoolSize,       \* the number of task managers
    MaxTasks,       \* bound: the tasks, numbered in the order of their submission
    MaxThreads,     \* bound: the threads that use the pool at a time
    MaxCalls,       \* bound: the calls the callers make together
    MayFailToStart, \* the managers of which pthread_create() may fail
    None

ASSUME AgentAssumption ==
    /\ PoolSize \in Nat \ {0} /\ MaxTasks \in Nat /\ MaxCalls \in Nat
    /\ MayFailToStart \subseteq 1..PoolSize
    /\ MaxThreads \in Nat /\ None \notin Nat

Managers == 1..PoolSize
Tasks == 1..MaxTasks
Callers == 1..MaxThreads
QueueThread == 0
Actors == Callers \cup {QueueThread}

VARIABLES
    queued,    \* the pool is a QueuedThreadPool
    oneTime,   \* oneTimeExecution
    tmGo,      \* [Managers -> BOOLEAN]: TaskManager::go
    slot,      \* [Managers -> Tasks \cup {None}]: TaskManager::task
    wpc,       \* [Managers -> WorkerStates]: the worker threads
    alive,     \* [Managers -> BOOLEAN]: Thread::is_alive(), cleared by join() only
    runs,      \* [Tasks -> Nat]: calls of run()
    deletes,   \* [Tasks -> Nat]: deletes
    owner,     \* [{"pool", "thread"} -> Actors \cup {None}]: the two locks
    queue,     \* QueuedThreadPool::queue
    go,        \* QueuedThreadPool::go
    object,    \* how far the pool is destroyed
    pc, op, cur, hand, answer, \* [Actors -> ...]: an actor's place in its call,
               \* the call, the cursor, the task it carries, the result
    calls,     \* 0..MaxCalls: calls made (counts the bound)
    submitted  \* the tasks some execute() was called with

tmVars == <<tmGo, slot, wpc, alive, runs, deletes>>
classVars == <<queued, oneTime>>
vars == <<classVars, tmVars, owner, queue, go, object, pc, op, cur, hand, answer, calls, submitted>>

\* "entered" and "woken" want the manager's lock; "running" and "notify" hold it.
WorkerStates == {"entered", "running", "notify", "waiting", "woken", "ended"}
\* "out" is in no call, "done" the end of the queue thread.
ActorStates == {"out", "enter", "front", "probe", "assign", "full", "waiting", "woken", "answer",
                "stop", "quit", "halt", "unwind", "join", "joining", "free", "done"}
Operations == {"none", "execute", "run", "is_idle", "is_busy", "terminate", "join", "destroy"}
\* "whole"; "terminated": only join() and the destructor may follow; "closing":
\* in the destructor; "unwound": queue and thread are destroyed, the base
\* destructor has not started; "base": it has; "gone".
Objects == {"whole", "terminated", "closing", "unwound", "base", "gone"}

LockOf(a) == IF queued /\ op[a] \in {"execute", "run"} THEN "thread" ELSE "pool"

\* Nobody but its worker keeps a manager's lock for more than a step.
TmFree(m) == wpc[m] \notin {"running", "notify"}

IsIdle(m) == slot[m] = None /\ alive[m]

\* notify() or notify_all() of a manager: only its worker waits there.
Notified_lost(m) == wpc \* mutant: a signal is lost
Notified(m) == [wpc EXCEPT ![m] = IF @ = "waiting" THEN "woken" ELSE @]

\* What notify() of a lock's condition variable may make of the actors' f.
NotifyOne(l, f) ==
    LET W == {a \in Actors : f[a] = "waiting" /\ LockOf(a) = l}
    IN  IF W = {} THEN {f} ELSE {[f EXCEPT ![a] = "woken"] : a \in W}

\* The scan of the managers is over.
Rewound(a) == [cur EXCEPT ![a] = 1]

\* task = NULL, behind its delete.
Emptied_dangling(m) == slot \* mutant: the pointer stays
Emptied(m) == [slot EXCEPT ![m] = None]

\* go = FALSE of a manager.
Stopped(m) == [tmGo EXCEPT ![m] = FALSE]

\* pthread_join(), if the thread runs as far as its object knows.
Joinable_early(m) == TRUE \* mutant: the thread is detached
Joinable(m) == alive[m] => wpc[m] = "ended"

\* queue.add(): at the end.
Added_lost(t) == queue \* mutant: a task that finds no manager is forgotten
Added(t) == Append(queue, t)

-----------------------------------------------------------------------------
Init ==
    /\ queued \in BOOLEAN /\ oneTime \in BOOLEAN
    /\ tmGo = [m \in Managers |-> TRUE]
    /\ slot = [m \in Managers |-> None]
    /\ alive \in {[m \in Managers |-> m \notin F] : F \in SUBSET MayFailToStart}
    /\ wpc = [m \in Managers |-> IF alive[m] THEN "entered" ELSE "ended"]
    /\ runs = [t \in Tasks |-> 0] /\ deletes = [t \in Tasks |-> 0]
    /\ owner = [l \in {"pool", "thread"} |-> None]
    /\ queue = <<>> /\ go = TRUE /\ object = "whole"
    /\ pc = [a \in Actors |-> IF a \in Callers THEN "out" ELSE IF queued THEN "enter" ELSE "done"]
    /\ op = [a \in Actors |-> IF a \in Callers THEN "none" ELSE "run"]
    /\ cur = [a \in Actors |-> 1]
    /\ hand = [a \in Actors |-> None]
    /\ answer = [a \in Actors |-> FALSE]
    /\ calls = 0
    /\ submitted = {}

-----------------------------------------------------------------------------
(* TaskManager::run()                                                      *)

\* The lock taken at the start or at the end of wait(): leave and delete the
\* rest, run the task, or wait for one.
WorkerLoop(m) ==
    /\ wpc[m] \in {"entered", "woken"}
    /\ \/ /\ ~tmGo[m]
          /\ wpc' = [wpc EXCEPT ![m] = "ended"]
          /\ slot' = Emptied(m)
          /\ deletes' = [t \in Tasks |-> deletes[t] + (IF slot[m] = t THEN 1 ELSE 0)]
          /\ UNCHANGED runs
       \/ /\ tmGo[m] /\ slot[m] # None
          /\ wpc' = [wpc EXCEPT ![m] = "running"]
          /\ runs' = [runs EXCEPT ![slot[m]] = @ + 1]
          /\ UNCHANGED <<slot, deletes>>
       \/ /\ tmGo[m] /\ slot[m] = None
          /\ wpc' = [wpc EXCEPT ![m] = "waiting"]
          /\ UNCHANGED <<slot, runs, deletes>>
    /\ UNCHANGED <<tmGo, alive, pc, owner>>

\* run() returned or threw; with one time execution the thread ends here.
WorkerFinish(m) ==
    /\ wpc[m] = "running"
    /\ deletes' = [deletes EXCEPT ![slot[m]] = @ + 1]
    /\ slot' = Emptied(m)
    /\ wpc' = [wpc EXCEPT ![m] = IF oneTime THEN "ended" ELSE "notify"]
    /\ UNCHANGED <<tmGo, alive, runs, pc, owner>>

\* idle_notification(), without the pool's lock, and on to the inner loop.
WorkerNotify(m) ==
    /\ wpc[m] = "notify"
    /\ pc' \in NotifyOne(IF queued /\ object # "base" THEN "thread" ELSE "pool", pc)
    /\ wpc' = [wpc EXCEPT ![m] = IF tmGo[m] THEN "waiting" ELSE "ended"]
    /\ UNCHANGED <<tmGo, slot, alive, runs, deletes, owner>>

Worker(m) ==
    /\ WorkerLoop(m) \/ WorkerFinish(m) \/ WorkerNotify(m)
    /\ UNCHANGED <<classVars, queue, go, object, op, cur, hand, answer, calls, submitted>>

-----------------------------------------------------------------------------
(* Calls.                                                                  *)

Begin(c, o, t) ==
    /\ pc[c] = "out" /\ calls < MaxCalls
    /\ calls' = calls + 1
    /\ op' = [op EXCEPT ![c] = o]
    /\ hand' = [hand EXCEPT ![c] = t]
    /\ pc' = [pc EXCEPT ![c] = IF o = "destroy" /\ queued THEN "quit" ELSE "enter"]
    /\ submitted' = submitted \cup ({t} \ {None})
    /\ UNCHANGED <<classVars, tmVars, owner, queue, cur, answer>>

\* "The ThreadPool cannot be used thereafter.  Use join() after this call":
\* when terminate() is called only join(), behind it, and the destructor
\* follow, and the destructor when no call is left.  Callers stand for any
\* threads: the first that is in no call makes the next one.
Call(c) ==
    /\ \A d \in 1..(c - 1) : pc[d] # "out"
    /\ \/ object = "whole" /\ UNCHANGED <<go, object>> /\
          \/ \E t \in Tasks : submitted = 1..(t - 1) /\ Begin(c, "execute", t)
          \/ \E o \in {"is_idle", "is_busy"} : Begin(c, o, None)
       \/ object = "whole" /\ object' = "terminated" /\ UNCHANGED go /\ Begin(c, "terminate", None)
       \/ /\ object = "terminated" /\ UNCHANGED <<go, object>>
          /\ \A d \in Callers : op[d] = "terminate" => pc[d] = "out"
          /\ Begin(c, "join", None)
       \/ /\ object \in {"whole", "terminated"} /\ object' = "closing"
          /\ \A d \in Callers : pc[d] = "out"
          /\ UNCHANGED go
          /\ Begin(c, "destroy", None)

\* QueuedThreadPool::stop(), without a lock.
Stop ==
    /\ queued /\ object = "whole" /\ go
    /\ go' = FALSE
    /\ UNCHANGED <<classVars, tmVars, owner, queue, object, pc, op, cur, hand, answer, calls, submitted>>

\* Where an actor goes behind its lock; execute() of a queued pool first looks
\* at the queue.
FirstState_direct(a) == \* mutant: execute() does not look at the queue
    IF op[a] = "execute" THEN "probe"
    ELSE CASE op[a] = "run" -> "front" [] op[a] \in {"is_idle", "is_busy"} -> "probe"
           [] op[a] = "join" -> "join" [] OTHER -> "stop"
FirstState(a) ==
    CASE op[a] = "run" -> "front"
      [] op[a] = "execute" -> IF queued /\ queue # <<>> THEN "full" ELSE "probe"
      [] op[a] \in {"is_idle", "is_busy"} -> "probe"
      [] op[a] = "join" -> "join"
      [] OTHER -> "stop"

LockFree(a) == owner[LockOf(a)] = None

\* Lock, at the start of a call and at the end of wait().
Enter(a) ==
    /\ pc[a] \in {"enter", "woken"}
    /\ LockFree(a)
    /\ owner' = [owner EXCEPT ![LockOf(a)] = a]
    /\ pc' = [pc EXCEPT ![a] = FirstState(a)]
    /\ UNCHANGED <<tmVars, queue, go, object, op, cur, hand, answer>>

\* The call ends and the lock is released, after whatever made f of the actors.
Leave(a, f) ==
    /\ pc' = [f EXCEPT ![a] = IF a = QueueThread THEN "done" ELSE "out"]
    /\ owner' = [owner EXCEPT ![LockOf(a)] = None]
    /\ op' = [op EXCEPT ![a] = IF a = QueueThread THEN @ ELSE "none"]

-----------------------------------------------------------------------------
(* execute(), assign(), and run() of the queue thread                      *)

\* run(): the loop's condition, and removeFirst().
Front ==
    /\ pc[QueueThread] = "front"
    /\ \/ ~go /\ Leave(QueueThread, pc) /\ UNCHANGED <<queue, hand>>
       \/ /\ go /\ queue # <<>>
          /\ hand' = [hand EXCEPT ![QueueThread] = Head(queue)]
          /\ queue' = Tail(queue)
          /\ pc' = [pc EXCEPT ![QueueThread] = "probe"]
          /\ UNCHANGED <<owner, op>>
       \/ /\ go /\ queue = <<>>
          /\ pc' = [pc EXCEPT ![QueueThread] = "waiting"]
          /\ owner' = [owner EXCEPT !["thread"] = None]
          /\ UNCHANGED <<queue, hand, op>>
    /\ UNCHANGED <<tmVars, go, object, cur, answer>>

\* One turn of the loop over the managers: is_idle().
Probe(a) ==
    /\ pc[a] = "probe" /\ op[a] \in {"execute", "run"}
    /\ cur[a] <= PoolSize
    /\ TmFree(cur[a])
    /\ IF IsIdle(cur[a])
         THEN pc' = [pc EXCEPT ![a] = "assign"] /\ UNCHANGED cur
         ELSE cur' = [cur EXCEPT ![a] = @ + 1] /\ UNCHANGED pc
    /\ UNCHANGED <<tmVars, owner, queue, go, object, op, hand, answer>>

\* The queue thread, which assigned its task or put it back, waits.
Carried(a, f) ==
    IF a = QueueThread
      THEN /\ pc' = [f EXCEPT ![a] = "waiting"]
           /\ owner' = [owner EXCEPT !["thread"] = None]
           /\ UNCHANGED op
      ELSE Leave(a, f)

\* set_task(): it succeeds, or the loop goes on.
Assign(a) ==
    /\ pc[a] = "assign"
    /\ TmFree(cur[a])
    /\ IF slot[cur[a]] = None
         THEN /\ slot' = [slot EXCEPT ![cur[a]] = hand[a]]
              /\ wpc' = Notified(cur[a])
              /\ hand' = [hand EXCEPT ![a] = None]
              /\ \E f \in IF LockOf(a) = "thread" THEN NotifyOne("thread", pc) ELSE {pc} :
                    Carried(a, f)
              /\ cur' = Rewound(a)
         ELSE /\ pc' = [pc EXCEPT ![a] = "probe"]
              /\ cur' = [cur EXCEPT ![a] = @ + 1]
              /\ UNCHANGED <<slot, wpc, hand, owner, op>>
    /\ UNCHANGED <<tmGo, alive, runs, deletes, queue, go, object, answer>>

\* No manager was idle: ThreadPool::execute() waits up to a second, the queued
\* pool adds the task at the end of the queue and notifies its thread.
NobodyIdle(a) ==
    /\ \/ pc[a] = "probe" /\ op[a] \in {"execute", "run"} /\ cur[a] > PoolSize
       \/ pc[a] = "full"
    /\ IF queued
         THEN /\ queue' = Added(hand[a])
              /\ hand' = [hand EXCEPT ![a] = None]
              /\ \E f \in NotifyOne("thread", pc) : Carried(a, f)
         ELSE /\ pc' = [pc EXCEPT ![a] = "waiting"]
              /\ owner' = [owner EXCEPT !["pool"] = None]
              /\ UNCHANGED <<queue, hand, op>>
    /\ cur' = Rewound(a)
    /\ UNCHANGED <<tmVars, go, object, answer>>

\* wait(1000) ends: signalled or not, the second passes.
TimeOut(a) ==
    /\ pc[a] = "waiting"
    /\ pc' = [pc EXCEPT ![a] = "woken"]
    /\ UNCHANGED <<tmVars, owner, queue, go, object, op, cur, hand, answer>>

-----------------------------------------------------------------------------
(* is_idle(), is_busy(), terminate(), join()                               *)

\* A manager decides against "all idle", or for "one busy", or the scan ends.
Query(c) ==
    /\ pc[c] = "probe" /\ op[c] \in {"is_idle", "is_busy"}
    /\ TmFree(cur[c])
    /\ LET decided == IF op[c] = "is_idle" THEN ~IsIdle(cur[c]) ELSE slot[cur[c]] # None
       IN  IF decided \/ cur[c] = PoolSize
             THEN /\ pc' = [pc EXCEPT ![c] = "answer"]
                  /\ answer' = [answer EXCEPT ![c] = (decided = (op[c] = "is_busy"))]
                  /\ cur' = Rewound(c)
             ELSE cur' = [cur EXCEPT ![c] = @ + 1] /\ UNCHANGED <<pc, answer>>
    /\ UNCHANGED <<tmVars, owner, queue, go, object, op, hand>>

QueryReturn(c) ==
    /\ pc[c] = "answer"
    /\ Leave(c, pc)
    /\ answer' = [answer EXCEPT ![c] = FALSE]
    /\ UNCHANGED <<tmVars, queue, go, object, cur, hand>>

\* stop() and notify() of one manager; behind the last, notify() and unlock.
\* The destructor goes on: of the queued part, to the members; of the base, to
\* join().
TerminateStop(c) ==
    /\ pc[c] = "stop"
    /\ TmFree(cur[c])
    /\ tmGo' = Stopped(cur[c])
    /\ wpc' = Notified(cur[c])
    /\ IF cur[c] < PoolSize
         THEN cur' = [cur EXCEPT ![c] = @ + 1] /\ UNCHANGED <<pc, owner, op>>
         ELSE /\ cur' = Rewound(c)
              /\ \E f \in NotifyOne("pool", pc) :
                    IF op[c] = "terminate"
                      THEN Leave(c, f)
                      ELSE /\ pc' = [f EXCEPT ![c] = IF queued /\ object = "closing"
                                                       THEN "unwind" ELSE "join"]
                           /\ UNCHANGED <<owner, op>>
    /\ UNCHANGED <<slot, alive, runs, deletes, queue, go, object, hand, answer>>

\* TaskManager::join(): notify_all(), under the manager's lock.
JoinNotify(c) ==
    /\ pc[c] = "join"
    /\ TmFree(cur[c])
    /\ wpc' = Notified(cur[c])
    /\ pc' = [pc EXCEPT ![c] = "joining"]
    /\ UNCHANGED <<tmGo, slot, alive, runs, deletes, owner, queue, go, object, op, cur, hand, answer>>

\* Thread::join(), then the pool's lock() of the loop, which the caller has.
JoinThread(c) ==
    /\ pc[c] = "joining"
    /\ Joinable(cur[c])
    /\ alive' = [alive EXCEPT ![cur[c]] = FALSE]
    /\ IF cur[c] < PoolSize
         THEN cur' = [cur EXCEPT ![c] = @ + 1] /\ pc' = [pc EXCEPT ![c] = "join"] /\ UNCHANGED <<owner, op>>
         ELSE /\ IF op[c] = "join" THEN Leave(c, pc)
                   ELSE pc' = [pc EXCEPT ![c] = "free"] /\ UNCHANGED <<owner, op>>
              /\ cur' = Rewound(c)
    /\ UNCHANGED <<tmGo, slot, wpc, runs, deletes, queue, go, object, hand, answer>>

-----------------------------------------------------------------------------
(* The destructors                                                         *)

\* ~QueuedThreadPool(): clear go and notify under the thread's lock, join.
DestroyQuit(c) ==
    /\ pc[c] = "quit"
    /\ owner["thread"] = None
    /\ go' = FALSE
    /\ \E f \in NotifyOne("thread", pc) : pc' = [f EXCEPT ![c] = "halt"]
    /\ UNCHANGED <<tmVars, owner, queue, object, op, cur, hand, answer>>

DestroyHalt(c) ==
    /\ pc[c] = "halt"
    /\ pc[QueueThread] = "done"
    /\ pc' = [pc EXCEPT ![c] = "enter"]
    /\ UNCHANGED <<tmVars, owner, queue, go, object, op, cur, hand, answer>>

\* The members thread and queue are destroyed, the tasks in the queue deleted,
\* and ~ThreadPool() starts.
DestroyMembers(c) ==
    /\ pc[c] = "unwind"
    /\ \/ /\ queue # <<>>
          /\ queue' = Tail(queue)
          /\ deletes' = [deletes EXCEPT ![Head(queue)] = @ + 1]
          /\ UNCHANGED <<object, pc>>
       \/ /\ queue = <<>> /\ object = "closing"
          /\ object' = "unwound"
          /\ UNCHANGED <<queue, deletes, pc>>
       \/ /\ object = "unwound"
          /\ object' = "base"
          /\ pc' = [pc EXCEPT ![c] = "stop"]
          /\ UNCHANGED <<queue, deletes>>
    /\ UNCHANGED <<tmGo, slot, wpc, alive, runs, owner, go, op, cur, hand, answer>>

\* taskList is destroyed with its managers, whose threads are joined.
DestroyManagers(c) ==
    /\ pc[c] = "free"
    /\ object' = "gone"
    /\ Leave(c, pc)
    /\ UNCHANGED <<tmVars, queue, go, cur, hand, answer>>

Locks(a) == (Enter(a) \/ DestroyQuit(a)) /\ UNCHANGED <<classVars, calls, submitted>>

Actor(a) ==
    \/ Locks(a)
    \/ UNCHANGED <<classVars, calls, submitted>> /\
       \/ a = QueueThread /\ Front
       \/ Probe(a) \/ Assign(a) \/ NobodyIdle(a) \/ TimeOut(a)
       \/ Query(a) \/ QueryReturn(a)
       \/ TerminateStop(a) \/ JoinNotify(a) \/ JoinThread(a)
       \/ DestroyHalt(a) \/ DestroyMembers(a) \/ DestroyManagers(a)

Quiescent == (\A c \in Callers : pc[c] = "out") /\ UNCHANGED vars

Next ==
    \/ \E m \in Managers : Worker(m)
    \/ \E a \in Actors : Actor(a)
    \/ \E c \in Callers : Call(c)
    \/ Stop
    \/ Quiescent

\* Threads that can go on do, and tasks end; a waiting second passes.  While
\* one thread waits that second its mutex is free long enough for any other.
Fairness ==
    /\ \A m \in Managers : WF_vars(Worker(m))
    /\ \A a \in Actors : WF_vars(Actor(a)) /\ SF_vars(Locks(a))

Spec == Init /\ [][Next]_vars /\ Fairness

-----------------------------------------------------------------------------
(* Safety.                                                                 *)

\* Every variable has its type; a cursor stays inside the array where it is used.
TypeOK ==
    /\ queued \in BOOLEAN /\ oneTime \in BOOLEAN /\ go \in BOOLEAN
    /\ tmGo \in [Managers -> BOOLEAN] /\ alive \in [Managers -> BOOLEAN]
    /\ slot \in [Managers -> Tasks \cup {None}]
    /\ wpc \in [Managers -> WorkerStates]
    /\ runs \in [Tasks -> Nat] /\ deletes \in [Tasks -> Nat]
    /\ owner \in [{"pool", "thread"} -> Actors \cup {None}]
    /\ queue \in Seq(Tasks)
    /\ object \in Objects
    /\ pc \in [Actors -> ActorStates] /\ op \in [Actors -> Operations]
    /\ cur \in [Actors -> 1..PoolSize + 1]
    /\ hand \in [Actors -> Tasks \cup {None}] /\ answer \in [Actors -> BOOLEAN]
    /\ calls \in 0..MaxCalls /\ submitted \in SUBSET Tasks

\* A task that was submitted and not yet deleted is in exactly one place, a
\* call, the queue, the queue thread or a manager, and any other task in none
\* (execute 752-779, 927-938, assign 902-925, run 699-729, 940-951).
Holders(t) ==
    {<<"hand", a>> : a \in {x \in Actors : hand[x] = t}}
        \cup {<<"slot", m>> : m \in {x \in Managers : slot[x] = t}}
        \cup {<<"queue", i>> : i \in {x \in 1..Len(queue) : queue[x] = t}}

TaskOwnership ==
    \A t \in Tasks :
        /\ runs[t] <= 1 /\ deletes[t] <= 1
        /\ Cardinality(Holders(t)) = IF t \in submitted /\ deletes[t] = 0 THEN 1 ELSE 0

\* is_idle() of a ThreadPool asks one manager after the other; when it says
\* true all are idle at that instant (786-797).  A QueuedThreadPool assigns
\* under another lock, and the answer says nothing.
IdleAnswer ==
    \A c \in Callers :
        ~queued /\ pc[c] = "answer" /\ op[c] = "is_idle" /\ answer[c] =>
            \A m \in Managers : IsIdle(m)

\* execute() gives its task to a manager only when no queued task waits, from
\* its look at the queue to set_task() (931-935).
NoOvertaking ==
    \A c \in Callers :
        queued /\ op[c] = "execute" /\ pc[c] \in {"probe", "assign"} => queue = <<>>

\* "Destructor will wait for termination of all threads" (threads.h 507-509,
\* 638-640): behind it no thread is left, and no task but in a manager whose
\* thread had ended before the task came.
DestroyedIsClean ==
    object = "gone" =>
        /\ \A m \in Managers : wpc[m] = "ended"
        /\ pc[QueueThread] = "done"
        /\ queue = <<>> /\ \A a \in Actors : hand[a] = None

\* The types, one owner for every task, and a true answer of is_idle().
Consistent == TypeOK /\ TaskOwnership /\ IdleAnswer

\* What becomes of a task, as TaskExecution says it.
LifeOf(t) ==
    CASE t \notin submitted -> "new"
      [] t \in submitted /\ <<runs[t], deletes[t]>> = <<0, 0>> -> "accepted"
      [] <<runs[t], deletes[t]>> = <<1, 0>> -> "running"
      [] <<runs[t], deletes[t]>> = <<1, 1>> -> "finished"
      [] <<runs[t], deletes[t]>> = <<0, 1>> -> "discarded"
      [] OTHER -> "corrupt"

Abstract == INSTANCE TaskExecution WITH
    Capacity <- PoolSize,
    state <- [t \in Tasks |-> LifeOf(t)],
    closing <- object # "whole"

\* Both pools of AGENT++ keep the promise of TaskExecution: one run by a free
\* thread, then one delete; no delete without a run before terminate().
ImplementsTaskExecution == Abstract!Spec

-----------------------------------------------------------------------------
(* Liveness.                                                               *)

\* A task given to a pool with a worker, of which terminate(), stop() and the
\* destructor are not called and which does not stop after one task, is run and
\* deleted: the seconds of wait(1000) make up for notify() without the lock.
TaskEnds ==
    \A t \in Tasks :
        t \in submitted /\ ~oneTime /\ (\E m \in Managers : alive[m])
            ~> deletes[t] = 1 \/ object # "whole" \/ ~go

\* The destructors and terminate() come to their end, whatever workers and
\* queue thread are doing (812-839, 859-864, 884-899).
DestroyReturns ==
    object # "whole" ~> \A c \in Callers : op[c] \notin {"terminate", "destroy"}

\* Tasks and destructors come to their end, with a second here and there.
WorkEnds == TaskEnds /\ DestroyReturns
=============================================================================
