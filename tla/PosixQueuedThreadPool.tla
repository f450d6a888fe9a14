----------------------- MODULE PosixQueuedThreadPool ------------------------
(***************************************************************************)
(* AgentppCK::QueuedThreadPool (src/posix/threadpool.cpp, 789-919): a      *)
(* queue of tasks in front of the managers and one more thread, the queue  *)
(* thread, that moves tasks from the queue to idle managers.  The member   *)
(* `thread` is both that thread and the monitor that protects the queue.   *)
(*                                                                         *)
(* execute() only appends to the queue.  is_idle(), is_busy() and          *)
(* terminate() call the methods of the base class under the lock of        *)
(* `thread`; nobody takes the base class's lock otherwise and nobody waits *)
(* on its condition variable, so that lock and that condition variable are *)
(* not modelled.  idle_notification() signals `thread` without its lock.   *)
(***************************************************************************)
EXTENDS PosixTaskManager, Sequences, FiniteSets

CONSTANTS
    Callers,     \* the threads that use the pool
    QueueThread, \* the thread of the pool itself
    MaxCalls     \* bound: the calls one caller makes

ASSUME CallerAssumption ==
    /\ None \notin Callers
    /\ QueueThread \notin Callers \cup {None}
    /\ MaxCalls \in Nat

VARIABLES
    owner,     \* who holds the lock of `thread`: a caller, QueueThread or None
    queue,     \* the queued tasks
    go,        \* QueuedThreadPool::go
    qpc,       \* QueueStates: where the queue thread is
    qcur,      \* the iterator of assign()
    size,      \* taskList.size(): the vector holds the managers 1..size
    gone,      \* the destructor was called: no call may follow
    pc,        \* [Callers -> CallerStates]: where a caller is in its call
    op,        \* [Callers -> Operations]: the call it makes, or made last
    cur,       \* [Callers -> 1..PoolSize+1]: the loops' iterator
    hand,      \* [Callers -> Tasks \cup {None}]: the argument of execute()
    answer,    \* [Callers -> BOOLEAN]: the result of is_idle() or is_busy()
    calls,     \* [Callers -> 0..MaxCalls]: calls made (counts the bound)
    submitted, \* the tasks some execute() was called with
    pushed     \* history: the tasks in the order execute() queued them

queueVars == <<queue, go, qpc, qcur>>
callVars == <<pc, op, cur, hand, answer, calls>>
vars == <<tmVars, owner, queueVars, size, gone, callVars, submitted, pushed>>

(***************************************************************************)
(* The queue thread: "start" before its Lock in run(), "decide" at the     *)
(* tests of go and queue.empty(), "probe" and "assign" at is_idle() and    *)
(* set_task() of the manager qcur in assign(), "pop" behind assign(),      *)
(* "waiting" in one of the two wait() calls, "woken" signalled and without *)
(* the lock, "stopped" run() returned, "joined" joined by the destructor;  *)
(* "unborn" when pthread_create failed.                                    *)
(***************************************************************************)
QueueStates == {"start", "decide", "probe", "assign", "pop", "waiting", "woken",
                "stopped", "joined", "unborn"}
QueueInside == {"decide", "probe", "assign", "pop"}

(***************************************************************************)
(* A caller: "out" in no call, "enter" wants the lock, "probe" in the scan *)
(* of ThreadPool::is_idle(), "answer" at the end of is_idle() or is_busy() *)
(* with the lock held, "stop", "signal", "join" and "clear" in             *)
(* ThreadPool::terminate() as in PosixThreadPool, "joinqueue" and "empty"  *)
(* in the destructor at thread.join() and in EmptyQueue().                 *)
(***************************************************************************)
CallerStates == {"out", "enter", "probe", "answer", "stop", "signal", "join", "clear",
                 "joinqueue", "empty"}
Operations == {"execute", "is_idle", "is_busy", "terminate", "destroy"}

InHand(t) == {c \in Callers : hand[c] = t}
InSlot(t) == {m \in Managers : slot[m] = t}
InQueue(t) == {i \in 1..Len(queue) : queue[i] = t}

\* thread.notify(): the queue thread is the only one that waits.
QueueNotified == IF qpc = "waiting" THEN "woken" ELSE qpc

\* Thread::is_alive() of `thread`: status is RUNNING until join().
QueueAlive == qpc \notin {"unborn", "joined"}

-----------------------------------------------------------------------------
\* The constructor: the managers first, then the queue thread.
Init ==
    /\ TmInit
    /\ owner = None
    /\ queue = <<>> /\ go = TRUE /\ qcur = 1
    /\ qpc \in IF MayFailToStart THEN {"start", "unborn"} ELSE {"start"}
    /\ size = PoolSize
    /\ gone = FALSE
    /\ pc = [c \in Callers |-> "out"]
    /\ op = [c \in Callers |-> "execute"]
    /\ cur = [c \in Callers |-> 1]
    /\ hand = [c \in Callers |-> None]
    /\ answer = [c \in Callers |-> FALSE]
    /\ calls = [c \in Callers |-> 0]
    /\ submitted = {}
    /\ pushed = <<>>

-----------------------------------------------------------------------------
(* Calls.                                                                  *)

Begin(c, o) ==
    /\ pc[c] = "out"
    /\ ~gone
    /\ calls[c] < MaxCalls
    /\ calls' = [calls EXCEPT ![c] = @ + 1]
    /\ op' = [op EXCEPT ![c] = o]
    /\ pc' = [pc EXCEPT ![c] = "enter"]
    /\ UNCHANGED <<tmVars, owner, queueVars, size, cur, answer, pushed>>

\* execute(t): every task is a new object, submitted once.
CallExecute(c, t) ==
    /\ Begin(c, "execute")
    /\ t \notin submitted
    /\ submitted' = submitted \cup {t}
    /\ hand' = [hand EXCEPT ![c] = t]
    /\ UNCHANGED gone

Call(c, o) == Begin(c, o) /\ UNCHANGED <<hand, gone, submitted>>

\* delete pool: the last call, made when no other is in progress.
CallDestroy(c) ==
    /\ Begin(c, "destroy")
    /\ \A d \in Callers : pc[d] = "out"
    /\ gone' = TRUE
    /\ UNCHANGED <<hand, submitted>>

\* Mutant: the new task is put in front.
Execute_lifo(c) ==
    /\ pc[c] = "enter" /\ op[c] = "execute" /\ owner = None
    /\ IF go
         THEN /\ queue' = <<hand[c]>> \o queue
              /\ pushed' = Append(pushed, hand[c])
              /\ qpc' = QueueNotified
              /\ UNCHANGED <<tmVars, go, qcur>>
         ELSE /\ DeleteTask(hand[c])
              /\ UNCHANGED <<queueVars, pushed>>
    /\ hand' = [hand EXCEPT ![c] = None]
    /\ pc' = [pc EXCEPT ![c] = "out"]
    /\ UNCHANGED <<owner, size, gone, op, cur, answer, calls, submitted>>

\* execute(t): one step under the lock.
Execute(c) ==
    /\ pc[c] = "enter" /\ op[c] = "execute" /\ owner = None
    /\ IF go
         THEN /\ queue' = Append(queue, hand[c])
              /\ pushed' = Append(pushed, hand[c])
              /\ qpc' = QueueNotified
              /\ UNCHANGED <<tmVars, go, qcur>>
         ELSE /\ DeleteTask(hand[c])
              /\ UNCHANGED <<queueVars, pushed>>
    /\ hand' = [hand EXCEPT ![c] = None]
    /\ pc' = [pc EXCEPT ![c] = "out"]
    /\ UNCHANGED <<owner, size, gone, op, cur, answer, calls, submitted>>

-----------------------------------------------------------------------------
(* is_idle() and is_busy()                                                 *)

\* Mutant: the queue is not looked at.
QueryEnter_unqueued(c) ==
    /\ pc[c] = "enter" /\ op[c] \in {"is_idle", "is_busy"} /\ owner = None
    /\ owner' = c
    /\ cur' = [cur EXCEPT ![c] = 1]
    /\ answer' = [answer EXCEPT ![c] = (op[c] = "is_busy")]
    /\ pc' = [pc EXCEPT ![c] = IF QueueAlive /\ size > 0 THEN "probe" ELSE "answer"]
    /\ UNCHANGED <<tmVars, queueVars, size, gone, op, hand, calls, submitted, pushed>>

\* The answer is "not idle" unless the scan finds every manager idle.
QueryEnter(c) ==
    /\ pc[c] = "enter" /\ op[c] \in {"is_idle", "is_busy"} /\ owner = None
    /\ owner' = c
    /\ cur' = [cur EXCEPT ![c] = 1]
    /\ answer' = [answer EXCEPT ![c] = (op[c] = "is_busy")]
    /\ pc' = [pc EXCEPT ![c] =
                IF QueueAlive /\ queue = <<>> /\ size > 0 THEN "probe" ELSE "answer"]
    /\ UNCHANGED <<tmVars, queueVars, size, gone, op, hand, calls, submitted, pushed>>

\* ThreadPool::is_idle()
QueryProbe(c) ==
    /\ pc[c] = "probe"
    /\ TmFree(cur[c])
    /\ IF IsIdle(cur[c]) /\ cur[c] < size
         THEN /\ cur' = [cur EXCEPT ![c] = @ + 1]
              /\ UNCHANGED <<pc, answer>>
         ELSE /\ pc' = [pc EXCEPT ![c] = "answer"]
              /\ answer' = [answer EXCEPT ![c] = IF IsIdle(cur[c]) THEN ~@ ELSE @]
              /\ UNCHANGED cur
    /\ UNCHANGED <<tmVars, owner, queueVars, size, gone, op, hand, calls, submitted, pushed>>

QueryReturn(c) ==
    /\ pc[c] = "answer"
    /\ pc' = [pc EXCEPT ![c] = "out"]
    /\ owner' = None
    /\ UNCHANGED <<tmVars, queueVars, size, gone, op, cur, hand, answer, calls, submitted, pushed>>

-----------------------------------------------------------------------------
(* terminate() and the destructor.                                         *)

\* Mutant: no Lock on `thread`.
TerminateEnter_unlocked(c) ==
    /\ pc[c] = "enter" /\ op[c] \in {"terminate", "destroy"}
    /\ owner' = c
    /\ go' = FALSE
    /\ qpc' = QueueNotified
    /\ cur' = [cur EXCEPT ![c] = 1]
    /\ pc' = [pc EXCEPT ![c] = IF size = 0 THEN "clear" ELSE "stop"]
    /\ UNCHANGED <<tmVars, queue, qcur, size, gone, op, hand, answer, calls, submitted, pushed>>

\* Mutant: no thread.notify().
TerminateEnter_silent(c) ==
    /\ pc[c] = "enter" /\ op[c] \in {"terminate", "destroy"} /\ owner = None
    /\ owner' = c
    /\ go' = FALSE
    /\ cur' = [cur EXCEPT ![c] = 1]
    /\ pc' = [pc EXCEPT ![c] = IF size = 0 THEN "clear" ELSE "stop"]
    /\ UNCHANGED <<tmVars, queue, qpc, qcur, size, gone, op, hand, answer, calls, submitted,
                   pushed>>

\* go = false; thread.notify(); then ThreadPool::terminate().
TerminateEnter(c) ==
    /\ pc[c] = "enter" /\ op[c] \in {"terminate", "destroy"} /\ owner = None
    /\ owner' = c
    /\ go' = FALSE
    /\ qpc' = QueueNotified
    /\ cur' = [cur EXCEPT ![c] = 1]
    /\ pc' = [pc EXCEPT ![c] = IF size = 0 THEN "clear" ELSE "stop"]
    /\ UNCHANGED <<tmVars, queue, qcur, size, gone, op, hand, answer, calls, submitted, pushed>>

TerminateStop(c) ==
    /\ pc[c] = "stop"
    /\ StopManager(cur[c])
    /\ IF cur[c] < size
         THEN /\ cur' = [cur EXCEPT ![c] = @ + 1]
              /\ UNCHANGED pc
         ELSE /\ cur' = [cur EXCEPT ![c] = 1]
              /\ pc' = [pc EXCEPT ![c] = "signal"]
    /\ UNCHANGED <<owner, queueVars, size, gone, op, hand, answer, calls, submitted, pushed>>

TerminateSignal(c) ==
    /\ pc[c] = "signal"
    /\ SignalStop(cur[c])
    /\ pc' = [pc EXCEPT ![c] = "join"]
    /\ UNCHANGED <<owner, queueVars, size, gone, op, cur, hand, answer, calls, submitted, pushed>>

TerminateJoin(c) ==
    /\ pc[c] = "join"
    /\ JoinManager(cur[c])
    /\ pc' = [pc EXCEPT ![c] = IF cur[c] < size THEN "signal" ELSE "clear"]
    /\ cur' = [cur EXCEPT ![c] = @ + 1]
    /\ UNCHANGED <<owner, queueVars, size, gone, op, hand, answer, calls, submitted, pushed>>

\* taskList.clear(), unlock.  The queue thread is joined by the destructor only.
TerminateReturn(c) ==
    /\ pc[c] = "clear"
    /\ size' = 0
    /\ owner' = None
    /\ pc' = [pc EXCEPT ![c] = IF op[c] = "destroy" THEN "joinqueue" ELSE "out"]
    /\ UNCHANGED <<tmVars, queueVars, gone, op, cur, hand, answer, calls, submitted, pushed>>

\* ~QueuedThreadPool(): thread.join()
DestroyJoin(c) ==
    /\ pc[c] = "joinqueue"
    /\ qpc \in {"stopped", "unborn"}
    /\ qpc' = "joined"
    /\ pc' = [pc EXCEPT ![c] = "empty"]
    /\ UNCHANGED <<tmVars, owner, queue, go, qcur, size, gone, op, cur, hand, answer, calls,
                   submitted, pushed>>

\* Mutant: the queued tasks are removed and not deleted.
DestroyEmpty_leaking(c) ==
    /\ pc[c] = "empty"
    /\ owner = None
    /\ queue' = <<>>
    /\ pc' = [pc EXCEPT ![c] = "out"]
    /\ UNCHANGED <<tmVars, owner, go, qpc, qcur, size, gone, op, cur, hand, answer, calls,
                   submitted, pushed>>

\* EmptyQueue() deletes what was never assigned, one task a step; the second
\* terminate() of the base class finds an empty vector.
DestroyEmpty(c) ==
    /\ pc[c] = "empty"
    /\ owner = None
    /\ IF queue # <<>>
         THEN DeleteTask(Head(queue)) /\ queue' = Tail(queue) /\ UNCHANGED pc
         ELSE pc' = [pc EXCEPT ![c] = "out"] /\ UNCHANGED <<tmVars, queue>>
    /\ UNCHANGED <<owner, go, qpc, qcur, size, gone, op, cur, hand, answer, calls,
                   submitted, pushed>>

-----------------------------------------------------------------------------
(* QueuedThreadPool::run(), on the queue thread.                           *)

QueueUnchanged == UNCHANGED <<size, gone, callVars, submitted, pushed>>

\* The Lock at the start, and the return of the lock inside wait().
QueueLock ==
    /\ qpc \in {"start", "woken"}
    /\ owner = None
    /\ owner' = QueueThread
    /\ qpc' = "decide"
    /\ UNCHANGED <<tmVars, queue, go, qcur>> /\ QueueUnchanged

\* while (go && !queue.empty()) assign(queue.front())
QueueFront ==
    /\ qpc = "decide"
    /\ go
    /\ queue # <<>>
    /\ qpc' = "probe"
    /\ qcur' = 1
    /\ UNCHANGED <<tmVars, owner, queue, go>> /\ QueueUnchanged

\* assign(): is_idle() waits for the manager's lock with the lock of `thread` held.
QueueProbe ==
    /\ qpc = "probe"
    /\ qcur \in 1..size
    /\ TmFree(qcur)
    /\ IF IsIdle(qcur)
         THEN qpc' = "assign" /\ UNCHANGED qcur
         ELSE qcur' = qcur + 1 /\ UNCHANGED qpc
    /\ UNCHANGED <<tmVars, owner, queue, go>> /\ QueueUnchanged

QueueAssign ==
    /\ qpc = "assign"
    /\ TmFree(qcur)
    /\ IF slot[qcur] = None
         THEN SetTask(qcur, Head(queue)) /\ qpc' = "pop" /\ UNCHANGED qcur
         ELSE qcur' = qcur + 1 /\ qpc' = "probe" /\ UNCHANGED tmVars
    /\ UNCHANGED <<owner, queue, go>> /\ QueueUnchanged

\* Mutant: the assigned task stays at the front.
QueuePop_forgotten ==
    /\ qpc = "pop"
    /\ qpc' = "decide"
    /\ UNCHANGED <<tmVars, owner, queue, go, qcur>> /\ QueueUnchanged

\* queue.pop(): the worker may have run and deleted the front task by now.
QueuePop ==
    /\ qpc = "pop"
    /\ queue' = Tail(queue)
    /\ qpc' = "decide"
    /\ UNCHANGED <<tmVars, owner, go, qcur>> /\ QueueUnchanged

\* Both wait() calls: the queue is empty, or assign() found no idle manager.
QueueWait ==
    /\ \/ qpc = "decide" /\ go /\ queue = <<>>
       \/ qpc = "probe" /\ qcur > size
    /\ qpc' = "waiting"
    /\ owner' = None
    /\ UNCHANGED <<tmVars, queue, go, qcur>> /\ QueueUnchanged

QueueExit ==
    /\ qpc = "decide"
    /\ ~go
    /\ qpc' = "stopped"
    /\ owner' = None
    /\ UNCHANGED <<tmVars, queue, go, qcur>> /\ QueueUnchanged

QueueSpurious ==
    /\ qpc = "waiting"
    /\ qpc' = "woken"
    /\ UNCHANGED <<tmVars, owner, queue, go, qcur>> /\ QueueUnchanged

-----------------------------------------------------------------------------
\* idle_notification() is thread.notify(), on a worker that lacks that lock.
IdleNotification(m) ==
    /\ WorkerNotify(m)
    /\ qpc' = QueueNotified
    /\ UNCHANGED <<owner, queue, go, qcur>> /\ QueueUnchanged

Worker(m) ==
    \/ WorkerStep(m) /\ UNCHANGED <<owner, queueVars>> /\ QueueUnchanged
    \/ IdleNotification(m)

Queue ==
    \/ QueueLock \/ QueueFront \/ QueueProbe \/ QueueAssign \/ QueuePop
    \/ QueueWait \/ QueueExit

Caller(c) ==
    \/ Execute(c)
    \/ QueryEnter(c) \/ QueryProbe(c) \/ QueryReturn(c)
    \/ TerminateEnter(c) \/ TerminateStop(c) \/ TerminateSignal(c) \/ TerminateJoin(c)
    \/ TerminateReturn(c) \/ DestroyJoin(c) \/ DestroyEmpty(c)

NewCall(c) ==
    \/ \E t \in Tasks : CallExecute(c, t)
    \/ \E o \in {"is_idle", "is_busy", "terminate"} : Call(c, o)
    \/ CallDestroy(c)

Spurious ==
    \/ \E m \in Managers : WorkerSpurious(m) /\ UNCHANGED <<owner, queueVars>> /\ QueueUnchanged
    \/ QueueSpurious

\* No call is in progress: the program may leave it at that.
Quiescent ==
    /\ \A c \in Callers : pc[c] = "out"
    /\ UNCHANGED vars

Next ==
    \/ \E m \in Managers : Worker(m)
    \/ Queue
    \/ \E c \in Callers : Caller(c) \/ NewCall(c)
    \/ Spurious
    \/ Quiescent

\* Every thread that can go on does, and run() of a task ends; nobody has to
\* make a call, and spurious wakeups are not relied upon: they stop some day.
Fairness ==
    /\ \A m \in Managers : WF_vars(Worker(m))
    /\ WF_vars(Queue)
    /\ \A c \in Callers : WF_vars(Caller(c))
    /\ <>[][~Spurious]_vars

Spec == Init /\ [][Next]_vars /\ Fairness

-----------------------------------------------------------------------------
(* Safety.                                                                 *)

\* Every variable has its type; the iterators stay inside the vector.
TypeOK ==
    /\ TmTypeOK
    /\ owner \in Callers \cup {QueueThread, None}
    /\ queue \in Seq(Tasks)
    /\ go \in BOOLEAN
    /\ qpc \in QueueStates
    /\ qcur \in 1..PoolSize + 1
    /\ size \in {0, PoolSize}
    /\ gone \in BOOLEAN
    /\ pc \in [Callers -> CallerStates]
    /\ op \in [Callers -> Operations]
    /\ cur \in [Callers -> 1..PoolSize + 1]
    /\ hand \in [Callers -> Tasks \cup {None}]
    /\ answer \in [Callers -> BOOLEAN]
    /\ calls \in [Callers -> 0..MaxCalls]
    /\ submitted \in SUBSET Tasks
    /\ pushed \in Seq(Tasks)

\* Between assign() and queue.pop() the task at the front belongs to a worker
\* already, which may run and delete it (run 876-882).
Handed(t) == qpc = "pop" /\ queue[1] = t

\* A task whose only owner is the queue.
Queued(t) == InQueue(t) # {} /\ ~Handed(t)

\* A task is with one caller, or queued once, or in one slot, or deleted; it is
\* run at most once and deleted at most once, although assign() and pop() are
\* not one step (execute 854-865, run 867-890, EmptyQueue 807-818).
TaskOwnership ==
    \A t \in Tasks :
        /\ Cardinality(InQueue(t)) <= 1
        /\ Cardinality(InHand(t)) + Cardinality(InSlot(t)) + deletes[t]
             + (IF Queued(t) THEN 1 ELSE 0) = (IF t \in submitted THEN 1 ELSE 0)
        /\ runs[t] <= 1
        /\ runs[t] = 1 => InSlot(t) # {} \/ deletes[t] = 1

\* Tasks are assigned in the order in which execute() queued them (866-890): no
\* task starts, or is handed to a worker, while an earlier one is still queued.
FirstInFirstOut ==
    \A i, j \in DOMAIN pushed :
        i < j /\ Queued(pushed[i]) => Queued(pushed[j]) /\ runs[pushed[j]] = 0

\* When is_idle() says true, or is_busy() says false, at that instant every
\* manager is idle and every task ever queued is done with: the lock of
\* `thread`, held during the scan, keeps new tasks from the queue and the queue
\* thread from the managers (895-910).
QueryAnswer ==
    \A c \in Callers :
        pc[c] = "answer" /\ answer[c] = (op[c] = "is_idle") =>
            /\ \A m \in Managers : IsIdle(m)
            /\ \A t \in submitted : deletes[t] = 1 \/ InHand(t) # {}

\* set_task() after is_idle() never fails, and the worker it signals has not
\* been told to stop (assign 832-852).
SetTaskSucceeds ==
    qpc = "assign" => IsIdle(qcur) /\ tmGo[qcur] /\ wpc[qcur] # "stopped"

\* After go is cleared no queued task is handed to a worker any more (867-890,
\* 912-919), although the queue thread is not joined yet.
StoppedAssignsNothing ==
    [][~go => \A m \in Managers : slot'[m] \in {slot[m], None}]_vars

\* When the destructor has returned no thread of the pool is left and every
\* task the pool accepted was deleted exactly once (820-829).
DestroyedIsClean ==
    gone /\ (\A c \in Callers : pc[c] = "out") =>
        /\ qpc = "joined"
        /\ \A m \in Managers : wpc[m] = "joined"
        /\ \A t \in submitted : deletes[t] = 1

\* The types, who owns each task, that an assignment succeeds, and what the
\* destructor leaves behind (807-890): none of them depends on who is quicker.
Consistent == TypeOK /\ TaskOwnership /\ SetTaskSucceeds /\ DestroyedIsClean

-----------------------------------------------------------------------------
(* The pool implements TaskExecution.                                      *)

LifeOf(t) ==
    CASE t \notin submitted -> "new"
      [] t \in submitted /\ <<runs[t], deletes[t]>> = <<0, 0>> -> "accepted"
      [] <<runs[t], deletes[t]>> = <<1, 0>> -> "running"
      [] <<runs[t], deletes[t]>> = <<1, 1>> -> "finished"
      [] <<runs[t], deletes[t]>> = <<0, 1>> -> "discarded"
      [] OTHER -> "corrupt"

Abstract == INSTANCE TaskExecution WITH
    Capacity <- PoolSize,
    state <- [t \in Tasks |-> LifeOf(t)],
    closing <- (PoolSize = 0 \/ ~go)

\* A task given to execute() lives as the abstract pool says: one run, by a
\* free thread, then one delete; deleted without a run only after terminate().
ImplementsTaskExecution == Abstract!Spec

-----------------------------------------------------------------------------
(* Liveness.                                                               *)

\* Every call returns: execute() does not wait for a free worker, terminate()
\* and the destructor stop all threads (820-829, 854-865, 895-919).
CallsReturn == <>[](\A c \in Callers : pc[c] = "out")

\* terminate() makes the queue thread leave run(), whatever it waits for.
QueueThreadStops == <>[](go \/ qpc \in {"stopped", "joined", "unborn"})

\* Neither a caller nor the queue thread waits for ever (820-919).
WorkEnds == CallsReturn /\ QueueThreadStops
=============================================================================
