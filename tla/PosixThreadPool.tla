-------------------------- MODULE PosixThreadPool ---------------------------
(***************************************************************************)
(* AgentppCK::ThreadPool (src/posix/threadpool.cpp, 666-787): a monitor    *)
(* over a vector of TaskManagers.  Callers are the threads of the program  *)
(* that use one pool; each performs one call at a time.                    *)
(*                                                                         *)
(* A caller holds the pool's lock for its whole call, except inside        *)
(* wait(), and takes the lock of one manager at a time under it.  Workers  *)
(* call idle_notification() without the pool's lock.                       *)
(***************************************************************************)
EXTENDS PosixTaskManager

CONSTANTS
    Callers,   \* the threads that use the pool
    MaxCalls   \* bound: the calls one caller makes

ASSUME CallerAssumption ==
    /\ None \notin Callers
    /\ MaxCalls \in Nat

VARIABLES
    poolOwner, \* the caller that holds the pool's lock, or None
    size,      \* taskList.size(): the vector holds the managers 1..size
    gone,      \* the destructor was called: no call may follow
    pc,        \* [Callers -> CallerStates]: where a caller is in its call
    op,        \* [Callers -> Operations]: the call it makes, or made last
    cur,       \* [Callers -> 1..PoolSize+1]: the loops' iterator
    hand,      \* [Callers -> Tasks \cup {None}]: the argument of execute()
    answer,    \* [Callers -> BOOLEAN]: the result of is_idle() or is_busy()
    calls,     \* [Callers -> 0..MaxCalls]: calls made (counts the bound)
    submitted  \* the tasks some execute() was called with

callVars == <<pc, op, cur, hand, answer, calls, submitted>>
vars == <<tmVars, poolOwner, size, gone, callVars>>

(***************************************************************************)
(* "out"     in no call                                                    *)
(* "enter"   called, wants the pool's lock                                 *)
(* "probe"   execute(), is_idle(), is_busy(): at the is_idle() of cur      *)
(* "assign"  execute(): that manager was idle, at its set_task()           *)
(* "waiting" execute(): in wait(), the pool's lock released                *)
(* "woken"   execute(): signalled, the lock not yet taken again            *)
(* "answer"  is_idle(), is_busy(): result computed, lock still held        *)
(* "stop"    terminate(): at the stop() of cur                             *)
(* "signal"  EmptyTaskList(): in the destructor of cur, before notify()    *)
(* "join"    EmptyTaskList(): in that destructor, at thread.join()         *)
(* "clear"   EmptyTaskList(): every manager deleted                        *)
(***************************************************************************)
CallerStates == {"out", "enter", "probe", "assign", "waiting", "woken", "answer",
                 "stop", "signal", "join", "clear"}
Stopping == {"stop", "signal", "join", "clear"}
Inside == {"probe", "assign", "answer"} \cup Stopping
Operations == {"execute", "is_idle", "is_busy", "terminate", "destroy"}

Waiters(f) == {c \in Callers : f[c] = "waiting"}

\* The possible caller states after notify() when they were f: one waiting
\* caller is woken if there is one, and a signal nobody waits for is lost.
NotifyOne(f) ==
    IF Waiters(f) = {} THEN {f} ELSE {[f EXCEPT ![w] = "woken"] : w \in Waiters(f)}

-----------------------------------------------------------------------------
Init ==
    /\ TmInit
    /\ poolOwner = None
    /\ size = PoolSize
    /\ gone = FALSE
    /\ pc = [c \in Callers |-> "out"]
    /\ op = [c \in Callers |-> "execute"]
    /\ cur = [c \in Callers |-> 1]
    /\ hand = [c \in Callers |-> None]
    /\ answer = [c \in Callers |-> FALSE]
    /\ calls = [c \in Callers |-> 0]
    /\ submitted = {}

-----------------------------------------------------------------------------
(* Calls.                                                                  *)

Begin(c, o) ==
    /\ pc[c] = "out"
    /\ ~gone
    /\ calls[c] < MaxCalls
    /\ calls' = [calls EXCEPT ![c] = @ + 1]
    /\ op' = [op EXCEPT ![c] = o]
    /\ pc' = [pc EXCEPT ![c] = "enter"]
    /\ UNCHANGED <<tmVars, poolOwner, size, cur, answer>>

\* execute(t): every task is a new object, submitted once.
CallExecute(c, t) ==
    /\ Begin(c, "execute")
    /\ t \notin submitted
    /\ submitted' = submitted \cup {t}
    /\ hand' = [hand EXCEPT ![c] = t]
    /\ UNCHANGED gone

Call(c, o) ==
    /\ Begin(c, o)
    /\ UNCHANGED <<hand, submitted, gone>>

\* delete pool: the last call, made when no other is in progress.
CallDestroy(c) ==
    /\ Begin(c, "destroy")
    /\ \A d \in Callers : pc[d] = "out"
    /\ gone' = TRUE
    /\ UNCHANGED <<hand, submitted>>

\* The first statement behind the lock.
FirstState(c) ==
    CASE op[c] = "execute" -> "probe"
      [] op[c] \in {"is_idle", "is_busy"} -> IF size = 0 THEN "answer" ELSE "probe"
      [] OTHER -> IF size = 0 THEN "clear" ELSE "stop"

\* Mutant: a Lock that does not exclude anybody.
Enter_unlocked(c) ==
    /\ pc[c] \in {"enter", "woken"}
    /\ poolOwner' = c
    /\ pc' = [pc EXCEPT ![c] = FirstState(c)]
    /\ cur' = [cur EXCEPT ![c] = 1]
    /\ answer' = [answer EXCEPT ![c] = (op[c] = "is_busy")]
    /\ UNCHANGED <<tmVars, size, gone, op, hand, calls, submitted>>

\* Lock on the pool, at the start of a call and at the end of wait().
Enter(c) ==
    /\ pc[c] \in {"enter", "woken"}
    /\ poolOwner = None
    /\ poolOwner' = c
    /\ pc' = [pc EXCEPT ![c] = FirstState(c)]
    /\ cur' = [cur EXCEPT ![c] = 1]
    /\ answer' = [answer EXCEPT ![c] = (op[c] = "is_busy")]
    /\ UNCHANGED <<tmVars, size, gone, op, hand, calls, submitted>>

-----------------------------------------------------------------------------
(* execute()                                                               *)

\* The pool was terminated: delete t.
ExecuteReject(c) ==
    /\ pc[c] = "probe"
    /\ op[c] = "execute"
    /\ size = 0
    /\ DeleteTask(hand[c])
    /\ hand' = [hand EXCEPT ![c] = None]
    /\ pc' = [pc EXCEPT ![c] = "out"]
    /\ poolOwner' = None
    /\ UNCHANGED <<size, gone, op, cur, answer, calls, submitted>>

ExecuteProbe(c) ==
    /\ pc[c] = "probe"
    /\ op[c] = "execute"
    /\ cur[c] \in 1..size
    /\ TmFree(cur[c])
    /\ IF IsIdle(cur[c])
         THEN /\ pc' = [pc EXCEPT ![c] = "assign"]
              /\ UNCHANGED cur
         ELSE /\ cur' = [cur EXCEPT ![c] = @ + 1]
              /\ UNCHANGED pc
    /\ UNCHANGED <<tmVars, poolOwner, size, gone, op, hand, answer, calls, submitted>>

\* set_task(t): true ends the call, false goes on to the next manager.
ExecuteAssign(c) ==
    /\ pc[c] = "assign"
    /\ TmFree(cur[c])
    /\ IF slot[cur[c]] = None
         THEN /\ SetTask(cur[c], hand[c])
              /\ hand' = [hand EXCEPT ![c] = None]
              /\ pc' = [pc EXCEPT ![c] = "out"]
              /\ poolOwner' = None
              /\ UNCHANGED cur
         ELSE /\ pc' = [pc EXCEPT ![c] = "probe"]
              /\ cur' = [cur EXCEPT ![c] = @ + 1]
              /\ UNCHANGED <<tmVars, poolOwner, hand>>
    /\ UNCHANGED <<size, gone, op, answer, calls, submitted>>

\* No manager was idle: wait(), without a timeout.
ExecuteWait(c) ==
    /\ pc[c] = "probe"
    /\ op[c] = "execute"
    /\ size > 0
    /\ cur[c] > size
    /\ pc' = [pc EXCEPT ![c] = "waiting"]
    /\ poolOwner' = None
    /\ UNCHANGED <<tmVars, size, gone, op, cur, hand, answer, calls, submitted>>

ExecuteSpurious(c) ==
    /\ pc[c] = "waiting"
    /\ pc' = [pc EXCEPT ![c] = "woken"]
    /\ UNCHANGED <<tmVars, poolOwner, size, gone, op, cur, hand, answer, calls, submitted>>

-----------------------------------------------------------------------------
(* is_idle() and is_busy()                                                 *)

\* Mutant: a scan that answers "all idle" at the first idle manager.
QueryProbe_any(c) ==
    /\ pc[c] = "probe"
    /\ op[c] \in {"is_idle", "is_busy"}
    /\ TmFree(cur[c])
    /\ IF ~IsIdle(cur[c])
         THEN /\ cur' = [cur EXCEPT ![c] = @ + 1]
              /\ pc' = [pc EXCEPT ![c] = IF cur[c] = size THEN "answer" ELSE "probe"]
              /\ UNCHANGED answer
         ELSE /\ pc' = [pc EXCEPT ![c] = "answer"]
              /\ answer' = [answer EXCEPT ![c] = ~@]
              /\ UNCHANGED cur
    /\ UNCHANGED <<tmVars, poolOwner, size, gone, op, hand, calls, submitted>>

\* The first manager that is not idle decides; answer already holds the result
\* for that case, and is negated if every manager is idle.
QueryProbe(c) ==
    /\ pc[c] = "probe"
    /\ op[c] \in {"is_idle", "is_busy"}
    /\ TmFree(cur[c])
    /\ IF IsIdle(cur[c]) /\ cur[c] < size
         THEN /\ cur' = [cur EXCEPT ![c] = @ + 1]
              /\ UNCHANGED <<pc, answer>>
         ELSE /\ pc' = [pc EXCEPT ![c] = "answer"]
              /\ answer' = [answer EXCEPT ![c] = IF IsIdle(cur[c]) THEN ~@ ELSE @]
              /\ UNCHANGED cur
    /\ UNCHANGED <<tmVars, poolOwner, size, gone, op, hand, calls, submitted>>

QueryReturn(c) ==
    /\ pc[c] = "answer"
    /\ pc' = [pc EXCEPT ![c] = "out"]
    /\ poolOwner' = None
    /\ UNCHANGED <<tmVars, size, gone, op, cur, hand, answer, calls, submitted>>

-----------------------------------------------------------------------------
(* terminate(), and ~ThreadPool(), which calls it and then finds nothing   *)
(* left to do.                                                             *)

\* The loop over stop(), then EmptyTaskList().
TerminateStop(c) ==
    /\ pc[c] = "stop"
    /\ StopManager(cur[c])
    /\ IF cur[c] < size
         THEN /\ cur' = [cur EXCEPT ![c] = @ + 1]
              /\ UNCHANGED pc
         ELSE /\ cur' = [cur EXCEPT ![c] = 1]
              /\ pc' = [pc EXCEPT ![c] = "signal"]
    /\ UNCHANGED <<poolOwner, size, gone, op, hand, answer, calls, submitted>>

TerminateSignal(c) ==
    /\ pc[c] = "signal"
    /\ SignalStop(cur[c])
    /\ pc' = [pc EXCEPT ![c] = "join"]
    /\ UNCHANGED <<poolOwner, size, gone, op, cur, hand, answer, calls, submitted>>

\* Mutant: a delete that does not wait for the thread.
TerminateJoin_detached(c) ==
    /\ pc[c] = "join"
    /\ pc' = [pc EXCEPT ![c] = IF cur[c] < size THEN "signal" ELSE "clear"]
    /\ cur' = [cur EXCEPT ![c] = @ + 1]
    /\ UNCHANGED <<tmVars, poolOwner, size, gone, op, hand, answer, calls, submitted>>

TerminateJoin(c) ==
    /\ pc[c] = "join"
    /\ JoinManager(cur[c])
    /\ pc' = [pc EXCEPT ![c] = IF cur[c] < size THEN "signal" ELSE "clear"]
    /\ cur' = [cur EXCEPT ![c] = @ + 1]
    /\ UNCHANGED <<poolOwner, size, gone, op, hand, answer, calls, submitted>>

\* Mutant: taskList.clear() is forgotten, the vector keeps freed managers.
TerminateReturn_uncleared(c) ==
    /\ pc[c] = "clear"
    /\ poolOwner' = None
    /\ pc' \in NotifyOne([pc EXCEPT ![c] = "out"])
    /\ UNCHANGED <<tmVars, size, gone, op, cur, hand, answer, calls, submitted>>

\* taskList.clear(), one notify() for the callers in execute(), unlock.
TerminateReturn(c) ==
    /\ pc[c] = "clear"
    /\ size' = 0
    /\ poolOwner' = None
    /\ pc' \in NotifyOne([pc EXCEPT ![c] = "out"])
    /\ UNCHANGED <<tmVars, gone, op, cur, hand, answer, calls, submitted>>

-----------------------------------------------------------------------------
\* idle_notification() is notify(), on a worker that lacks the pool's lock.
IdleNotification(m) ==
    /\ WorkerNotify(m)
    /\ pc' \in NotifyOne(pc)
    /\ UNCHANGED <<poolOwner, size, gone, op, cur, hand, answer, calls, submitted>>

Worker(m) ==
    \/ WorkerStep(m) /\ UNCHANGED <<poolOwner, size, gone, callVars>>
    \/ IdleNotification(m)

Caller(c) ==
    \/ Enter(c)
    \/ ExecuteReject(c) \/ ExecuteProbe(c) \/ ExecuteAssign(c) \/ ExecuteWait(c)
    \/ QueryProbe(c) \/ QueryReturn(c)
    \/ TerminateStop(c) \/ TerminateSignal(c) \/ TerminateJoin(c) \/ TerminateReturn(c)

NewCall(c) ==
    \/ \E t \in Tasks : CallExecute(c, t)
    \/ \E o \in {"is_idle", "is_busy", "terminate"} : Call(c, o)
    \/ CallDestroy(c)

Spurious ==
    \/ \E m \in Managers : WorkerSpurious(m) /\ UNCHANGED <<poolOwner, size, gone, callVars>>
    \/ \E c \in Callers : ExecuteSpurious(c)

\* No call is in progress: the program may leave it at that.
Quiescent ==
    /\ \A c \in Callers : pc[c] = "out"
    /\ UNCHANGED vars

Next ==
    \/ \E m \in Managers : Worker(m)
    \/ \E c \in Callers : Caller(c) \/ NewCall(c)
    \/ Spurious
    \/ Quiescent

\* Every thread that can go on does, and run() of a task ends; nobody has to
\* make a call, and spurious wakeups are not relied upon: they stop some day.
Fairness ==
    /\ \A m \in Managers : WF_vars(Worker(m))
    /\ \A c \in Callers : WF_vars(Caller(c))
    /\ <>[][~Spurious]_vars

Spec == Init /\ [][Next]_vars /\ Fairness

-----------------------------------------------------------------------------
(* Safety.                                                                 *)

\* Every variable has its type; the iterators stay inside the vector.
TypeOK ==
    /\ TmTypeOK
    /\ poolOwner \in Callers \cup {None}
    /\ size \in {0, PoolSize}
    /\ gone \in BOOLEAN
    /\ pc \in [Callers -> CallerStates]
    /\ op \in [Callers -> Operations]
    /\ cur \in [Callers -> 1..PoolSize + 1]
    /\ hand \in [Callers -> Tasks \cup {None}]
    /\ answer \in [Callers -> BOOLEAN]
    /\ calls \in [Callers -> 0..MaxCalls]
    /\ submitted \in SUBSET Tasks

\* The call execute(t) and the managers pass a task on and never share it: it
\* is with one caller, or in one slot, or deleted; it is run at most once and
\* deleted at most once (execute 668-698, run 616-637).
InHand(t) == {c \in Callers : hand[c] = t}
InSlot(t) == {m \in Managers : slot[m] = t}

TaskOwnership ==
    \A t \in Tasks :
        /\ \A c, d \in InHand(t) : c = d
        /\ \A m, n \in InSlot(t) : m = n
        /\ InHand(t) = {} \/ InSlot(t) = {}
        /\ runs[t] \in {0, 1} /\ deletes[t] \in {0, 1}
        /\ t \in submitted =>
              (deletes[t] = 1 <=> InHand(t) = {} /\ InSlot(t) = {})
        /\ t \notin submitted =>
              runs[t] = 0 /\ deletes[t] = 0 /\ InHand(t) = {} /\ InSlot(t) = {}

\* is_idle() scans the managers one by one while workers go on; when it says
\* true, every manager is idle at that instant, and so when is_busy() says
\* false (is_idle 705-720, is_busy 724-743): nobody assigns during the scan.
QueryAnswer ==
    \A c \in Callers :
        pc[c] = "answer" /\ answer[c] = (op[c] = "is_idle") =>
            \A m \in Managers : IsIdle(m)

\* Between is_idle() and set_task() the manager's lock is free, yet set_task()
\* finds the slot empty and a worker that will still look at it (682-686).
SetTaskSucceeds ==
    \A c \in Callers :
        pc[c] = "assign" =>
            /\ IsIdle(cur[c])
            /\ tmGo[cur[c]]
            /\ wpc[cur[c]] # "stopped"

\* No call uses a manager that terminate() has deleted (745-764).
NoUseAfterFree ==
    \A c \in Callers :
        /\ pc[c] \in {"probe", "assign", "stop", "signal", "join"} /\ cur[c] <= size =>
              wpc[cur[c]] # "joined"
        /\ pc[c] \in {"assign", "stop", "signal", "join"} => cur[c] <= size

\* "This call blocks until all threads are stopped" (threadpool.hpp 560-565):
\* once terminate() has emptied the vector no worker exists and no task is left
\* in a slot.
TerminatedIsStopped ==
    size = 0 => \A m \in Managers : wpc[m] = "joined" /\ slot[m] = None

-----------------------------------------------------------------------------
(* The pool implements TaskExecution.                                      *)

LifeOf(t) ==
    CASE t \notin submitted -> "new"
      [] t \in submitted /\ <<runs[t], deletes[t]>> = <<0, 0>> -> "accepted"
      [] <<runs[t], deletes[t]>> = <<1, 0>> -> "running"
      [] <<runs[t], deletes[t]>> = <<1, 1>> -> "finished"
      [] <<runs[t], deletes[t]>> = <<0, 1>> -> "discarded"
      [] OTHER -> "corrupt"

Abstract == INSTANCE TaskExecution WITH
    Capacity <- PoolSize,
    state <- [t \in Tasks |-> LifeOf(t)],
    closing <- (size = 0 \/ \E m \in Managers : ~tmGo[m])

\* A task given to execute() lives as the abstract pool says: one run, by a
\* free thread, then one delete; deleted without a run only after terminate().
ImplementsTaskExecution == Abstract!Spec

-----------------------------------------------------------------------------
(* Liveness.                                                               *)

\* terminate() and the destructor return, also while workers are busy, calls
\* wait in execute() and another thread terminates the pool (753-764).
TerminateReturns ==
    <>[](\A c \in Callers : op[c] \in {"terminate", "destroy"} => pc[c] = "out")

\* No task stays in a slot, whether its worker sees it before it sees go cleared
\* or after: no signal to the worker is lost (609-664).
AssignedTaskEnds == <>[](\A t \in Tasks : InSlot(t) = {})

\* "Execute a task. The task will be deleted after call of its run() method"
\* (threadpool.hpp 514-518): the call gives the task to a worker, which deletes it.
ExecutedTaskEnds ==
    \A t \in Tasks : t \in submitted ~> deletes[t] = 1

\* terminate() and the destructor return and no task stays where it is (609-664,
\* 753-764), whatever the workers and the other calls are doing.
WorkEnds == TerminateReturns /\ AssignedTaskEnds
=============================================================================
