-------------------------- MODULE PosixTaskManager --------------------------
(***************************************************************************)
(* The TaskManagers of a pool (src/posix/threadpool.cpp, 580-664): one     *)
(* worker thread, one slot for a task and one monitor (error checking      *)
(* mutex and condition variable) each.  The module is completed by a pool: *)
(* PosixThreadPool and PosixQueuedThreadPool extend it, add the callers    *)
(* and say what idle_notification() does.                                  *)
(*                                                                         *)
(* The manager at index m - 1 of the vector taskList is the number m.  The *)
(* methods that other threads call take the manager's lock, do one thing   *)
(* and release it: they are single steps, enabled while the worker does    *)
(* not hold that lock.  The worker holds the lock except in wait(), so     *)
(* also while a task runs.                                                 *)
(*                                                                         *)
(* Definitions marked "Mutant" are wrong variants of the definition that   *)
(* follows them; no specification uses them (see README.md).               *)
(***************************************************************************)
EXTENDS Naturals

CONSTANTS
    PoolSize,      \* number of managers the pool is created with
    Tasks,         \* the Runnables callers submit
    None,          \* the null pointer: no task, no lock owner
    MayFailToStart \* whether pthread_create may fail for a worker

ASSUME PoolAssumption ==
    /\ PoolSize \in Nat
    /\ None \notin Tasks
    /\ MayFailToStart \in BOOLEAN

Managers == 1..PoolSize

VARIABLES
    wpc,     \* [Managers -> WorkerStates]: where the worker thread is
    slot,    \* [Managers -> Tasks \cup {None}]: TaskManager::task
    tmGo,    \* [Managers -> BOOLEAN]: TaskManager::go
    runs,    \* [Tasks -> Nat]: how often run() of the task was entered
    deletes  \* [Tasks -> Nat]: how often the task was deleted

tmVars == <<wpc, slot, tmGo, runs, deletes>>

(***************************************************************************)
(* "unborn"   pthread_create failed, status is FINISHED                    *)
(* "start"    thread_starter, before Lock on itself in TaskManager::run     *)
(* "loop"     lock held, about to test go and task                         *)
(* "running"  lock held, inside task->run()                                *)
(* "notify"   lock held, about to call threadPool->idle_notification()     *)
(* "waiting"  in wait(), lock released                                     *)
(* "woken"    signalled, the lock not yet taken again                      *)
(* "stopped"  run() has returned, the thread is not joined yet             *)
(* "joined"   ~TaskManager() has joined it: the manager is freed           *)
(***************************************************************************)
WorkerStates == {"unborn", "start", "loop", "running", "notify",
                 "waiting", "woken", "stopped", "joined"}

\* The manager's lock is free: its worker does not hold it, and the other
\* threads hold it only within one step.
TmFree(m) == wpc[m] \notin {"loop", "running", "notify"}

\* Thread::is_alive(): status is RUNNING from start() until join(), also
\* after the worker has returned from run().
IsAlive(m) == wpc[m] \notin {"unborn", "joined"}

\* What TaskManager::is_idle() returns.
IsIdle(m) == slot[m] = None /\ IsAlive(m)

\* The worker states after TaskManager::notify(): only the worker waits there.
Notified(m) == IF wpc[m] = "waiting" THEN [wpc EXCEPT ![m] = "woken"] ELSE wpc

-----------------------------------------------------------------------------
(* The constructor: no task, go set, the thread started.                   *)

TmInit ==
    /\ \E failed \in SUBSET Managers :
          /\ MayFailToStart \/ failed = {}
          /\ wpc = [m \in Managers |-> IF m \in failed THEN "unborn" ELSE "start"]
    /\ slot = [m \in Managers |-> None]
    /\ tmGo = [m \in Managers |-> TRUE]
    /\ runs = [t \in Tasks |-> 0]
    /\ deletes = [t \in Tasks |-> 0]

-----------------------------------------------------------------------------
(* Methods called by other threads.                                        *)

\* Mutant: set_task() without notify().
SetTask_silent(m, t) ==
    /\ TmFree(m)
    /\ slot[m] = None
    /\ slot' = [slot EXCEPT ![m] = t]
    /\ UNCHANGED <<wpc, tmGo, runs, deletes>>

\* set_task() on a manager without a task.
SetTask(m, t) ==
    /\ TmFree(m)
    /\ slot[m] = None
    /\ slot' = [slot EXCEPT ![m] = t]
    /\ wpc' = Notified(m)
    /\ UNCHANGED <<tmGo, runs, deletes>>

\* stop(): no notify.
StopManager(m) ==
    /\ TmFree(m)
    /\ tmGo' = [tmGo EXCEPT ![m] = FALSE]
    /\ UNCHANGED <<wpc, slot, runs, deletes>>

\* Mutant: the destructor clears go without notify().
SignalStop_silent(m) ==
    /\ TmFree(m)
    /\ tmGo' = [tmGo EXCEPT ![m] = FALSE]
    /\ UNCHANGED <<wpc, slot, runs, deletes>>

\* ~TaskManager(), the locked block.
SignalStop(m) ==
    /\ TmFree(m)
    /\ tmGo' = [tmGo EXCEPT ![m] = FALSE]
    /\ wpc' = Notified(m)
    /\ UNCHANGED <<slot, runs, deletes>>

\* ~TaskManager(), thread.join() and the release of the memory.  A thread that
\* was never started is not joined (Thread::join tests status).
JoinManager(m) ==
    /\ wpc[m] \in {"stopped", "unborn"}
    /\ wpc' = [wpc EXCEPT ![m] = "joined"]
    /\ UNCHANGED <<slot, tmGo, runs, deletes>>

\* delete t, by a thread that does nothing else with the managers.
DeleteTask(t) ==
    /\ deletes' = [deletes EXCEPT ![t] = @ + 1]
    /\ UNCHANGED <<wpc, slot, tmGo, runs>>

-----------------------------------------------------------------------------
(* TaskManager::run(), on the worker thread.                               *)

\* Lock on itself, and the return of the lock inside wait().
WorkerLock(m) ==
    /\ wpc[m] \in {"start", "woken"}
    /\ wpc' = [wpc EXCEPT ![m] = "loop"]
    /\ UNCHANGED <<slot, tmGo, runs, deletes>>

\* while (go) { if (task) task->run()
WorkerRun(m) ==
    /\ wpc[m] = "loop"
    /\ tmGo[m]
    /\ slot[m] # None
    /\ wpc' = [wpc EXCEPT ![m] = "running"]
    /\ runs' = [runs EXCEPT ![slot[m]] = @ + 1]
    /\ UNCHANGED <<slot, tmGo, deletes>>

\* Mutant: delete task without task = NULL.
WorkerFinish_dangling(m) ==
    /\ wpc[m] = "running"
    /\ deletes' = [deletes EXCEPT ![slot[m]] = @ + 1]
    /\ wpc' = [wpc EXCEPT ![m] = "notify"]
    /\ UNCHANGED <<slot, tmGo, runs>>

\* run() has returned or thrown: delete task; task = NULL.
WorkerFinish(m) ==
    /\ wpc[m] = "running"
    /\ deletes' = [deletes EXCEPT ![slot[m]] = @ + 1]
    /\ slot' = [slot EXCEPT ![m] = None]
    /\ wpc' = [wpc EXCEPT ![m] = "notify"]
    /\ UNCHANGED <<tmGo, runs>>

\* The worker's side of threadPool->idle_notification(): it still holds its
\* own lock and no other.  The pool adds what the call does.
WorkerNotify(m) ==
    /\ wpc[m] = "notify"
    /\ wpc' = [wpc EXCEPT ![m] = "loop"]
    /\ UNCHANGED <<slot, tmGo, runs, deletes>>

\* while (go && !task) wait().
WorkerWait(m) ==
    /\ wpc[m] = "loop"
    /\ tmGo[m]
    /\ slot[m] = None
    /\ wpc' = [wpc EXCEPT ![m] = "waiting"]
    /\ UNCHANGED <<slot, tmGo, runs, deletes>>

\* pthread_cond_wait may return without a signal.
WorkerSpurious(m) ==
    /\ wpc[m] = "waiting"
    /\ wpc' = [wpc EXCEPT ![m] = "woken"]
    /\ UNCHANGED <<slot, tmGo, runs, deletes>>

\* go is cleared: a task that was set and not begun is deleted, not run.
WorkerExit(m) ==
    /\ wpc[m] = "loop"
    /\ ~tmGo[m]
    /\ deletes' = IF slot[m] = None THEN deletes
                  ELSE [deletes EXCEPT ![slot[m]] = @ + 1]
    /\ slot' = [slot EXCEPT ![m] = None]
    /\ wpc' = [wpc EXCEPT ![m] = "stopped"]
    /\ UNCHANGED <<tmGo, runs>>

\* The steps of a worker that concern nobody else.
WorkerStep(m) ==
    \/ WorkerLock(m)
    \/ WorkerRun(m)
    \/ WorkerFinish(m)
    \/ WorkerWait(m)
    \/ WorkerExit(m)

-----------------------------------------------------------------------------
(* What every pool relies on.                                              *)

TmTypeOK ==
    /\ wpc \in [Managers -> WorkerStates]
    /\ slot \in [Managers -> Tasks \cup {None}]
    /\ tmGo \in [Managers -> BOOLEAN]
    /\ runs \in [Tasks -> Nat]
    /\ deletes \in [Tasks -> Nat]

\* A worker that is inside run() has a task, and one that is gone has none.
TmShape ==
    \A m \in Managers :
        /\ wpc[m] = "running" => slot[m] # None
        /\ wpc[m] \in {"unborn", "notify", "stopped", "joined"} => slot[m] = None
        /\ wpc[m] \in {"stopped", "joined"} => ~tmGo[m]
=============================================================================
