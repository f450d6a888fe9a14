----------------------- MODULE BoostQueuedThreadPool ------------------------
(***************************************************************************)
(* Agentpp::QueuedThreadPool over boost::basic_thread_pool                 *)
(* (src/threadpool.cpp, 658-748).  The executor `ea` is external: a queue  *)
(* that is closed and not reopened, and threads that take tasks from it    *)
(* until it is closed and empty.  is_idle() and is_busy() take one, too.   *)
(***************************************************************************)
EXTENDS Naturals, Sequences, FiniteSets

CONSTANTS
    Callers,   \* the threads that use the pool
    MaxSize,   \* bound: the threads of the executor
    MaxTasks,  \* bound: the tasks, numbered in the order of their submission
    MaxAsks    \* bound: calls of is_idle() and is_busy()

None == 0
Ended == MaxTasks + 1 \* a thread that is gone
Threads == 1..MaxSize
Tasks == 1..MaxTasks

VARIABLES
    size,      \* 0..MaxSize: _size; without threads there is no executor
    closed,    \* ea->close() was called, or ea is 0
    work,      \* Seq(Tasks): the queue of the executor
    threadAt,  \* [Threads -> Tasks \cup {None, Ended}]: what its threads run
    callAt,    \* [Callers -> CallStates]
    task,      \* [Callers -> Tasks \cup {None}]: the task of a caller
    answer,    \* [Callers -> BOOLEAN]: what the call returns
    submitted, \* 0..MaxTasks
    asked,     \* 0..MaxAsks
    runs, deletes, \* [Tasks -> Nat]
    object     \* "whole", "terminated", "closing" or "gone"

vars == <<size, closed, work, threadAt, callAt, task, answer, submitted, asked, runs, deletes, object>>
callVars == <<callAt, task, answer>>
counts == <<submitted, asked>>

\* "checked": ea->closed() was false in execute(); "idle", "busy": the check of the
\* same name is made and a task may be tried; "runs": the caller runs a task.
CallStates == {"out", "execute", "checked", "idle", "busy", "runsForIdle", "runsForBusy", "joining"}

Init ==
    /\ size \in {0, MaxSize}
    /\ closed = (size = 0) /\ work = <<>>
    /\ threadAt = [w \in Threads |-> IF w <= size THEN None ELSE Ended]
    /\ callAt = [c \in Callers |-> "out"] /\ task = [c \in Callers |-> None]
    /\ answer = [c \in Callers |-> FALSE]
    /\ submitted = 0 /\ asked = 0
    /\ runs = [t \in Tasks |-> 0] /\ deletes = [t \in Tasks |-> 0]
    /\ object = "whole"

GoTo(c, s) == callAt' = [callAt EXCEPT ![c] = s]
Runs(t) == runs' = [runs EXCEPT ![t] = @ + 1]
Deletes(t) == deletes' = [deletes EXCEPT ![t] = @ + 1]

-----------------------------------------------------------------------------
(* The threads of the executor                                             *)

ThreadTakes(w) ==
    /\ threadAt[w] = None /\ work # <<>>
    /\ threadAt' = [threadAt EXCEPT ![w] = Head(work)] /\ work' = Tail(work)
    /\ Runs(Head(work))
    /\ UNCHANGED <<size, closed, callVars, counts, deletes, object>>

\* The task is over and the last shared_ptr to it goes.
ThreadEnds(w) ==
    /\ threadAt[w] \in Tasks
    /\ threadAt' = [threadAt EXCEPT ![w] = None]
    /\ Deletes(threadAt[w])
    /\ UNCHANGED <<size, closed, work, callVars, counts, runs, object>>

ThreadLeaves(w) ==
    /\ threadAt[w] = None /\ closed /\ work = <<>>
    /\ threadAt' = [threadAt EXCEPT ![w] = Ended]
    /\ UNCHANGED <<size, closed, work, callVars, counts, runs, deletes, object>>

Thread(w) == ThreadTakes(w) \/ ThreadEnds(w) \/ ThreadLeaves(w)

-----------------------------------------------------------------------------
(* execute()                                                               *)

CallExecute(c) ==
    /\ callAt[c] = "out" /\ object \in {"whole", "terminated"} /\ submitted < MaxTasks
    /\ submitted' = submitted + 1
    /\ task' = [task EXCEPT ![c] = submitted + 1]
    /\ GoTo(c, "execute")
    /\ UNCHANGED <<size, closed, work, threadAt, answer, asked, runs, deletes, object>>

\* Nothing is done with the task, and its shared_ptr deletes it.
Dropped(c) == /\ Deletes(task[c]) /\ task' = [task EXCEPT ![c] = None] /\ GoTo(c, "out")

Execute(c) ==
    /\ callAt[c] = "execute"
    /\ IF closed THEN Dropped(c) ELSE GoTo(c, "checked") /\ UNCHANGED <<task, deletes>>
    /\ UNCHANGED <<size, closed, work, threadAt, answer, counts, runs, object>>

\* boost::async(*ea, ...); an executor that has been closed in between throws.
Submit(c) ==
    /\ callAt[c] = "checked"
    /\ IF closed THEN Dropped(c) /\ UNCHANGED work
         ELSE /\ work' = Append(work, task[c]) /\ task' = [task EXCEPT ![c] = None]
              /\ GoTo(c, "out") /\ UNCHANGED deletes
    /\ UNCHANGED <<size, closed, threadAt, answer, counts, runs, object>>

-----------------------------------------------------------------------------
(* is_idle() and is_busy(); both end at once when there is no executor     *)

Ask(c) ==
    /\ callAt[c] = "out" /\ object \in {"whole", "terminated"} /\ asked < MaxAsks
    /\ asked' = asked + 1
    /\ \/ size = 0 /\ answer' = [answer EXCEPT ![c] = TRUE] /\ UNCHANGED callAt
       \/ /\ size # 0 /\ closed \* FALSE for is_idle(), TRUE for is_busy()
          /\ \E a \in BOOLEAN : answer' = [answer EXCEPT ![c] = a]
          /\ UNCHANGED callAt
       \/ size # 0 /\ ~closed /\ (GoTo(c, "idle") \/ GoTo(c, "busy")) /\ UNCHANGED answer
    /\ UNCHANGED <<size, closed, work, threadAt, task, submitted, runs, deletes, object>>

\* try_executing_one(): with an empty queue it does nothing and is false; a task
\* is taken from the queue and run by the caller.
Stolen_kept == work \* mutant: the caller runs the task and leaves it in the queue
Stolen == Tail(work)

TryOne(c) ==
    /\ callAt[c] \in {"idle", "busy"}
    /\ IF work = <<>>
         THEN /\ answer' = [answer EXCEPT ![c] = (callAt[c] = "idle")]
              /\ GoTo(c, "out") /\ UNCHANGED <<work, task, runs>>
         ELSE /\ work' = Stolen /\ task' = [task EXCEPT ![c] = Head(work)] /\ Runs(Head(work))
              /\ GoTo(c, IF callAt[c] = "idle" THEN "runsForIdle" ELSE "runsForBusy")
              /\ UNCHANGED answer
    /\ UNCHANGED <<size, closed, threadAt, counts, deletes, object>>

TriedOne(c) ==
    /\ callAt[c] \in {"runsForIdle", "runsForBusy"}
    /\ Deletes(task[c]) /\ task' = [task EXCEPT ![c] = None]
    /\ answer' = [answer EXCEPT ![c] = (callAt[c] = "runsForBusy")]
    /\ GoTo(c, "out")
    /\ UNCHANGED <<size, closed, work, threadAt, counts, runs, object>>

-----------------------------------------------------------------------------
(* terminate() and the destructor                                          *)

\* stop(): the executor is closed; it goes on with what it has.
Terminate(c) ==
    /\ callAt[c] = "out" /\ object = "whole"
    /\ closed' = TRUE /\ object' = "terminated"
    /\ UNCHANGED <<size, work, threadAt, callVars, counts, runs, deletes>>

\* stop(), then the destructor of *ea: its threads are joined.
Closed_not == closed \* mutant: the destructor relies on terminate()
Closed == TRUE

CallDestroy(c) ==
    /\ \A d \in Callers : callAt[d] = "out"
    /\ object \in {"whole", "terminated"}
    /\ closed' = Closed /\ object' = "closing" /\ GoTo(c, "joining")
    /\ UNCHANGED <<size, work, threadAt, task, answer, counts, runs, deletes>>

Destroy(c) ==
    /\ callAt[c] = "joining" /\ \A w \in Threads : threadAt[w] = Ended
    /\ object' = "gone" /\ GoTo(c, "out")
    /\ UNCHANGED <<size, closed, work, threadAt, task, answer, counts, runs, deletes>>

Call(c) == CallExecute(c) \/ Ask(c) \/ Terminate(c) \/ CallDestroy(c)
Goes(c) == Execute(c) \/ Submit(c) \/ TryOne(c) \/ TriedOne(c) \/ Destroy(c)

Next ==
    \/ \E c \in Callers : Call(c) \/ Goes(c)
    \/ \E w \in Threads : Thread(w)

\* Threads run, tasks end, and calls go on.
Fairness ==
    /\ \A c \in Callers : WF_vars(Goes(c))
    /\ \A w \in Threads : WF_vars(Thread(w))

Spec == Init /\ [][Next]_vars /\ Fairness

-----------------------------------------------------------------------------
\* Every variable has its type.
TypeOK ==
    /\ size \in 0..MaxSize /\ closed \in BOOLEAN /\ work \in Seq(Tasks)
    /\ threadAt \in [Threads -> Tasks \cup {None, Ended}]
    /\ callAt \in [Callers -> CallStates] /\ task \in [Callers -> Tasks \cup {None}]
    /\ answer \in [Callers -> BOOLEAN] /\ submitted \in 0..MaxTasks /\ asked \in 0..MaxAsks
    /\ runs \in [Tasks -> Nat] /\ deletes \in [Tasks -> Nat]
    /\ object \in {"whole", "terminated", "closing", "gone"}

Holders(t) ==
    Cardinality({i \in DOMAIN work : work[i] = t}) + Cardinality({w \in Threads : threadAt[w] = t})
        + Cardinality({c \in Callers : task[c] = t})

\* Every task has one owner until it is deleted, is run at most once, and is not
\* deleted before its run unless the pool is closed: also the tasks that threads
\* run which only ask whether the pool is idle (731, 736).
TaskOwnership ==
    \A t \in Tasks :
        /\ Holders(t) + deletes[t] = IF t <= submitted THEN 1 ELSE 0
        /\ runs[t] <= 1
        /\ deletes[t] = 1 /\ runs[t] = 0 => closed

\* The pool implements TaskExecution, with as many threads as it has and as call it;
\* without any it accepts nothing.
TE == INSTANCE TaskExecution WITH
        Capacity <- MaxSize + Cardinality(Callers),
        closing <- size > 0 /\ closed,
        state <- [t \in Tasks |->
            CASE t > submitted \/ size = 0 -> "new"
              [] t <= submitted /\ size > 0 /\ deletes[t] = 1 -> IF runs[t] = 1 THEN "finished" ELSE "discarded"
              [] t <= submitted /\ size > 0 /\ deletes[t] = 0 -> IF runs[t] = 1 THEN "running" ELSE "accepted"]
ImplementsTaskExecution == TE!Spec

\* Every task that execute() was called with is run and deleted, or deleted, and
\* every call returns, the destructor too (686-692).
AllEnded ==
    /\ \A t \in 1..submitted : deletes[t] = 1
    /\ \A c \in Callers : callAt[c] = "out"
TasksEndOnce == <>[]AllEnded

\* The inductive invariant.  A task is in the queue, with a thread or with a caller:
\* nowhere twice and not in two of them; its counters follow from where it is.
InWork(t) == \E i \in DOMAIN work : work[i] = t
OnThread(t) == \E w \in Threads : threadAt[w] = t
WithCaller(t) == \E c \in Callers : task[c] = t
Once ==
    /\ \A i, j \in DOMAIN work : work[i] = work[j] => i = j
    /\ \A v, w \in Threads : threadAt[v] = threadAt[w] /\ threadAt[w] \in Tasks => v = w
    /\ \A c, d \in Callers : task[c] = task[d] /\ task[d] # None => c = d
    /\ \A t \in Tasks : /\ ~(InWork(t) /\ OnThread(t)) /\ ~(InWork(t) /\ WithCaller(t))
                        /\ ~(OnThread(t) /\ WithCaller(t))
CountsInv ==
    /\ \A t \in Tasks : InWork(t) => runs[t] = 0
    /\ \A w \in Threads : threadAt[w] \in Tasks => runs[threadAt[w]] = 1
    /\ \A c \in Callers :
          /\ callAt[c] \in {"execute", "checked"} => task[c] \in Tasks /\ runs[task[c]] = 0
          /\ callAt[c] \in {"runsForIdle", "runsForBusy"} => task[c] \in Tasks /\ runs[task[c]] = 1
          /\ callAt[c] \in {"out", "idle", "busy", "joining"} => task[c] = None
    /\ \A t \in Tasks :
          /\ InWork(t) \/ OnThread(t) \/ WithCaller(t) => t <= submitted /\ deletes[t] = 0
          /\ t > submitted => runs[t] = 0 /\ deletes[t] = 0
          /\ t <= submitted /\ ~InWork(t) /\ ~OnThread(t) /\ ~WithCaller(t) =>
                deletes[t] = 1 /\ runs[t] \in 0..1 /\ (runs[t] = 0 => closed)
SizeInv == size = 0 => closed
IInv == TypeOK /\ Once /\ CountsInv /\ SizeInv
=============================================================================
