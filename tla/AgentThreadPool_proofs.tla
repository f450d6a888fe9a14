----------------------- MODULE AgentThreadPool_proofs -----------------------
(***************************************************************************)
(* Proofs about AgentThreadPool, for both classes of pool, every number of *)
(* managers, whichever of their threads fail to start, every set of tasks  *)
(* and callers and every bound on the calls.                               *)
(***************************************************************************)
EXTENDS AgentThreadPool, FiniteSetTheorems, TLAPS

LockNames == {"pool", "thread"}

\* Between a lock and its unlock.
Inside == {"front", "probe", "assign", "full", "answer", "stop", "unwind", "join", "joining", "free"}

\* An actor is inside a monitor exactly when it has that monitor's lock.
LockInv ==
    \A a \in Actors, l \in LockNames : owner[l] = a <=> pc[a] \in Inside /\ LockOf(a) = l

\* The states of a caller fit its call; execute() has its argument until it
\* passes it on.
CallOf(c) ==
    /\ op[c] # "run" /\ pc[c] \notin {"front", "done"}
    /\ pc[c] = "out" <=> op[c] = "none"
    /\ pc[c] \in {"assign", "full", "waiting", "woken"} => op[c] = "execute"
    /\ pc[c] = "full" => queued
    /\ pc[c] = "probe" => op[c] \in {"execute", "is_idle", "is_busy"}
    /\ pc[c] = "answer" => op[c] \in {"is_idle", "is_busy"}
    /\ pc[c] = "stop" => op[c] \in {"terminate", "destroy"}
    /\ pc[c] \in {"join", "joining"} => op[c] \in {"join", "destroy"}
    /\ pc[c] \in {"quit", "halt", "unwind", "free"} => op[c] = "destroy"
    /\ hand[c] # None <=> op[c] = "execute"

CallInv == \A c \in Callers : CallOf(c)

\* The queue thread is in run() as long as there is one, with a task in its hand
\* while it looks for a manager.
QueueInv ==
    /\ op[QueueThread] = "run"
    /\ pc[QueueThread] \in {"enter", "front", "probe", "assign", "waiting", "woken", "done"}
    /\ hand[QueueThread] # None <=> pc[QueueThread] \in {"probe", "assign"}
    /\ ~queued => pc[QueueThread] = "done" /\ queue = <<>>

\* Every loop over the managers begins at the first and stays inside the array.
CursorOf(a) ==
    /\ pc[a] \notin {"probe", "assign", "stop", "join", "joining"} => cur[a] = 1
    /\ pc[a] \in {"assign", "stop", "join", "joining"} => cur[a] \in Managers
    /\ pc[a] = "probe" /\ op[a] \in {"is_idle", "is_busy"} => cur[a] \in Managers

CursorInv == \A a \in Actors : CursorOf(a)

\* What is_idle() of a ThreadPool has seen stays true until it gives the lock
\* back: only a holder of the pool's lock gives a task to a manager or joins it.
ScanInv ==
    \A c \in Callers :
        ~queued /\ pc[c] = "probe" /\ op[c] = "is_idle" =>
            \A m \in Managers : m < cur[c] => IsIdle(m)

\* A manager is stopped only by a pool that is terminated or destroyed, and a
\* thread that is not alive has ended or was never started.
StopInv ==
    /\ \A m \in Managers : ~tmGo[m] => object # "whole"
    /\ \A c \in Callers : op[c] = "terminate" => object # "whole"
    /\ \A m \in Managers : ~alive[m] => wpc[m] = "ended"

\* The destructor is alone; it has stopped the queue thread before it touches a
\* manager, emptied the queue before the base class joins the managers, and it
\* joins them in their order.
DestroyInv ==
    /\ \A c \in Callers : op[c] = "destroy" => object \in {"closing", "unwound", "base"}
    /\ object \in {"closing", "unwound", "base"} =>
          \A c, d \in Callers :
             /\ op[c] \in {"none", "destroy"}
             /\ op[c] = "destroy" /\ op[d] = "destroy" => c = d
    /\ object = "gone" => \A c \in Callers : pc[c] = "out"
    /\ object \in {"unwound", "base"} => queue = <<>> /\ pc[QueueThread] = "done"
    /\ \A c \in Callers : op[c] = "destroy" =>
          /\ pc[c] \notin {"quit", "halt"} => pc[QueueThread] = "done"
          /\ pc[c] \in {"quit", "halt", "enter"} => object = "closing"
          /\ pc[c] = "stop" => object \in {"closing", "base"}
          /\ pc[c] = "unwind" => object \in {"closing", "unwound"} /\ queued
          /\ pc[c] \in {"join", "joining", "free"} => ~queued \/ object = "base"
    /\ \A c \in Callers :
          /\ pc[c] \in {"join", "joining"} => \A m \in Managers : m < cur[c] => wpc[m] = "ended"
          /\ pc[c] = "free" => \A m \in Managers : wpc[m] = "ended"
    /\ object = "gone" =>
          /\ queue = <<>> /\ pc[QueueThread] = "done"
          /\ \A m \in Managers : wpc[m] = "ended"

\* A worker inside run() has the task it runs.
RunInv == \A m \in Managers : wpc[m] = "running" => slot[m] # None

Queued(t) == \E i \in 1..Len(queue) : queue[i] = t

\* TaskOwnership, said without counting: a task is held by at most one actor,
\* slot or place in the queue, and as long as one holds it, it is not deleted.
OwnOf(t) ==
    /\ \A a, b \in Actors : hand[a] = t /\ hand[b] = t => a = b
    /\ \A m, n \in Managers : slot[m] = t /\ slot[n] = t => m = n
    /\ \A i, j \in 1..Len(queue) : queue[i] = t /\ queue[j] = t => i = j
    /\ \A a \in Actors : hand[a] = t =>
          /\ ~Queued(t) /\ \A m \in Managers : slot[m] # t
          /\ t \in submitted /\ runs[t] = 0 /\ deletes[t] = 0
    /\ \A m \in Managers : slot[m] = t =>
          /\ ~Queued(t) /\ t \in submitted /\ deletes[t] = 0
          /\ runs[t] = IF wpc[m] = "running" THEN 1 ELSE 0
    /\ Queued(t) => t \in submitted /\ runs[t] = 0 /\ deletes[t] = 0
    /\ t \notin submitted => runs[t] = 0 /\ deletes[t] = 0
    /\ runs[t] \in {0, 1} /\ deletes[t] \in {0, 1}
    /\ t \in submitted /\ deletes[t] = 0 =>
          \/ \E a \in Actors : hand[a] = t
          \/ \E m \in Managers : slot[m] = t
          \/ Queued(t)

OwnInv == \A t \in Tasks : OwnOf(t)

\* The inductive invariant.
IInv == /\ TypeOK /\ LockInv /\ CallInv /\ QueueInv /\ CursorInv /\ ScanInv /\ StopInv
        /\ DestroyInv /\ RunInv /\ OwnInv /\ IdleAnswer /\ NoOvertaking

-----------------------------------------------------------------------------
(* What the steps do                                                       *)

LEMMA ActorFacts ==
    /\ QueueThread \in Actors /\ QueueThread \notin Callers /\ Callers \subseteq Actors
    /\ \A a \in Actors : a # None /\ (a \in Callers \/ a = QueueThread)
    /\ PoolSize \in Nat /\ 1 \in Managers /\ 1 \in 1..PoolSize + 1
    /\ \A m \in Managers : m \in 1..PoolSize + 1 /\ m + 1 \in 1..PoolSize + 1
    /\ \A t \in Tasks : t # None
  BY AgentAssumption DEF Actors, Callers, QueueThread, Managers, Tasks

\* At most one waiting actor is woken, and nobody else moves, on the way from f to g.
Woken(f, g) ==
    /\ g \in [Actors -> ActorStates]
    /\ \A a \in Actors : g[a] = f[a] \/ (f[a] = "waiting" /\ g[a] = "woken")

LEMMA NotifyOneEffect ==
    ASSUME NEW l, NEW f \in [Actors -> ActorStates], NEW g \in NotifyOne(l, f)
    PROVE  Woken(f, g)
  BY DEF NotifyOne, Woken, ActorStates

\* An actor that another thread's step may only wake.
Stays(a) ==
    /\ op'[a] = op[a] /\ cur'[a] = cur[a] /\ hand'[a] = hand[a] /\ answer'[a] = answer[a]
    /\ pc'[a] = pc[a] \/ (pc[a] = "waiting" /\ pc'[a] = "woken")

\* A worker wakes an actor, empties slots and goes on to its end; nothing else.
WorkerFrame ==
    /\ UNCHANGED <<classVars, tmGo, alive, owner, queue, go, object, op, cur, hand, answer, calls,
                   submitted>>
    /\ pc' \in [Actors -> ActorStates] /\ \A a \in Actors : Stays(a)
    /\ wpc' \in [Managers -> WorkerStates] /\ slot' \in [Managers -> Tasks \cup {None}]
    /\ \A m \in Managers : /\ slot'[m] = slot[m] \/ slot'[m] = None
                           /\ wpc[m] = "ended" => wpc'[m] = "ended"

LEMMA WorkerEffect ==
    ASSUME TypeOK, NEW m \in Managers, Worker(m)
    PROVE  WorkerFrame
<1>1. UNCHANGED <<classVars, tmGo, alive, owner, queue, go, object, op, cur, hand, answer, calls,
                  submitted>>
  BY DEF Worker, WorkerLoop, WorkerFinish, WorkerNotify
<1>2. pc' \in [Actors -> ActorStates] /\ \A a \in Actors : Stays(a)
  <2>1. CASE WorkerLoop(m) \/ WorkerFinish(m)
    BY <1>1, <2>1 DEF WorkerLoop, WorkerFinish, TypeOK, Stays
  <2>2. CASE WorkerNotify(m)
    <3>1. Woken(pc, pc')
      BY <2>2, NotifyOneEffect DEF WorkerNotify, TypeOK
    <3> QED  BY <1>1, <3>1 DEF Woken, Stays
  <2> QED  BY <2>1, <2>2 DEF Worker
<1>3. /\ wpc' \in [Managers -> WorkerStates] /\ slot' \in [Managers -> Tasks \cup {None}]
      /\ \A n \in Managers : /\ slot'[n] = slot[n] \/ slot'[n] = None
                             /\ wpc[n] = "ended" => wpc'[n] = "ended"
  <2>0. wpc \in [Managers -> WorkerStates] /\ slot \in [Managers -> Tasks \cup {None}]
    BY DEF TypeOK
  <2>1. CASE WorkerLoop(m)
    BY <2>0, <2>1 DEF WorkerLoop, Emptied, WorkerStates
  <2>2. CASE WorkerFinish(m)
    BY <2>0, <2>2 DEF WorkerFinish, Emptied, WorkerStates
  <2>3. CASE WorkerNotify(m)
    BY <2>0, <2>3 DEF WorkerNotify, WorkerStates
  <2> QED  BY <2>1, <2>2, <2>3 DEF Worker
<1> QED  BY <1>1, <1>2, <1>3 DEF WorkerFrame

\* What a step of an actor does to the others and to its own place.
Moves(a, states) ==
    /\ pc' \in [Actors -> ActorStates] /\ pc'[a] \in states
    /\ \A b \in Actors \ {a} : pc'[b] = pc[b] \/ (pc[b] = "waiting" /\ pc'[b] = "woken")

\* It gives its lock back.
Unlocks(a) == owner' = [owner EXCEPT ![LockOf(a)] = None]

\* It ends its call, which the queue thread never does.
EndsCall(a) == op' = [op EXCEPT ![a] = IF a = QueueThread THEN @ ELSE "none"]

LEMMA MovesOne ==
    ASSUME TypeOK, NEW a \in Actors, NEW s \in ActorStates, NEW states, s \in states,
           NEW f, Woken(pc, f), pc' = [f EXCEPT ![a] = s]
    PROVE  Moves(a, states)
  BY DEF Woken, Moves

LEMMA MovesAlone ==
    ASSUME TypeOK, NEW a \in Actors, NEW s \in ActorStates, NEW states, s \in states,
           pc' = [pc EXCEPT ![a] = s]
    PROVE  Moves(a, states)
  BY DEF TypeOK, Moves

\* execute() or the queue thread has got rid of its task.
Passed(a) ==
    /\ Moves(a, {IF a = QueueThread THEN "waiting" ELSE "out"})
    /\ Unlocks(a) /\ EndsCall(a)
    /\ hand' = [hand EXCEPT ![a] = None] /\ cur' = [cur EXCEPT ![a] = 1]

LEMMA CarriedEffect ==
    ASSUME TypeOK, QueueInv, NEW a \in Actors, a = QueueThread => queued,
           NEW f, Woken(pc, f), Carried(a, f),
           hand' = [hand EXCEPT ![a] = None], cur' = Rewound(a)
    PROVE  Passed(a)
<1>1. CASE a = QueueThread
  <2>1. pc' = [f EXCEPT ![a] = "waiting"] /\ op' = op /\ LockOf(a) = "thread"
        /\ owner' = [owner EXCEPT !["thread"] = None]
    BY <1>1 DEF Carried, LockOf, QueueInv
  <2>2. Moves(a, {"waiting"})
    BY <2>1, MovesOne DEF ActorStates
  <2> QED  BY <1>1, <2>1, <2>2 DEF Passed, Unlocks, EndsCall, TypeOK, Rewound
<1>2. CASE a # QueueThread
  <2>1. pc' = [f EXCEPT ![a] = "out"] /\ Unlocks(a) /\ EndsCall(a)
    BY <1>2 DEF Carried, Leave, Unlocks, EndsCall
  <2>2. Moves(a, {"out"})
    BY <2>1, MovesOne DEF ActorStates
  <2> QED  BY <1>2, <2>1, <2>2 DEF Passed, Rewound
<1> QED  BY <1>1, <1>2

\* set_task() takes the task, ...
AssignHit(a) ==
    /\ pc[a] = "assign" /\ cur[a] \in Managers /\ hand[a] \in Tasks
    /\ slot[cur[a]] = None /\ wpc[cur[a]] \notin {"running", "notify"}
    /\ slot' = [slot EXCEPT ![cur[a]] = hand[a]]
    /\ wpc' = Notified(cur[a])
    /\ Passed(a)
    /\ UNCHANGED <<tmGo, alive, runs, deletes, queue, go, object, answer>>

\* ... or does not.
AssignMiss(a) ==
    /\ pc[a] = "assign" /\ pc' = [pc EXCEPT ![a] = "probe"]
    /\ cur[a] \in Managers /\ cur' = [cur EXCEPT ![a] = @ + 1]
    /\ UNCHANGED <<tmVars, hand, owner, op, queue, go, object, answer>>

LEMMA AssignCases ==
    ASSUME IInv, NEW a \in Actors, Assign(a)
    PROVE  AssignHit(a) \/ AssignMiss(a)
<1>0. TypeOK /\ QueueInv /\ CallInv /\ cur[a] \in Managers
  BY DEF IInv, CursorInv, CursorOf, Assign
<1>1. CASE slot[cur[a]] # None
  BY <1>0, <1>1 DEF Assign, AssignMiss, tmVars
<1>2. CASE slot[cur[a]] = None
  <2>1. PICK f \in IF LockOf(a) = "thread" THEN NotifyOne("thread", pc) ELSE {pc} : Carried(a, f)
    BY <1>2 DEF Assign
  <2>2. Woken(pc, f)
    <3>1. CASE f = pc
      BY <1>0, <3>1 DEF Woken, TypeOK
    <3>2. CASE f \in NotifyOne("thread", pc)
      BY <1>0, <3>2, NotifyOneEffect DEF TypeOK
    <3> QED  BY <3>1, <3>2
  <2>3. hand[a] \in Tasks /\ (a = QueueThread => queued)
    BY <1>0, ActorFacts DEF Assign, QueueInv, CallInv, CallOf, TypeOK
  <2>4. hand' = [hand EXCEPT ![a] = None] /\ cur' = Rewound(a)
    BY <1>2 DEF Assign
  <2>5. Passed(a)
    BY <1>0, <2>1, <2>2, <2>3, <2>4, CarriedEffect
  <2> QED  BY <1>0, <1>2, <2>3, <2>5 DEF Assign, AssignHit, TmFree
<1> QED  BY <1>1, <1>2

\* Nobody is idle: the task is queued, or its execute() waits.
QueuesTask(a) ==
    /\ queued /\ pc[a] \in {"probe", "full"} /\ op[a] \in {"execute", "run"} /\ hand[a] \in Tasks
    /\ queue' = Append(queue, hand[a])
    /\ Passed(a)
    /\ UNCHANGED <<tmVars, go, object, answer>>

WaitsForIdle(a) ==
    /\ ~queued /\ a \in Callers /\ pc[a] = "probe" /\ op[a] = "execute"
    /\ pc' = [pc EXCEPT ![a] = "waiting"] /\ Unlocks(a) /\ cur' = [cur EXCEPT ![a] = 1]
    /\ UNCHANGED <<tmVars, queue, hand, op, go, object, answer>>

LEMMA NobodyIdleCases ==
    ASSUME IInv, NEW a \in Actors, NobodyIdle(a)
    PROVE  QueuesTask(a) \/ WaitsForIdle(a)
<1>0. TypeOK /\ QueueInv /\ CallInv
  BY DEF IInv
<1>1. /\ pc[a] \in {"probe", "full"} /\ op[a] \in {"execute", "run"} /\ hand[a] \in Tasks
      /\ a = QueueThread => queued /\ pc[a] = "probe"
      /\ a # QueueThread => a \in Callers /\ op[a] = "execute" /\ (pc[a] = "full" => queued)
  BY <1>0, ActorFacts DEF NobodyIdle, QueueInv, CallInv, CallOf, TypeOK
<1>2. CASE queued
  <2>1. PICK f \in NotifyOne("thread", pc) : Carried(a, f)
    BY <1>2 DEF NobodyIdle
  <2>2. Woken(pc, f)
    BY <1>0, <2>1, NotifyOneEffect DEF TypeOK
  <2>3. hand' = [hand EXCEPT ![a] = None] /\ cur' = Rewound(a)
    BY <1>2 DEF NobodyIdle
  <2>4. Passed(a)
    BY <1>0, <1>2, <2>1, <2>2, <2>3, CarriedEffect
  <2> QED  BY <1>1, <1>2, <2>4 DEF NobodyIdle, QueuesTask, Added
<1>3. CASE ~queued
  BY <1>1, <1>3 DEF NobodyIdle, WaitsForIdle, Unlocks, LockOf, Rewound
<1> QED  BY <1>2, <1>3

\* One manager is stopped, and either the next one is up ...
StopsOne(c) ==
    /\ pc[c] = "stop" /\ cur[c] \in Managers /\ c \in Callers /\ op[c] \in {"terminate", "destroy"}
    /\ tmGo' = [tmGo EXCEPT ![cur[c]] = FALSE] /\ wpc' = Notified(cur[c])
    /\ UNCHANGED <<slot, alive, runs, deletes, queue, go, object, hand, answer>>

StopsNext(c) ==
    /\ StopsOne(c) /\ cur[c] + 1 \in Managers /\ cur' = [cur EXCEPT ![c] = @ + 1]
    /\ UNCHANGED <<pc, owner, op>>

\* ... or it was the last: terminate() ends, a destructor goes on.
StopsLast(c) ==
    /\ StopsOne(c) /\ cur' = [cur EXCEPT ![c] = 1]
    /\ \/ op[c] = "terminate" /\ Moves(c, {"out"}) /\ Unlocks(c) /\ EndsCall(c)
       \/ /\ op[c] = "destroy" /\ UNCHANGED <<owner, op>>
          /\ Moves(c, {IF queued /\ object = "closing" THEN "unwind" ELSE "join"})

LEMMA TerminateStopCases ==
    ASSUME IInv, NEW c \in Actors, TerminateStop(c)
    PROVE  StopsNext(c) \/ StopsLast(c)
<1>0. TypeOK /\ QueueInv /\ CallInv /\ cur[c] \in Managers
  BY DEF IInv, CursorInv, CursorOf, TerminateStop
<1>1. c \in Callers /\ op[c] \in {"terminate", "destroy"} /\ c # QueueThread
  BY <1>0, ActorFacts DEF TerminateStop, QueueInv, CallInv, CallOf
<1>2. StopsOne(c)
  BY <1>0, <1>1 DEF TerminateStop, StopsOne, Stopped
<1>3. CASE cur[c] < PoolSize
  <2>1. cur[c] + 1 \in Managers
    BY <1>0, <1>3, ActorFacts DEF Managers
  <2> QED  BY <1>2, <1>3, <2>1 DEF TerminateStop, StopsNext
<1>4. CASE ~(cur[c] < PoolSize)
  <2>1. PICK f \in NotifyOne("pool", pc) :
           IF op[c] = "terminate" THEN Leave(c, f)
           ELSE /\ pc' = [f EXCEPT ![c] = IF queued /\ object = "closing" THEN "unwind" ELSE "join"]
                /\ UNCHANGED <<owner, op>>
    BY <1>4 DEF TerminateStop
  <2>2. Woken(pc, f)
    BY <1>0, <2>1, NotifyOneEffect DEF TypeOK
  <2>3. CASE op[c] = "terminate"
    <3>1. pc' = [f EXCEPT ![c] = "out"] /\ Unlocks(c) /\ EndsCall(c)
      BY <1>1, <2>1, <2>3 DEF Leave, Unlocks, EndsCall
    <3>2. Moves(c, {"out"})
      BY <1>0, <2>2, <3>1, MovesOne DEF ActorStates
    <3> QED  BY <1>2, <1>4, <2>3, <3>1, <3>2 DEF TerminateStop, StopsLast, Rewound
  <2>4. CASE op[c] = "destroy"
    <3>1. Moves(c, {IF queued /\ object = "closing" THEN "unwind" ELSE "join"})
      BY <1>0, <2>1, <2>2, <2>4, MovesOne DEF ActorStates
    <3> QED  BY <1>2, <1>4, <2>1, <2>4, <3>1 DEF TerminateStop, StopsLast, Rewound
  <2> QED  BY <1>1, <2>3, <2>4
<1> QED  BY <1>3, <1>4

\* A call of one lock: the queue thread ends, takes a task or waits for one.
FrontOf ==
    /\ pc[QueueThread] = "front" /\ queued
    /\ \/ /\ pc' = [pc EXCEPT ![QueueThread] = "done"] /\ Unlocks(QueueThread)
          /\ UNCHANGED <<queue, hand>>
       \/ /\ queue # <<>>
          /\ hand' = [hand EXCEPT ![QueueThread] = Head(queue)] /\ queue' = Tail(queue)
          /\ pc' = [pc EXCEPT ![QueueThread] = "probe"]
          /\ UNCHANGED owner
       \/ /\ pc' = [pc EXCEPT ![QueueThread] = "waiting"] /\ Unlocks(QueueThread)
          /\ UNCHANGED <<queue, hand>>
    /\ UNCHANGED <<tmVars, op, go, object, cur, answer>>

LEMMA FrontCases ==
    ASSUME IInv, Front
    PROVE  FrontOf
<1>1. TypeOK /\ QueueInv /\ QueueThread \in Actors
  BY ActorFacts DEF IInv
<1>2. queued /\ LockOf(QueueThread) = "thread"
  BY <1>1 DEF Front, QueueInv, LockOf
<1> QED  BY <1>1, <1>2 DEF Front, FrontOf, Leave, Unlocks, TypeOK

\* A manager's thread is joined, with the next one up or as the last.
JoinsOne(c) ==
    /\ pc[c] = "joining" /\ cur[c] \in Managers /\ (alive[cur[c]] => wpc[cur[c]] = "ended")
    /\ alive' = [alive EXCEPT ![cur[c]] = FALSE]
    /\ UNCHANGED <<tmGo, slot, wpc, runs, deletes, queue, go, object, hand, answer>>

JoinsNext(c) ==
    /\ JoinsOne(c) /\ cur[c] + 1 \in Managers /\ cur' = [cur EXCEPT ![c] = @ + 1]
    /\ pc' = [pc EXCEPT ![c] = "join"] /\ UNCHANGED <<owner, op>>

JoinsLast(c) ==
    /\ JoinsOne(c) /\ cur[c] = PoolSize /\ cur' = [cur EXCEPT ![c] = 1]
    /\ \/ op[c] = "join" /\ pc' = [pc EXCEPT ![c] = "out"] /\ Unlocks(c) /\ EndsCall(c)
       \/ op[c] = "destroy" /\ pc' = [pc EXCEPT ![c] = "free"] /\ UNCHANGED <<owner, op>>

LEMMA JoinThreadCases ==
    ASSUME IInv, NEW c \in Callers, JoinThread(c)
    PROVE  JoinsNext(c) \/ JoinsLast(c)
<1>0. cur[c] \in Managers /\ c # QueueThread /\ op[c] \in {"join", "destroy"}
  BY ActorFacts DEF IInv, CursorInv, CursorOf, CallInv, CallOf, JoinThread
<1>1. JoinsOne(c)
  BY <1>0 DEF JoinThread, JoinsOne, Joinable
<1>2. CASE cur[c] < PoolSize
  <2>1. cur[c] + 1 \in Managers
    BY <1>0, <1>2, ActorFacts DEF Managers
  <2> QED  BY <1>1, <1>2, <2>1 DEF JoinThread, JoinsNext
<1>3. CASE ~(cur[c] < PoolSize)
  <2>1. cur[c] = PoolSize
    BY <1>0, <1>3, ActorFacts DEF Managers
  <2> QED  BY <1>0, <1>1, <1>3, <2>1
           DEF JoinThread, JoinsLast, Leave, Unlocks, EndsCall, Rewound
<1> QED  BY <1>2, <1>3

\* go is cleared and the queue thread told so.
Quits(c) ==
    /\ pc[c] = "quit" /\ Moves(c, {"halt"})
    /\ UNCHANGED <<tmVars, owner, queue, object, op, cur, hand, answer>>

\* The last step of an is_idle(), an is_busy() or the destructor.
Ends(c) ==
    /\ c \in Callers /\ pc' = [pc EXCEPT ![c] = "out"] /\ Unlocks(c) /\ EndsCall(c)
    /\ UNCHANGED <<tmVars, queue, go, cur, hand>>

\* The steps of an actor, said by what they do.
CallerStep(c) ==
    \/ Query(c)
    \/ pc[c] = "answer" /\ Ends(c) /\ object' = object /\ answer' = [answer EXCEPT ![c] = FALSE]
    \/ StopsNext(c) \/ StopsLast(c)
    \/ JoinNotify(c) \/ JoinsNext(c) \/ JoinsLast(c)
    \/ Quits(c) /\ go' = FALSE
    \/ DestroyHalt(c) \/ DestroyMembers(c)
    \/ pc[c] = "free" /\ Ends(c) /\ object' = "gone" /\ answer' = answer

ActorStep(a) ==
    \/ Enter(a)
    \/ a = QueueThread /\ FrontOf
    \/ Probe(a) \/ AssignHit(a) \/ AssignMiss(a) \/ QueuesTask(a) \/ WaitsForIdle(a) \/ TimeOut(a)
    \/ a \in Callers /\ CallerStep(a)

LEMMA ActorCases ==
    ASSUME IInv, NEW a \in Actors, Actor(a)
    PROVE  UNCHANGED <<classVars, calls, submitted>> /\ ActorStep(a)
<1>0. TypeOK /\ QueueInv
  BY DEF IInv
<1>1. UNCHANGED <<classVars, calls, submitted>>
  BY DEF Actor, Locks
<1>2. Query(a) \/ QueryReturn(a) \/ JoinNotify(a) \/ JoinThread(a) \/ DestroyQuit(a)
        \/ DestroyHalt(a) \/ DestroyMembers(a) \/ DestroyManagers(a) => a \in Callers /\ a # QueueThread
  BY <1>0, ActorFacts
     DEF Query, QueryReturn, JoinNotify, JoinThread, DestroyQuit, DestroyHalt, DestroyMembers,
         DestroyManagers, QueueInv
<1>3. CASE QueryReturn(a) \/ DestroyManagers(a)
  BY <1>1, <1>2, <1>3
     DEF QueryReturn, DestroyManagers, Leave, Ends, Unlocks, EndsCall, ActorStep, CallerStep
<1>4. CASE DestroyQuit(a)
  <2>1. PICK f \in NotifyOne("thread", pc) : pc' = [f EXCEPT ![a] = "halt"]
    BY <1>4 DEF DestroyQuit
  <2>2. Woken(pc, f)
    BY <1>0, <2>1, NotifyOneEffect DEF TypeOK
  <2>3. Moves(a, {"halt"})
    BY <1>0, <2>1, <2>2, MovesOne DEF ActorStates
  <2> QED  BY <1>1, <1>2, <1>4, <2>3 DEF DestroyQuit, Quits, ActorStep, CallerStep
<1>5. CASE TerminateStop(a)
  <2>1. a \in Callers
    BY <1>0, <1>5, ActorFacts DEF TerminateStop, QueueInv
  <2> QED  BY <1>1, <1>5, <2>1, TerminateStopCases DEF ActorStep, CallerStep
<1>6. CASE JoinThread(a)
  BY <1>1, <1>2, <1>6, JoinThreadCases DEF ActorStep, CallerStep
<1>7. CASE Assign(a) \/ NobodyIdle(a)
  BY <1>1, <1>7, AssignCases, NobodyIdleCases DEF ActorStep
<1>8. CASE a = QueueThread /\ Front
  BY <1>1, <1>8, FrontCases DEF ActorStep
<1>9. CASE Enter(a) \/ Probe(a) \/ TimeOut(a)
  BY <1>1, <1>9 DEF ActorStep
<1>10. CASE Query(a) \/ JoinNotify(a) \/ DestroyHalt(a) \/ DestroyMembers(a)
  BY <1>1, <1>2, <1>10 DEF ActorStep, CallerStep
<1> QED  BY <1>3, <1>4, <1>5, <1>6, <1>7, <1>8, <1>9, <1>10 DEF Actor, Locks

\* An actor's step leaves the other actors where they are.
LEMMA OthersStay ==
    ASSUME TypeOK, NEW a \in Actors, ActorStep(a) \/ \E o, t : Begin(a, o, t)
    PROVE  \A b \in Actors \ {a} : Stays(b)
<1> SUFFICES ASSUME NEW b \in Actors \ {a} PROVE Stays(b)
  OBVIOUS
<1>0. /\ pc \in [Actors -> ActorStates] /\ op \in [Actors -> Operations]
      /\ cur \in [Actors -> 1..PoolSize + 1] /\ hand \in [Actors -> Tasks \cup {None}]
      /\ answer \in [Actors -> BOOLEAN]
  BY DEF TypeOK
<1>1. CASE Enter(a) \/ Probe(a) \/ AssignMiss(a) \/ WaitsForIdle(a) \/ TimeOut(a)
  BY <1>0, <1>1 DEF Enter, Probe, AssignMiss, WaitsForIdle, TimeOut, Stays
<1>2. CASE a = QueueThread /\ FrontOf
  BY <1>0, <1>2 DEF FrontOf, Stays
<1>3. CASE AssignHit(a) \/ QueuesTask(a)
  BY <1>0, <1>3 DEF AssignHit, QueuesTask, Passed, Moves, EndsCall, Stays
<1>4. CASE a \in Callers /\ CallerStep(a)
  <2>1. CASE Query(a)
    BY <1>0, <2>1 DEF Query, Rewound, Stays
  <2>2. CASE StopsNext(a) \/ StopsLast(a)
    BY <1>0, <2>2 DEF StopsNext, StopsLast, StopsOne, Moves, EndsCall, Stays
  <2>3. CASE JoinNotify(a) \/ JoinsNext(a) \/ JoinsLast(a)
    BY <1>0, <2>3 DEF JoinNotify, JoinsNext, JoinsLast, JoinsOne, EndsCall, Stays
  <2>4. CASE Quits(a) \/ DestroyHalt(a) \/ DestroyMembers(a)
    BY <1>0, <2>4 DEF Quits, DestroyHalt, DestroyMembers, Moves, Stays
  <2>5. CASE Ends(a) /\ (answer' = answer \/ answer' = [answer EXCEPT ![a] = FALSE])
    BY <1>0, <2>5 DEF Ends, EndsCall, Stays
  <2> QED  BY <1>4, <2>1, <2>2, <2>3, <2>4, <2>5 DEF CallerStep
<1>5. ASSUME NEW o, NEW t, Begin(a, o, t) PROVE Stays(b)
  BY <1>0, <1>5 DEF Begin, Stays
<1> QED  BY <1>1, <1>2, <1>3, <1>4, <1>5 DEF ActorStep

\* What execute() and the others do when they are called.
Calls(c) ==
    \/ \E t \in Tasks : submitted = 1..(t - 1) /\ Begin(c, "execute", t) /\ object = "whole"
                        /\ object' = object
    \/ \E o \in {"is_idle", "is_busy"} : Begin(c, o, None) /\ object' = object /\ object = "whole"
    \/ Begin(c, "terminate", None) /\ object = "whole" /\ object' = "terminated"
    \/ Begin(c, "join", None) /\ object' = object /\ object = "terminated"
    \/ /\ Begin(c, "destroy", None) /\ object \in {"whole", "terminated"} /\ object' = "closing"
       /\ \A d \in Callers : pc[d] = "out"

LEMMA CallCases ==
    ASSUME NEW c \in Callers, Call(c)
    PROVE  Calls(c) /\ go' = go /\ \E o \in Operations, t \in Tasks \cup {None} : Begin(c, o, t)
  BY DEF Call, Calls, Operations

-----------------------------------------------------------------------------
(* The invariant is inductive                                              *)

\* The first task of a queue that is not empty, and the queue without it.
LEMMA HeadAndTail ==
    ASSUME TypeOK, queue # <<>>
    PROVE  /\ Len(queue) \in Nat /\ 1 \in 1..Len(queue)
           /\ Head(queue) = queue[1] /\ queue[1] \in Tasks
           /\ Tail(queue) \in Seq(Tasks)
           /\ Len(Tail(queue)) = Len(queue) - 1
           /\ \A i \in 1..(Len(queue) - 1) : Tail(queue)[i] = queue[i + 1]
<1> queue \in Seq(Tasks)
  BY DEF TypeOK
<1> QED  OBVIOUS

\* A task that is added is the last one.
LEMMA AppendLast ==
    ASSUME TypeOK, NEW t \in Tasks
    PROVE  /\ Append(queue, t) \in Seq(Tasks)
           /\ Len(queue) \in Nat /\ Len(Append(queue, t)) = Len(queue) + 1
           /\ Append(queue, t)[Len(queue) + 1] = t
           /\ \A i \in 1..Len(queue) : Append(queue, t)[i] = queue[i]
<1> queue \in Seq(Tasks)
  BY DEF TypeOK
<1> QED  OBVIOUS

\* FirstState, case by case.
LEMMA FirstStateCases ==
    ASSUME IInv, NEW a \in Actors, pc[a] \in {"enter", "woken"}
    PROVE  /\ FirstState(a) \in Inside
           /\ op[a] = "run" => FirstState(a) = "front"
           /\ op[a] = "execute" => FirstState(a) = IF queued /\ queue # <<>> THEN "full" ELSE "probe"
           /\ op[a] \in {"is_idle", "is_busy"} => FirstState(a) = "probe"
           /\ op[a] = "join" => FirstState(a) = "join"
           /\ op[a] \in {"terminate", "destroy"} => FirstState(a) = "stop"
<1>1. op[a] \in {"run", "execute", "is_idle", "is_busy", "join", "terminate", "destroy"}
  BY ActorFacts DEF IInv, QueueInv, CallInv, CallOf, TypeOK, Operations
<1>2. CASE op[a] = "run"
  BY <1>2 DEF FirstState, Inside
<1>3. CASE op[a] = "execute"
  BY <1>3 DEF FirstState, Inside
<1>4. CASE op[a] \in {"is_idle", "is_busy"}
  BY <1>4 DEF FirstState, Inside
<1>5. CASE op[a] = "join"
  BY <1>5 DEF FirstState, Inside
<1>6. CASE op[a] \in {"terminate", "destroy"}
  BY <1>6 DEF FirstState, Inside
<1> QED  BY <1>1, <1>2, <1>3, <1>4, <1>5, <1>6

\* Every step keeps the types: first of the actors, ...
ActorTypes ==
    /\ owner \in [LockNames -> Actors \cup {None}]
    /\ pc \in [Actors -> ActorStates] /\ op \in [Actors -> Operations]
    /\ cur \in [Actors -> 1..PoolSize + 1]
    /\ hand \in [Actors -> Tasks \cup {None}] /\ answer \in [Actors -> BOOLEAN]

LEMMA ActorTypeStep ==
    ASSUME IInv, NEW a \in Actors, ActorStep(a)
    PROVE  ActorTypes'
<1>0. TypeOK /\ ActorTypes /\ CursorInv /\ LockOf(a) \in LockNames
  BY DEF IInv, TypeOK, ActorTypes, LockOf, LockNames
<1> USE ActorFacts
<1>1. Unlocks(a) => owner' \in [LockNames -> Actors \cup {None}]
  BY <1>0 DEF Unlocks, ActorTypes
<1>2. EndsCall(a) => op' \in [Actors -> Operations]
  BY <1>0 DEF EndsCall, ActorTypes, Operations
<1>3. cur' = [cur EXCEPT ![a] = 1] => cur' \in [Actors -> 1..PoolSize + 1]
  BY <1>0 DEF ActorTypes
<1>4. CASE Enter(a)
  <2>1. FirstState(a) \in ActorStates
    BY <1>4, FirstStateCases DEF Enter, Inside, ActorStates
  <2> QED  BY <1>0, <1>4, <2>1 DEF Enter, ActorTypes
<1>5. CASE a = QueueThread /\ FrontOf
  <2>1. UNCHANGED <<op, cur, answer>>
    BY <1>5 DEF FrontOf
  <2>2. pc' \in [Actors -> ActorStates]
    BY <1>0, <1>5 DEF FrontOf, ActorTypes, ActorStates
  <2>3. owner' \in [LockNames -> Actors \cup {None}]
    BY <1>0, <1>1, <1>5 DEF FrontOf, ActorTypes
  <2>4. hand' \in [Actors -> Tasks \cup {None}]
    BY <1>0, <1>5, HeadAndTail DEF FrontOf, ActorTypes
  <2> QED  BY <1>0, <2>1, <2>2, <2>3, <2>4 DEF ActorTypes
<1>6. CASE Probe(a)
  <2>1. cur[a] + 1 \in 1..PoolSize + 1
    BY <1>0, <1>6 DEF Probe, ActorTypes
  <2> QED  BY <1>0, <1>6, <2>1 DEF Probe, ActorTypes, ActorStates
<1>7. CASE AssignHit(a) \/ QueuesTask(a)
  BY <1>0, <1>1, <1>2, <1>3, <1>7 DEF AssignHit, QueuesTask, Passed, Moves, ActorTypes
<1>8. CASE AssignMiss(a)
  BY <1>0, <1>8 DEF AssignMiss, ActorTypes, ActorStates
<1>9. CASE WaitsForIdle(a)
  BY <1>0, <1>1, <1>3, <1>9 DEF WaitsForIdle, ActorTypes, ActorStates
<1>10. CASE TimeOut(a)
  BY <1>0, <1>10 DEF TimeOut, ActorTypes, ActorStates
<1>11. CASE a \in Callers /\ CallerStep(a)
  <2>1. CASE Query(a)
    <3>1. cur[a] \in Managers
      BY <1>0, <2>1 DEF Query, CursorInv, CursorOf
    <3>2. cur' \in [Actors -> 1..PoolSize + 1] /\ pc' \in [Actors -> ActorStates]
      BY <1>0, <2>1, <3>1 DEF Query, Rewound, ActorTypes, ActorStates
    <3>3. answer' \in [Actors -> BOOLEAN] /\ UNCHANGED <<owner, op, hand>>
      BY <1>0, <2>1 DEF Query, ActorTypes
    <3> QED  BY <1>0, <3>2, <3>3 DEF ActorTypes
  <2>2. CASE StopsNext(a)
    BY <1>0, <2>2 DEF StopsNext, StopsOne, ActorTypes
  <2>3. CASE StopsLast(a)
    BY <1>0, <1>1, <1>2, <1>3, <2>3 DEF StopsLast, StopsOne, Moves, ActorTypes
  <2>4. CASE JoinNotify(a)
    BY <1>0, <2>4 DEF JoinNotify, ActorTypes, ActorStates
  <2>5. CASE JoinsNext(a)
    BY <1>0, <2>5 DEF JoinsNext, JoinsOne, ActorTypes, ActorStates
  <2>6. CASE JoinsLast(a)
    BY <1>0, <1>1, <1>2, <1>3, <2>6 DEF JoinsLast, JoinsOne, ActorTypes, ActorStates
  <2>7. CASE Quits(a)
    BY <1>0, <2>7 DEF Quits, Moves, ActorTypes
  <2>8. CASE DestroyHalt(a) \/ DestroyMembers(a)
    BY <1>0, <2>8 DEF DestroyHalt, DestroyMembers, ActorTypes, ActorStates
  <2>9. CASE Ends(a) /\ (answer' = answer \/ answer' = [answer EXCEPT ![a] = FALSE])
    BY <1>0, <1>1, <1>2, <2>9 DEF Ends, ActorTypes, ActorStates
  <2> QED  BY <1>11, <2>1, <2>2, <2>3, <2>4, <2>5, <2>6, <2>7, <2>8, <2>9 DEF CallerStep
<1> QED  BY <1>4, <1>5, <1>6, <1>7, <1>8, <1>9, <1>10, <1>11 DEF ActorStep

\* ... then of the rest.
LEMMA PoolTypeStep ==
    ASSUME IInv, NEW a \in Actors, ActorStep(a)
    PROVE  /\ go' \in BOOLEAN /\ object' \in Objects /\ queue' \in Seq(Tasks)
           /\ tmGo' \in [Managers -> BOOLEAN] /\ alive' \in [Managers -> BOOLEAN]
           /\ slot' \in [Managers -> Tasks \cup {None}] /\ wpc' \in [Managers -> WorkerStates]
           /\ deletes' \in [Tasks -> Nat] /\ runs' = runs
<1>0. /\ TypeOK /\ go \in BOOLEAN /\ object \in Objects /\ queue \in Seq(Tasks)
      /\ tmGo \in [Managers -> BOOLEAN] /\ alive \in [Managers -> BOOLEAN]
      /\ slot \in [Managers -> Tasks \cup {None}] /\ wpc \in [Managers -> WorkerStates]
      /\ deletes \in [Tasks -> Nat]
  BY DEF IInv, TypeOK
<1>1. CASE Enter(a) \/ Probe(a) \/ AssignMiss(a) \/ WaitsForIdle(a) \/ TimeOut(a)
  BY <1>0, <1>1 DEF Enter, Probe, AssignMiss, WaitsForIdle, TimeOut, tmVars
<1>2. CASE a = QueueThread /\ FrontOf
  BY <1>0, <1>2, HeadAndTail DEF FrontOf, tmVars
<1>3. CASE AssignHit(a)
  BY <1>0, <1>3 DEF AssignHit, Notified, WorkerStates
<1>4. CASE QueuesTask(a)
  BY <1>0, <1>4, AppendLast DEF QueuesTask, tmVars
<1>5. CASE a \in Callers /\ CallerStep(a)
  <2>0. CASE Ends(a) /\ object' \in {object, "gone"}
    BY <1>0, <2>0 DEF Ends, tmVars, Objects
  <2>1. CASE Query(a) \/ DestroyHalt(a) \/ (Quits(a) /\ go' = FALSE)
    BY <1>0, <2>1 DEF Query, DestroyHalt, Quits, tmVars
  <2>2. CASE StopsNext(a) \/ StopsLast(a)
    BY <1>0, <2>2 DEF StopsNext, StopsLast, StopsOne, Notified, WorkerStates
  <2>3. CASE JoinNotify(a)
    BY <1>0, <2>3 DEF JoinNotify, Notified, WorkerStates
  <2>4. CASE JoinsNext(a) \/ JoinsLast(a)
    BY <1>0, <2>4 DEF JoinsNext, JoinsLast, JoinsOne
  <2>5. CASE DestroyMembers(a)
    <3>1. queue # <<>> => Tail(queue) \in Seq(Tasks) /\ Head(queue) \in Tasks
      BY <1>0, HeadAndTail
    <3>2. queue' \in Seq(Tasks) /\ object' \in Objects
      BY <1>0, <2>5, <3>1 DEF DestroyMembers, Objects
    <3>3. deletes' \in [Tasks -> Nat]
      BY <1>0, <2>5, <3>1 DEF DestroyMembers
    <3> QED  BY <1>0, <2>5, <3>2, <3>3 DEF DestroyMembers
  <2> QED  BY <1>5, <2>0, <2>1, <2>2, <2>3, <2>4, <2>5 DEF CallerStep
<1> QED  BY <1>1, <1>2, <1>3, <1>4, <1>5 DEF ActorStep

LEMMA TypeStep == IInv /\ [Next]_vars => TypeOK'
<1> SUFFICES ASSUME IInv, [Next]_vars PROVE TypeOK'
  OBVIOUS
<1>0. TypeOK /\ RunInv
  BY DEF IInv
<1>1. ASSUME NEW m \in Managers, Worker(m) PROVE TypeOK'
  <2>1. WorkerFrame
    BY <1>0, <1>1, WorkerEffect
  <2>2. runs' \in [Tasks -> Nat] /\ deletes' \in [Tasks -> Nat]
    <3>0. /\ runs \in [Tasks -> Nat] /\ deletes \in [Tasks -> Nat]
          /\ slot \in [Managers -> Tasks \cup {None}]
      BY <1>0 DEF TypeOK
    <3>1. CASE WorkerLoop(m)
      <4>1. \A t \in Tasks : deletes[t] + (IF slot[m] = t THEN 1 ELSE 0) \in Nat
        BY <3>0
      <4>2. deletes' \in [Tasks -> Nat]
        BY <3>0, <3>1, <4>1 DEF WorkerLoop
      <4>3. runs' \in [Tasks -> Nat]
        BY <3>0, <3>1 DEF WorkerLoop
      <4> QED  BY <4>2, <4>3
    <3>2. CASE WorkerFinish(m)
      <4>1. slot[m] \in Tasks
        BY <1>0, <3>0, <3>2 DEF WorkerFinish, RunInv
      <4> QED  BY <3>0, <3>2, <4>1 DEF WorkerFinish
    <3>3. CASE WorkerNotify(m)
      BY <3>0, <3>3 DEF WorkerNotify
    <3> QED  BY <1>1, <3>1, <3>2, <3>3 DEF Worker
  <2> QED  BY <1>0, <2>1, <2>2 DEF WorkerFrame, TypeOK, classVars
<1>2. ASSUME NEW a \in Actors, Actor(a) PROVE TypeOK'
  <2>1. UNCHANGED <<classVars, calls, submitted>> /\ ActorStep(a)
    BY <1>2, ActorCases
  <2>2. ActorTypes'
    BY <2>1, ActorTypeStep
  <2> QED  BY <1>0, <2>1, <2>2, PoolTypeStep DEF TypeOK, classVars, ActorTypes, LockNames
<1>3. ASSUME NEW c \in Callers, Call(c) PROVE TypeOK'
  <2>1. PICK o \in Operations, t \in Tasks \cup {None} : Begin(c, o, t)
    BY <1>3, CallCases
  <2>2. go' = go /\ object' \in Objects
    BY <1>0, <1>3, CallCases DEF Calls, TypeOK, Objects
  <2>3. /\ pc' \in [Actors -> ActorStates] /\ op' \in [Actors -> Operations]
        /\ hand' \in [Actors -> Tasks \cup {None}] /\ submitted' \in SUBSET Tasks
    BY <1>0, <2>1, ActorFacts DEF Begin, TypeOK, ActorStates
  <2>4. UNCHANGED <<classVars, tmVars, owner, queue, cur, answer>> /\ calls' \in 0..MaxCalls
    BY <1>0, <2>1, AgentAssumption DEF Begin, TypeOK
  <2> QED  BY <1>0, <2>2, <2>3, <2>4 DEF TypeOK, classVars, tmVars
<1>4. CASE Stop
  BY <1>0, <1>4 DEF Stop, TypeOK, classVars, tmVars
<1>5. CASE UNCHANGED vars
  BY <1>0, <1>5 DEF vars, TypeOK, classVars, tmVars
<1> QED  BY <1>1, <1>2, <1>3, <1>4, <1>5 DEF Next, Quiescent

\* Two actors inside the same monitor are the same.
LEMMA Exclusive ==
    ASSUME LockInv, NEW a \in Actors, NEW b \in Actors,
           pc[a] \in Inside, pc[b] \in Inside, LockOf(a) = LockOf(b)
    PROVE  a = b
<1>1. LockOf(a) \in LockNames
  BY DEF LockOf, LockNames
<1> QED  BY <1>1 DEF LockInv

\* Every step keeps the locks with those who are inside.
LEMMA LockStep == IInv /\ [Next]_vars => LockInv'
<1> SUFFICES ASSUME IInv, [Next]_vars PROVE LockInv'
  OBVIOUS
<1>0. /\ TypeOK /\ LockInv /\ CallInv /\ QueueInv
      /\ pc \in [Actors -> ActorStates] /\ op \in [Actors -> Operations]
      /\ owner \in [LockNames -> Actors \cup {None}]
      /\ \A a \in Actors : LockOf(a) \in LockNames
  BY DEF IInv, TypeOK, LockNames, LockOf
<1>1. ASSUME owner' = owner, queued' = queued, op' = op,
             \A a \in Actors : pc'[a] \in Inside <=> pc[a] \in Inside
      PROVE  LockInv'
  BY <1>0, <1>1 DEF LockInv, LockOf
<1>2. ASSUME NEW m \in Managers, Worker(m) PROVE LockInv'
  <2>1. WorkerFrame
    BY <1>0, <1>2, WorkerEffect
  <2> QED  BY <1>1, <2>1 DEF WorkerFrame, Stays, Inside, classVars
<1>3. ASSUME NEW a \in Actors, Actor(a) PROVE LockInv'
  <2>0. queued' = queued /\ ActorStep(a) /\ (\A b \in Actors \ {a} : Stays(b))
    BY <1>0, <1>3, ActorCases, OthersStay DEF classVars
  <2>1. \A b \in Actors \ {a} : LockOf(b)' = LockOf(b) /\ (pc'[b] \in Inside <=> pc[b] \in Inside)
    BY <2>0 DEF Stays, LockOf, Inside
  <2>2. ASSUME owner' = owner, op'[a] = op[a], pc'[a] \in Inside <=> pc[a] \in Inside
        PROVE  LockInv'
    <3>1. LockOf(a)' = LockOf(a)
      BY <2>0, <2>2 DEF LockOf
    <3> QED  BY <1>0, <2>1, <2>2, <3>1 DEF LockInv
  <2>3. ASSUME pc[a] \in Inside, Unlocks(a), pc'[a] \notin Inside PROVE LockInv'
    <3>1. \A l \in LockNames : owner'[l] = IF l = LockOf(a) THEN None ELSE owner[l]
      BY <1>0, <2>3 DEF Unlocks
    <3>2. owner[LockOf(a)] = a
      BY <1>0, <2>3 DEF LockInv
    <3>3. ASSUME NEW b \in Actors, NEW l \in LockNames
          PROVE  owner'[l] = b <=> pc'[b] \in Inside /\ LockOf(b)' = l
      <4>1. CASE b = a
        <5>1. owner'[l] # a
          BY <1>0, <2>3, <3>1, ActorFacts DEF LockInv
        <5> QED  BY <2>3, <4>1, <5>1
      <4>2. CASE b # a
        <5>1. owner'[l] = b <=> owner[l] = b
          BY <3>1, <3>2, <4>2, ActorFacts
        <5> QED  BY <1>0, <2>1, <4>2, <5>1 DEF LockInv
      <4> QED  BY <4>1, <4>2
    <3> QED  BY <3>3 DEF LockInv
  <2>4. CASE Enter(a)
    <3>1. /\ pc'[a] \in Inside /\ pc[a] \notin Inside /\ op' = op /\ owner[LockOf(a)] = None
          /\ \A l \in LockNames : owner'[l] = IF l = LockOf(a) THEN a ELSE owner[l]
      BY <1>0, <2>4, FirstStateCases DEF Enter, LockFree, Inside
    <3>2. LockOf(a)' = LockOf(a)
      BY <2>0, <3>1 DEF LockOf
    <3> QED  BY <1>0, <2>1, <3>1, <3>2, ActorFacts DEF LockInv
  <2>5. CASE a = QueueThread /\ FrontOf
    BY <1>0, <2>2, <2>3, <2>5 DEF FrontOf, Inside
  <2>6. CASE Probe(a) \/ AssignMiss(a)
    BY <1>0, <2>2, <2>6 DEF Probe, AssignMiss, Inside
  <2>7. CASE AssignHit(a) \/ QueuesTask(a)
    <3>1. pc[a] \in Inside /\ Unlocks(a) /\ pc'[a] \notin Inside
      BY <2>7 DEF AssignHit, QueuesTask, Passed, Moves, Inside
    <3> QED  BY <2>3, <3>1
  <2>8. CASE WaitsForIdle(a) \/ TimeOut(a)
    BY <1>0, <2>2, <2>3, <2>8 DEF WaitsForIdle, TimeOut, Inside
  <2>9. CASE a \in Callers /\ CallerStep(a)
    <3>1. CASE Query(a)
      BY <1>0, <2>2, <3>1 DEF Query, Inside
    <3>2. CASE StopsNext(a) \/ JoinNotify(a) \/ JoinsNext(a)
      BY <1>0, <2>2, <3>2 DEF StopsNext, StopsOne, JoinNotify, JoinsNext, JoinsOne, Inside
    <3>3. CASE StopsLast(a)
      <4>1. CASE op[a] = "terminate" /\ Moves(a, {"out"}) /\ Unlocks(a)
        <5>1. pc[a] \in Inside /\ pc'[a] \notin Inside
          BY <3>3, <4>1 DEF StopsLast, StopsOne, Moves, Inside
        <5> QED  BY <2>3, <4>1, <5>1
      <4>2. CASE UNCHANGED <<owner, op>> /\ Moves(a, {IF queued /\ object = "closing" THEN "unwind" ELSE "join"})
        <5>1. pc[a] \in Inside /\ pc'[a] \in Inside
          BY <3>3, <4>2 DEF StopsLast, StopsOne, Moves, Inside
        <5> QED  BY <2>2, <4>2, <5>1
      <4> QED  BY <3>3, <4>1, <4>2 DEF StopsLast
    <3>4. CASE JoinsLast(a)
      BY <1>0, <2>2, <2>3, <3>4 DEF JoinsLast, JoinsOne, Inside
    <3>5. CASE Quits(a)
      BY <2>2, <3>5 DEF Quits, Moves, Inside
    <3>6. CASE DestroyHalt(a) \/ DestroyMembers(a)
      BY <1>0, <2>2, <3>6 DEF DestroyHalt, DestroyMembers, Inside
    <3>7. CASE Ends(a) /\ pc[a] \in {"answer", "free"}
      BY <1>0, <2>3, <3>7 DEF Ends, Inside
    <3> QED  BY <2>9, <3>1, <3>2, <3>3, <3>4, <3>5, <3>6, <3>7 DEF CallerStep
  <2> QED  BY <2>0, <2>4, <2>5, <2>6, <2>7, <2>8, <2>9 DEF ActorStep
<1>4. ASSUME NEW c \in Callers, Call(c) PROVE LockInv'
  <2>1. PICK o \in Operations, t \in Tasks \cup {None} : Begin(c, o, t)
    BY <1>4, CallCases
  <2>2. /\ owner' = owner /\ queued' = queued /\ c \in Actors
        /\ pc[c] \notin Inside /\ pc'[c] \notin Inside
        /\ \A b \in Actors \ {c} : Stays(b)
    BY <1>0, <2>1, OthersStay, ActorFacts DEF Begin, Inside, classVars
  <2>3. \A b \in Actors \ {c} : LockOf(b)' = LockOf(b) /\ (pc'[b] \in Inside <=> pc[b] \in Inside)
    BY <2>2 DEF Stays, LockOf, Inside
  <2> QED  BY <1>0, <2>2, <2>3 DEF LockInv
<1>5. CASE Stop
  BY <1>1, <1>5 DEF Stop, classVars
<1>6. CASE UNCHANGED vars
  BY <1>1, <1>6 DEF vars, classVars
<1> QED  BY <1>2, <1>3, <1>4, <1>5, <1>6 DEF Next, Quiescent

\* Every step keeps a caller's states fit for its call.
LEMMA CallStep == IInv /\ [Next]_vars => CallInv'
<1> SUFFICES ASSUME IInv, [Next]_vars, NEW d \in Callers PROVE CallOf(d)'
  BY DEF CallInv
<1>0. TypeOK /\ QueueInv /\ CallOf(d) /\ d \in Actors /\ d # QueueThread
  BY ActorFacts DEF IInv, CallInv
<1>1. Stays(d) /\ queued' = queued => CallOf(d)'
  BY <1>0 DEF Stays, CallOf
<1>2. ASSUME NEW m \in Managers, Worker(m) PROVE CallOf(d)'
  BY <1>0, <1>1, <1>2, WorkerEffect DEF WorkerFrame, classVars
<1>3. ASSUME NEW a \in Actors, Actor(a) PROVE CallOf(d)'
  <2>0. queued' = queued /\ ActorStep(a)
    BY <1>0, <1>3, ActorCases DEF classVars
  <2>1. CASE d # a
    BY <1>0, <1>1, <2>0, <2>1, OthersStay
  <2>2. CASE d = a
    <3> USE <2>2
    <3>1. CASE Enter(d)
      <4>1. op[d] \in Operations /\ op' = op /\ hand' = hand /\ pc'[d] = FirstState(d)
        BY <1>0, <3>1 DEF Enter, TypeOK
      <4>2. op[d] \in {"execute", "is_idle", "is_busy", "join", "terminate", "destroy"}
        BY <1>0, <3>1, <4>1 DEF Enter, CallOf, Operations
      <4> QED  BY <1>0, <2>0, <3>1, <4>1, <4>2, FirstStateCases DEF Enter, CallOf
    <3>2. CASE Probe(d) \/ AssignMiss(d) \/ TimeOut(d)
      BY <1>0, <2>0, <3>2 DEF Probe, AssignMiss, TimeOut, CallOf, TypeOK
    <3>3. CASE AssignHit(d) \/ QueuesTask(d)
      <4>1. pc'[d] = "out" /\ op'[d] = "none" /\ hand'[d] = None
        BY <1>0, <3>3 DEF AssignHit, QueuesTask, Passed, Moves, EndsCall, TypeOK
      <4> QED  BY <4>1 DEF CallOf
    <3>4. CASE WaitsForIdle(d)
      BY <1>0, <2>0, <3>4 DEF WaitsForIdle, CallOf, TypeOK
    <3>5. CASE CallerStep(d)
      <4>1. CASE Query(d)
        BY <1>0, <2>0, <4>1 DEF Query, CallOf, TypeOK
      <4>2. CASE StopsNext(d) \/ JoinNotify(d) \/ JoinsNext(d)
        BY <1>0, <2>0, <4>2 DEF StopsNext, StopsOne, JoinNotify, JoinsNext, JoinsOne, CallOf, TypeOK
      <4>3. CASE StopsLast(d)
        <5>1. \/ op[d] = "terminate" /\ pc'[d] = "out" /\ op'[d] = "none" /\ hand'[d] = hand[d]
              \/ op[d] = "destroy" /\ pc'[d] \in {"unwind", "join"} /\ op'[d] = op[d] /\ hand'[d] = hand[d]
          BY <1>0, <4>3 DEF StopsLast, StopsOne, Moves, EndsCall, TypeOK
        <5> QED  BY <1>0, <5>1 DEF CallOf
      <4>4. CASE JoinsLast(d)
        BY <1>0, <2>0, <4>4 DEF JoinsLast, JoinsOne, EndsCall, CallOf, TypeOK
      <4>5. CASE Quits(d)
        BY <1>0, <2>0, <4>5 DEF Quits, Moves, CallOf, TypeOK
      <4>6. CASE DestroyHalt(d) \/ DestroyMembers(d)
        BY <1>0, <2>0, <4>6 DEF DestroyHalt, DestroyMembers, CallOf, TypeOK
      <4>7. CASE Ends(d) /\ pc[d] \in {"answer", "free"}
        BY <1>0, <2>0, <4>7 DEF Ends, EndsCall, CallOf, TypeOK
      <4> QED  BY <3>5, <4>1, <4>2, <4>3, <4>4, <4>5, <4>6, <4>7 DEF CallerStep
    <3> QED  BY <1>0, <2>0, <3>1, <3>2, <3>3, <3>4, <3>5 DEF ActorStep
  <2> QED  BY <2>1, <2>2
<1>4. ASSUME NEW c \in Callers, Call(c) PROVE CallOf(d)'
  <2>1. CASE d # c
    <3>1. PICK o \in Operations, t \in Tasks \cup {None} : Begin(c, o, t)
      BY <1>4, CallCases
    <3> QED  BY <1>0, <1>1, <2>1, <3>1, OthersStay, ActorFacts DEF Begin, classVars
  <2>2. CASE d = c
    <3>1. ASSUME NEW t \in Tasks, Begin(c, "execute", t) PROVE CallOf(d)'
      BY <1>0, <2>2, <3>1, ActorFacts DEF Begin, CallOf, TypeOK, classVars
    <3>2. ASSUME NEW o \in {"is_idle", "is_busy", "terminate", "join", "destroy"}, Begin(c, o, None)
          PROVE  CallOf(d)'
      BY <1>0, <2>2, <3>2 DEF Begin, CallOf, TypeOK, classVars
    <3> QED  BY <1>4, <3>1, <3>2, CallCases DEF Calls
  <2> QED  BY <2>1, <2>2
<1>5. CASE Stop \/ UNCHANGED vars
  BY <1>0, <1>5 DEF Stop, vars, classVars, CallOf
<1> QED  BY <1>2, <1>3, <1>4, <1>5 DEF Next, Quiescent

\* Which steps of an actor touch the managers, the queue and the pool's state.
LEMMA ActorFrame ==
    ASSUME IInv, NEW a \in Actors, ActorStep(a)
    PROVE  /\ slot' = slot \/ AssignHit(a)
           /\ hand' = hand \/ AssignHit(a) \/ QueuesTask(a) \/ (a = QueueThread /\ FrontOf)
           /\ queue' = queue \/ QueuesTask(a) \/ (a = QueueThread /\ FrontOf) \/ DestroyMembers(a)
           /\ tmGo' = tmGo \/ StopsOne(a)
           /\ alive' = alive \/ (a \in Callers /\ JoinsOne(a))
           /\ deletes' = deletes \/ DestroyMembers(a)
           /\ runs' = runs
           /\ \A m \in Managers : wpc'[m] = wpc[m] \/ (wpc[m] = "waiting" /\ wpc'[m] = "woken")
           /\ \/ object' = object \/ DestroyMembers(a)
              \/ a \in Callers /\ pc[a] = "free" /\ Ends(a) /\ object' = "gone"
<1>0. wpc \in [Managers -> WorkerStates] /\ TypeOK
  BY DEF IInv, TypeOK
<1>1. CASE Enter(a) \/ Probe(a) \/ AssignMiss(a) \/ WaitsForIdle(a) \/ TimeOut(a)
  BY <1>0, <1>1 DEF Enter, Probe, AssignMiss, WaitsForIdle, TimeOut, tmVars
<1>2. CASE a = QueueThread /\ FrontOf
  BY <1>0, <1>2 DEF FrontOf, tmVars
<1>3. CASE AssignHit(a)
  BY <1>0, <1>3 DEF AssignHit, Notified
<1>4. CASE QueuesTask(a)
  BY <1>0, <1>4 DEF QueuesTask, tmVars
<1>5. CASE a \in Callers /\ CallerStep(a)
  <2>0. CASE Ends(a) /\ (object' = object \/ (pc[a] = "free" /\ object' = "gone"))
    <3>1. hand' = hand /\ queue' = queue
      BY <2>0 DEF Ends
    <3> QED  BY <1>5, <2>0, <3>1 DEF Ends, tmVars
  <2>1. CASE Query(a) \/ DestroyHalt(a) \/ Quits(a)
    BY <1>0, <2>1 DEF Query, DestroyHalt, Quits, tmVars
  <2>2. CASE StopsNext(a) \/ StopsLast(a)
    BY <1>0, <2>2 DEF StopsNext, StopsLast, StopsOne, Notified
  <2>3. CASE JoinNotify(a)
    BY <1>0, <2>3 DEF JoinNotify, Notified
  <2>4. CASE JoinsNext(a) \/ JoinsLast(a)
    BY <1>0, <1>5, <2>4 DEF JoinsNext, JoinsLast, JoinsOne
  <2>5. CASE DestroyMembers(a)
    BY <1>0, <2>5 DEF DestroyMembers
  <2> QED  BY <1>5, <2>0, <2>1, <2>2, <2>3, <2>4, <2>5 DEF CallerStep
<1> QED  BY <1>1, <1>2, <1>3, <1>4, <1>5 DEF ActorStep

\* Every step keeps the queue thread in its loop, until it ends.
LEMMA QueueStep == IInv /\ [Next]_vars => QueueInv'
<1> SUFFICES ASSUME IInv, [Next]_vars PROVE QueueInv'
  OBVIOUS
<1>0. TypeOK /\ QueueInv /\ QueueThread \in Actors
  BY ActorFacts DEF IInv
<1>1. ASSUME Stays(QueueThread), queued' = queued, queue' = queue \/ queued \/ queue # <<>>
      PROVE  QueueInv'
  BY <1>0, <1>1 DEF Stays, QueueInv
<1>2. ASSUME NEW m \in Managers, Worker(m) PROVE QueueInv'
  BY <1>0, <1>1, <1>2, WorkerEffect DEF WorkerFrame, classVars
<1>3. ASSUME NEW a \in Actors, Actor(a) PROVE QueueInv'
  <2>0. queued' = queued /\ ActorStep(a)
    BY <1>0, <1>3, ActorCases DEF classVars
  <2>1. CASE a # QueueThread
    <3>1. Stays(QueueThread)
      BY <1>0, <2>0, <2>1, OthersStay
    <3>2. queue' = queue \/ queued \/ queue # <<>>
      BY <2>0, <2>1, ActorFrame DEF QueuesTask, DestroyMembers
    <3> QED  BY <1>1, <2>0, <3>1, <3>2
  <2>2. CASE a = QueueThread
    <3> USE <2>2
    <3>1. CASE Enter(a)
      BY <1>0, <2>0, <3>1, FirstStateCases DEF Enter, QueueInv, TypeOK
    <3>2. CASE FrontOf
      <4>1. queue # <<>> => Head(queue) # None
        BY <1>0, HeadAndTail, ActorFacts
      <4> QED  BY <1>0, <2>0, <3>2, <4>1 DEF FrontOf, QueueInv, TypeOK
    <3>3. CASE Probe(a) \/ AssignMiss(a) \/ TimeOut(a)
      BY <1>0, <2>0, <3>3 DEF Probe, AssignMiss, TimeOut, QueueInv, TypeOK
    <3>4. CASE AssignHit(a) \/ QueuesTask(a)
      <4>1. pc'[a] = "waiting" /\ op'[a] = op[a] /\ hand'[a] = None
        BY <1>0, <3>4 DEF AssignHit, QueuesTask, Passed, Moves, EndsCall, TypeOK
      <4>2. queued
        BY <1>0, <3>4 DEF AssignHit, QueuesTask, QueueInv
      <4> QED  BY <1>0, <2>0, <4>1, <4>2 DEF QueueInv
    <3> QED  BY <2>0, <3>1, <3>2, <3>3, <3>4, ActorFacts DEF ActorStep, WaitsForIdle
  <2> QED  BY <2>1, <2>2
<1>4. ASSUME NEW c \in Callers, Call(c) PROVE QueueInv'
  <2>1. PICK o \in Operations, t \in Tasks \cup {None} : Begin(c, o, t)
    BY <1>4, CallCases
  <2>2. Stays(QueueThread)
    BY <1>0, <2>1, OthersStay, ActorFacts
  <2> QED  BY <1>1, <2>1, <2>2 DEF Begin, classVars
<1>5. CASE Stop
  BY <1>0, <1>5 DEF Stop, classVars, QueueInv
<1>6. CASE UNCHANGED vars
  BY <1>0, <1>6 DEF vars, classVars, QueueInv
<1> QED  BY <1>2, <1>3, <1>4, <1>5, <1>6 DEF Next, Quiescent

\* Every step keeps the cursors inside the array.
LEMMA CursorStep == IInv /\ [Next]_vars => CursorInv'
<1> SUFFICES ASSUME IInv, [Next]_vars, NEW b \in Actors PROVE CursorOf(b)'
  BY DEF CursorInv
<1>0. TypeOK /\ QueueInv /\ CallInv /\ CursorOf(b) /\ cur[b] \in 1..PoolSize + 1
  BY ActorFacts DEF IInv, CursorInv, TypeOK
<1> USE ActorFacts
<1>1. Stays(b) => CursorOf(b)'
  BY <1>0 DEF Stays, CursorOf
<1>2. ASSUME NEW m \in Managers, Worker(m) PROVE CursorOf(b)'
  BY <1>0, <1>1, <1>2, WorkerEffect DEF WorkerFrame
<1>3. ASSUME NEW a \in Actors, Actor(a) PROVE CursorOf(b)'
  <2>0. ActorStep(a)
    BY <1>3, ActorCases
  <2>1. CASE b # a
    BY <1>0, <1>1, <2>0, <2>1, OthersStay
  <2>2. CASE b = a
    <3> USE <2>2
    <3>0. cur'[b] = 1 => CursorOf(b)'
      BY DEF CursorOf
    <3>1. CASE Enter(b)
      BY <1>0, <3>0, <3>1 DEF Enter, CursorOf
    <3>2. CASE FrontOf
      BY <1>0, <3>0, <3>2 DEF FrontOf, CursorOf, TypeOK
    <3>3. CASE Probe(b)
      <4>1. cur[b] \in Managers
        BY <1>0, <3>3 DEF Probe, Managers
      <4> QED  BY <1>0, <3>3, <4>1 DEF Probe, CursorOf, TypeOK
    <3>4. CASE AssignMiss(b)
      <4>1. op[b] \in {"execute", "run"} /\ op' = op /\ pc'[b] = "probe"
        BY <1>0, <3>4 DEF AssignMiss, QueueInv, CallInv, CallOf, TypeOK
      <4> QED  BY <4>1 DEF CursorOf
    <3>5. CASE AssignHit(b) \/ QueuesTask(b) \/ WaitsForIdle(b)
      BY <1>0, <3>0, <3>5 DEF AssignHit, QueuesTask, Passed, WaitsForIdle, TypeOK
    <3>6. CASE TimeOut(b)
      BY <1>0, <3>0, <3>6 DEF TimeOut, CursorOf
    <3>7. CASE b \in Callers /\ CallerStep(b)
      <4>1. CASE Query(b)
        <5>1. CASE pc'[b] = "answer"
          BY <1>0, <3>0, <4>1, <5>1 DEF Query, Rewound, TypeOK
        <5>2. CASE pc'[b] # "answer"
          <6>1. cur[b] \in Managers /\ cur[b] # PoolSize /\ cur'[b] = cur[b] + 1 /\ pc'[b] = "probe"
            BY <1>0, <4>1, <5>2 DEF Query, CursorOf, TypeOK
          <6>2. cur'[b] \in Managers
            BY <6>1 DEF Managers
          <6> QED  BY <6>1, <6>2 DEF CursorOf
        <5> QED  BY <5>1, <5>2
      <4>2. CASE StopsNext(b)
        BY <1>0, <4>2 DEF StopsNext, StopsOne, CursorOf, TypeOK
      <4>3. CASE StopsLast(b)
        BY <1>0, <3>0, <4>3 DEF StopsLast, TypeOK
      <4>4. CASE JoinNotify(b)
        BY <1>0, <4>4 DEF JoinNotify, CursorOf, TypeOK
      <4>5. CASE JoinsNext(b)
        BY <1>0, <4>5 DEF JoinsNext, CursorOf, TypeOK
      <4>6. CASE JoinsLast(b)
        BY <1>0, <3>0, <4>6 DEF JoinsLast, TypeOK
      <4>7. CASE Quits(b)
        BY <1>0, <3>0, <4>7 DEF Quits, CursorOf
      <4>8. CASE DestroyHalt(b) \/ DestroyMembers(b)
        BY <1>0, <3>0, <4>8 DEF DestroyHalt, DestroyMembers, CursorOf
      <4>9. CASE Ends(b) /\ pc[b] \in {"answer", "free"}
        BY <1>0, <3>0, <4>9 DEF Ends, CursorOf
      <4> QED  BY <3>7, <4>1, <4>2, <4>3, <4>4, <4>5, <4>6, <4>7, <4>8, <4>9 DEF CallerStep
    <3> QED  BY <2>0, <3>1, <3>2, <3>3, <3>4, <3>5, <3>6, <3>7 DEF ActorStep
  <2> QED  BY <2>1, <2>2
<1>4. ASSUME NEW c \in Callers, Call(c) PROVE CursorOf(b)'
  <2>1. PICK o \in Operations, t \in Tasks \cup {None} : Begin(c, o, t)
    BY <1>4, CallCases
  <2>2. CASE b # c
    BY <1>0, <1>1, <2>1, <2>2, OthersStay
  <2>3. CASE b = c
    BY <1>0, <2>1, <2>3 DEF Begin, CursorOf
  <2> QED  BY <2>2, <2>3
<1>5. CASE Stop \/ UNCHANGED vars
  BY <1>0, <1>5 DEF Stop, vars, CursorOf
<1> QED  BY <1>2, <1>3, <1>4, <1>5 DEF Next, Quiescent

\* What a caller knows of the managers while it asks them and when it answers.
ScanOf(c) ==
    ~queued /\ op[c] = "is_idle" =>
        /\ pc[c] = "probe" => \A m \in Managers : m < cur[c] => IsIdle(m)
        /\ pc[c] = "answer" /\ answer[c] => \A m \in Managers : IsIdle(m)

\* Every step keeps what is_idle() of a ThreadPool has seen true.
LEMMA ScanStep == IInv /\ [Next]_vars => ScanInv' /\ IdleAnswer'
<1> SUFFICES ASSUME IInv, [Next]_vars, NEW d \in Callers PROVE ScanOf(d)'
  BY DEF ScanInv, IdleAnswer, ScanOf
<1>0. TypeOK /\ ScanOf(d) /\ LockInv /\ CallInv /\ CursorInv /\ d \in Actors /\ d # QueueThread
  BY ActorFacts DEF IInv, ScanInv, IdleAnswer, ScanOf
<1>1. ASSUME Stays(d), queued' = queued, alive' = alive,
             \A m \in Managers : slot'[m] = slot[m] \/ slot'[m] = None
      PROVE  ScanOf(d)'
  BY <1>0, <1>1 DEF Stays, ScanOf, IsIdle
<1>2. ASSUME NEW m \in Managers, Worker(m) PROVE ScanOf(d)'
  BY <1>0, <1>1, <1>2, WorkerEffect DEF WorkerFrame, classVars
<1>3. ASSUME NEW a \in Actors, Actor(a) PROVE ScanOf(d)'
  <2>0. queued' = queued /\ ActorStep(a)
    BY <1>0, <1>3, ActorCases DEF classVars
  <2>1. CASE d # a
    <3>1. Stays(d)
      BY <1>0, <2>0, <2>1, OthersStay
    <3>2. CASE AssignHit(a) \/ JoinsOne(a)
      <4>1. pc[a] \in Inside
        BY <3>2 DEF AssignHit, JoinsOne, Inside
      <4>2. ~queued => pc[d] \notin Inside
        BY <1>0, <2>1, <4>1, Exclusive DEF LockOf
      <4> QED  BY <2>0, <3>1, <4>2 DEF Stays, ScanOf, Inside
    <3>3. CASE slot' = slot /\ alive' = alive
      BY <1>1, <2>0, <3>1, <3>3
    <3> QED  BY <2>0, <3>2, <3>3, ActorFrame
  <2>2. CASE d = a
    <3> USE <2>2
    <3>1. ASSUME pc'[d] \notin {"probe", "answer"} \/ op'[d] # "is_idle" PROVE ScanOf(d)'
      BY <3>1 DEF ScanOf
    <3>2. CASE Enter(d)
      <4>1. cur'[d] = 1 /\ pc'[d] # "answer"
        BY <1>0, <3>2, FirstStateCases DEF Enter, CursorInv, CursorOf, TypeOK, CallInv, CallOf, Operations
      <4>2. \A m \in Managers : ~(m < 1)
        BY ActorFacts DEF Managers
      <4> QED  BY <4>1, <4>2 DEF ScanOf
    <3>3. CASE Probe(d) \/ AssignMiss(d) \/ QueuesTask(d) \/ WaitsForIdle(d)
      <4>1. op[d] # "is_idle" /\ op'[d] \in {op[d], "none"}
        BY <1>0, <3>3
           DEF Probe, AssignMiss, QueuesTask, Passed, EndsCall, WaitsForIdle, TypeOK, CallInv, CallOf
      <4> QED  BY <3>1, <4>1
    <3>4. CASE AssignHit(d)
      <4>1. pc'[d] = "out"
        BY <1>0, <3>4 DEF AssignHit, Passed, Moves
      <4> QED  BY <3>1, <4>1
    <3>5. CASE TimeOut(d)
      BY <1>0, <3>1, <3>5 DEF TimeOut, TypeOK
    <3>6. CASE CallerStep(d)
      <4>1. CASE Query(d)
        <5>0. /\ PoolSize \in Nat /\ cur[d] \in Managers /\ slot' = slot /\ alive' = alive /\ op' = op
              /\ pc[d] = "probe" /\ queued' = queued
          BY <1>0, <2>0, <4>1, ActorFacts DEF Query, CursorInv, CursorOf, tmVars
        <5> SUFFICES ASSUME op[d] = "is_idle", ~queued PROVE ScanOf(d)'
          BY <5>0 DEF ScanOf
        <5>1. \A m \in Managers : m < cur[d] => IsIdle(m)
          BY <1>0, <5>0 DEF ScanOf
        <5>2. CASE ~IsIdle(cur[d])
          <6>1. answer'[d] = FALSE /\ pc'[d] = "answer"
            BY <1>0, <4>1, <5>2 DEF Query, TypeOK, IsIdle
          <6> QED  BY <6>1 DEF ScanOf
        <5>3. CASE IsIdle(cur[d])
          <6>1. \A m \in Managers : m < cur[d] + 1 => IsIdle(m)' /\ IsIdle(m)
            BY <5>0, <5>1, <5>3 DEF IsIdle, Managers
          <6>2. CASE cur[d] # PoolSize
            <7>1. cur'[d] = cur[d] + 1 /\ pc'[d] = "probe"
              BY <1>0, <4>1, <5>0, <5>3, <6>2 DEF Query, TypeOK, IsIdle
            <7> QED  BY <5>0, <6>1, <7>1 DEF ScanOf
          <6>3. CASE cur[d] = PoolSize
            <7>1. pc'[d] = "answer"
              BY <1>0, <4>1, <6>3 DEF Query, TypeOK
            <7>2. \A m \in Managers : m < cur[d] + 1
              BY <5>0, <6>3 DEF Managers
            <7> QED  BY <6>1, <7>1, <7>2 DEF ScanOf
          <6> QED  BY <6>2, <6>3
        <5> QED  BY <5>2, <5>3
      <4>2. CASE ~Query(d)
        <5>1. pc'[d] \notin {"probe", "answer"}
          <6>1. CASE StopsNext(d) \/ StopsLast(d)
            BY <1>0, <6>1 DEF StopsNext, StopsLast, StopsOne, Moves, TypeOK
          <6>2. CASE JoinNotify(d) \/ JoinsNext(d) \/ JoinsLast(d)
            BY <1>0, <6>2 DEF JoinNotify, JoinsNext, JoinsLast, TypeOK
          <6>3. CASE Quits(d) \/ DestroyHalt(d) \/ DestroyMembers(d)
            BY <1>0, <6>3 DEF Quits, Moves, DestroyHalt, DestroyMembers, TypeOK
          <6>4. CASE Ends(d)
            BY <1>0, <6>4 DEF Ends, TypeOK
          <6> QED  BY <3>6, <4>2, <6>1, <6>2, <6>3, <6>4 DEF CallerStep
        <5> QED  BY <3>1, <5>1
      <4> QED  BY <4>1, <4>2
    <3> QED  BY <1>0, <2>0, <3>2, <3>3, <3>4, <3>5, <3>6 DEF ActorStep
  <2> QED  BY <2>1, <2>2
<1>4. ASSUME NEW c \in Callers, Call(c) PROVE ScanOf(d)'
  <2>1. PICK o \in Operations, t \in Tasks \cup {None} : Begin(c, o, t)
    BY <1>4, CallCases
  <2>2. CASE d # c
    BY <1>0, <1>1, <2>1, <2>2, OthersStay, ActorFacts DEF Begin, tmVars, classVars
  <2>3. CASE d = c
    <3>1. pc'[d] \in {"quit", "enter"}
      BY <1>0, <2>1, <2>3 DEF Begin, TypeOK
    <3> QED  BY <3>1 DEF ScanOf
  <2> QED  BY <2>2, <2>3
<1>5. CASE Stop \/ UNCHANGED vars
  BY <1>0, <1>5 DEF Stop, vars, tmVars, classVars, ScanOf, IsIdle
<1> QED  BY <1>2, <1>3, <1>4, <1>5 DEF Next, Quiescent

\* Every step keeps a queue empty past which execute() gives its task away: the
\* queue grows under the same lock.
LEMMA OvertakeStep == IInv /\ [Next]_vars => NoOvertaking'
<1> SUFFICES ASSUME IInv, [Next]_vars, NEW d \in Callers, queued',
                    op'[d] = "execute", pc'[d] \in {"probe", "assign"}
             PROVE  queue' = <<>>
  BY DEF NoOvertaking
<1>0. TypeOK /\ NoOvertaking /\ LockInv /\ d \in Actors /\ d # QueueThread
  BY ActorFacts DEF IInv
<1>1. ASSUME Stays(d), queued' = queued
      PROVE  queued /\ op[d] = "execute" /\ pc[d] \in {"probe", "assign"} /\ queue = <<>>
  BY <1>0, <1>1 DEF Stays, NoOvertaking
<1>2. ASSUME NEW m \in Managers, Worker(m) PROVE queue' = <<>>
  BY <1>0, <1>1, <1>2, WorkerEffect DEF WorkerFrame, classVars
<1>3. ASSUME NEW a \in Actors, Actor(a) PROVE queue' = <<>>
  <2>0. queued' = queued /\ ActorStep(a)
    BY <1>0, <1>3, ActorCases DEF classVars
  <2>1. CASE d # a
    <3>1. queued /\ op[d] = "execute" /\ pc[d] \in {"probe", "assign"} /\ queue = <<>>
      BY <1>0, <1>1, <2>0, <2>1, OthersStay
    <3>2. ~QueuesTask(a)
      BY <1>0, <2>1, <3>1, Exclusive DEF QueuesTask, Inside, LockOf
    <3> QED  BY <2>0, <3>1, <3>2, ActorFrame DEF FrontOf, DestroyMembers
  <2>2. CASE d = a
    <3>1. CASE Enter(d)
      BY <1>0, <2>0, <2>2, <3>1, FirstStateCases DEF Enter, TypeOK
    <3>2. CASE Probe(d) \/ AssignMiss(d)
      BY <1>0, <2>0, <3>2 DEF Probe, AssignMiss, NoOvertaking
    <3>3. CASE AssignHit(d) \/ QueuesTask(d)
      BY <1>0, <3>3 DEF AssignHit, QueuesTask, Passed, Moves
    <3>4. CASE WaitsForIdle(d) \/ TimeOut(d)
      BY <1>0, <3>4 DEF WaitsForIdle, TimeOut, TypeOK
    <3>5. CASE CallerStep(d)
      <4>1. CASE Query(d)
        BY <1>0, <4>1 DEF Query
      <4>2. CASE StopsNext(d) \/ StopsLast(d)
        BY <1>0, <4>2 DEF StopsNext, StopsLast, StopsOne, Moves, TypeOK
      <4>3. CASE JoinNotify(d) \/ JoinsNext(d) \/ JoinsLast(d)
        BY <1>0, <4>3 DEF JoinNotify, JoinsNext, JoinsLast, TypeOK
      <4>4. CASE Quits(d) \/ DestroyHalt(d) \/ DestroyMembers(d)
        BY <1>0, <4>4 DEF Quits, Moves, DestroyHalt, DestroyMembers, TypeOK
      <4>5. CASE Ends(d)
        BY <1>0, <4>5 DEF Ends, TypeOK
      <4> QED  BY <3>5, <4>1, <4>2, <4>3, <4>4, <4>5 DEF CallerStep
    <3> QED  BY <1>0, <2>0, <2>2, <3>1, <3>2, <3>3, <3>4, <3>5 DEF ActorStep
  <2> QED  BY <2>1, <2>2
<1>4. ASSUME NEW c \in Callers, Call(c) PROVE queue' = <<>>
  <2>1. PICK o \in Operations, t \in Tasks \cup {None} : Begin(c, o, t)
    BY <1>4, CallCases
  <2>2. CASE d # c
    BY <1>0, <1>1, <2>1, <2>2, OthersStay, ActorFacts DEF Begin, classVars
  <2>3. CASE d = c
    BY <1>0, <2>1, <2>3 DEF Begin, TypeOK
  <2> QED  BY <2>2, <2>3
<1>5. CASE Stop \/ UNCHANGED vars
  BY <1>0, <1>5 DEF Stop, vars, classVars, NoOvertaking
<1> QED  BY <1>2, <1>3, <1>4, <1>5 DEF Next, Quiescent

\* A step ends a call or keeps its name, and takes an actor that is in one.
LEMMA OpFrame ==
    ASSUME IInv, NEW a \in Actors, ActorStep(a)
    PROVE  op'[a] \in {op[a], "none"} /\ pc[a] \notin {"out", "done"}
<1>0. op \in [Actors -> Operations]
  BY DEF IInv, TypeOK
<1>1. CASE Enter(a) \/ Probe(a) \/ AssignMiss(a) \/ WaitsForIdle(a) \/ TimeOut(a)
  BY <1>0, <1>1 DEF Enter, Probe, AssignMiss, WaitsForIdle, TimeOut
<1>2. CASE a = QueueThread /\ FrontOf
  BY <1>0, <1>2 DEF FrontOf
<1>3. CASE AssignHit(a) \/ QueuesTask(a)
  BY <1>0, <1>3 DEF AssignHit, QueuesTask, Passed, EndsCall
<1>4. CASE a \in Callers /\ CallerStep(a)
  <2>1. CASE Query(a) \/ DestroyHalt(a) \/ Quits(a) \/ DestroyMembers(a) \/ JoinNotify(a)
    BY <1>0, <2>1 DEF Query, DestroyHalt, Quits, DestroyMembers, JoinNotify
  <2>2. CASE StopsNext(a) \/ StopsLast(a)
    BY <1>0, <2>2 DEF StopsNext, StopsLast, StopsOne, EndsCall
  <2>3. CASE JoinsNext(a) \/ JoinsLast(a)
    BY <1>0, <2>3 DEF JoinsNext, JoinsLast, JoinsOne, EndsCall
  <2>4. CASE Ends(a) /\ pc[a] \in {"answer", "free"}
    BY <1>0, <2>4 DEF Ends, EndsCall
  <2> QED  BY <1>4, <2>1, <2>2, <2>3, <2>4 DEF CallerStep
<1> QED  BY <1>1, <1>2, <1>3, <1>4 DEF ActorStep

\* Every step keeps the pool closing once it is, ...
LEMMA ClosingStays == IInv /\ [Next]_vars => (object # "whole" => object' # "whole")
<1> SUFFICES ASSUME IInv, [Next]_vars, object # "whole" PROVE object' # "whole"
  OBVIOUS
<1>1. ASSUME NEW m \in Managers, Worker(m) PROVE object' = object
  BY <1>1 DEF Worker
<1>2. ASSUME NEW c \in Callers, Call(c) PROVE object' # "whole"
  BY <1>2, CallCases DEF Calls
<1>3. ASSUME NEW a \in Actors, Actor(a) PROVE object' # "whole"
  BY <1>3, ActorCases, ActorFrame DEF DestroyMembers
<1>4. CASE Stop \/ UNCHANGED vars
  BY <1>4 DEF Stop, vars
<1> QED  BY <1>1, <1>2, <1>3, <1>4 DEF Next, Quiescent

\* ... stops no manager before, and joins only threads that have ended.
LEMMA StopStep == IInv /\ [Next]_vars => StopInv'
<1> SUFFICES ASSUME IInv, [Next]_vars PROVE StopInv'
  OBVIOUS
<1>0. TypeOK /\ StopInv /\ CallInv /\ DestroyInv /\ (object # "whole" => object' # "whole")
  BY ClosingStays DEF IInv
<1>1. ASSUME tmGo' = tmGo, alive' = alive, \A c \in Callers : op'[c] \in {op[c], "none"},
             \A m \in Managers : wpc[m] = "ended" => wpc'[m] = "ended"
      PROVE  StopInv'
  BY <1>0, <1>1 DEF StopInv
<1>2. ASSUME NEW m \in Managers, Worker(m) PROVE StopInv'
  BY <1>0, <1>1, <1>2, WorkerEffect DEF WorkerFrame
<1>3. ASSUME NEW c \in Callers, Call(c) PROVE StopInv'
  <2>1. ASSUME NEW o \in {"execute", "is_idle", "is_busy", "join"}, NEW t, Begin(c, o, t) PROVE StopInv'
    BY <1>0, <2>1 DEF Begin, StopInv, tmVars, TypeOK
  <2>2. ASSUME NEW o, NEW t, Begin(c, o, t), object' # "whole" PROVE StopInv'
    BY <1>0, <2>2 DEF Begin, StopInv, tmVars, TypeOK
  <2>3. Calls(c)
    BY <1>3, CallCases
  <2> QED  BY <2>1, <2>2, <2>3 DEF Calls
<1>4. ASSUME NEW a \in Actors, Actor(a) PROVE StopInv'
  <2>0. ActorStep(a)
    BY <1>4, ActorCases
  <2>1. \A c \in Callers : op'[c] \in {op[c], "none"}
    BY <1>0, <2>0, OthersStay, OpFrame, ActorFacts DEF Stays
  <2>2. \A m \in Managers : wpc[m] = "ended" => wpc'[m] = "ended"
    BY <2>0, ActorFrame
  <2>3. tmGo' = tmGo \/ object' # "whole"
    <3>1. StopsOne(a) => object # "whole"
      BY <1>0 DEF StopsOne, StopInv, DestroyInv
    <3> QED  BY <1>0, <2>0, <3>1, ActorFrame
  <2>4. \A m \in Managers : ~alive'[m] => wpc[m] = "ended"
    <3>1. CASE alive' = alive
      BY <1>0, <3>1 DEF StopInv
    <3>2. CASE JoinsOne(a)
      BY <1>0, <3>2 DEF JoinsOne, StopInv, TypeOK
    <3> QED  BY <2>0, <3>1, <3>2, ActorFrame
  <2> QED  BY <1>0, <2>1, <2>2, <2>3, <2>4 DEF StopInv
<1>5. CASE Stop \/ UNCHANGED vars
  BY <1>1, <1>5 DEF Stop, vars, tmVars
<1> QED  BY <1>2, <1>3, <1>4, <1>5 DEF Next, Quiescent

\* The managers behind a joining caller's cursor have ended.
JoinedOf(c) ==
    /\ pc[c] \in {"join", "joining"} => \A m \in Managers : m < cur[c] => wpc[m] = "ended"
    /\ pc[c] = "free" => \A m \in Managers : wpc[m] = "ended"

\* A caller's own step joins one thread, in the managers' order.
LEMMA JoinStep ==
    ASSUME IInv, NEW c \in Callers, ActorStep(c)
    PROVE  JoinedOf(c)'
<1>0. /\ TypeOK /\ StopInv /\ JoinedOf(c) /\ c \in Actors /\ c # QueueThread
      /\ PoolSize \in Nat /\ wpc \in [Managers -> WorkerStates]
  BY ActorFacts DEF IInv, DestroyInv, JoinedOf, TypeOK
<1>1. pc'[c] \notin {"join", "joining", "free"} => JoinedOf(c)'
  BY DEF JoinedOf
<1>2. pc'[c] # "free" /\ cur'[c] = 1 => JoinedOf(c)'
  BY ActorFacts DEF JoinedOf, Managers
<1>3. CASE Enter(c)
  <2>1. pc'[c] # "free" /\ cur'[c] = 1
    BY <1>0, <1>3, FirstStateCases DEF Enter, Inside, IInv, CursorInv, CursorOf, CallInv, CallOf, TypeOK,
       Operations
  <2> QED  BY <1>2, <2>1
<1>4. CASE Probe(c) \/ AssignMiss(c) \/ WaitsForIdle(c) \/ TimeOut(c)
  BY <1>0, <1>1, <1>4 DEF Probe, AssignMiss, WaitsForIdle, TimeOut, TypeOK
<1>5. CASE AssignHit(c) \/ QueuesTask(c)
  BY <1>0, <1>1, <1>5 DEF AssignHit, QueuesTask, Passed, Moves
<1>6. CASE CallerStep(c)
  <2>1. CASE Query(c)
    BY <1>0, <1>1, <2>1 DEF Query, TypeOK
  <2>2. CASE StopsNext(c)
    BY <1>0, <1>1, <2>2 DEF StopsNext, StopsOne
  <2>3. CASE StopsLast(c)
    BY <1>0, <1>2, <2>3 DEF StopsLast, Moves, TypeOK
  <2>4. CASE JoinNotify(c)
    <3>1. \A m \in Managers : wpc[m] = "ended" => wpc'[m] = "ended"
      BY <1>0, <2>4 DEF JoinNotify, Notified
    <3> QED  BY <1>0, <2>4, <3>1 DEF JoinNotify, JoinedOf, TypeOK
  <2>5. CASE JoinsNext(c) \/ JoinsLast(c)
    <3>0. cur[c] \in Managers /\ wpc' = wpc /\ wpc[cur[c]] = "ended" /\ pc[c] = "joining"
      BY <1>0, <2>5 DEF JoinsNext, JoinsLast, JoinsOne, StopInv
    <3>1. \A m \in Managers : m < cur[c] + 1 => wpc[m] = "ended"
      BY <1>0, <3>0 DEF JoinedOf, Managers
    <3>2. CASE JoinsNext(c)
      <4>1. cur'[c] = cur[c] + 1 /\ pc'[c] = "join"
        BY <1>0, <3>2 DEF JoinsNext, TypeOK
      <4> QED  BY <3>0, <3>1, <4>1 DEF JoinedOf
    <3>3. CASE JoinsLast(c)
      <4>1. cur[c] = PoolSize /\ pc'[c] \in {"out", "free"}
        BY <1>0, <3>3 DEF JoinsLast, TypeOK
      <4>2. \A m \in Managers : m < cur[c] + 1
        BY <1>0, <4>1 DEF Managers
      <4> QED  BY <3>0, <3>1, <4>1, <4>2 DEF JoinedOf
    <3> QED  BY <2>5, <3>2, <3>3
  <2>6. CASE Quits(c) \/ DestroyHalt(c) \/ DestroyMembers(c)
    BY <1>0, <1>1, <2>6 DEF Quits, Moves, DestroyHalt, DestroyMembers, TypeOK
  <2>7. CASE Ends(c)
    BY <1>0, <1>1, <2>7 DEF Ends, TypeOK
  <2> QED  BY <1>6, <2>1, <2>2, <2>3, <2>4, <2>5, <2>6, <2>7 DEF CallerStep
<1> QED  BY <1>0, <1>3, <1>4, <1>5, <1>6 DEF ActorStep

\* Every step keeps a worker's task in its slot while it runs.
LEMMA RunStep == IInv /\ [Next]_vars => RunInv'
<1> SUFFICES ASSUME IInv, [Next]_vars PROVE RunInv'
  OBVIOUS
<1>0. /\ TypeOK /\ RunInv
      /\ wpc \in [Managers -> WorkerStates] /\ slot \in [Managers -> Tasks \cup {None}]
  BY DEF IInv, TypeOK
<1>1. ASSUME NEW m \in Managers, Worker(m) PROVE RunInv'
  <2>1. CASE WorkerLoop(m)
    BY <1>0, <2>1 DEF WorkerLoop, Emptied, RunInv
  <2>2. CASE WorkerFinish(m)
    BY <1>0, <2>2 DEF WorkerFinish, Emptied, RunInv
  <2>3. CASE WorkerNotify(m)
    BY <1>0, <2>3 DEF WorkerNotify, RunInv
  <2> QED  BY <1>1, <2>1, <2>2, <2>3 DEF Worker
<1>2. ASSUME NEW a \in Actors, Actor(a) PROVE RunInv'
  <2>1. ActorStep(a)
    BY <1>2, ActorCases
  <2>2. \A m \in Managers : wpc'[m] = "running" => wpc[m] = "running"
    BY <2>1, ActorFrame
  <2>3. \A m \in Managers : slot[m] # None => slot'[m] # None
    <3>1. CASE AssignHit(a)
      BY <1>0, <3>1, ActorFacts DEF AssignHit
    <3> QED  BY <2>1, <3>1, ActorFrame
  <2> QED  BY <1>0, <2>2, <2>3 DEF RunInv
<1>3. ASSUME NEW c \in Callers, Call(c) PROVE RunInv'
  BY <1>0, <1>3, CallCases DEF Begin, tmVars, RunInv
<1>4. CASE Stop \/ UNCHANGED vars
  BY <1>0, <1>4 DEF Stop, vars, tmVars, RunInv
<1> QED  BY <1>1, <1>2, <1>3, <1>4 DEF Next, Quiescent

Destroying == {"closing", "unwound", "base"}

\* How far a destructor is fits how far the object is.
PlaceOf(c) ==
    /\ pc[c] \notin {"quit", "halt"} => pc[QueueThread] = "done"
    /\ pc[c] \in {"quit", "halt", "enter"} => object = "closing"
    /\ pc[c] = "stop" => object \in {"closing", "base"}
    /\ pc[c] = "unwind" => object \in {"closing", "unwound"} /\ queued
    /\ pc[c] \in {"join", "joining", "free"} => ~queued \/ object = "base"

\* A step of the destructor, alone but for the workers and the queue thread.
LEMMA DestructorStep ==
    ASSUME IInv, NEW c \in Callers, ActorStep(c), queued' = queued, op[c] = "destroy",
           JoinedOf(c)', \A d \in Callers \ {c} : op'[d] = "none" /\ pc'[d] = "out",
           pc[QueueThread] = "done" => pc'[QueueThread] = "done",
           \A m \in Managers : wpc[m] = "ended" => wpc'[m] = "ended"
    PROVE  DestroyInv'
<1>0. /\ TypeOK /\ c \in Actors /\ c # QueueThread /\ object \in Destroying /\ PlaceOf(c)
      /\ JoinedOf(c) /\ CallOf(c) /\ (object \in {"unwound", "base"} => queue = <<>>)
      /\ ~queued => queue = <<>> /\ pc[QueueThread] = "done"
  BY ActorFacts DEF IInv, DestroyInv, Destroying, PlaceOf, JoinedOf, CallInv, QueueInv
<1>1. ASSUME op'[c] = "destroy", PlaceOf(c)', object' \in Destroying,
             object' \in {"unwound", "base"} => queue' = <<>> /\ pc'[QueueThread] = "done"
      PROVE  DestroyInv'
  BY <1>0, <1>1 DEF DestroyInv, PlaceOf, JoinedOf, Destroying
<1>2. ASSUME op' = op, pc[c] \notin {"quit", "halt"}, PlaceOf(c)', object' = object, queue' = queue
      PROVE  DestroyInv'
  BY <1>0, <1>1, <1>2 DEF PlaceOf, DestroyInv, IInv, Destroying
<1>3. CASE Enter(c)
  <2>1. pc'[c] = "stop"
    BY <1>0, <1>3, FirstStateCases DEF Enter, TypeOK
  <2>2. op' = op /\ pc[c] = "enter" /\ object' = object /\ queue' = queue
    BY <1>0, <1>3 DEF Enter, CallOf
  <2>3. PlaceOf(c)'
    BY <1>0, <2>1, <2>2 DEF PlaceOf
  <2> QED  BY <1>2, <2>2, <2>3
<1>4. CASE StopsNext(c)
  BY <1>0, <1>2, <1>4 DEF StopsNext, StopsOne, PlaceOf
<1>5. CASE StopsLast(c)
  <2>1. /\ pc'[c] = IF queued /\ object = "closing" THEN "unwind" ELSE "join"
        /\ op' = op /\ pc[c] = "stop" /\ object' = object /\ queue' = queue
    BY <1>0, <1>5 DEF StopsLast, StopsOne, Moves
  <2>2. PlaceOf(c)'
    BY <1>0, <2>1 DEF PlaceOf
  <2> QED  BY <1>2, <2>1, <2>2
<1>6. CASE JoinNotify(c) \/ JoinsNext(c) \/ JoinsLast(c)
  <2>1. /\ pc[c] \in {"join", "joining"} /\ pc'[c] \in {"join", "joining", "free"}
        /\ op' = op /\ object' = object /\ queue' = queue
    BY <1>0, <1>6 DEF JoinNotify, JoinsNext, JoinsLast, JoinsOne, TypeOK
  <2>2. PlaceOf(c)'
    BY <1>0, <2>1 DEF PlaceOf
  <2> QED  BY <1>2, <2>1, <2>2
<1>7. CASE Quits(c)
  <2>1. pc'[c] = "halt" /\ op' = op /\ object' = object /\ object = "closing"
    BY <1>0, <1>7 DEF Quits, Moves, PlaceOf
  <2> QED  BY <1>0, <1>1, <2>1 DEF PlaceOf, Destroying
<1>8. CASE DestroyHalt(c)
  <2>1. /\ pc'[c] = "enter" /\ op' = op /\ object' = object /\ object = "closing"
        /\ pc'[QueueThread] = "done"
    BY <1>0, <1>8 DEF DestroyHalt, TypeOK, PlaceOf
  <2> QED  BY <1>0, <1>1, <2>1 DEF PlaceOf, Destroying
<1>9. CASE DestroyMembers(c)
  <2>1. /\ op' = op /\ pc[c] = "unwind" /\ pc[QueueThread] = "done" /\ queued
        /\ object \in {"closing", "unwound"}
    BY <1>0, <1>9 DEF DestroyMembers, PlaceOf
  <2>2. CASE queue # <<>> /\ object' = object /\ pc' = pc
    BY <1>0, <1>1, <2>1, <2>2 DEF PlaceOf, Destroying
  <2>3. CASE queue = <<>> /\ object' = "unwound" /\ pc' = pc /\ queue' = queue
    BY <1>0, <1>1, <2>1, <2>3 DEF PlaceOf, Destroying
  <2>4. CASE object = "unwound" /\ object' = "base" /\ pc' = [pc EXCEPT ![c] = "stop"] /\ queue' = queue
    <3>1. pc'[c] = "stop"
      BY <1>0, <2>4 DEF TypeOK
    <3> QED  BY <1>0, <1>1, <2>1, <2>4, <3>1 DEF PlaceOf, Destroying
  <2> QED  BY <1>9, <2>2, <2>3, <2>4 DEF DestroyMembers
<1>10. CASE pc[c] = "free" /\ Ends(c) /\ object' = "gone"
  <2>1. /\ pc'[c] = "out" /\ op'[c] = "none" /\ queue' = queue
        /\ (~queued \/ object = "base") /\ queue = <<>>
        /\ pc[QueueThread] = "done" /\ \A m \in Managers : wpc[m] = "ended"
    BY <1>0, <1>10 DEF Ends, EndsCall, TypeOK, PlaceOf, JoinedOf
  <2> QED  BY <1>0, <1>10, <2>1 DEF DestroyInv
<1>11. pc[c] \notin {"probe", "assign", "full", "waiting", "woken", "answer"}
  BY <1>0 DEF CallOf
<1> QED  BY <1>0, <1>3, <1>4, <1>5, <1>6, <1>7, <1>8, <1>9, <1>10, <1>11
         DEF ActorStep, CallerStep, Probe, AssignHit, AssignMiss, QueuesTask, WaitsForIdle, TimeOut,
             Query

\* Every step keeps the destructors' order, and nothing follows them.
LEMMA DestroyStep == IInv /\ [Next]_vars => DestroyInv'
<1> SUFFICES ASSUME IInv, [Next]_vars PROVE DestroyInv'
  OBVIOUS
<1>0. /\ TypeOK /\ DestroyInv /\ CallInv /\ CallInv' /\ CursorInv /\ QueueInv
      /\ QueueThread \in Actors
  BY CallStep, ActorFacts DEF IInv
<1>1. ASSUME NEW m \in Managers, Worker(m) PROVE DestroyInv'
  <2>1. WorkerFrame
    BY <1>0, <1>1, WorkerEffect
  <2>2. \A a \in Actors : pc[a] \notin {"waiting", "woken"} => pc'[a] = pc[a]
    BY <2>1 DEF WorkerFrame, Stays
  <2>3. \A a \in Actors : pc'[a] \notin {"waiting", "woken"} => pc'[a] = pc[a]
    BY <2>1 DEF WorkerFrame, Stays
  <2>4. /\ UNCHANGED <<queued, queue, object, op, cur>>
        /\ \A n \in Managers : wpc[n] = "ended" => wpc'[n] = "ended"
    BY <2>1 DEF WorkerFrame, classVars
  <2>5. \A c \in Callers : op[c] = "destroy" => pc[c] \notin {"waiting", "woken"}
    BY <1>0 DEF CallInv, CallOf
  <2> QED  BY <1>0, <2>2, <2>3, <2>4, <2>5, ActorFacts DEF DestroyInv
<1>2. ASSUME NEW a \in Actors, Actor(a) PROVE DestroyInv'
  <2>0. /\ queued' = queued /\ ActorStep(a) /\ (\A b \in Actors \ {a} : Stays(b))
        /\ op'[a] \in {op[a], "none"} /\ pc[a] \notin {"out", "done"}
        /\ \A m \in Managers : wpc[m] = "ended" => wpc'[m] = "ended"
    BY <1>0, <1>2, ActorCases, OthersStay, OpFrame, ActorFrame DEF classVars
  <2>1. object # "gone"
    BY <1>0, <2>0, ActorFacts DEF DestroyInv
  <2>2. \A c \in Callers : JoinedOf(c)'
    <3>1. ASSUME NEW c \in Callers, c # a PROVE JoinedOf(c)'
      <4>1. Stays(c) /\ JoinedOf(c)
        BY <1>0, <2>0, <3>1, ActorFacts DEF DestroyInv, JoinedOf
      <4> QED  BY <2>0, <4>1 DEF Stays, JoinedOf
    <3>2. a \in Callers => JoinedOf(a)'
      BY <2>0, JoinStep
    <3> QED  BY <3>1, <3>2
  <2>3. CASE object \notin Destroying
    <3>1. \A c \in Callers : op[c] # "destroy"
      BY <1>0, <2>3 DEF DestroyInv, Destroying
    <3>2. \A c \in Callers : op'[c] # "destroy"
      BY <2>0, <3>1, ActorFacts DEF Stays
    <3>3. object' = object
      BY <1>0, <2>0, <3>1, ActorFrame, ActorFacts DEF DestroyMembers, CallInv, CallOf, QueueInv
    <3> QED  BY <2>1, <2>2, <2>3, <3>2, <3>3 DEF DestroyInv, Destroying, JoinedOf
  <2>4. CASE object \in Destroying /\ a = QueueThread
    <3>1. object' = object /\ (queue = <<>> => queue' = <<>> \/ pc[QueueThread] # "done")
      BY <1>0, <2>0, <2>4, ActorFrame, ActorFacts DEF DestroyMembers, QueueInv
    <3>2. \A c \in Callers : Stays(c)
      BY <2>0, <2>4, ActorFacts
    <3>3. \A c \in Callers : op[c] = "destroy" => pc[c] \in {"quit", "halt"} /\ pc'[c] = pc[c]
      BY <1>0, <2>0, <2>4, <3>2 DEF DestroyInv, Stays
    <3>4. object = "closing"
      BY <1>0, <2>0, <2>4 DEF DestroyInv, Destroying
    <3>5. \A c \in Callers : op'[c] = op[c]
      BY <3>2 DEF Stays
    <3> QED  BY <1>0, <2>2, <3>1, <3>3, <3>4, <3>5 DEF DestroyInv, JoinedOf
  <2>5. CASE object \in Destroying /\ a \in Callers
    <3>1. op[a] = "destroy"
      BY <1>0, <2>0, <2>5 DEF DestroyInv, Destroying, CallInv, CallOf
    <3>2. \A d \in Callers \ {a} : op[d] = "none" /\ pc[d] = "out"
      BY <1>0, <2>5, <3>1 DEF DestroyInv, Destroying, CallInv, CallOf
    <3>3. \A d \in Callers \ {a} : op'[d] = "none" /\ pc'[d] = "out"
      BY <2>0, <3>2, ActorFacts DEF Stays
    <3>4. pc[QueueThread] = "done" => pc'[QueueThread] = "done"
      BY <2>0, <2>5, ActorFacts DEF Stays
    <3> QED  BY <2>0, <2>2, <2>5, <3>1, <3>3, <3>4, DestructorStep
  <2> QED  BY <2>3, <2>4, <2>5, ActorFacts
<1>3. ASSUME NEW c \in Callers, Call(c) PROVE DestroyInv'
  <2>0. Calls(c)
    BY <1>3, CallCases
  <2>1. PICK o \in Operations, t \in Tasks \cup {None} : Begin(c, o, t)
    BY <1>3, CallCases
  <2>2. /\ UNCHANGED <<queued, wpc, queue, cur>>
        /\ pc' = [pc EXCEPT ![c] = IF o = "destroy" /\ queued THEN "quit" ELSE "enter"]
        /\ op' = [op EXCEPT ![c] = o] /\ pc[c] = "out" /\ c \in Actors /\ c # QueueThread
    BY <2>1, ActorFacts DEF Begin, classVars, tmVars
  <2>3. object \in {"whole", "terminated"} /\ \A d \in Callers : op[d] # "destroy"
    BY <1>0, <2>0 DEF Calls, DestroyInv
  <2>4. \A d \in Callers : JoinedOf(d)'
    BY <1>0, <2>2 DEF JoinedOf, DestroyInv, TypeOK
  <2>5. CASE o # "destroy" /\ object' \in {"whole", "terminated"}
    <3>1. \A d \in Callers : op'[d] # "destroy"
      BY <1>0, <2>2, <2>3, <2>5 DEF TypeOK
    <3> QED  BY <2>4, <2>5, <3>1 DEF DestroyInv, JoinedOf
  <2>6. CASE o = "destroy" /\ object' = "closing" /\ \A d \in Callers : pc[d] = "out"
    <3>1. /\ \A d \in Callers \ {c} : op'[d] = "none"
          /\ op'[c] = "destroy" /\ pc'[c] = IF queued THEN "quit" ELSE "enter"
          /\ pc'[QueueThread] = pc[QueueThread]
      BY <1>0, <2>2, <2>6, ActorFacts DEF CallInv, CallOf, TypeOK
    <3>2. PlaceOf(c)'
      BY <1>0, <2>2, <2>6, <3>1 DEF PlaceOf, QueueInv
    <3> QED  BY <2>4, <2>6, <3>1, <3>2 DEF DestroyInv, JoinedOf, PlaceOf
  <2>7. \/ o # "destroy" /\ object' \in {"whole", "terminated"}
        \/ o = "destroy" /\ object' = "closing" /\ \A d \in Callers : pc[d] = "out"
    <3>1. op'[c] = o
      BY <1>0, <2>2 DEF TypeOK
    <3>2. ASSUME NEW p, NEW u, Begin(c, p, u) PROVE op'[c] = p
      BY <1>0, <2>2, <3>2 DEF Begin, TypeOK
    <3> QED  BY <2>0, <2>3, <3>1, <3>2 DEF Calls
  <2> QED  BY <2>5, <2>6, <2>7
<1>4. CASE Stop \/ UNCHANGED vars
  BY <1>0, <1>4 DEF Stop, vars, tmVars, classVars, DestroyInv
<1> QED  BY <1>1, <1>2, <1>3, <1>4 DEF Next, Quiescent

\* A task is at most once in the queue.
Once(t) == \A i, j \in 1..Len(queue) : queue[i] = t /\ queue[j] = t => i = j

\* removeFirst(), or the delete of the first task, takes that one out, ...
LEMMA QueueShrinks ==
    ASSUME TypeOK, queue # <<>>, queue' = Tail(queue), NEW t \in Tasks, Once(t)
    PROVE  Once(t)' /\ (Queued(t)' <=> Queued(t) /\ t # Head(queue))
<1>1. /\ Len(queue) \in Nat /\ Len(queue) >= 1 /\ Head(queue) = queue[1]
      /\ Len(queue') = Len(queue) - 1
      /\ \A i \in 1..(Len(queue) - 1) : queue'[i] = queue[i + 1]
  BY HeadAndTail
<1>2. Once(t)'
  <2> SUFFICES ASSUME NEW i \in 1..Len(queue'), NEW j \in 1..Len(queue'), queue'[i] = t, queue'[j] = t
               PROVE  i = j
    BY DEF Once
  <2>1. i + 1 \in 1..Len(queue) /\ j + 1 \in 1..Len(queue) /\ queue[i + 1] = t /\ queue[j + 1] = t
    BY <1>1
  <2>2. i + 1 = j + 1
    BY <2>1 DEF Once
  <2> QED  BY <1>1, <2>2
<1>3. ASSUME Queued(t)' PROVE Queued(t) /\ t # Head(queue)
  <2>1. PICK i \in 1..Len(queue') : queue'[i] = t
    BY <1>3 DEF Queued
  <2>2. i + 1 \in 1..Len(queue) /\ queue[i + 1] = t /\ i + 1 # 1 /\ 1 \in 1..Len(queue)
    BY <1>1, <2>1
  <2> QED  BY <1>1, <2>2 DEF Queued, Once
<1>4. ASSUME Queued(t), t # Head(queue) PROVE Queued(t)'
  <2>1. PICK i \in 1..Len(queue) : queue[i] = t
    BY <1>4 DEF Queued
  <2>2. i # 1
    BY <1>1, <1>4, <2>1
  <2>3. i - 1 \in 1..Len(queue') /\ i - 1 \in 1..(Len(queue) - 1) /\ (i - 1) + 1 = i
    BY <1>1, <2>1, <2>2
  <2>4. queue'[i - 1] = t
    BY <1>1, <2>1, <2>3
  <2> QED  BY <2>3, <2>4 DEF Queued
<1> QED  BY <1>2, <1>3, <1>4

\* ... and add() puts one in.
LEMMA QueueGrows ==
    ASSUME TypeOK, NEW u \in Tasks, queue' = Append(queue, u), NEW t \in Tasks, Once(t),
           t = u => ~Queued(t)
    PROVE  Once(t)' /\ (Queued(t)' <=> Queued(t) \/ t = u)
<1>1. /\ Len(queue) \in Nat /\ Len(queue') = Len(queue) + 1 /\ queue'[Len(queue) + 1] = u
      /\ \A i \in 1..Len(queue) : queue'[i] = queue[i]
  BY AppendLast
<1>2. \A i \in 1..Len(queue') : i \in 1..Len(queue) \/ i = Len(queue) + 1
  BY <1>1
<1>3. Once(t)'
  <2> SUFFICES ASSUME NEW i \in 1..Len(queue'), NEW j \in 1..Len(queue'), queue'[i] = t, queue'[j] = t
               PROVE  i = j
    BY DEF Once
  <2> QED  BY <1>1, <1>2 DEF Once, Queued
<1>4. Queued(t)' => Queued(t) \/ t = u
  BY <1>1, <1>2 DEF Queued
<1>5. Queued(t) => Queued(t)'
  <2>1. \A i \in 1..Len(queue) : i \in 1..Len(queue')
    BY <1>1
  <2> QED  BY <1>1, <2>1 DEF Queued
<1>6. t = u => Queued(t)'
  <2>1. Len(queue) + 1 \in 1..Len(queue')
    BY <1>1
  <2> QED  BY <1>1, <2>1 DEF Queued
<1> QED  BY <1>3, <1>4, <1>5, <1>6

\* Steps that move no task keep OwnInv.
LEMMA OwnFrame ==
    ASSUME OwnInv, UNCHANGED <<slot, hand, runs, deletes, submitted, queue>>,
           \A m \in Managers : wpc'[m] = "running" <=> wpc[m] = "running"
    PROVE  OwnInv'
<1> SUFFICES ASSUME NEW t \in Tasks PROVE OwnOf(t)'
  BY DEF OwnInv
<1>1. OwnOf(t) /\ (Queued(t)' <=> Queued(t))
  BY DEF OwnInv, Queued
<1> QED  BY <1>1 DEF OwnOf

\* A manager that deletes what it has leaves the task without a holder.
LEMMA OwnRelease ==
    ASSUME IInv, NEW m \in Managers, slot[m] # None,
           slot' = [slot EXCEPT ![m] = None],
           \A t \in Tasks : deletes'[t] = deletes[t] + (IF slot[m] = t THEN 1 ELSE 0),
           UNCHANGED <<hand, runs, submitted, queue>>,
           \A n \in Managers \ {m} : wpc'[n] = wpc[n]
    PROVE  OwnInv'
<1> SUFFICES ASSUME NEW t \in Tasks PROVE OwnOf(t)'
  BY DEF OwnInv
<1>1. OwnOf(t) /\ TypeOK /\ None # t /\ (Queued(t)' <=> Queued(t))
  BY ActorFacts DEF IInv, OwnInv, Queued
<1>2. /\ slot[m] \in Tasks /\ slot'[m] = None /\ deletes[t] \in Nat
      /\ \A n \in Managers \ {m} : slot'[n] = slot[n]
  BY DEF IInv, TypeOK
<1>3. CASE t = slot[m]
  <2>1. /\ deletes[t] = 0 /\ deletes'[t] = 1 /\ t \in submitted /\ ~Queued(t)
        /\ \A n \in Managers \ {m} : slot[n] # t
        /\ \A a \in Actors : hand[a] # t
    BY <1>1, <1>2, <1>3 DEF OwnOf
  <2>2. \A n \in Managers : slot'[n] # t
    BY <1>1, <1>2, <2>1
  <2> QED  BY <1>1, <2>1, <2>2 DEF OwnOf
<1>4. CASE t # slot[m]
  <2>1. deletes'[t] = deletes[t] /\ \A n \in Managers : slot'[n] = t <=> slot[n] = t
    BY <1>1, <1>2, <1>4
  <2>2. \A n \in Managers : slot[n] = t => wpc'[n] = wpc[n]
    BY <1>4
  <2> QED  BY <1>1, <2>1, <2>2 DEF OwnOf
<1> QED  BY <1>3, <1>4

\* run() is entered with the task of this manager, for the first time.
LEMMA OwnRun ==
    ASSUME IInv, NEW m \in Managers, WorkerLoop(m), Worker(m), tmGo[m], slot[m] # None
    PROVE  OwnInv'
<1> SUFFICES ASSUME NEW t \in Tasks PROVE OwnOf(t)'
  BY DEF OwnInv
<1>1. OwnOf(t) /\ TypeOK
  BY DEF IInv, OwnInv
<1>2. /\ wpc[m] # "running" /\ wpc'[m] = "running"
      /\ UNCHANGED <<slot, hand, deletes, submitted, queue>>
      /\ \A n \in Managers \ {m} : wpc'[n] = wpc[n]
      /\ runs' = [runs EXCEPT ![slot[m]] = @ + 1]
  BY <1>1 DEF WorkerLoop, Worker, TypeOK
<1>3. runs[t] \in Nat /\ runs'[t] = IF t = slot[m] THEN runs[t] + 1 ELSE runs[t]
  BY <1>1, <1>2 DEF TypeOK
<1>4. Queued(t)' <=> Queued(t)
  BY <1>2 DEF Queued
<1>5. CASE t = slot[m]
  <2>1. /\ runs[t] = 0 /\ t \in submitted /\ ~Queued(t) /\ \A n \in Managers : slot[n] = t => n = m
        /\ \A a \in Actors : hand[a] # t
    BY <1>1, <1>2, <1>5 DEF OwnOf
  <2>2. runs'[t] = 1
    BY <1>3, <1>5, <2>1
  <2> QED  BY <1>1, <1>2, <1>4, <2>1, <2>2 DEF OwnOf
<1>6. CASE t # slot[m]
  <2>1. runs'[t] = runs[t] /\ \A n \in Managers : slot[n] = t => wpc'[n] = wpc[n]
    BY <1>2, <1>3, <1>6
  <2> QED  BY <1>1, <1>2, <1>4, <2>1 DEF OwnOf
<1> QED  BY <1>5, <1>6

\* execute() is called with the next task.
LEMMA OwnAccept ==
    ASSUME IInv, NEW c \in Callers, NEW u \in Tasks, submitted = 1..(u - 1),
           Begin(c, "execute", u)
    PROVE  OwnInv'
<1> SUFFICES ASSUME NEW t \in Tasks PROVE OwnOf(t)'
  BY DEF OwnInv
<1>1. OwnOf(t) /\ CallInv /\ TypeOK /\ t # None /\ u # None /\ u \notin submitted /\ c \in Actors
  BY ActorFacts DEF IInv, OwnInv, Tasks
<1>2. /\ submitted' = submitted \cup {u} /\ hand'[c] = u /\ hand[c] = None
      /\ \A a \in Actors \ {c} : hand'[a] = hand[a]
      /\ UNCHANGED <<wpc, slot, runs, deletes, queue>>
  BY <1>1 DEF Begin, tmVars, CallInv, CallOf, TypeOK
<1>3. Queued(t)' <=> Queued(t)
  BY <1>2 DEF Queued
<1>4. CASE t = u
  <2>1. /\ (\A a \in Actors : hand[a] # t) /\ (\A m \in Managers : slot[m] # t) /\ ~Queued(t)
        /\ runs[t] = 0 /\ deletes[t] = 0
    BY <1>1, <1>4 DEF OwnOf
  <2> QED  BY <1>1, <1>2, <1>3, <1>4, <2>1 DEF OwnOf
<1>5. CASE t # u
  <2>1. \A a \in Actors : hand'[a] = t <=> hand[a] = t
    BY <1>1, <1>2, <1>5
  <2>2. t \in submitted' <=> t \in submitted
    BY <1>2, <1>5
  <2> QED  BY <1>1, <1>2, <1>3, <2>1, <2>2 DEF OwnOf
<1> QED  BY <1>4, <1>5

\* A task goes from a hand to an empty slot.
LEMMA OwnAssign ==
    ASSUME IInv, NEW a \in Actors, AssignHit(a), submitted' = submitted
    PROVE  OwnInv'
<1> SUFFICES ASSUME NEW t \in Tasks PROVE OwnOf(t)'
  BY DEF OwnInv
<1>1. OwnOf(t) /\ t # None /\ TypeOK
  BY ActorFacts DEF IInv, OwnInv
<1>2. /\ hand'[a] = None /\ \A b \in Actors \ {a} : hand'[b] = hand[b]
      /\ cur[a] \in Managers /\ slot[cur[a]] = None
      /\ slot'[cur[a]] = hand[a] /\ \A m \in Managers \ {cur[a]} : slot'[m] = slot[m]
      /\ UNCHANGED <<runs, deletes, submitted, queue>>
      /\ \A m \in Managers : wpc'[m] = "running" <=> wpc[m] = "running"
      /\ wpc[cur[a]] # "running"
  BY <1>1 DEF AssignHit, Passed, Notified, TypeOK
<1>3. Queued(t)' <=> Queued(t)
  BY <1>2 DEF Queued
<1>4. CASE t = hand[a]
  <2>1. /\ runs[t] = 0 /\ deletes[t] = 0 /\ t \in submitted /\ ~Queued(t)
        /\ \A b \in Actors \ {a} : hand[b] # t
        /\ \A m \in Managers : slot[m] # t
    BY <1>1, <1>4 DEF OwnOf
  <2>2. \A b \in Actors : hand'[b] # t
    BY <1>1, <1>2, <2>1
  <2>3. \A m \in Managers : slot'[m] = t <=> m = cur[a]
    BY <1>2, <1>4, <2>1
  <2> QED  BY <1>1, <1>2, <1>3, <2>1, <2>2, <2>3 DEF OwnOf
<1>5. CASE t # hand[a]
  <2>1. /\ \A b \in Actors : hand'[b] = t <=> hand[b] = t
        /\ \A m \in Managers : slot'[m] = t <=> slot[m] = t
    BY <1>1, <1>2, <1>5
  <2> QED  BY <1>1, <1>2, <1>3, <2>1 DEF OwnOf
<1> QED  BY <1>4, <1>5

\* A task goes from a hand to the end of the queue.
LEMMA OwnQueue ==
    ASSUME IInv, NEW a \in Actors, QueuesTask(a), submitted' = submitted
    PROVE  OwnInv'
<1> SUFFICES ASSUME NEW t \in Tasks PROVE OwnOf(t)'
  BY DEF OwnInv
<1>1. OwnOf(t) /\ t # None /\ TypeOK /\ Once(t)
  BY ActorFacts DEF IInv, OwnInv, OwnOf, Once
<1>2. /\ hand'[a] = None /\ (\A b \in Actors \ {a} : hand'[b] = hand[b]) /\ hand[a] \in Tasks
      /\ UNCHANGED <<slot, wpc, runs, deletes, submitted>> /\ queue' = Append(queue, hand[a])
  BY <1>1 DEF QueuesTask, Passed, tmVars, TypeOK
<1>3. t = hand[a] =>
         /\ runs[t] = 0 /\ deletes[t] = 0 /\ t \in submitted /\ ~Queued(t)
         /\ \A b \in Actors \ {a} : hand[b] # t
         /\ \A m \in Managers : slot[m] # t
  BY <1>1 DEF OwnOf
<1>4. Once(t)' /\ (Queued(t)' <=> Queued(t) \/ t = hand[a])
  BY <1>1, <1>2, <1>3, QueueGrows
<1>5. CASE t = hand[a]
  <2>1. \A b \in Actors : hand'[b] # t
    BY <1>1, <1>2, <1>3, <1>5
  <2> QED  BY <1>1, <1>2, <1>3, <1>4, <1>5, <2>1 DEF OwnOf, Once
<1>6. CASE t # hand[a]
  <2>1. \A b \in Actors : hand'[b] = t <=> hand[b] = t
    BY <1>1, <1>2, <1>6
  <2> QED  BY <1>1, <1>2, <1>4, <1>6, <2>1 DEF OwnOf, Once
<1> QED  BY <1>5, <1>6

\* The first task goes from the queue to the queue thread's hand.
LEMMA OwnFront ==
    ASSUME IInv, queue # <<>>, hand[QueueThread] = None,
           hand' = [hand EXCEPT ![QueueThread] = Head(queue)], queue' = Tail(queue),
           UNCHANGED <<slot, wpc, runs, deletes, submitted>>
    PROVE  OwnInv'
<1> SUFFICES ASSUME NEW t \in Tasks PROVE OwnOf(t)'
  BY DEF OwnInv
<1>1. OwnOf(t) /\ t # None /\ TypeOK /\ Once(t) /\ QueueThread \in Actors
  BY ActorFacts DEF IInv, OwnInv, OwnOf, Once
<1>2. /\ hand'[QueueThread] = Head(queue)
      /\ \A b \in Actors \ {QueueThread} : hand'[b] = hand[b]
  BY <1>1 DEF TypeOK
<1>3. Once(t)' /\ (Queued(t)' <=> Queued(t) /\ t # Head(queue))
  BY <1>1, QueueShrinks
<1>4. CASE t = Head(queue)
  <2>1. Queued(t)
    BY <1>1, <1>4, HeadAndTail DEF Queued
  <2>2. /\ runs[t] = 0 /\ deletes[t] = 0 /\ t \in submitted
        /\ \A b \in Actors : hand[b] # t
        /\ \A m \in Managers : slot[m] # t
    BY <1>1, <2>1 DEF OwnOf
  <2>3. \A b \in Actors : hand'[b] = t <=> b = QueueThread
    BY <1>2, <1>4, <2>2
  <2> QED  BY <1>1, <1>3, <1>4, <2>2, <2>3 DEF OwnOf, Once
<1>5. CASE t # Head(queue)
  <2>1. \A b \in Actors : hand'[b] = t <=> hand[b] = t
    BY <1>1, <1>2, <1>5
  <2> QED  BY <1>1, <1>3, <1>5, <2>1 DEF OwnOf, Once
<1> QED  BY <1>4, <1>5

\* The destructor deletes the first task of the queue.
LEMMA OwnDiscard ==
    ASSUME IInv, queue # <<>>, queue' = Tail(queue),
           deletes' = [deletes EXCEPT ![Head(queue)] = @ + 1],
           UNCHANGED <<slot, wpc, runs, hand, submitted>>
    PROVE  OwnInv'
<1> SUFFICES ASSUME NEW t \in Tasks PROVE OwnOf(t)'
  BY DEF OwnInv
<1>1. OwnOf(t) /\ t # None /\ TypeOK /\ Once(t) /\ deletes \in [Tasks -> Nat]
  BY ActorFacts DEF IInv, OwnInv, OwnOf, Once, TypeOK
<1>2. Once(t)' /\ (Queued(t)' <=> Queued(t) /\ t # Head(queue))
  BY <1>1, QueueShrinks
<1>3. CASE t = Head(queue)
  <2>1. Queued(t)
    BY <1>1, <1>3, HeadAndTail DEF Queued
  <2>2. /\ runs[t] = 0 /\ deletes[t] = 0 /\ t \in submitted
        /\ \A b \in Actors : hand[b] # t
        /\ \A m \in Managers : slot[m] # t
    BY <1>1, <2>1 DEF OwnOf
  <2>3. deletes'[t] = 1
    BY <1>1, <1>3, <2>2
  <2> QED  BY <1>1, <1>2, <1>3, <2>2, <2>3 DEF OwnOf, Once
<1>4. CASE t # Head(queue)
  <2>1. deletes'[t] = deletes[t]
    BY <1>1, <1>4
  <2> QED  BY <1>1, <1>2, <1>4, <2>1 DEF OwnOf, Once
<1> QED  BY <1>3, <1>4

\* Every step keeps a task with one holder.
LEMMA OwnStep == IInv /\ [Next]_vars => OwnInv'
<1> SUFFICES ASSUME IInv, [Next]_vars PROVE OwnInv'
  OBVIOUS
<1>0. TypeOK /\ OwnInv /\ RunInv
  BY DEF IInv
<1>1. ASSUME NEW m \in Managers, Worker(m) PROVE OwnInv'
  <2>0. /\ UNCHANGED <<hand, submitted, queue>>
        /\ wpc \in [Managers -> WorkerStates] /\ slot \in [Managers -> Tasks \cup {None}]
        /\ deletes \in [Tasks -> Nat]
    BY <1>0, <1>1 DEF Worker, TypeOK
  <2>1. CASE WorkerLoop(m) /\ ~tmGo[m]
    <3>1. CASE slot[m] = None
      <4>1. slot' = slot
        BY <2>0, <2>1, <3>1 DEF WorkerLoop, Emptied
      <4>2. \A t \in Tasks : slot[m] # t
        BY <3>1, ActorFacts
      <4>3. deletes' = deletes
        BY <2>0, <2>1, <4>2 DEF WorkerLoop
      <4> QED  BY <1>0, <2>0, <2>1, <4>1, <4>3, OwnFrame DEF WorkerLoop
    <3>2. CASE slot[m] # None
      <4>1. /\ \A t \in Tasks : deletes'[t] = deletes[t] + (IF slot[m] = t THEN 1 ELSE 0)
            /\ slot' = [slot EXCEPT ![m] = None] /\ runs' = runs
            /\ \A n \in Managers \ {m} : wpc'[n] = wpc[n]
        BY <2>0, <2>1, <3>2 DEF WorkerLoop, Emptied
      <4> QED  BY <2>0, <3>2, <4>1, OwnRelease
    <3> QED  BY <3>1, <3>2
  <2>2. CASE WorkerLoop(m) /\ tmGo[m]
    <3>1. CASE slot[m] = None
      BY <1>0, <2>0, <2>2, <3>1, OwnFrame DEF WorkerLoop
    <3>2. CASE slot[m] # None
      BY <1>1, <2>2, <3>2, OwnRun
    <3> QED  BY <3>1, <3>2
  <2>3. CASE WorkerFinish(m)
    <3>1. slot[m] \in Tasks /\ slot[m] # None
      BY <1>0, <2>0, <2>3 DEF WorkerFinish, RunInv
    <3>2. /\ \A t \in Tasks : deletes'[t] = deletes[t] + (IF slot[m] = t THEN 1 ELSE 0)
          /\ slot' = [slot EXCEPT ![m] = None] /\ runs' = runs
          /\ \A n \in Managers \ {m} : wpc'[n] = wpc[n]
      BY <2>0, <2>3, <3>1 DEF WorkerFinish, Emptied
    <3> QED  BY <2>0, <3>1, <3>2, OwnRelease
  <2>4. CASE WorkerNotify(m)
    BY <1>0, <2>0, <2>4, OwnFrame DEF WorkerNotify
  <2> QED  BY <1>1, <2>1, <2>2, <2>3, <2>4 DEF Worker
<1>2. ASSUME NEW c \in Callers, Call(c) PROVE OwnInv'
  <2>1. ASSUME NEW o \in Operations, Begin(c, o, None) PROVE OwnInv'
    <3>1. hand[c] = None
      BY <2>1 DEF Begin, IInv, CallInv, CallOf
    <3>2. UNCHANGED <<slot, hand, runs, deletes, submitted, wpc, queue>>
      BY <1>0, <2>1, <3>1, ActorFacts DEF Begin, tmVars, TypeOK
    <3> QED  BY <1>0, <3>2, OwnFrame
  <2>2. Calls(c)
    BY <1>2, CallCases
  <2> QED  BY <2>1, <2>2, OwnAccept DEF Calls, Operations
<1>3. ASSUME NEW a \in Actors, Actor(a) PROVE OwnInv'
  <2>0. ActorStep(a) /\ submitted' = submitted
    BY <1>3, ActorCases
  <2>1. CASE AssignHit(a)
    BY <2>0, <2>1, OwnAssign
  <2>2. CASE QueuesTask(a)
    BY <2>0, <2>2, OwnQueue
  <2>3. CASE a = QueueThread /\ FrontOf /\ ~(hand' = hand /\ queue' = queue)
    <3>1. hand[QueueThread] = None
      BY <2>3 DEF FrontOf, IInv, QueueInv
    <3> QED  BY <2>0, <2>3, <3>1, OwnFront DEF FrontOf, tmVars
  <2>4. CASE DestroyMembers(a) /\ ~(queue' = queue /\ deletes' = deletes)
    <3>1. UNCHANGED <<slot, wpc, runs, hand, submitted>>
      BY <2>0, <2>4 DEF DestroyMembers
    <3>2. queue # <<>> /\ queue' = Tail(queue) /\ deletes' = [deletes EXCEPT ![Head(queue)] = @ + 1]
      BY <2>4 DEF DestroyMembers
    <3> QED  BY <3>1, <3>2, OwnDiscard
  <2>5. CASE UNCHANGED <<slot, hand, queue, deletes>>
    <3>1. runs' = runs /\ \A m \in Managers : wpc'[m] = "running" <=> wpc[m] = "running"
      BY <2>0, ActorFrame
    <3> QED  BY <1>0, <2>0, <2>5, <3>1, OwnFrame
  <2>6. CASE a = QueueThread /\ FrontOf /\ hand' = hand /\ queue' = queue
    BY <2>5, <2>6 DEF FrontOf, tmVars
  <2>7. CASE DestroyMembers(a) /\ queue' = queue /\ deletes' = deletes
    BY <2>5, <2>7 DEF DestroyMembers
  <2> QED  BY <2>0, <2>1, <2>2, <2>3, <2>4, <2>5, <2>6, <2>7, ActorFrame
<1>4. CASE Stop \/ UNCHANGED vars
  BY <1>0, <1>4, OwnFrame DEF Stop, vars, tmVars
<1> QED  BY <1>1, <1>2, <1>3, <1>4 DEF Next, Quiescent

\* The program starts in the invariant.
LEMMA InitInv == Init => IInv
<1> SUFFICES ASSUME Init PROVE IInv
  OBVIOUS
<1>1. TypeOK
  <2>1. 0 \in 0..MaxCalls
    BY AgentAssumption
  <2>2. /\ wpc \in [Managers -> WorkerStates] /\ alive \in [Managers -> BOOLEAN]
        /\ pc \in [Actors -> ActorStates] /\ op \in [Actors -> Operations]
    BY DEF Init, WorkerStates, ActorStates, Operations
  <2> QED  BY <2>1, <2>2, ActorFacts DEF Init, TypeOK, Objects
<1>2. LockInv /\ CallInv /\ QueueInv /\ CursorInv
  BY ActorFacts
     DEF Init, LockInv, CallInv, CallOf, QueueInv, CursorInv, CursorOf, Inside, LockNames
<1>3. ScanInv /\ StopInv /\ DestroyInv /\ RunInv /\ IdleAnswer /\ NoOvertaking
  BY ActorFacts DEF Init, ScanInv, StopInv, DestroyInv, RunInv, IdleAnswer, NoOvertaking
<1>4. OwnInv
  BY ActorFacts DEF Init, OwnInv, OwnOf, Queued
<1> QED  BY <1>1, <1>2, <1>3, <1>4 DEF IInv

\* The invariant is inductive.
LEMMA StepInv == IInv /\ [Next]_vars => IInv'
  BY TypeStep, LockStep, CallStep, QueueStep, CursorStep, ScanStep, OvertakeStep, StopStep,
     DestroyStep, RunStep, OwnStep DEF IInv

\* Every reachable state satisfies the invariant.
THEOREM Invariance == Spec => []IInv
  BY InitInv, StepInv, PTL DEF Spec

-----------------------------------------------------------------------------
(* What follows from it                                                    *)

\* A set without two members has one or none.
LEMMA OneOrNone ==
    ASSUME NEW S, \A x, y \in S : x = y
    PROVE  Cardinality(S) = IF S = {} THEN 0 ELSE 1
<1>1. CASE S = {}
  BY <1>1, FS_EmptySet
<1>2. CASE S # {}
  <2>1. PICK x : S = {x}
    BY <1>2
  <2> QED  BY <2>1, FS_Singleton
<1> QED  BY <1>1, <1>2

\* A task is in one hand, slot or place of the queue, or deleted.
LEMMA Ownership == IInv => TaskOwnership
<1> SUFFICES ASSUME IInv, NEW t \in Tasks
             PROVE  /\ runs[t] <= 1 /\ deletes[t] <= 1
                    /\ Cardinality(Holders(t)) = IF t \in submitted /\ deletes[t] = 0 THEN 1 ELSE 0
  BY DEF TaskOwnership
<1>1. OwnOf(t)
  BY DEF IInv, OwnInv
<1>2. \A x, y \in Holders(t) : x = y
  <2>1. \A x \in Holders(t) :
           \/ \E a \in Actors : hand[a] = t /\ x = <<"hand", a>>
           \/ \E m \in Managers : slot[m] = t /\ x = <<"slot", m>>
           \/ \E i \in 1..Len(queue) : queue[i] = t /\ x = <<"queue", i>>
    BY DEF Holders
  <2> SUFFICES ASSUME NEW x \in Holders(t), NEW y \in Holders(t) PROVE x = y
    OBVIOUS
  <2>2. CASE \E a \in Actors : hand[a] = t /\ x = <<"hand", a>>
    <3>1. ~Queued(t) /\ \A m \in Managers : slot[m] # t
      BY <1>1, <2>2 DEF OwnOf
    <3>2. \E a \in Actors : hand[a] = t /\ y = <<"hand", a>>
      BY <2>1, <3>1 DEF Queued
    <3> QED  BY <1>1, <2>2, <3>2 DEF OwnOf
  <2>3. CASE \E m \in Managers : slot[m] = t /\ x = <<"slot", m>>
    <3>1. ~Queued(t) /\ \A a \in Actors : hand[a] # t
      BY <1>1, <2>3 DEF OwnOf
    <3>2. \E m \in Managers : slot[m] = t /\ y = <<"slot", m>>
      BY <2>1, <3>1 DEF Queued
    <3> QED  BY <1>1, <2>3, <3>2 DEF OwnOf
  <2>4. CASE \E i \in 1..Len(queue) : queue[i] = t /\ x = <<"queue", i>>
    <3>1. (\A m \in Managers : slot[m] # t) /\ \A a \in Actors : hand[a] # t
      BY <1>1, <2>4 DEF OwnOf, Queued
    <3>2. \E i \in 1..Len(queue) : queue[i] = t /\ y = <<"queue", i>>
      BY <2>1, <3>1
    <3> QED  BY <1>1, <2>4, <3>2 DEF OwnOf
  <2> QED  BY <2>1, <2>2, <2>3, <2>4
<1>3. Holders(t) # {} <=>
         (\E a \in Actors : hand[a] = t) \/ (\E m \in Managers : slot[m] = t) \/ Queued(t)
  BY DEF Holders, Queued
<1>4. Holders(t) # {} <=> t \in submitted /\ deletes[t] = 0
  BY <1>1, <1>3 DEF OwnOf
<1>5. Cardinality(Holders(t)) = IF t \in submitted /\ deletes[t] = 0 THEN 1 ELSE 0
  BY <1>2, <1>4, OneOrNone
<1>6. runs[t] <= 1 /\ deletes[t] <= 1
  BY <1>1 DEF OwnOf
<1> QED  BY <1>5, <1>6

\* The variables have their types, a task has one owner on its way through
\* execute(), the queue, the queue thread and a manager (752-779, 902-951), and a
\* true answer of is_idle() of a ThreadPool is true of all managers (786-797).
THEOREM StaysConsistent == Spec => []Consistent
<1>1. IInv => Consistent
  BY Ownership DEF IInv, Consistent
<1> QED  BY <1>1, Invariance, PTL

\* execute() gives no task to a manager while a queued one waits: the lock it
\* looked at the queue under is the one the queue grows under (931-938).
THEOREM NothingOvertakes == Spec => []NoOvertaking
<1>1. IInv => NoOvertaking
  BY DEF IInv
<1> QED  BY <1>1, Invariance, PTL

\* Behind the destructor no thread is left and no task is in the queue or in a
\* hand (859-864, 884-899).
THEOREM DestructionIsClean == Spec => []DestroyedIsClean
<1>1. IInv => DestroyedIsClean
  <2> SUFFICES ASSUME IInv, object = "gone"
               PROVE  /\ \A m \in Managers : wpc[m] = "ended"
                      /\ pc[QueueThread] = "done"
                      /\ queue = <<>> /\ \A a \in Actors : hand[a] = None
    BY DEF DestroyedIsClean
  <2>1. /\ queue = <<>> /\ pc[QueueThread] = "done" /\ (\A m \in Managers : wpc[m] = "ended")
        /\ \A c \in Callers : pc[c] = "out"
    BY DEF IInv, DestroyInv
  <2>2. \A c \in Callers : hand[c] = None
    BY <2>1 DEF IInv, CallInv, CallOf
  <2>3. hand[QueueThread] = None
    BY <2>1 DEF IInv, QueueInv
  <2> QED  BY <2>1, <2>2, <2>3, ActorFacts
<1> QED  BY <1>1, Invariance, PTL

-----------------------------------------------------------------------------
(* The pool implements TaskExecution                                       *)

\* The two variables of the abstract pool.
Life == [t \in Tasks |-> LifeOf(t)]
Closing == object # "whole"

\* The life of a task, read off the three variables it is computed from.
LifeTable ==
    \A t \in Tasks :
        /\ t \notin submitted => LifeOf(t) = "new" /\ runs[t] = 0 /\ deletes[t] = 0
        /\ t \in submitted =>
              \/ runs[t] = 0 /\ deletes[t] = 0 /\ LifeOf(t) = "accepted"
              \/ runs[t] = 1 /\ deletes[t] = 0 /\ LifeOf(t) = "running"
              \/ runs[t] = 1 /\ deletes[t] = 1 /\ LifeOf(t) = "finished"
              \/ runs[t] = 0 /\ deletes[t] = 1 /\ LifeOf(t) = "discarded"

LEMMA LifeIsTable == IInv => LifeTable
<1> SUFFICES ASSUME IInv, NEW t \in Tasks
             PROVE  /\ t \notin submitted => LifeOf(t) = "new" /\ runs[t] = 0 /\ deletes[t] = 0
                    /\ t \in submitted =>
                          \/ runs[t] = 0 /\ deletes[t] = 0 /\ LifeOf(t) = "accepted"
                          \/ runs[t] = 1 /\ deletes[t] = 0 /\ LifeOf(t) = "running"
                          \/ runs[t] = 1 /\ deletes[t] = 1 /\ LifeOf(t) = "finished"
                          \/ runs[t] = 0 /\ deletes[t] = 1 /\ LifeOf(t) = "discarded"
  BY DEF LifeTable
<1>1. /\ runs[t] \in {0, 1} /\ deletes[t] \in {0, 1}
      /\ t \notin submitted => runs[t] = 0 /\ deletes[t] = 0
  BY DEF IInv, OwnInv, OwnOf
<1>2. CASE t \notin submitted
  BY <1>1, <1>2 DEF LifeOf
<1>3. CASE t \in submitted /\ runs[t] = 0 /\ deletes[t] = 0
  BY <1>3 DEF LifeOf
<1>4. CASE t \in submitted /\ runs[t] = 1 /\ deletes[t] = 0
  BY <1>4 DEF LifeOf
<1>5. CASE t \in submitted /\ runs[t] = 1 /\ deletes[t] = 1
  BY <1>5 DEF LifeOf
<1>6. CASE t \in submitted /\ runs[t] = 0 /\ deletes[t] = 1
  BY <1>6 DEF LifeOf
<1> QED  BY <1>1, <1>2, <1>3, <1>4, <1>5, <1>6

\* The table holds after a step too.
LEMMA LifeIsTableNext == IInv /\ [Next]_vars => LifeTable /\ LifeTable'
<1>1. IInv => LifeTable
  BY LifeIsTable
<1>2. IInv' => LifeTable'
  BY <1>1, PTL
<1> QED  BY <1>1, <1>2, StepInv

\* A task that is being run is in the slot of a manager whose worker runs it.
LEMMA RunningIsInSlot ==
    ASSUME IInv, NEW t \in Tasks, LifeOf(t) = "running"
    PROVE  \E n \in Managers : slot[n] = t /\ wpc[n] = "running"
<1>1. t \in submitted /\ runs[t] = 1 /\ deletes[t] = 0
  BY LifeIsTable DEF LifeTable
<1>2. OwnOf(t)
  BY DEF IInv, OwnInv
<1>3. ~Queued(t) /\ \A a \in Actors : hand[a] # t
  BY <1>1, <1>2 DEF OwnOf
<1> QED  BY <1>1, <1>2, <1>3 DEF OwnOf

\* Tasks that each sit in the slot of a manager other than m are fewer than
\* the managers: a slot holds one task.
LEMMA FewerThanManagers ==
    ASSUME NEW m \in Managers, NEW R, \A t \in R : \E n \in Managers \ {m} : slot[n] = t
    PROVE  Cardinality(R) < PoolSize
<1> DEFINE Others == Managers \ {m}
           Held == {slot[n] : n \in Others}
           f == [n \in Others |-> slot[n]]
<1>1. IsFiniteSet(Others) /\ Cardinality(Others) = PoolSize - 1
  <2>1. PoolSize \in Int /\ 1 \in Int /\ PoolSize >= 1
    BY AgentAssumption
  <2>2. IsFiniteSet(Managers) /\ Cardinality(Managers) = PoolSize
    BY <2>1, FS_Interval DEF Managers
  <2> QED  BY <2>1, <2>2, FS_RemoveElement
<1>2. IsFiniteSet(Held) /\ Cardinality(Held) <= Cardinality(Others)
  <2>1. f \in Surjection(Others, Held)
    BY DEF Surjection
  <2> HIDE DEF Others, Held, f
  <2> QED  BY <1>1, <2>1, FS_Surjection
<1>3. R \in SUBSET Held
  OBVIOUS
<1>4. Cardinality(R) <= Cardinality(Held) /\ Cardinality(Held) \in Nat /\ Cardinality(R) \in Nat
  <2> HIDE DEF Held
  <2> QED  BY <1>2, <1>3, FS_Subset, FS_CardinalityType
<1> QED  BY <1>1, <1>2, <1>4, AgentAssumption

\* The abstract module counts with the same Cardinality.
LEMMA SameCardinality == \A S : Abstract!Cardinality(S) = Cardinality(S)
  BY DEF Abstract!Cardinality, Cardinality

\* What a step of the pool is for the abstract pool.
AbstractStep == Abstract!Next \/ UNCHANGED <<Life, Closing>>

\* A step that changes no life is a Close or a stutter.
LEMMA QuietStep ==
    ASSUME IInv, [Next]_vars, UNCHANGED <<runs, deletes, submitted>>
    PROVE  AbstractStep
<1>1. Life' = Life
  BY DEF Life, LifeOf
<1>2. CASE Closing' = Closing
  BY <1>1, <1>2 DEF AbstractStep
<1>3. CASE Closing' # Closing
  <2>1. Abstract!Close
    BY <1>1, <1>3, ClosingStays DEF Abstract!Close, Closing, Life
  <2> QED  BY <2>1 DEF AbstractStep, Abstract!Next
<1> QED  BY <1>2, <1>3

\* A step that changes one.
LEMMA LifeStep ==
    ASSUME NEW t \in Tasks, NEW s, LifeOf(t)' = s,
           \A u \in Tasks \ {t} : LifeOf(u)' = LifeOf(u),
           object' = object
    PROVE  Abstract!Become(t, LifeOf(t), s)
<1>1. Life' = [Life EXCEPT ![t] = s] /\ Life[t] = LifeOf(t)
  BY DEF Life
<1>2. Closing' = Closing
  BY DEF Closing
<1> QED  BY <1>1, <1>2 DEF Abstract!Become, Life, Closing

\* run() is entered: Start, while this worker's manager makes room.
LEMMA RunMaps ==
    ASSUME IInv, [Next]_vars, NEW m \in Managers, NEW t \in Tasks, t = slot[m],
           WorkerLoop(m), Worker(m), tmGo[m], slot[m] # None
    PROVE  AbstractStep
<1>1. t \in submitted /\ runs[t] = 0 /\ deletes[t] = 0 /\ wpc[m] # "running"
  BY DEF WorkerLoop, IInv, OwnInv, OwnOf
<1>2. /\ runs \in [Tasks -> Nat] /\ runs' = [runs EXCEPT ![t] = @ + 1]
      /\ UNCHANGED <<deletes, submitted, object>>
  BY DEF WorkerLoop, Worker, IInv, TypeOK
<1>3. LifeOf(t) = "accepted"
  BY <1>1, LifeIsTable DEF LifeTable
<1>4. LifeOf(t)' = "running"
  <2>1. runs'[t] = 1 /\ deletes'[t] = 0 /\ t \in submitted'
    BY <1>1, <1>2
  <2> QED  BY <2>1, LifeIsTableNext DEF LifeTable
<1>5. \A u \in Tasks \ {t} : LifeOf(u)' = LifeOf(u)
  <2>1. \A u \in Tasks \ {t} : runs'[u] = runs[u]
    BY <1>2
  <2> QED  BY <1>2, <2>1 DEF LifeOf
<1>6. Abstract!Become(t, "accepted", "running")
  BY <1>2, <1>3, <1>4, <1>5, LifeStep
<1>7. Abstract!Cardinality(Abstract!With("running")) < PoolSize
  <2>1. Abstract!With("running") = {u \in Tasks : LifeOf(u) = "running"}
    BY DEF Abstract!With
  <2>2. \A u \in {v \in Tasks : LifeOf(v) = "running"} : \E n \in Managers \ {m} : slot[n] = u
    BY <1>1, RunningIsInSlot
  <2> QED  BY <2>1, <2>2, FewerThanManagers, SameCardinality
<1> QED  BY <1>6, <1>7 DEF AbstractStep, Abstract!Next, Abstract!Start

\* A task is deleted, behind its run or by a worker that was told to stop.
LEMMA DeleteMaps ==
    ASSUME IInv, [Next]_vars, NEW t \in Tasks, deletes[t] = 0, t \in submitted,
           \A u \in Tasks : deletes'[u] = deletes[u] + (IF t = u THEN 1 ELSE 0),
           UNCHANGED <<runs, submitted, object>>,
           runs[t] = 0 => Closing
    PROVE  AbstractStep
<1>1. /\ \A u \in Tasks \ {t} : deletes'[u] = deletes[u]
      /\ deletes'[t] = 1 /\ t \in submitted'
  BY DEF IInv, TypeOK
<1>2. \A u \in Tasks \ {t} : LifeOf(u)' = LifeOf(u)
  BY <1>1 DEF LifeOf
<1>3. CASE runs[t] = 1
  <2>1. LifeOf(t) = "running" /\ LifeOf(t)' = "finished"
    BY <1>1, <1>3, LifeIsTableNext DEF LifeTable
  <2>2. Abstract!Become(t, "running", "finished")
    BY <1>2, <2>1, LifeStep
  <2> QED  BY <2>2 DEF AbstractStep, Abstract!Next, Abstract!Finish
<1>4. CASE runs[t] = 0
  <2>1. LifeOf(t) = "accepted" /\ LifeOf(t)' = "discarded"
    BY <1>1, <1>4, LifeIsTableNext DEF LifeTable
  <2>2. Abstract!Become(t, "accepted", "discarded")
    BY <1>2, <2>1, LifeStep
  <2> QED  BY <1>4, <2>2 DEF AbstractStep, Abstract!Next, Abstract!Discard, Closing
<1> QED  BY <1>3, <1>4 DEF IInv, OwnInv, OwnOf

\* execute() is called: Accept.
LEMMA AcceptMaps ==
    ASSUME IInv, [Next]_vars, NEW c \in Callers, NEW t \in Tasks, submitted = 1..(t - 1),
           Begin(c, "execute", t), object' = object
    PROVE  AbstractStep
<1>1. /\ t \notin submitted /\ submitted' = submitted \cup {t} /\ UNCHANGED <<runs, deletes>>
  BY AgentAssumption DEF Begin, tmVars, Tasks
<1>2. LifeOf(t) = "new" /\ runs[t] = 0 /\ deletes[t] = 0
  BY <1>1, LifeIsTable DEF LifeTable
<1>3. LifeOf(t)' = "accepted"
  <2>1. runs'[t] = 0 /\ deletes'[t] = 0 /\ t \in submitted'
    BY <1>1, <1>2
  <2> QED  BY <2>1, LifeIsTableNext DEF LifeTable
<1>4. \A u \in Tasks \ {t} : LifeOf(u)' = LifeOf(u)
  <2>1. \A u \in Tasks \ {t} : u \in submitted' <=> u \in submitted
    BY <1>1
  <2> QED  BY <1>1, <2>1 DEF LifeOf
<1>5. Abstract!Become(t, "new", "accepted")
  BY <1>1, <1>2, <1>3, <1>4, LifeStep
<1> QED  BY <1>5 DEF AbstractStep, Abstract!Next, Abstract!Accept

\* Every step of the pool is one of the abstract pool or a stutter.
LEMMA StepMaps == IInv /\ [Next]_vars => AbstractStep
<1> SUFFICES ASSUME IInv, [Next]_vars PROVE AbstractStep
  OBVIOUS
<1>0. /\ TypeOK /\ RunInv /\ deletes \in [Tasks -> Nat]
      /\ UNCHANGED <<runs, deletes, submitted>> => AbstractStep
  BY QuietStep DEF IInv, TypeOK
<1>1. ASSUME NEW m \in Managers, Worker(m) PROVE AbstractStep
  <2>0. UNCHANGED <<submitted, object>>
    BY <1>1 DEF Worker
  <2>1. ASSUME NEW t \in Tasks, t = slot[m] PROVE t \in submitted /\ deletes[t] = 0
    BY <2>1 DEF IInv, OwnInv, OwnOf
  <2>2. CASE slot[m] = None
    <3>1. \A t \in Tasks : slot[m] # t
      BY <2>2, ActorFacts
    <3>2. UNCHANGED <<runs, deletes>>
      BY <1>0, <1>1, <2>2, <3>1 DEF Worker, WorkerLoop, WorkerFinish, WorkerNotify, RunInv
    <3> QED  BY <1>0, <2>0, <3>2
  <2>3. CASE slot[m] # None
    <3>0. PICK t \in Tasks : t = slot[m]
      BY <1>0, <2>3 DEF TypeOK
    <3>1. CASE WorkerLoop(m) /\ tmGo[m]
      BY <1>1, <2>3, <3>0, <3>1, RunMaps
    <3>2. CASE WorkerLoop(m) /\ ~tmGo[m]
      <4>1. /\ \A u \in Tasks : deletes'[u] = deletes[u] + (IF t = u THEN 1 ELSE 0)
            /\ runs' = runs /\ Closing
        BY <1>0, <3>0, <3>2 DEF WorkerLoop, IInv, StopInv, Closing
      <4> QED  BY <2>0, <2>1, <3>0, <4>1, DeleteMaps
    <3>3. CASE WorkerFinish(m)
      <4>1. /\ \A u \in Tasks : deletes'[u] = deletes[u] + (IF t = u THEN 1 ELSE 0)
            /\ runs' = runs /\ runs[t] = 1
        BY <1>0, <3>0, <3>3 DEF WorkerFinish, IInv, OwnInv, OwnOf
      <4> QED  BY <2>0, <2>1, <3>0, <4>1, DeleteMaps
    <3>4. CASE WorkerNotify(m)
      BY <1>0, <2>0, <3>4 DEF WorkerNotify
    <3> QED  BY <1>1, <3>1, <3>2, <3>3, <3>4 DEF Worker
  <2> QED  BY <2>2, <2>3
<1>2. ASSUME NEW c \in Callers, Call(c) PROVE AbstractStep
  <2>1. ASSUME NEW o, Begin(c, o, None) PROVE AbstractStep
    <3>1. UNCHANGED <<runs, deletes, submitted>>
      BY <2>1 DEF Begin, tmVars
    <3> QED  BY <1>0, <3>1
  <2> QED  BY <1>2, <2>1, AcceptMaps, CallCases DEF Calls
<1>3. ASSUME NEW a \in Actors, Actor(a) PROVE AbstractStep
  <2>0. ActorStep(a) /\ submitted' = submitted /\ runs' = runs
    BY <1>3, ActorCases, ActorFrame
  <2>1. CASE deletes' = deletes
    BY <1>0, <2>0, <2>1
  <2>2. CASE deletes' # deletes
    <3>1. DestroyMembers(a)
      BY <2>0, <2>2, ActorFrame
    <3>2. /\ queue # <<>> /\ deletes' = [deletes EXCEPT ![Head(queue)] = @ + 1] /\ object' = object
          /\ pc[a] = "unwind"
      BY <2>2, <3>1 DEF DestroyMembers
    <3>3. PICK t \in Tasks : t = Head(queue)
      BY <1>0, <3>2, HeadAndTail
    <3>4. Queued(t)
      BY <1>0, <3>2, <3>3, HeadAndTail DEF Queued
    <3>5. t \in submitted /\ deletes[t] = 0 /\ runs[t] = 0
      BY <3>4 DEF IInv, OwnInv, OwnOf
    <3>6. Closing
      BY <3>2, ActorFacts DEF IInv, QueueInv, CallInv, CallOf, DestroyInv, Closing
    <3>7. \A u \in Tasks : deletes'[u] = deletes[u] + (IF t = u THEN 1 ELSE 0)
      BY <1>0, <3>2, <3>3
    <3> QED  BY <2>0, <3>2, <3>5, <3>6, <3>7, DeleteMaps
  <2> QED  BY <2>1, <2>2
<1>4. CASE Stop \/ UNCHANGED vars
  BY <1>0, <1>4 DEF Stop, vars, tmVars
<1> QED  BY <1>1, <1>2, <1>3, <1>4 DEF Next, Quiescent

\* The pool starts as the abstract pool does.
LEMMA InitMaps == Init => Abstract!Init
<1> SUFFICES ASSUME Init PROVE Abstract!Init
  OBVIOUS
<1>1. Life = [t \in Tasks |-> "new"]
  <2>1. \A t \in Tasks : LifeOf(t) = "new"
    BY DEF Init, LifeOf
  <2> QED  BY <2>1 DEF Life
<1>2. Closing = (PoolSize = 0)
  BY AgentAssumption DEF Init, Closing
<1> QED  BY <1>1, <1>2 DEF Abstract!Init, Life, Closing

\* Both pools run a task once, on one of at most PoolSize threads, and delete it
\* once; unrun it is deleted only when the pool is terminated or destroyed.
THEOREM Implementation == Spec => ImplementsTaskExecution
<1>1. IInv /\ [Next]_vars => [Abstract!Next]_(Abstract!vars)
  BY StepMaps DEF AbstractStep, Abstract!vars, Life, Closing
<1> QED  BY <1>1, InitMaps, Invariance, PTL
     DEF Spec, ImplementsTaskExecution, Abstract!Spec
=============================================================================
