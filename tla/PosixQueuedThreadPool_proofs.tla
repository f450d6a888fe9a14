-------------------- MODULE PosixQueuedThreadPool_proofs --------------------
(***************************************************************************)
(* Proofs about PosixQueuedThreadPool, for every number of managers, every *)
(* set of tasks and callers and every bound on the calls.                  *)
(***************************************************************************)
EXTENDS PosixQueuedThreadPool, FiniteSetTheorems, TLAPS

Stopping == {"stop", "signal", "join", "clear"}
Inside == {"probe", "answer"} \cup Stopping

\* A thread is inside the monitor `thread` exactly when it holds its lock.
LockInv ==
    /\ \A c \in Callers : pc[c] \in Inside <=> owner = c
    /\ qpc \in QueueInside <=> owner = QueueThread

\* The states of a call fit the call; execute() has its argument until it
\* passes it on.
CallInv ==
    \A c \in Callers :
        /\ pc[c] \in {"probe", "answer"} => op[c] \in {"is_idle", "is_busy"}
        /\ pc[c] \in Stopping => op[c] \in {"terminate", "destroy"}
        /\ pc[c] \in {"joinqueue", "empty"} => op[c] = "destroy"
        /\ hand[c] # None <=> op[c] = "execute" /\ pc[c] # "out"

\* What the lock holder has found out stays true until it gives the lock back.
ScanInv ==
    /\ qpc \in {"probe", "assign", "pop"} => go /\ queue # <<>>
    /\ qpc = "assign" => qcur <= size /\ IsIdle(qcur)
    /\ \A c \in Callers : pc[c] = "probe" =>
          /\ cur[c] <= size
          /\ queue = <<>>
          /\ answer[c] = (op[c] = "is_busy")
          /\ \A m \in 1..(cur[c] - 1) : IsIdle(m)

\* Managers are stopped after go is cleared, and freed in their order.
StopInv ==
    /\ \A m \in Managers : ~tmGo[m] \/ wpc[m] = "joined" => ~go
    /\ size = 0 => \A m \in Managers : wpc[m] = "joined"
    /\ \A c \in Callers :
          /\ pc[c] \in Stopping \cup {"joinqueue", "empty"} => ~go
          /\ pc[c] = "clear" => \A m \in Managers : wpc[m] = "joined"
          /\ pc[c] \in {"stop", "signal", "join"} => cur[c] <= size
          /\ pc[c] \in {"signal", "join"} => \A m \in 1..(cur[c] - 1) : wpc[m] = "joined"
          /\ pc[c] = "join" => ~tmGo[cur[c]]

\* The destructor is the last call, and what it has done when it returns.
GoneInv ==
    /\ \A c \in Callers : op[c] = "destroy" => gone
    /\ \A c \in Callers : pc[c] \in {"joinqueue", "empty"} => size = 0
    /\ \A c \in Callers : pc[c] = "empty" => qpc = "joined"
    /\ gone => \A c, d \in Callers : pc[c] # "out" /\ pc[d] # "out" => c = d
    /\ gone => \A c \in Callers : pc[c] # "out" => op[c] = "destroy"
    /\ gone /\ (\A c \in Callers : pc[c] = "out") =>
          size = 0 /\ qpc = "joined" /\ queue = <<>>

\* The queue is what is left of the tasks execute() has queued, each once.
PushedInv ==
    /\ Len(queue) <= Len(pushed)
    /\ \A i \in 1..Len(queue) : queue[i] = pushed[Len(pushed) - Len(queue) + i]
    /\ \A i, j \in 1..Len(pushed) : pushed[i] = pushed[j] => i = j

\* TaskOwnership, said without counting: a task is held by at most one caller,
\* slot or place in the queue, and as long as one holds it, it is not deleted.
OwnOf(t) ==
    /\ \A c, d \in Callers : hand[c] = t /\ hand[d] = t => c = d
    /\ \A m, n \in Managers : slot[m] = t /\ slot[n] = t => m = n
    /\ \A c \in Callers : hand[c] = t =>
          /\ t \in submitted /\ runs[t] = 0 /\ deletes[t] = 0
          /\ \A m \in Managers : slot[m] # t
          /\ \A i \in 1..Len(pushed) : pushed[i] # t
    /\ \A m \in Managers : slot[m] = t =>
          /\ t \in submitted /\ deletes[t] = 0
          /\ runs[t] = IF wpc[m] = "running" THEN 1 ELSE 0
    /\ Queued(t) =>
          /\ t \in submitted /\ runs[t] = 0 /\ deletes[t] = 0
          /\ \A m \in Managers : slot[m] # t
    /\ t \notin submitted =>
          runs[t] = 0 /\ deletes[t] = 0 /\ \A i \in 1..Len(pushed) : pushed[i] # t
    /\ runs[t] \in {0, 1} /\ deletes[t] \in {0, 1}
    /\ t \in submitted /\ deletes[t] = 0 =>
          (\E c \in Callers : hand[c] = t) \/ (\E m \in Managers : slot[m] = t) \/ Queued(t)

OwnInv == \A t \in Tasks : OwnOf(t)

\* The inductive invariant.
IInv == /\ TypeOK /\ LockInv /\ CallInv /\ ScanInv /\ StopInv /\ GoneInv
        /\ TmShape /\ PushedInv /\ OwnInv /\ QueryAnswer


\* Who holds the lock of `thread` is the only thread inside.
LEMMA Exclusive ==
    ASSUME IInv, NEW c \in Callers, pc[c] \in Inside
    PROVE  owner = c /\ qpc \notin QueueInside /\ \A d \in Callers \ {c} : pc[d] \notin Inside
  BY CallerAssumption DEF IInv, LockInv

LEMMA NobodyInside ==
    ASSUME IInv, owner = None
    PROVE  qpc \notin QueueInside /\ \A d \in Callers : pc[d] \notin Inside
  BY CallerAssumption DEF IInv, LockInv

\* The first task of a queue that is not empty, and the queue without it.
LEMMA FrontOf ==
    ASSUME TypeOK, queue # <<>>
    PROVE  /\ Len(queue) \in Nat /\ 1 <= Len(queue)
           /\ Head(queue) = queue[1] /\ queue[1] \in Tasks
           /\ Tail(queue) \in Seq(Tasks)
           /\ Len(Tail(queue)) = Len(queue) - 1
           /\ \A i \in 1..(Len(queue) - 1) : Tail(queue)[i] = queue[i + 1]
<1> queue \in Seq(Tasks)
  BY DEF TypeOK
<1> QED  OBVIOUS

\* In the loops of a caller the iterator is at a manager that exists.
LEMMA CursorInside ==
    ASSUME IInv, NEW c \in Callers, pc[c] \in {"probe", "stop", "signal", "join"}
    PROVE  cur[c] \in Managers /\ size = PoolSize /\ cur[c] + 1 \in 1..PoolSize + 1
<1>1. cur[c] \in 1..PoolSize + 1 /\ cur[c] <= size /\ size \in {0, PoolSize}
  BY DEF IInv, TypeOK, ScanInv, StopInv
<1> QED  BY <1>1, PoolAssumption DEF Managers

\* Taking the first task and adding one at the end keep the queue a part of
\* what was queued.
LEMMA PushedTail ==
    ASSUME TypeOK, PushedInv, queue # <<>>, queue' = Tail(queue), pushed' = pushed
    PROVE  PushedInv'
<1>1. /\ Len(queue) \in Nat /\ Len(pushed) \in Nat /\ Len(queue') = Len(queue) - 1 /\ 1 <= Len(queue)
      /\ \A i \in 1..(Len(queue) - 1) : queue'[i] = queue[i + 1]
  BY FrontOf DEF TypeOK
<1>2. \A i \in 1..Len(queue') : queue'[i] = pushed'[Len(pushed') - Len(queue') + i]
  <2>1. SUFFICES ASSUME NEW i \in 1..Len(queue')
                 PROVE  queue'[i] = pushed'[Len(pushed') - Len(queue') + i]
    OBVIOUS
  <2>2. queue'[i] = queue[i + 1] /\ i + 1 \in 1..Len(queue)
    BY <1>1
  <2>3. queue[i + 1] = pushed[Len(pushed) - Len(queue) + (i + 1)]
    BY <2>2 DEF PushedInv
  <2>4. Len(pushed) - Len(queue) + (i + 1) = Len(pushed') - Len(queue') + i
    BY <1>1
  <2> QED  BY <2>2, <2>3, <2>4
<1> QED  BY <1>1, <1>2 DEF PushedInv

LEMMA PushedAppend ==
    ASSUME TypeOK, PushedInv, NEW t \in Tasks, \A i \in 1..Len(pushed) : pushed[i] # t,
           queue' = Append(queue, t), pushed' = Append(pushed, t)
    PROVE  PushedInv'
<1>1. /\ Len(queue) \in Nat /\ Len(pushed) \in Nat
      /\ Len(queue') = Len(queue) + 1 /\ Len(pushed') = Len(pushed) + 1
      /\ queue'[Len(queue) + 1] = t /\ pushed'[Len(pushed) + 1] = t
      /\ \A i \in 1..Len(queue) : queue'[i] = queue[i]
      /\ \A i \in 1..Len(pushed) : pushed'[i] = pushed[i]
  <2>1. queue \in Seq(Tasks) /\ pushed \in Seq(Tasks)
    BY DEF TypeOK
  <2> QED  BY <2>1
<1>2. \A i \in 1..Len(queue') : queue'[i] = pushed'[Len(pushed') - Len(queue') + i]
  <2>1. SUFFICES ASSUME NEW i \in 1..Len(queue')
                 PROVE  queue'[i] = pushed'[Len(pushed') - Len(queue') + i]
    OBVIOUS
  <2>2. CASE i = Len(queue) + 1
    BY <1>1, <2>2
  <2>3. CASE i \in 1..Len(queue)
    <3>1. queue[i] = pushed[Len(pushed) - Len(queue) + i] /\ Len(queue) <= Len(pushed)
      BY <2>3 DEF PushedInv
    <3>2. Len(pushed) - Len(queue) + i \in 1..Len(pushed)
      BY <1>1, <2>3, <3>1
    <3>3. Len(pushed') - Len(queue') + i = Len(pushed) - Len(queue) + i
      BY <1>1, <2>3
    <3> QED  BY <1>1, <2>3, <3>1, <3>2, <3>3
  <2>4. i = Len(queue) + 1 \/ i \in 1..Len(queue)
    BY <1>1
  <2> QED  BY <2>2, <2>3, <2>4
<1>3. \A i, j \in 1..Len(pushed') : pushed'[i] = pushed'[j] => i = j
  <2>1. SUFFICES ASSUME NEW i \in 1..Len(pushed'), NEW j \in 1..Len(pushed'), pushed'[i] = pushed'[j]
                 PROVE  i = j
    OBVIOUS
  <2>2. \A k \in {i, j} : k \in 1..Len(pushed) \/ k = Len(pushed) + 1
    BY <1>1
  <2>3. \A k \in 1..Len(pushed) : pushed'[k] = pushed[k] /\ pushed[k] # t
    BY <1>1
  <2>4. CASE i \in 1..Len(pushed) /\ j \in 1..Len(pushed)
    BY <2>1, <2>3, <2>4 DEF PushedInv
  <2> QED  BY <1>1, <2>1, <2>2, <2>3, <2>4
<1>4. Len(queue') <= Len(pushed')
  BY <1>1 DEF PushedInv
<1> QED  BY <1>2, <1>3, <1>4 DEF PushedInv

\* A task is in the queue once.
LEMMA QueueDistinct ==
    ASSUME TypeOK, PushedInv, NEW i \in 1..Len(queue), NEW j \in 1..Len(queue), queue[i] = queue[j]
    PROVE  i = j
<1>1. Len(queue) \in Nat /\ Len(pushed) \in Nat /\ Len(queue) <= Len(pushed)
  BY DEF TypeOK, PushedInv
<1> DEFINE a == Len(pushed) - Len(queue) + i
           b == Len(pushed) - Len(queue) + j
<1>2. a \in 1..Len(pushed) /\ b \in 1..Len(pushed)
  BY <1>1
<1>3. pushed[a] = pushed[b]
  BY DEF PushedInv
<1>4. a = b
  BY <1>2, <1>3 DEF PushedInv
<1> QED  BY <1>1, <1>4

\* What is queued was pushed.
LEMMA QueuedPushed ==
    ASSUME TypeOK, PushedInv, NEW t, \A i \in 1..Len(pushed) : pushed[i] # t
    PROVE  \A i \in 1..Len(queue) : queue[i] # t
<1> SUFFICES ASSUME NEW i \in 1..Len(queue) PROVE queue[i] # t
  OBVIOUS
<1>1. Len(queue) \in Nat /\ Len(pushed) \in Nat /\ Len(queue) <= Len(pushed)
  BY DEF TypeOK, PushedInv
<1>2. Len(pushed) - Len(queue) + i \in 1..Len(pushed)
  BY <1>1
<1> QED  BY <1>2 DEF PushedInv

\* How the tasks that only the queue holds change with it.
LEMMA QueuedFrame ==
    ASSUME NEW t, queue' = queue, qpc' = "pop" <=> qpc = "pop"
    PROVE  Queued(t)' <=> Queued(t)
  BY DEF Queued, InQueue, Handed

LEMMA QueuedTail ==
    ASSUME TypeOK, PushedInv, queue # <<>>, queue' = Tail(queue), qpc' # "pop", NEW t
    PROVE  Queued(t)' <=> Queued(t) /\ queue[1] # t
<1>1. /\ Len(queue) \in Nat /\ 1 <= Len(queue) /\ Len(queue') = Len(queue) - 1
      /\ \A i \in 1..(Len(queue) - 1) : queue'[i] = queue[i + 1]
  BY FrontOf
<1>2. Queued(t) /\ queue[1] # t <=> (\E i \in 1..Len(queue) : queue[i] = t) /\ queue[1] # t
  BY DEF Queued, InQueue, Handed
<1>3. Queued(t)' <=> \E i \in 1..Len(queue') : queue'[i] = t
  BY DEF Queued, InQueue, Handed
<1>4. ASSUME NEW i \in 1..Len(queue'), queue'[i] = t
      PROVE  (\E j \in 1..Len(queue) : queue[j] = t) /\ queue[1] # t
  <2>1. i + 1 \in 1..Len(queue) /\ 1 \in 1..Len(queue) /\ queue[i + 1] = t /\ i + 1 # 1
    BY <1>1, <1>4
  <2> QED  BY <2>1, QueueDistinct
<1>5. ASSUME NEW j \in 1..Len(queue), queue[j] = t, queue[1] # t
      PROVE  \E i \in 1..Len(queue') : queue'[i] = t
  <2>1. j - 1 \in 1..(Len(queue) - 1) /\ (j - 1) + 1 = j
    BY <1>1, <1>5
  <2>2. queue'[j - 1] = t
    BY <1>1, <1>5, <2>1
  <2> QED  BY <1>1, <2>1, <2>2
<1> QED  BY <1>2, <1>3, <1>4, <1>5

LEMMA QueuedAppend ==
    ASSUME TypeOK, NEW u \in Tasks, queue' = Append(queue, u), qpc # "pop", qpc' # "pop", NEW t
    PROVE  Queued(t)' <=> Queued(t) \/ u = t
<1>1. /\ Len(queue) \in Nat /\ Len(queue') = Len(queue) + 1 /\ queue'[Len(queue) + 1] = u
      /\ \A i \in 1..Len(queue) : queue'[i] = queue[i]
  <2>1. queue \in Seq(Tasks)
    BY DEF TypeOK
  <2> QED  BY <2>1
<1>2. Queued(t) <=> \E i \in 1..Len(queue) : queue[i] = t
  BY DEF Queued, InQueue, Handed
<1>3. Queued(t)' <=> \E i \in 1..Len(queue') : queue'[i] = t
  BY DEF Queued, InQueue, Handed
<1>4. \A i \in 1..Len(queue') : i \in 1..Len(queue) \/ i = Len(queue) + 1
  BY <1>1
<1>5. \A i \in 1..Len(queue) : i \in 1..Len(queue')
  BY <1>1
<1>6. Len(queue) + 1 \in 1..Len(queue')
  BY <1>1
<1>7. (\E i \in 1..Len(queue') : queue'[i] = t) <=> (\E i \in 1..Len(queue) : queue[i] = t) \/ u = t
  BY <1>1, <1>4, <1>5, <1>6
<1> QED  BY <1>2, <1>3, <1>7

LEMMA CursorBelow ==
    ASSUME IInv
    PROVE  \A c \in Callers : pc[c] \in {"signal", "join"} => 1..(cur[c] - 1) \subseteq Managers
<1> SUFFICES ASSUME NEW c \in Callers, pc[c] \in {"signal", "join"}
             PROVE  1..(cur[c] - 1) \subseteq Managers
  OBVIOUS
<1> QED  BY CursorInside, PoolAssumption DEF Managers

\* The manager that assign() has found idle is still idle and goes on.
LEMMA AssignReady ==
    ASSUME IInv, qpc = "assign"
    PROVE  /\ qcur \in Managers /\ size = PoolSize
           /\ go /\ owner = QueueThread /\ queue # <<>>
           /\ slot[qcur] = None /\ tmGo[qcur]
           /\ wpc[qcur] \notin {"unborn", "stopped", "joined"}
<1>1. qcur \in 1..PoolSize + 1 /\ qcur <= size /\ size \in {0, PoolSize}
  BY DEF IInv, TypeOK, ScanInv
<1>2. qcur \in Managers /\ size = PoolSize
  BY <1>1, PoolAssumption DEF Managers
<1>3. go /\ queue # <<>> /\ slot[qcur] = None /\ wpc[qcur] \notin {"unborn", "joined"}
  BY DEF IInv, ScanInv, IsIdle, IsAlive
<1>4. tmGo[qcur] /\ wpc[qcur] # "stopped"
  BY <1>2, <1>3 DEF IInv, StopInv, TmShape
<1>5. owner = QueueThread
  BY DEF IInv, LockInv, QueueInside
<1> QED  BY <1>2, <1>3, <1>4, <1>5

\* What assign() does: set_task() never refuses the task.
AssignEffect ==
    /\ qpc' = "pop"
    /\ slot' = [slot EXCEPT ![qcur] = queue[1]]
    /\ wpc' \in [Managers -> WorkerStates]
    /\ wpc[qcur] \in {"start", "waiting", "woken"}
    /\ wpc'[qcur] \in {"start", "waiting", "woken"}
    /\ \A m \in Managers : wpc'[m] = wpc[m] \/ (wpc[m] = "waiting" /\ wpc'[m] = "woken")
    /\ UNCHANGED <<tmGo, runs, deletes, owner, queue, go, qcur, size, gone, pc, op, cur, hand,
                   answer, calls, submitted, pushed>>

LEMMA AssignSets ==
    ASSUME IInv, QueueAssign
    PROVE  AssignEffect
<1>1. qpc = "assign" /\ TmFree(qcur)
  BY DEF QueueAssign
<1>2. slot[qcur] = None /\ qcur \in Managers /\ Head(queue) = queue[1]
      /\ wpc[qcur] \notin {"unborn", "stopped", "joined"}
  BY <1>1, AssignReady, FrontOf DEF IInv
<1>3. SetTask(qcur, queue[1]) /\ qpc' = "pop" /\ UNCHANGED qcur
      /\ UNCHANGED <<owner, queue, go>> /\ QueueUnchanged
  BY <1>2 DEF QueueAssign
<1>4. slot' = [slot EXCEPT ![qcur] = queue[1]] /\ wpc' = Notified(qcur) /\ UNCHANGED <<tmGo, runs, deletes>>
  BY <1>3 DEF SetTask
<1>5. wpc \in [Managers -> WorkerStates] /\ wpc[qcur] \in {"start", "waiting", "woken"}
  BY <1>1, <1>2 DEF IInv, TypeOK, TmTypeOK, TmFree, WorkerStates
<1>6. /\ wpc' \in [Managers -> WorkerStates]
      /\ wpc'[qcur] \in {"start", "waiting", "woken"}
      /\ \A m \in Managers : wpc'[m] = wpc[m] \/ (wpc[m] = "waiting" /\ wpc'[m] = "woken")
  BY <1>2, <1>4, <1>5 DEF Notified, WorkerStates
<1> QED  BY <1>3, <1>4, <1>5, <1>6 DEF AssignEffect, QueueUnchanged, callVars

\* Every step keeps the types.
LEMMA TypeStep == IInv /\ [Next]_vars => TypeOK'
<1> SUFFICES ASSUME IInv, [Next]_vars PROVE TypeOK'
  OBVIOUS
<1>1. ASSUME NEW m \in Managers, WorkerStep(m) \/ WorkerSpurious(m),
             UNCHANGED <<owner, queueVars>>, QueueUnchanged
      PROVE  TypeOK'
  <2>1. CASE WorkerLock(m)
    BY <1>1, <2>1
       DEF WorkerLock, IInv, TypeOK, TmTypeOK, WorkerStates, queueVars, callVars,
           QueueUnchanged
  <2>2. CASE WorkerRun(m)
    BY <1>1, <2>2
       DEF WorkerRun, IInv, TypeOK, TmTypeOK, WorkerStates, queueVars, callVars,
           QueueUnchanged
  <2>3. CASE WorkerFinish(m)
    <3>1. slot[m] \in Tasks
      BY <2>3 DEF WorkerFinish, IInv, TypeOK, TmTypeOK, TmShape
    <3> QED  BY <1>1, <2>3, <3>1
        DEF WorkerFinish, IInv, TypeOK, TmTypeOK, WorkerStates, queueVars, callVars, QueueUnchanged
  <2>4. CASE WorkerWait(m)
    BY <1>1, <2>4
       DEF WorkerWait, IInv, TypeOK, TmTypeOK, WorkerStates, queueVars, callVars,
           QueueUnchanged
  <2>5. CASE WorkerExit(m)
    BY <1>1, <2>5
       DEF WorkerExit, IInv, TypeOK, TmTypeOK, WorkerStates, queueVars, callVars,
           QueueUnchanged
  <2>6. CASE WorkerSpurious(m)
    BY <1>1, <2>6
       DEF WorkerSpurious, IInv, TypeOK, TmTypeOK, WorkerStates, queueVars, callVars,
           QueueUnchanged
  <2> QED  BY <1>1, <2>1, <2>2, <2>3, <2>4, <2>5, <2>6 DEF WorkerStep
<1>2. ASSUME NEW m \in Managers, IdleNotification(m) PROVE TypeOK'
  BY <1>2
     DEF IdleNotification, WorkerNotify, QueueNotified, IInv, TypeOK, TmTypeOK,
         WorkerStates, QueueStates, callVars, QueueUnchanged
<1>3. CASE Queue
  <2>1. CASE QueueLock
    BY <2>1
       DEF QueueLock, IInv, TypeOK, TmTypeOK, QueueStates, tmVars, callVars,
           QueueUnchanged
  <2>2. CASE QueueFront
    BY PoolAssumption, <2>2
       DEF QueueFront, IInv, TypeOK, TmTypeOK, QueueStates, tmVars, callVars,
           QueueUnchanged
  <2>3. CASE QueueProbe
    BY <2>3
       DEF QueueProbe, IInv, TypeOK, TmTypeOK, QueueStates, tmVars, callVars,
           QueueUnchanged
  <2>4. CASE QueueAssign
    <3>1. AssignEffect /\ queue[1] \in Tasks /\ TypeOK
      BY <2>4, AssignSets, AssignReady, FrontOf DEF QueueAssign, IInv
    <3> QED  BY <3>1 DEF AssignEffect, TypeOK, TmTypeOK, QueueStates
  <2>5. CASE QueuePop
    <3>1. Tail(queue) \in Seq(Tasks) /\ TypeOK
      BY <2>5, FrontOf DEF QueuePop, IInv, ScanInv
    <3> QED  BY <2>5, <3>1
         DEF QueuePop, TypeOK, TmTypeOK, QueueStates, tmVars, callVars, QueueUnchanged
  <2>6. CASE QueueWait
    BY <2>6
       DEF QueueWait, IInv, TypeOK, TmTypeOK, QueueStates, tmVars, callVars,
           QueueUnchanged
  <2>7. CASE QueueExit
    BY <2>7
       DEF QueueExit, IInv, TypeOK, TmTypeOK, QueueStates, tmVars, callVars,
           QueueUnchanged
  <2> QED  BY <1>3, <2>1, <2>2, <2>3, <2>4, <2>5, <2>6, <2>7 DEF Queue
<1>4. CASE QueueSpurious
  BY <1>4
     DEF QueueSpurious, IInv, TypeOK, TmTypeOK, QueueStates, tmVars, callVars,
         QueueUnchanged
<1>5. ASSUME NEW c \in Callers, Caller(c) PROVE TypeOK'
  <2>1. CASE Execute(c)
    <3>1. hand[c] \in Tasks /\ TypeOK
      BY <2>1 DEF Execute, IInv, CallInv, TypeOK
    <3>2. Append(queue, hand[c]) \in Seq(Tasks) /\ Append(pushed, hand[c]) \in Seq(Tasks)
      BY <3>1 DEF TypeOK
    <3>3. qpc' \in QueueStates /\ hand' \in [Callers -> Tasks \cup {None}] /\ pc' \in [Callers -> CallerStates]
      BY <2>1, <3>1
         DEF Execute, QueueNotified, queueVars, TypeOK, QueueStates, CallerStates
    <3>4. TmTypeOK' /\ UNCHANGED <<go, qcur>>
      <4>1. CASE go
        BY <2>1, <3>1, <4>1 DEF Execute, TypeOK, TmTypeOK, tmVars
      <4>2. CASE ~go
        <5>1. deletes' = [deletes EXCEPT ![hand[c]] = @ + 1] /\ deletes \in [Tasks -> Nat]
          BY <2>1, <3>1, <4>2 DEF Execute, DeleteTask, TypeOK, TmTypeOK
        <5>2. deletes' \in [Tasks -> Nat]
          BY <3>1, <5>1
        <5> QED  BY <2>1, <3>1, <4>2, <5>2
             DEF Execute, DeleteTask, TypeOK, TmTypeOK, queueVars
      <4> QED  BY <4>1, <4>2
    <3>5. queue' \in Seq(Tasks) /\ pushed' \in Seq(Tasks)
      BY <2>1, <3>1, <3>2 DEF Execute, TypeOK, queueVars
    <3> QED  BY <2>1, <3>1, <3>3, <3>4, <3>5 DEF Execute, TypeOK
  <2>2. CASE QueryEnter(c)
    BY PoolAssumption, <2>2
       DEF QueryEnter, IInv, TypeOK, TmTypeOK, CallerStates, tmVars, queueVars
  <2>3. CASE QueryProbe(c)
    <3>1. cur[c] + 1 \in 1..PoolSize + 1 /\ TypeOK
      BY <2>3, CursorInside DEF QueryProbe, IInv
    <3>2. /\ cur' \in [Callers -> 1..PoolSize + 1]
          /\ pc' \in [Callers -> CallerStates]
          /\ answer' \in [Callers -> BOOLEAN]
      BY <2>3, <3>1 DEF QueryProbe, TypeOK, CallerStates
    <3> QED  BY <2>3, <3>1, <3>2 DEF QueryProbe, TypeOK, TmTypeOK, tmVars, queueVars
  <2>4. CASE QueryReturn(c)
    BY <2>4 DEF QueryReturn, IInv, TypeOK, TmTypeOK, CallerStates, tmVars, queueVars
  <2>5. CASE TerminateEnter(c)
    <3>1. /\ qpc' \in QueueStates /\ pc' \in [Callers -> CallerStates]
          /\ cur' \in [Callers -> 1..PoolSize + 1] /\ TypeOK
      BY <2>5, PoolAssumption
         DEF TerminateEnter, QueueNotified, IInv, TypeOK, QueueStates, CallerStates
    <3> QED  BY <2>5, <3>1 DEF TerminateEnter, TypeOK, TmTypeOK, tmVars
  <2>6. CASE TerminateStop(c)
    <3>1. cur[c] + 1 \in 1..PoolSize + 1 /\ 1 \in 1..PoolSize + 1 /\ TypeOK
      BY <2>6, CursorInside, PoolAssumption DEF TerminateStop, IInv
    <3>2. cur' \in [Callers -> 1..PoolSize + 1] /\ pc' \in [Callers -> CallerStates]
      BY <2>6, <3>1 DEF TerminateStop, TypeOK, CallerStates
    <3> QED  BY <2>6, <3>1, <3>2
         DEF TerminateStop, StopManager, TypeOK, TmTypeOK, queueVars
  <2>7. CASE TerminateSignal(c)
    BY <2>7
       DEF TerminateSignal, SignalStop, Notified, IInv, TypeOK, TmTypeOK, WorkerStates,
           CallerStates, queueVars
  <2>8. CASE TerminateJoin(c)
    <3>1. cur[c] + 1 \in 1..PoolSize + 1 /\ TypeOK
      BY <2>8, CursorInside DEF TerminateJoin, IInv
    <3>2. cur' \in [Callers -> 1..PoolSize + 1] /\ pc' \in [Callers -> CallerStates]
      BY <2>8, <3>1 DEF TerminateJoin, TypeOK, CallerStates
    <3> QED  BY <2>8, <3>1, <3>2
         DEF TerminateJoin, JoinManager, TypeOK, TmTypeOK, WorkerStates, queueVars
  <2>9. CASE TerminateReturn(c)
    BY <2>9 DEF TerminateReturn, IInv, TypeOK, TmTypeOK, CallerStates, tmVars, queueVars
  <2>10. CASE DestroyJoin(c)
    BY <2>10 DEF DestroyJoin, IInv, TypeOK, TmTypeOK, QueueStates, CallerStates, tmVars
  <2>11. CASE DestroyEmpty(c)
    <3>1. TypeOK /\ pc' \in [Callers -> CallerStates]
      BY <2>11 DEF DestroyEmpty, IInv, TypeOK, CallerStates
    <3>2. CASE queue # <<>>
      <4>1. Head(queue) \in Tasks /\ Tail(queue) \in Seq(Tasks)
        BY <3>1, <3>2, FrontOf
      <4>2. deletes' \in [Tasks -> Nat]
        <5>1. deletes' = [deletes EXCEPT ![Head(queue)] = @ + 1] /\ deletes \in [Tasks -> Nat]
          BY <2>11, <3>1, <3>2 DEF DestroyEmpty, DeleteTask, TypeOK, TmTypeOK
        <5> QED  BY <4>1, <5>1
      <4> QED  BY <2>11, <3>1, <3>2, <4>1, <4>2
           DEF DestroyEmpty, DeleteTask, TypeOK, TmTypeOK
    <3>3. CASE queue = <<>>
      BY <2>11, <3>1, <3>3 DEF DestroyEmpty, TypeOK, TmTypeOK, tmVars
    <3> QED  BY <3>2, <3>3
  <2> QED
    BY <1>5, <2>1, <2>2, <2>3, <2>4, <2>5, <2>6, <2>7, <2>8, <2>9, <2>10, <2>11
    DEF Caller
<1>6. ASSUME NEW c \in Callers, NewCall(c) PROVE TypeOK'
  <2>1. ASSUME NEW t \in Tasks, CallExecute(c, t) PROVE TypeOK'
    <3>1. TypeOK /\ calls[c] + 1 \in 0..MaxCalls
      BY <2>1, CallerAssumption DEF CallExecute, Begin, IInv, TypeOK
    <3> QED  BY <2>1, <3>1
        DEF CallExecute, Begin, TypeOK, TmTypeOK, CallerStates, Operations, tmVars, queueVars
  <2>2. ASSUME NEW o \in {"is_idle", "is_busy", "terminate"}, Call(c, o) PROVE TypeOK'
    <3>1. TypeOK /\ calls[c] + 1 \in 0..MaxCalls
      BY <2>2, CallerAssumption DEF Call, Begin, IInv, TypeOK
    <3> QED  BY <2>2, <3>1
        DEF Call, Begin, TypeOK, TmTypeOK, CallerStates, Operations, tmVars, queueVars
  <2>3. CASE CallDestroy(c)
    <3>1. TypeOK /\ calls[c] + 1 \in 0..MaxCalls
      BY <2>3, CallerAssumption DEF CallDestroy, Begin, IInv, TypeOK
    <3> QED  BY <2>3, <3>1
        DEF CallDestroy, Begin, TypeOK, TmTypeOK, CallerStates, Operations, tmVars, queueVars
  <2> QED  BY <1>6, <2>1, <2>2, <2>3 DEF NewCall
<1>7. CASE UNCHANGED vars
  BY <1>7 DEF vars, IInv, TypeOK, TmTypeOK, tmVars, queueVars, callVars
<1> QED  BY <1>1, <1>2, <1>3, <1>4, <1>5, <1>6, <1>7 DEF Next, Worker, Spurious, Quiescent

\* Every step keeps the lock with one thread.
LEMMA LockStep == IInv /\ [Next]_vars => LockInv'
<1> SUFFICES ASSUME IInv, [Next]_vars PROVE LockInv'
  OBVIOUS
<1>1. ASSUME NEW m \in Managers, WorkerStep(m) \/ WorkerSpurious(m),
             UNCHANGED <<owner, queueVars>>, QueueUnchanged
      PROVE  LockInv'
  <2>1. CASE WorkerLock(m)
    BY <1>1, <2>1
       DEF WorkerLock, IInv, LockInv, Inside, Stopping, QueueInside, queueVars, callVars,
           QueueUnchanged
  <2>2. CASE WorkerRun(m)
    BY <1>1, <2>2
       DEF WorkerRun, IInv, LockInv, Inside, Stopping, QueueInside, queueVars, callVars,
           QueueUnchanged
  <2>3. CASE WorkerFinish(m)
    BY <1>1, <2>3
       DEF WorkerFinish, IInv, LockInv, Inside, Stopping, QueueInside, queueVars,
           callVars, QueueUnchanged
  <2>4. CASE WorkerWait(m)
    BY <1>1, <2>4
       DEF WorkerWait, IInv, LockInv, Inside, Stopping, QueueInside, queueVars, callVars,
           QueueUnchanged
  <2>5. CASE WorkerExit(m)
    BY <1>1, <2>5
       DEF WorkerExit, IInv, LockInv, Inside, Stopping, QueueInside, queueVars, callVars,
           QueueUnchanged
  <2>6. CASE WorkerSpurious(m)
    BY <1>1, <2>6
       DEF WorkerSpurious, IInv, LockInv, Inside, Stopping, QueueInside, queueVars,
           callVars, QueueUnchanged
  <2> QED  BY <1>1, <2>1, <2>2, <2>3, <2>4, <2>5, <2>6 DEF WorkerStep
<1>2. ASSUME NEW m \in Managers, IdleNotification(m) PROVE LockInv'
  BY <1>2
     DEF IdleNotification, WorkerNotify, QueueNotified, IInv, LockInv, Inside, Stopping,
         QueueInside, callVars, QueueUnchanged
<1>3. CASE Queue
  <2>1. CASE QueueLock
    BY CallerAssumption, <2>1
       DEF QueueLock, IInv, LockInv, Inside, Stopping, QueueInside, callVars,
           QueueUnchanged
  <2>2. CASE QueueFront
    BY <2>2
       DEF QueueFront, IInv, LockInv, Inside, Stopping, QueueInside, callVars,
           QueueUnchanged
  <2>3. CASE QueueProbe
    BY <2>3
       DEF QueueProbe, IInv, LockInv, Inside, Stopping, QueueInside, callVars,
           QueueUnchanged
  <2>4. CASE QueueAssign
    BY <2>4
       DEF QueueAssign, SetTask, Notified, IInv, LockInv, Inside, Stopping, QueueInside,
           callVars, QueueUnchanged
  <2>5. CASE QueuePop
    BY <2>5
       DEF QueuePop, IInv, LockInv, Inside, Stopping, QueueInside, callVars,
           QueueUnchanged
  <2>6. CASE QueueWait
    BY CallerAssumption, <2>6
       DEF QueueWait, IInv, LockInv, Inside, Stopping, QueueInside, callVars,
           QueueUnchanged
  <2>7. CASE QueueExit
    BY CallerAssumption, <2>7
       DEF QueueExit, IInv, LockInv, Inside, Stopping, QueueInside, callVars,
           QueueUnchanged
  <2> QED  BY <1>3, <2>1, <2>2, <2>3, <2>4, <2>5, <2>6, <2>7 DEF Queue
<1>4. CASE QueueSpurious
  BY <1>4
     DEF QueueSpurious, IInv, LockInv, Inside, Stopping, QueueInside, callVars,
         QueueUnchanged
<1>5. ASSUME NEW c \in Callers, Caller(c) PROVE LockInv'
  <2>1. CASE Execute(c)
    BY <2>1
       DEF Execute, QueueNotified, DeleteTask, IInv, LockInv, Inside, Stopping,
           QueueInside, queueVars
  <2>2. CASE QueryEnter(c)
    BY CallerAssumption, <2>2
       DEF QueryEnter, IInv, LockInv, Inside, Stopping, QueueInside, TypeOK, queueVars
  <2>3. CASE QueryProbe(c)
    BY <2>3
       DEF QueryProbe, IInv, LockInv, Inside, Stopping, QueueInside, TypeOK, queueVars
  <2>4. CASE QueryReturn(c)
    BY CallerAssumption, <2>4
       DEF QueryReturn, IInv, LockInv, Inside, Stopping, QueueInside, TypeOK, queueVars
  <2>5. CASE TerminateEnter(c)
    BY CallerAssumption, <2>5
       DEF TerminateEnter, QueueNotified, IInv, LockInv, Inside, Stopping, QueueInside,
           TypeOK
  <2>6. CASE TerminateStop(c)
    BY <2>6
       DEF TerminateStop, StopManager, IInv, LockInv, Inside, Stopping, QueueInside,
           TypeOK, queueVars
  <2>7. CASE TerminateSignal(c)
    BY <2>7
       DEF TerminateSignal, SignalStop, Notified, IInv, LockInv, Inside, Stopping,
           QueueInside, queueVars
  <2>8. CASE TerminateJoin(c)
    BY <2>8
       DEF TerminateJoin, JoinManager, IInv, LockInv, Inside, Stopping, QueueInside,
           queueVars
  <2>9. CASE TerminateReturn(c)
    BY CallerAssumption, <2>9
       DEF TerminateReturn, IInv, LockInv, Inside, Stopping, QueueInside, TypeOK,
           queueVars
  <2>10. CASE DestroyJoin(c)
    BY <2>10 DEF DestroyJoin, IInv, LockInv, Inside, Stopping, QueueInside, tmVars
  <2>11. CASE DestroyEmpty(c)
    BY <2>11
       DEF DestroyEmpty, DeleteTask, IInv, LockInv, Inside, Stopping, QueueInside, TypeOK
  <2> QED
    BY <1>5, <2>1, <2>2, <2>3, <2>4, <2>5, <2>6, <2>7, <2>8, <2>9, <2>10, <2>11
    DEF Caller
<1>6. ASSUME NEW c \in Callers, NewCall(c) PROVE LockInv'
  <2>1. ASSUME NEW t \in Tasks, CallExecute(c, t) PROVE LockInv'
    BY <2>1
       DEF CallExecute, Begin, IInv, LockInv, Inside, Stopping, QueueInside, queueVars
  <2>2. ASSUME NEW o \in {"is_idle", "is_busy", "terminate"}, Call(c, o) PROVE LockInv'
    BY <2>2 DEF Call, Begin, IInv, LockInv, Inside, Stopping, QueueInside, queueVars
  <2>3. CASE CallDestroy(c)
    BY <2>3
       DEF CallDestroy, Begin, IInv, LockInv, Inside, Stopping, QueueInside, queueVars
  <2> QED  BY <1>6, <2>1, <2>2, <2>3 DEF NewCall
<1>7. CASE UNCHANGED vars
  BY <1>7 DEF vars, IInv, LockInv, Inside, Stopping, QueueInside, queueVars, callVars
<1> QED  BY <1>1, <1>2, <1>3, <1>4, <1>5, <1>6, <1>7 DEF Next, Worker, Spurious, Quiescent

\* Every step keeps the calls consistent.
LEMMA CallStep == IInv /\ [Next]_vars => CallInv'
<1> SUFFICES ASSUME IInv, [Next]_vars PROVE CallInv'
  OBVIOUS
<1>1. ASSUME NEW m \in Managers, WorkerStep(m) \/ WorkerSpurious(m),
             UNCHANGED <<owner, queueVars>>, QueueUnchanged
      PROVE  CallInv'
  <2>1. CASE WorkerLock(m)
    BY <1>1, <2>1 DEF WorkerLock, IInv, CallInv, Stopping, callVars, QueueUnchanged
  <2>2. CASE WorkerRun(m)
    BY <1>1, <2>2 DEF WorkerRun, IInv, CallInv, Stopping, callVars, QueueUnchanged
  <2>3. CASE WorkerFinish(m)
    BY <1>1, <2>3 DEF WorkerFinish, IInv, CallInv, Stopping, callVars, QueueUnchanged
  <2>4. CASE WorkerWait(m)
    BY <1>1, <2>4 DEF WorkerWait, IInv, CallInv, Stopping, callVars, QueueUnchanged
  <2>5. CASE WorkerExit(m)
    BY <1>1, <2>5 DEF WorkerExit, IInv, CallInv, Stopping, callVars, QueueUnchanged
  <2>6. CASE WorkerSpurious(m)
    BY <1>1, <2>6 DEF WorkerSpurious, IInv, CallInv, Stopping, callVars, QueueUnchanged
  <2> QED  BY <1>1, <2>1, <2>2, <2>3, <2>4, <2>5, <2>6 DEF WorkerStep
<1>2. ASSUME NEW m \in Managers, IdleNotification(m) PROVE CallInv'
  BY <1>2
     DEF IdleNotification, WorkerNotify, QueueNotified, IInv, CallInv, Stopping, callVars,
         QueueUnchanged
<1>3. CASE Queue
  <2>1. CASE QueueLock
    BY <2>1 DEF QueueLock, IInv, CallInv, Stopping, tmVars, callVars, QueueUnchanged
  <2>2. CASE QueueFront
    BY <2>2 DEF QueueFront, IInv, CallInv, Stopping, tmVars, callVars, QueueUnchanged
  <2>3. CASE QueueProbe
    BY <2>3 DEF QueueProbe, IInv, CallInv, Stopping, tmVars, callVars, QueueUnchanged
  <2>4. CASE QueueAssign
    BY <2>4
       DEF QueueAssign, SetTask, Notified, IInv, CallInv, Stopping, callVars,
           QueueUnchanged
  <2>5. CASE QueuePop
    BY <2>5 DEF QueuePop, IInv, CallInv, Stopping, tmVars, callVars, QueueUnchanged
  <2>6. CASE QueueWait
    BY <2>6 DEF QueueWait, IInv, CallInv, Stopping, tmVars, callVars, QueueUnchanged
  <2>7. CASE QueueExit
    BY <2>7 DEF QueueExit, IInv, CallInv, Stopping, tmVars, callVars, QueueUnchanged
  <2> QED  BY <1>3, <2>1, <2>2, <2>3, <2>4, <2>5, <2>6, <2>7 DEF Queue
<1>4. CASE QueueSpurious
  BY <1>4 DEF QueueSpurious, IInv, CallInv, Stopping, callVars, QueueUnchanged
<1>5. ASSUME NEW c \in Callers, Caller(c) PROVE CallInv'
  <2>1. CASE Execute(c)
    BY <2>1 DEF Execute, QueueNotified, DeleteTask, IInv, CallInv, TypeOK, Stopping
  <2>2. CASE QueryEnter(c)
    BY <2>2 DEF QueryEnter, IInv, CallInv, Stopping, tmVars, queueVars
  <2>3. CASE QueryProbe(c)
    BY <2>3 DEF QueryProbe, IInv, CallInv, TypeOK, Stopping, tmVars, queueVars
  <2>4. CASE QueryReturn(c)
    BY <2>4 DEF QueryReturn, IInv, CallInv, Stopping, tmVars, queueVars
  <2>5. CASE TerminateEnter(c)
    BY <2>5 DEF TerminateEnter, QueueNotified, IInv, CallInv, Stopping, tmVars
  <2>6. CASE TerminateStop(c)
    BY <2>6 DEF TerminateStop, StopManager, IInv, CallInv, TypeOK, Stopping, tmVars
  <2>7. CASE TerminateSignal(c)
    BY <2>7 DEF TerminateSignal, SignalStop, Notified, IInv, CallInv, Stopping
  <2>8. CASE TerminateJoin(c)
    BY <2>8 DEF TerminateJoin, JoinManager, IInv, CallInv, Stopping, tmVars
  <2>9. CASE TerminateReturn(c)
    BY <2>9 DEF TerminateReturn, IInv, CallInv, Stopping, tmVars, queueVars
  <2>10. CASE DestroyJoin(c)
    BY <2>10 DEF DestroyJoin, IInv, CallInv, Stopping, tmVars, queueVars
  <2>11. CASE DestroyEmpty(c)
    BY <2>11 DEF DestroyEmpty, DeleteTask, IInv, CallInv, TypeOK, Stopping, tmVars
  <2> QED
    BY <1>5, <2>1, <2>2, <2>3, <2>4, <2>5, <2>6, <2>7, <2>8, <2>9, <2>10, <2>11
    DEF Caller
<1>6. ASSUME NEW c \in Callers, NewCall(c) PROVE CallInv'
  <2>1. ASSUME NEW t \in Tasks, CallExecute(c, t) PROVE CallInv'
    BY PoolAssumption, <2>1 DEF CallExecute, Begin, IInv, CallInv, TypeOK, Stopping
  <2>2. ASSUME NEW o \in {"is_idle", "is_busy", "terminate"}, Call(c, o) PROVE CallInv'
    BY <2>2 DEF Call, Begin, IInv, CallInv, TypeOK, Stopping, tmVars, queueVars
  <2>3. CASE CallDestroy(c)
    BY <2>3 DEF CallDestroy, Begin, IInv, CallInv, TypeOK, Stopping, tmVars
  <2> QED  BY <1>6, <2>1, <2>2, <2>3 DEF NewCall
<1>7. CASE UNCHANGED vars
  BY <1>7 DEF vars, IInv, CallInv, Stopping, tmVars, queueVars, callVars
<1> QED  BY <1>1, <1>2, <1>3, <1>4, <1>5, <1>6, <1>7 DEF Next, Worker, Spurious, Quiescent

\* Every step keeps what the scans have found.
LEMMA ScanStep == IInv /\ [Next]_vars => ScanInv'
<1> SUFFICES ASSUME IInv, [Next]_vars PROVE ScanInv'
  OBVIOUS
<1>1. ASSUME NEW m \in Managers, WorkerStep(m) \/ WorkerSpurious(m),
             UNCHANGED <<owner, queueVars>>, QueueUnchanged
      PROVE  ScanInv'
  <2>1. CASE WorkerLock(m)
    BY <1>1, <2>1
       DEF WorkerLock, IInv, ScanInv, LockInv, Inside, QueueInside, Stopping, IsIdle,
           IsAlive, queueVars, callVars, QueueUnchanged
  <2>2. CASE WorkerRun(m)
    BY <1>1, <2>2
       DEF WorkerRun, IInv, ScanInv, LockInv, Inside, QueueInside, Stopping, IsIdle,
           IsAlive, queueVars, callVars, QueueUnchanged
  <2>3. CASE WorkerFinish(m)
    BY <1>1, <2>3
       DEF WorkerFinish, IInv, ScanInv, LockInv, Inside, QueueInside, Stopping, IsIdle,
           IsAlive, queueVars, callVars, QueueUnchanged
  <2>4. CASE WorkerWait(m)
    BY <1>1, <2>4
       DEF WorkerWait, IInv, ScanInv, LockInv, Inside, QueueInside, Stopping, IsIdle,
           IsAlive, queueVars, callVars, QueueUnchanged
  <2>5. CASE WorkerExit(m)
    BY <1>1, <2>5
       DEF WorkerExit, IInv, ScanInv, LockInv, Inside, QueueInside, Stopping, IsIdle,
           IsAlive, queueVars, callVars, QueueUnchanged
  <2>6. CASE WorkerSpurious(m)
    BY <1>1, <2>6
       DEF WorkerSpurious, IInv, ScanInv, LockInv, Inside, QueueInside, Stopping, IsIdle,
           IsAlive, queueVars, callVars, QueueUnchanged
  <2> QED  BY <1>1, <2>1, <2>2, <2>3, <2>4, <2>5, <2>6 DEF WorkerStep
<1>2. ASSUME NEW m \in Managers, IdleNotification(m) PROVE ScanInv'
  BY <1>2
     DEF IdleNotification, WorkerNotify, QueueNotified, IInv, ScanInv, LockInv, Inside,
         QueueInside, Stopping, IsIdle, IsAlive, callVars, QueueUnchanged
<1>3. CASE Queue
  <2>1. CASE QueueLock
    BY <2>1
       DEF QueueLock, IInv, ScanInv, LockInv, Inside, QueueInside, Stopping, IsIdle,
           IsAlive, tmVars, callVars, QueueUnchanged
  <2>2. CASE QueueFront
    BY <2>2
       DEF QueueFront, IInv, ScanInv, LockInv, Inside, QueueInside, Stopping, IsIdle,
           IsAlive, callVars, QueueUnchanged
  <2>3. CASE QueueProbe
    BY <2>3
       DEF QueueProbe, IInv, ScanInv, LockInv, Inside, QueueInside, Stopping, IsIdle,
           IsAlive, tmVars, callVars, QueueUnchanged
  <2>4. CASE QueueAssign
    BY <2>4
       DEF QueueAssign, SetTask, Notified, IInv, ScanInv, LockInv, Inside, QueueInside,
           Stopping, IsIdle, IsAlive, callVars, QueueUnchanged
  <2>5. CASE QueuePop
    BY <2>5
       DEF QueuePop, IInv, ScanInv, LockInv, Inside, QueueInside, Stopping, IsIdle,
           IsAlive, callVars, QueueUnchanged
  <2>6. CASE QueueWait
    BY <2>6
       DEF QueueWait, IInv, ScanInv, LockInv, Inside, QueueInside, Stopping, IsIdle,
           IsAlive, tmVars, callVars, QueueUnchanged
  <2>7. CASE QueueExit
    BY <2>7
       DEF QueueExit, IInv, ScanInv, LockInv, Inside, QueueInside, Stopping, IsIdle,
           IsAlive, tmVars, callVars, QueueUnchanged
  <2> QED  BY <1>3, <2>1, <2>2, <2>3, <2>4, <2>5, <2>6, <2>7 DEF Queue
<1>4. CASE QueueSpurious
  BY <1>4
     DEF QueueSpurious, IInv, ScanInv, LockInv, Inside, QueueInside, Stopping, IsIdle,
         IsAlive, tmVars, callVars, QueueUnchanged
<1>5. ASSUME NEW c \in Callers, Caller(c) PROVE ScanInv'
  <2>1. CASE Execute(c)
    <3>1. ScanInv /\ TypeOK /\ qpc \notin QueueInside /\ \A d \in Callers : pc[d] \notin Inside
      BY <2>1, NobodyInside DEF Execute, IInv
    <3>2. qpc' \notin QueueInside /\ \A d \in Callers : pc'[d] # "probe"
      BY <2>1, <3>1 DEF Execute, QueueNotified, queueVars, Inside, QueueInside
    <3> QED  BY <3>2 DEF ScanInv, QueueInside
  <2>2. CASE QueryEnter(c)
    <3>1. ScanInv /\ TypeOK /\ qpc \notin QueueInside /\ \A d \in Callers : pc[d] \notin Inside
      BY <2>2, NobodyInside DEF QueryEnter, IInv
    <3>2. /\ qpc' = qpc /\ queue' = queue /\ size' = size /\ op' = op /\ cur'[c] = 1
          /\ answer'[c] = (op[c] = "is_busy")
          /\ pc'[c] = "probe" => queue = <<>> /\ size > 0
          /\ \A d \in Callers \ {c} : pc'[d] # "probe"
      BY <2>2, <3>1 DEF QueryEnter, queueVars, TypeOK, Inside
    <3>3. pc'[c] = "probe" => 1 <= size
      BY <3>1, <3>2, PoolAssumption DEF TypeOK
    <3>4. 1..(cur'[c] - 1) = {}
      BY <3>2
    <3> QED  BY <3>1, <3>2, <3>3, <3>4 DEF ScanInv, QueueInside
  <2>3. CASE QueryProbe(c)
    <3>1. /\ ScanInv /\ TypeOK /\ qpc \notin QueueInside /\ \A d \in Callers \ {c} : pc[d] \notin Inside
          /\ pc[c] = "probe" /\ cur[c] \in Managers /\ size = PoolSize
      BY <2>3, Exclusive, CursorInside DEF QueryProbe, IInv, Inside
    <3>2. /\ UNCHANGED <<wpc, slot, queue, qpc, size, op>>
          /\ \A d \in Callers \ {c} : pc'[d] # "probe"
      BY <2>3, <3>1 DEF QueryProbe, tmVars, queueVars, TypeOK, Inside
    <3>3. CASE IsIdle(cur[c]) /\ cur[c] < size
      <4>1. cur'[c] = cur[c] + 1 /\ pc' = pc /\ answer' = answer
        BY <2>3, <3>1, <3>3 DEF QueryProbe, TypeOK
      <4>2. cur'[c] <= size
        BY <3>1, <3>3, <4>1, PoolAssumption DEF Managers
      <4>3. \A m \in 1..(cur'[c] - 1) : m \in 1..(cur[c] - 1) \/ m = cur[c]
        BY <3>1, <4>1, PoolAssumption DEF Managers
      <4>4. \A m \in 1..(cur'[c] - 1) : IsIdle(m)
        BY <3>1, <3>3, <4>3 DEF ScanInv
      <4> QED  BY <3>1, <3>2, <4>1, <4>2, <4>4 DEF ScanInv, QueueInside, IsIdle, IsAlive
    <3>4. CASE ~(IsIdle(cur[c]) /\ cur[c] < size)
      <4>1. pc'[c] = "answer"
        BY <2>3, <3>4 DEF QueryProbe, IInv, TypeOK
      <4> QED  BY <3>1, <3>2, <4>1 DEF ScanInv, QueueInside
    <3> QED  BY <3>3, <3>4
  <2>4. CASE QueryReturn(c)
    BY <2>4
       DEF QueryReturn, IInv, ScanInv, LockInv, Inside, QueueInside, Stopping, IsIdle,
           IsAlive, tmVars, queueVars
  <2>5. CASE TerminateEnter(c)
    <3>1. ScanInv /\ TypeOK /\ qpc \notin QueueInside /\ \A d \in Callers : pc[d] \notin Inside
      BY <2>5, NobodyInside DEF TerminateEnter, IInv
    <3>2. qpc' \notin QueueInside /\ \A d \in Callers : pc'[d] # "probe"
      BY <2>5, <3>1 DEF TerminateEnter, QueueNotified, TypeOK, Inside, QueueInside
    <3> QED  BY <3>2 DEF ScanInv, QueueInside
  <2>6. CASE TerminateStop(c)
    <3>1. TypeOK /\ pc[c] = "stop" /\ qpc \notin QueueInside /\ \A d \in Callers \ {c} : pc[d] \notin Inside
      BY <2>6, Exclusive DEF TerminateStop, IInv, Inside, Stopping
    <3>2. qpc' \notin QueueInside /\ \A d \in Callers : pc'[d] # "probe"
      BY <2>6, <3>1 DEF TerminateStop, queueVars, TypeOK, Inside
    <3> QED  BY <3>2 DEF ScanInv, QueueInside
  <2>7. CASE TerminateSignal(c)
    BY <2>7
       DEF TerminateSignal, SignalStop, Notified, IInv, ScanInv, LockInv, Inside,
           QueueInside, Stopping, IsIdle, IsAlive, queueVars
  <2>8. CASE TerminateJoin(c)
    <3>1. TypeOK /\ pc[c] = "join" /\ qpc \notin QueueInside /\ \A d \in Callers \ {c} : pc[d] \notin Inside
      BY <2>8, Exclusive DEF TerminateJoin, IInv, Inside, Stopping
    <3>2. qpc' \notin QueueInside /\ \A d \in Callers : pc'[d] # "probe"
      BY <2>8, <3>1 DEF TerminateJoin, queueVars, TypeOK, Inside
    <3> QED  BY <3>2 DEF ScanInv, QueueInside
  <2>9. CASE TerminateReturn(c)
    <3>1. TypeOK /\ pc[c] = "clear" /\ qpc \notin QueueInside /\ \A d \in Callers \ {c} : pc[d] \notin Inside
      BY <2>9, Exclusive DEF TerminateReturn, IInv, Inside, Stopping
    <3>2. qpc' \notin QueueInside /\ \A d \in Callers : pc'[d] # "probe"
      BY <2>9, <3>1 DEF TerminateReturn, queueVars, TypeOK, Inside
    <3> QED  BY <3>2 DEF ScanInv, QueueInside
  <2>10. CASE DestroyJoin(c)
    BY <2>10
       DEF DestroyJoin, IInv, ScanInv, LockInv, Inside, QueueInside, Stopping, IsIdle,
           IsAlive, tmVars
  <2>11. CASE DestroyEmpty(c)
    <3>1. TypeOK /\ qpc \notin QueueInside /\ \A d \in Callers : pc[d] \notin Inside
      BY <2>11, NobodyInside DEF DestroyEmpty, IInv
    <3>2. qpc' \notin QueueInside /\ \A d \in Callers : pc'[d] # "probe"
      BY <2>11, <3>1 DEF DestroyEmpty, TypeOK, Inside
    <3> QED  BY <3>2 DEF ScanInv, QueueInside
  <2> QED
    BY <1>5, <2>1, <2>2, <2>3, <2>4, <2>5, <2>6, <2>7, <2>8, <2>9, <2>10, <2>11
    DEF Caller
<1>6. ASSUME NEW c \in Callers, NewCall(c) PROVE ScanInv'
  <2>1. ASSUME NEW t \in Tasks, CallExecute(c, t) PROVE ScanInv'
    BY <2>1
       DEF CallExecute, Begin, IInv, ScanInv, LockInv, Inside, QueueInside, Stopping,
           IsIdle, IsAlive, tmVars, queueVars
  <2>2. ASSUME NEW o \in {"is_idle", "is_busy", "terminate"}, Call(c, o) PROVE ScanInv'
    BY <2>2
       DEF Call, Begin, IInv, ScanInv, LockInv, Inside, QueueInside, Stopping, IsIdle,
           IsAlive, tmVars, queueVars
  <2>3. CASE CallDestroy(c)
    BY <2>3
       DEF CallDestroy, Begin, IInv, ScanInv, LockInv, Inside, QueueInside, Stopping,
           IsIdle, IsAlive, tmVars, queueVars
  <2> QED  BY <1>6, <2>1, <2>2, <2>3 DEF NewCall
<1>7. CASE UNCHANGED vars
  BY <1>7
     DEF vars, IInv, ScanInv, LockInv, Inside, QueueInside, Stopping, IsIdle, IsAlive,
         tmVars, queueVars, callVars
<1> QED  BY <1>1, <1>2, <1>3, <1>4, <1>5, <1>6, <1>7 DEF Next, Worker, Spurious, Quiescent

\* Every step keeps the shape of the managers.
LEMMA ShapeStep == IInv /\ [Next]_vars => TmShape'
<1> SUFFICES ASSUME IInv, [Next]_vars PROVE TmShape'
  OBVIOUS
<1>1. ASSUME NEW m \in Managers, WorkerStep(m) \/ WorkerSpurious(m),
             UNCHANGED <<owner, queueVars>>, QueueUnchanged
      PROVE  TmShape'
  <2>1. CASE WorkerLock(m)
    BY <1>1, <2>1 DEF WorkerLock, IInv, TmShape, queueVars, callVars, QueueUnchanged
  <2>2. CASE WorkerRun(m)
    BY <1>1, <2>2 DEF WorkerRun, IInv, TmShape, queueVars, callVars, QueueUnchanged
  <2>3. CASE WorkerFinish(m)
    BY <1>1, <2>3 DEF WorkerFinish, IInv, TmShape, TypeOK, TmTypeOK, QueueUnchanged
  <2>4. CASE WorkerWait(m)
    BY <1>1, <2>4 DEF WorkerWait, IInv, TmShape, queueVars, callVars, QueueUnchanged
  <2>5. CASE WorkerExit(m)
    BY <1>1, <2>5 DEF WorkerExit, IInv, TmShape, TypeOK, TmTypeOK, QueueUnchanged
  <2>6. CASE WorkerSpurious(m)
    BY <1>1, <2>6 DEF WorkerSpurious, IInv, TmShape, callVars, QueueUnchanged
  <2> QED  BY <1>1, <2>1, <2>2, <2>3, <2>4, <2>5, <2>6 DEF WorkerStep
<1>2. ASSUME NEW m \in Managers, IdleNotification(m) PROVE TmShape'
  BY <1>2 DEF IdleNotification, WorkerNotify, QueueNotified, IInv, TmShape
<1>3. CASE Queue
  <2>1. CASE QueueLock
    BY <2>1 DEF QueueLock, IInv, TmShape, TypeOK, tmVars, callVars, QueueUnchanged
  <2>2. CASE QueueFront
    BY <2>2 DEF QueueFront, IInv, TmShape, TypeOK, tmVars, callVars, QueueUnchanged
  <2>3. CASE QueueProbe
    BY <2>3 DEF QueueProbe, IInv, TmShape, TypeOK, tmVars, callVars, QueueUnchanged
  <2>4. CASE QueueAssign
    <3>1. AssignEffect /\ TmShape /\ slot \in [Managers -> Tasks \cup {None}] /\ queue[1] # None
      BY <2>4, AssignSets, AssignReady, FrontOf, PoolAssumption
         DEF QueueAssign, IInv, TypeOK, TmTypeOK
    <3> QED  BY <3>1 DEF AssignEffect, TmShape
  <2>5. CASE QueuePop
    BY <2>5 DEF QueuePop, IInv, TmShape, TypeOK, tmVars, callVars, QueueUnchanged
  <2>6. CASE QueueWait
    BY <2>6 DEF QueueWait, IInv, TmShape, TypeOK, tmVars, callVars, QueueUnchanged
  <2>7. CASE QueueExit
    BY <2>7 DEF QueueExit, IInv, TmShape, TypeOK, tmVars, callVars, QueueUnchanged
  <2> QED  BY <1>3, <2>1, <2>2, <2>3, <2>4, <2>5, <2>6, <2>7 DEF Queue
<1>4. CASE QueueSpurious
  BY <1>4 DEF QueueSpurious, IInv, TmShape, TypeOK, tmVars, callVars, QueueUnchanged
<1>5. ASSUME NEW c \in Callers, Caller(c) PROVE TmShape'
  <2>1. CASE Execute(c)
    BY <2>1 DEF Execute, QueueNotified, DeleteTask, IInv, TmShape, tmVars, queueVars
  <2>2. CASE QueryEnter(c)
    BY <2>2 DEF QueryEnter, IInv, TmShape, TypeOK, TmTypeOK, tmVars, queueVars
  <2>3. CASE QueryProbe(c)
    BY <2>3 DEF QueryProbe, IInv, TmShape, TypeOK, TmTypeOK, tmVars, queueVars
  <2>4. CASE QueryReturn(c)
    BY <2>4 DEF QueryReturn, IInv, TmShape, TypeOK, TmTypeOK, tmVars, queueVars
  <2>5. CASE TerminateEnter(c)
    BY <2>5 DEF TerminateEnter, QueueNotified, IInv, TmShape, tmVars, queueVars
  <2>6. CASE TerminateStop(c)
    BY <2>6 DEF TerminateStop, StopManager, IInv, TmShape, TypeOK, tmVars, queueVars
  <2>7. CASE TerminateSignal(c)
    BY <2>7 DEF TerminateSignal, SignalStop, Notified, IInv, TmShape, tmVars
  <2>8. CASE TerminateJoin(c)
    <3>1. cur[c] \in Managers /\ ~tmGo[cur[c]] /\ TmShape /\ TypeOK
      BY <2>8, CursorInside DEF TerminateJoin, IInv, StopInv
    <3> QED  BY <2>8, <3>1 DEF TerminateJoin, JoinManager, TmShape, TypeOK, TmTypeOK
  <2>9. CASE TerminateReturn(c)
    BY <2>9 DEF TerminateReturn, IInv, TmShape, TypeOK, TmTypeOK, tmVars, queueVars
  <2>10. CASE DestroyJoin(c)
    BY <2>10 DEF DestroyJoin, IInv, TmShape, TypeOK, TmTypeOK, tmVars, queueVars
  <2>11. CASE DestroyEmpty(c)
    BY <2>11 DEF DestroyEmpty, DeleteTask, IInv, TmShape, TypeOK, tmVars, queueVars
  <2> QED
    BY <1>5, <2>1, <2>2, <2>3, <2>4, <2>5, <2>6, <2>7, <2>8, <2>9, <2>10, <2>11
    DEF Caller
<1>6. ASSUME NEW c \in Callers, NewCall(c) PROVE TmShape'
  <2>1. ASSUME NEW t \in Tasks, CallExecute(c, t) PROVE TmShape'
    BY <2>1 DEF CallExecute, Begin, IInv, TmShape, TypeOK, tmVars, queueVars
  <2>2. ASSUME NEW o \in {"is_idle", "is_busy", "terminate"}, Call(c, o) PROVE TmShape'
    BY <2>2 DEF Call, Begin, IInv, TmShape, TypeOK, TmTypeOK, tmVars, queueVars
  <2>3. CASE CallDestroy(c)
    BY <2>3 DEF CallDestroy, Begin, IInv, TmShape, TypeOK, tmVars, queueVars
  <2> QED  BY <1>6, <2>1, <2>2, <2>3 DEF NewCall
<1>7. CASE UNCHANGED vars
  BY <1>7 DEF vars, IInv, TmShape, TypeOK, TmTypeOK, tmVars, queueVars, callVars
<1> QED  BY <1>1, <1>2, <1>3, <1>4, <1>5, <1>6, <1>7 DEF Next, Worker, Spurious, Quiescent

\* Every step keeps the order of stopping and freeing.
LEMMA StopStep == IInv /\ [Next]_vars => StopInv'
<1> SUFFICES ASSUME IInv, [Next]_vars PROVE StopInv'
  OBVIOUS
<1>1. ASSUME NEW m \in Managers, WorkerStep(m) \/ WorkerSpurious(m),
             UNCHANGED <<owner, queueVars>>, QueueUnchanged
      PROVE  StopInv'
  <2>1. CASE WorkerLock(m)
    BY <1>1, <2>1
       DEF WorkerLock, IInv, StopInv, LockInv, Inside, Stopping, queueVars, callVars,
           QueueUnchanged
  <2>2. CASE WorkerRun(m)
    BY <1>1, <2>2
       DEF WorkerRun, IInv, StopInv, LockInv, Inside, Stopping, queueVars, callVars,
           QueueUnchanged
  <2>3. CASE WorkerFinish(m)
    BY <1>1, <2>3
       DEF WorkerFinish, IInv, StopInv, LockInv, Inside, Stopping, queueVars, callVars,
           QueueUnchanged
  <2>4. CASE WorkerWait(m)
    BY <1>1, <2>4
       DEF WorkerWait, IInv, StopInv, LockInv, Inside, Stopping, queueVars, callVars,
           QueueUnchanged
  <2>5. CASE WorkerExit(m)
    BY <1>1, <2>5
       DEF WorkerExit, IInv, StopInv, LockInv, Inside, Stopping, queueVars, callVars,
           QueueUnchanged
  <2>6. CASE WorkerSpurious(m)
    BY <1>1, <2>6
       DEF WorkerSpurious, IInv, StopInv, LockInv, Inside, Stopping, queueVars, callVars,
           QueueUnchanged
  <2> QED  BY <1>1, <2>1, <2>2, <2>3, <2>4, <2>5, <2>6 DEF WorkerStep
<1>2. ASSUME NEW m \in Managers, IdleNotification(m) PROVE StopInv'
  BY <1>2
     DEF IdleNotification, WorkerNotify, QueueNotified, IInv, StopInv, LockInv, Inside,
         Stopping, callVars, QueueUnchanged
<1>3. CASE Queue
  <2>1. CASE QueueLock
    BY <2>1
       DEF QueueLock, IInv, StopInv, LockInv, Inside, Stopping, tmVars, callVars,
           QueueUnchanged
  <2>2. CASE QueueFront
    BY <2>2
       DEF QueueFront, IInv, StopInv, LockInv, Inside, Stopping, tmVars, callVars,
           QueueUnchanged
  <2>3. CASE QueueProbe
    BY <2>3
       DEF QueueProbe, IInv, StopInv, LockInv, Inside, Stopping, tmVars, callVars,
           QueueUnchanged
  <2>4. CASE QueueAssign
    <3>1. AssignEffect /\ StopInv
      BY <2>4, AssignSets DEF IInv
    <3>2. \A m \in Managers : wpc'[m] = "joined" <=> wpc[m] = "joined"
      BY <3>1 DEF AssignEffect
    <3>3. \A c \in Callers : pc[c] \in {"signal", "join"} => 1..(cur[c] - 1) \subseteq Managers
      BY CursorBelow
    <3> QED  BY <3>1, <3>2, <3>3 DEF AssignEffect, StopInv
  <2>5. CASE QueuePop
    BY <2>5
       DEF QueuePop, IInv, StopInv, LockInv, Inside, Stopping, tmVars, callVars,
           QueueUnchanged
  <2>6. CASE QueueWait
    BY <2>6
       DEF QueueWait, IInv, StopInv, LockInv, Inside, Stopping, tmVars, callVars,
           QueueUnchanged
  <2>7. CASE QueueExit
    BY <2>7
       DEF QueueExit, IInv, StopInv, LockInv, Inside, Stopping, tmVars, callVars,
           QueueUnchanged
  <2> QED  BY <1>3, <2>1, <2>2, <2>3, <2>4, <2>5, <2>6, <2>7 DEF Queue
<1>4. CASE QueueSpurious
  BY <1>4
     DEF QueueSpurious, IInv, StopInv, LockInv, Inside, Stopping, tmVars, callVars,
         QueueUnchanged
<1>5. ASSUME NEW c \in Callers, Caller(c) PROVE StopInv'
  <2>1. CASE Execute(c)
    BY <2>1
       DEF Execute, QueueNotified, DeleteTask, IInv, StopInv, LockInv, Inside, Stopping,
           tmVars, queueVars
  <2>2. CASE QueryEnter(c)
    BY <2>2 DEF QueryEnter, IInv, StopInv, LockInv, Inside, Stopping, tmVars, queueVars
  <2>3. CASE QueryProbe(c)
    BY <2>3
       DEF QueryProbe, IInv, StopInv, TypeOK, LockInv, Inside, Stopping, tmVars, queueVars
  <2>4. CASE QueryReturn(c)
    BY <2>4 DEF QueryReturn, IInv, StopInv, LockInv, Inside, Stopping, tmVars, queueVars
  <2>5. CASE TerminateEnter(c)
    BY <2>5
       DEF TerminateEnter, QueueNotified, IInv, StopInv, TypeOK, LockInv, Inside,
           Stopping, tmVars
  <2>6. CASE TerminateStop(c)
    BY <2>6
       DEF TerminateStop, StopManager, IInv, StopInv, TypeOK, LockInv, Inside, Stopping,
           queueVars
  <2>7. CASE TerminateSignal(c)
    <3>1. /\ cur[c] \in Managers /\ StopInv /\ TypeOK /\ pc[c] = "signal"
          /\ \A d \in Callers \ {c} : pc[d] \notin Inside
          /\ 1..(cur[c] - 1) \subseteq Managers
      BY <2>7, CursorInside, CursorBelow, Exclusive
         DEF TerminateSignal, IInv, Inside, Stopping
    <3>2. /\ tmGo' = [tmGo EXCEPT ![cur[c]] = FALSE] /\ pc' = [pc EXCEPT ![c] = "join"]
          /\ UNCHANGED <<go, size, cur>>
          /\ \A m \in Managers : wpc'[m] = "joined" <=> wpc[m] = "joined"
      BY <2>7, <3>1 DEF TerminateSignal, SignalStop, Notified, queueVars, TypeOK
    <3>3. pc'[c] = "join" /\ \A d \in Callers \ {c} : pc'[d] = pc[d]
      BY <3>1, <3>2 DEF TypeOK
    <3>4. ~go /\ cur[c] <= size /\ \A m \in 1..(cur[c] - 1) : wpc[m] = "joined"
      BY <3>1 DEF StopInv, Stopping
    <3>5. ~tmGo'[cur[c]]
      BY <3>1, <3>2 DEF TypeOK, TmTypeOK
    <3> QED  BY <3>1, <3>2, <3>3, <3>4, <3>5 DEF StopInv, Stopping, Inside
  <2>8. CASE TerminateJoin(c)
    <3>1. /\ cur[c] \in Managers /\ size = PoolSize /\ StopInv /\ TypeOK /\ pc[c] = "join"
          /\ \A d \in Callers \ {c} : pc[d] \notin Inside
          /\ 1..(cur[c] - 1) \subseteq Managers
      BY <2>8, CursorInside, CursorBelow, Exclusive
         DEF TerminateJoin, IInv, Inside, Stopping
    <3>2. /\ pc'[c] = IF cur[c] < size THEN "signal" ELSE "clear"
          /\ cur'[c] = cur[c] + 1
          /\ \A d \in Callers \ {c} : pc'[d] = pc[d] /\ cur'[d] = cur[d]
          /\ UNCHANGED <<tmGo, go, size>>
          /\ wpc'[cur[c]] = "joined" /\ \A m \in Managers \ {cur[c]} : wpc'[m] = wpc[m]
      BY <2>8, <3>1 DEF TerminateJoin, JoinManager, queueVars, TypeOK, TmTypeOK
    <3>3. ~go /\ \A m \in 1..(cur[c] - 1) : wpc[m] = "joined"
      BY <3>1 DEF StopInv, Stopping
    <3>4. \A m \in 1..(cur'[c] - 1) : wpc'[m] = "joined"
      <4>1. \A m \in 1..(cur'[c] - 1) : m \in 1..(cur[c] - 1) \/ m = cur[c]
        BY <3>1, <3>2, PoolAssumption DEF Managers
      <4> QED  BY <3>1, <3>2, <3>3, <4>1
    <3>5. pc'[c] = "signal" => cur'[c] <= size
      BY <3>1, <3>2, PoolAssumption DEF Managers
    <3>6. pc'[c] = "clear" => \A m \in Managers : wpc'[m] = "joined"
      <4>1. pc'[c] = "clear" => cur[c] = PoolSize
        BY <3>1, <3>2, PoolAssumption DEF Managers
      <4> QED  BY <3>1, <3>2, <3>4, <4>1, PoolAssumption DEF Managers
    <3> QED  BY <3>1, <3>2, <3>3, <3>4, <3>5, <3>6 DEF StopInv, Stopping, Inside
  <2>9. CASE TerminateReturn(c)
    BY <2>9
       DEF TerminateReturn, IInv, StopInv, LockInv, Inside, Stopping, tmVars, queueVars
  <2>10. CASE DestroyJoin(c)
    BY <2>10 DEF DestroyJoin, IInv, StopInv, LockInv, Inside, Stopping, tmVars
  <2>11. CASE DestroyEmpty(c)
    BY <2>11
       DEF DestroyEmpty, DeleteTask, IInv, StopInv, TypeOK, LockInv, Inside, Stopping,
           tmVars
  <2> QED
    BY <1>5, <2>1, <2>2, <2>3, <2>4, <2>5, <2>6, <2>7, <2>8, <2>9, <2>10, <2>11
    DEF Caller
<1>6. ASSUME NEW c \in Callers, NewCall(c) PROVE StopInv'
  <2>1. ASSUME NEW t \in Tasks, CallExecute(c, t) PROVE StopInv'
    BY <2>1
       DEF CallExecute, Begin, IInv, StopInv, LockInv, Inside, Stopping, tmVars, queueVars
  <2>2. ASSUME NEW o \in {"is_idle", "is_busy", "terminate"}, Call(c, o) PROVE StopInv'
    BY <2>2 DEF Call, Begin, IInv, StopInv, LockInv, Inside, Stopping, tmVars, queueVars
  <2>3. CASE CallDestroy(c)
    BY <2>3
       DEF CallDestroy, Begin, IInv, StopInv, LockInv, Inside, Stopping, tmVars, queueVars
  <2> QED  BY <1>6, <2>1, <2>2, <2>3 DEF NewCall
<1>7. CASE UNCHANGED vars
  BY <1>7 DEF vars, IInv, StopInv, LockInv, Inside, Stopping, tmVars, queueVars, callVars
<1> QED  BY <1>1, <1>2, <1>3, <1>4, <1>5, <1>6, <1>7 DEF Next, Worker, Spurious, Quiescent

\* Every step keeps the destructor last.
LEMMA GoneStep == IInv /\ [Next]_vars => GoneInv'
<1> SUFFICES ASSUME IInv, [Next]_vars PROVE GoneInv'
  OBVIOUS
<1>1. ASSUME NEW m \in Managers, WorkerStep(m) \/ WorkerSpurious(m),
             UNCHANGED <<owner, queueVars>>, QueueUnchanged
      PROVE  GoneInv'
  <2>1. CASE WorkerLock(m)
    BY <1>1, <2>1
       DEF WorkerLock, IInv, GoneInv, CallInv, Stopping, queueVars, callVars,
           QueueUnchanged
  <2>2. CASE WorkerRun(m)
    BY <1>1, <2>2
       DEF WorkerRun, IInv, GoneInv, CallInv, Stopping, queueVars, callVars,
           QueueUnchanged
  <2>3. CASE WorkerFinish(m)
    BY <1>1, <2>3
       DEF WorkerFinish, IInv, GoneInv, CallInv, Stopping, queueVars, callVars,
           QueueUnchanged
  <2>4. CASE WorkerWait(m)
    BY <1>1, <2>4
       DEF WorkerWait, IInv, GoneInv, CallInv, Stopping, queueVars, callVars,
           QueueUnchanged
  <2>5. CASE WorkerExit(m)
    BY <1>1, <2>5
       DEF WorkerExit, IInv, GoneInv, CallInv, Stopping, queueVars, callVars,
           QueueUnchanged
  <2>6. CASE WorkerSpurious(m)
    BY <1>1, <2>6
       DEF WorkerSpurious, IInv, GoneInv, CallInv, Stopping, queueVars, callVars,
           QueueUnchanged
  <2> QED  BY <1>1, <2>1, <2>2, <2>3, <2>4, <2>5, <2>6 DEF WorkerStep
<1>2. ASSUME NEW m \in Managers, IdleNotification(m) PROVE GoneInv'
  BY <1>2
     DEF IdleNotification, WorkerNotify, QueueNotified, IInv, GoneInv, CallInv, Stopping,
         callVars, QueueUnchanged
<1>3. CASE Queue
  <2>1. CASE QueueLock
    BY <2>1 DEF QueueLock, IInv, GoneInv, CallInv, Stopping, callVars, QueueUnchanged
  <2>2. CASE QueueFront
    BY <2>2 DEF QueueFront, IInv, GoneInv, CallInv, Stopping, callVars, QueueUnchanged
  <2>3. CASE QueueProbe
    BY <2>3 DEF QueueProbe, IInv, GoneInv, CallInv, Stopping, callVars, QueueUnchanged
  <2>4. CASE QueueAssign
    BY <2>4
       DEF QueueAssign, SetTask, Notified, IInv, GoneInv, CallInv, Stopping, callVars,
           QueueUnchanged
  <2>5. CASE QueuePop
    BY <2>5 DEF QueuePop, IInv, GoneInv, CallInv, Stopping, callVars, QueueUnchanged
  <2>6. CASE QueueWait
    BY <2>6 DEF QueueWait, IInv, GoneInv, CallInv, Stopping, callVars, QueueUnchanged
  <2>7. CASE QueueExit
    BY <2>7 DEF QueueExit, IInv, GoneInv, CallInv, Stopping, callVars, QueueUnchanged
  <2> QED  BY <1>3, <2>1, <2>2, <2>3, <2>4, <2>5, <2>6, <2>7 DEF Queue
<1>4. CASE QueueSpurious
  BY <1>4 DEF QueueSpurious, IInv, GoneInv, CallInv, Stopping, callVars, QueueUnchanged
<1>5. ASSUME NEW c \in Callers, Caller(c) PROVE GoneInv'
  <2>1. CASE Execute(c)
    BY <2>1 DEF Execute, QueueNotified, DeleteTask, IInv, GoneInv, CallInv, Stopping
  <2>2. CASE QueryEnter(c)
    BY <2>2 DEF QueryEnter, IInv, GoneInv, CallInv, Stopping, tmVars, queueVars
  <2>3. CASE QueryProbe(c)
    BY <2>3 DEF QueryProbe, IInv, GoneInv, TypeOK, CallInv, Stopping, tmVars
  <2>4. CASE QueryReturn(c)
    BY <2>4 DEF QueryReturn, IInv, GoneInv, CallInv, Stopping, tmVars, queueVars
  <2>5. CASE TerminateEnter(c)
    BY <2>5 DEF TerminateEnter, QueueNotified, IInv, GoneInv, CallInv, Stopping
  <2>6. CASE TerminateStop(c)
    BY <2>6
       DEF TerminateStop, StopManager, IInv, GoneInv, TypeOK, CallInv, Stopping, queueVars
  <2>7. CASE TerminateSignal(c)
    BY <2>7 DEF TerminateSignal, SignalStop, Notified, IInv, GoneInv, CallInv, Stopping
  <2>8. CASE TerminateJoin(c)
    BY <2>8 DEF TerminateJoin, JoinManager, IInv, GoneInv, CallInv, Stopping, tmVars
  <2>9. CASE TerminateReturn(c)
    BY <2>9 DEF TerminateReturn, IInv, GoneInv, CallInv, Stopping, tmVars, queueVars
  <2>10. CASE DestroyJoin(c)
    BY <2>10 DEF DestroyJoin, IInv, GoneInv, CallInv, Stopping, tmVars, queueVars
  <2>11. CASE DestroyEmpty(c)
    <3>1. GoneInv /\ CallInv /\ TypeOK /\ pc[c] = "empty" /\ op[c] = "destroy"
      BY <2>11 DEF DestroyEmpty, IInv, CallInv
    <3>2. gone /\ size = 0 /\ qpc = "joined" /\ \A d \in Callers \ {c} : pc[d] = "out"
      BY <3>1 DEF GoneInv
    <3>3. UNCHANGED <<size, qpc, gone, op>>
      BY <2>11 DEF DestroyEmpty
    <3>4. CASE queue # <<>>
      BY <2>11, <3>1, <3>2, <3>3, <3>4 DEF DestroyEmpty, GoneInv
    <3>5. CASE queue = <<>>
      <4>1. queue' = <<>> /\ pc' = [pc EXCEPT ![c] = "out"]
        BY <2>11, <3>5 DEF DestroyEmpty
      <4>2. \A d \in Callers : pc'[d] = "out"
        BY <3>1, <3>2, <4>1 DEF TypeOK
      <4> QED  BY <3>1, <3>2, <3>3, <4>1, <4>2 DEF GoneInv
    <3> QED  BY <3>4, <3>5
  <2> QED
    BY <1>5, <2>1, <2>2, <2>3, <2>4, <2>5, <2>6, <2>7, <2>8, <2>9, <2>10, <2>11
    DEF Caller
<1>6. ASSUME NEW c \in Callers, NewCall(c) PROVE GoneInv'
  <2>1. ASSUME NEW t \in Tasks, CallExecute(c, t) PROVE GoneInv'
    BY <2>1 DEF CallExecute, Begin, IInv, GoneInv, CallInv, Stopping, tmVars
  <2>2. ASSUME NEW o \in {"is_idle", "is_busy", "terminate"}, Call(c, o) PROVE GoneInv'
    BY <2>2 DEF Call, Begin, IInv, GoneInv, CallInv, Stopping, tmVars, queueVars
  <2>3. CASE CallDestroy(c)
    BY <2>3 DEF CallDestroy, Begin, IInv, GoneInv, TypeOK, CallInv, Stopping, tmVars
  <2> QED  BY <1>6, <2>1, <2>2, <2>3 DEF NewCall
<1>7. CASE UNCHANGED vars
  BY <1>7 DEF vars, IInv, GoneInv, CallInv, Stopping, tmVars, queueVars, callVars
<1> QED  BY <1>1, <1>2, <1>3, <1>4, <1>5, <1>6, <1>7 DEF Next, Worker, Spurious, Quiescent

\* Every step keeps the answer true until it is given.
LEMMA QueryStep == IInv /\ [Next]_vars => QueryAnswer'
<1> SUFFICES ASSUME IInv, [Next]_vars PROVE QueryAnswer'
  OBVIOUS
<1>1. ASSUME NEW m \in Managers, WorkerStep(m) \/ WorkerSpurious(m),
             UNCHANGED <<owner, queueVars>>, QueueUnchanged
      PROVE  QueryAnswer'
  <2>1. CASE WorkerLock(m)
    BY <1>1, <2>1
       DEF WorkerLock, IInv, QueryAnswer, LockInv, Inside, QueueInside, Stopping, IsIdle,
           IsAlive, InHand, callVars, QueueUnchanged
  <2>2. CASE WorkerRun(m)
    BY <1>1, <2>2
       DEF WorkerRun, IInv, QueryAnswer, LockInv, Inside, QueueInside, Stopping, IsIdle,
           IsAlive, InHand, callVars, QueueUnchanged
  <2>3. CASE WorkerFinish(m)
    <3>1. slot[m] # None /\ UNCHANGED <<pc, op, answer>> /\ QueryAnswer
      BY <1>1, <2>3 DEF WorkerFinish, IInv, TmShape, QueueUnchanged, callVars
    <3>2. \A c \in Callers : ~(pc[c] = "answer" /\ answer[c] = (op[c] = "is_idle"))
      BY <3>1 DEF QueryAnswer, IsIdle
    <3> QED  BY <3>1, <3>2 DEF QueryAnswer
  <2>4. CASE WorkerWait(m)
    BY <1>1, <2>4
       DEF WorkerWait, IInv, QueryAnswer, LockInv, Inside, QueueInside, Stopping, IsIdle,
           IsAlive, InHand, callVars, QueueUnchanged
  <2>5. CASE WorkerExit(m)
    BY <1>1, <2>5
       DEF WorkerExit, IInv, QueryAnswer, LockInv, Inside, QueueInside, Stopping, IsIdle,
           IsAlive, InHand, callVars, QueueUnchanged
  <2>6. CASE WorkerSpurious(m)
    BY <1>1, <2>6
       DEF WorkerSpurious, IInv, QueryAnswer, LockInv, Inside, QueueInside, Stopping,
           IsIdle, IsAlive, InHand, callVars, QueueUnchanged
  <2> QED  BY <1>1, <2>1, <2>2, <2>3, <2>4, <2>5, <2>6 DEF WorkerStep
<1>2. ASSUME NEW m \in Managers, IdleNotification(m) PROVE QueryAnswer'
  BY <1>2
     DEF IdleNotification, WorkerNotify, QueueNotified, IInv, QueryAnswer, LockInv,
         Inside, QueueInside, Stopping, IsIdle, IsAlive, InHand, callVars, QueueUnchanged
<1>3. CASE Queue
  <2>1. CASE QueueLock
    BY <2>1
       DEF QueueLock, IInv, QueryAnswer, LockInv, Inside, QueueInside, Stopping, IsIdle,
           IsAlive, InHand, tmVars, callVars, QueueUnchanged
  <2>2. CASE QueueFront
    BY <2>2
       DEF QueueFront, IInv, QueryAnswer, LockInv, Inside, QueueInside, Stopping, IsIdle,
           IsAlive, InHand, tmVars, callVars, QueueUnchanged
  <2>3. CASE QueueProbe
    BY <2>3
       DEF QueueProbe, IInv, QueryAnswer, LockInv, Inside, QueueInside, Stopping, IsIdle,
           IsAlive, InHand, tmVars, callVars, QueueUnchanged
  <2>4. CASE QueueAssign
    <3>1. owner = QueueThread /\ pc' = pc
      BY <2>4, AssignReady DEF QueueAssign, QueueUnchanged, callVars
    <3>2. \A c \in Callers : pc'[c] # "answer"
      BY <3>1, Exclusive, CallerAssumption DEF Inside
    <3> QED  BY <3>2 DEF QueryAnswer
  <2>5. CASE QueuePop
    BY <2>5
       DEF QueuePop, IInv, QueryAnswer, LockInv, Inside, QueueInside, Stopping, IsIdle,
           IsAlive, InHand, tmVars, callVars, QueueUnchanged
  <2>6. CASE QueueWait
    BY <2>6
       DEF QueueWait, IInv, QueryAnswer, LockInv, Inside, QueueInside, Stopping, IsIdle,
           IsAlive, InHand, tmVars, callVars, QueueUnchanged
  <2>7. CASE QueueExit
    BY <2>7
       DEF QueueExit, IInv, QueryAnswer, LockInv, Inside, QueueInside, Stopping, IsIdle,
           IsAlive, InHand, tmVars, callVars, QueueUnchanged
  <2> QED  BY <1>3, <2>1, <2>2, <2>3, <2>4, <2>5, <2>6, <2>7 DEF Queue
<1>4. CASE QueueSpurious
  BY <1>4
     DEF QueueSpurious, IInv, QueryAnswer, LockInv, Inside, QueueInside, Stopping, IsIdle,
         IsAlive, InHand, tmVars, callVars, QueueUnchanged
<1>5. ASSUME NEW c \in Callers, Caller(c) PROVE QueryAnswer'
  <2>1. CASE Execute(c)
    <3>1. TypeOK /\ \A d \in Callers : pc[d] \notin Inside
      BY <2>1, NobodyInside DEF Execute, IInv
    <3>2. \A d \in Callers : pc'[d] # "answer"
      BY <2>1, <3>1 DEF Execute, TypeOK, Inside
    <3> QED  BY <3>2 DEF QueryAnswer
  <2>2. CASE QueryEnter(c)
    BY <2>2
       DEF QueryEnter, IInv, QueryAnswer, TypeOK, LockInv, Inside, QueueInside, Stopping,
           IsIdle, IsAlive, InHand, tmVars
  <2>3. CASE QueryProbe(c)
    <3>1. /\ TypeOK /\ pc[c] = "probe" /\ \A d \in Callers \ {c} : pc[d] \notin Inside
          /\ cur[c] \in Managers /\ size = PoolSize
      BY <2>3, Exclusive, CursorInside DEF QueryProbe, IInv, Inside
    <3>2. \A d \in Callers \ {c} : pc'[d] # "answer"
      BY <2>3, <3>1 DEF QueryProbe, TypeOK, Inside
    <3>3. /\ op[c] \in {"is_idle", "is_busy"} /\ answer[c] = (op[c] = "is_busy") /\ queue = <<>>
          /\ \A m \in 1..(cur[c] - 1) : IsIdle(m)
      BY <3>1 DEF IInv, CallInv, ScanInv
    <3>4. UNCHANGED <<wpc, slot, deletes, hand, submitted, op>>
      BY <2>3 DEF QueryProbe, tmVars
    <3>5. ASSUME pc'[c] = "answer", answer'[c] = (op'[c] = "is_idle")
          PROVE  IsIdle(cur[c]) /\ ~(cur[c] < size)
      BY <2>3, <3>1, <3>3, <3>4, <3>5 DEF QueryProbe, TypeOK
    <3>6. ASSUME IsIdle(cur[c]), ~(cur[c] < size)
          PROVE  /\ \A m \in Managers : IsIdle(m)
                 /\ \A t \in submitted : deletes[t] = 1 \/ InHand(t) # {}
      <4>1. \A m \in Managers : IsIdle(m)
        <5>1. cur[c] = PoolSize
          BY <3>1, <3>6, PoolAssumption DEF Managers
        <5>2. \A m \in Managers : m = cur[c] \/ m \in 1..(cur[c] - 1)
          BY <5>1, PoolAssumption DEF Managers
        <5> QED  BY <3>3, <3>6, <5>2
      <4>2. ASSUME NEW t \in submitted PROVE deletes[t] = 1 \/ InHand(t) # {}
        <5>1. t \in Tasks /\ OwnOf(t) /\ t # None
          BY <3>1, PoolAssumption DEF IInv, OwnInv, TypeOK
        <5>2. \A m \in Managers : slot[m] # t
          BY <4>1, <5>1 DEF IsIdle
        <5>3. ~Queued(t)
          BY <3>3 DEF Queued, InQueue
        <5> QED  BY <5>1, <5>2, <5>3 DEF OwnOf, InHand
      <4> QED  BY <4>1, <4>2
    <3> QED  BY <3>2, <3>4, <3>5, <3>6 DEF QueryAnswer, IsIdle, IsAlive, InHand
  <2>4. CASE QueryReturn(c)
    BY <2>4
       DEF QueryReturn, IInv, QueryAnswer, LockInv, Inside, QueueInside, Stopping, IsIdle,
           IsAlive, InHand, tmVars
  <2>5. CASE TerminateEnter(c)
    BY <2>5
       DEF TerminateEnter, QueueNotified, IInv, QueryAnswer, LockInv, Inside, QueueInside,
           Stopping, IsIdle, IsAlive, InHand, tmVars
  <2>6. CASE TerminateStop(c)
    BY <2>6
       DEF TerminateStop, StopManager, IInv, QueryAnswer, TypeOK, LockInv, Inside,
           QueueInside, Stopping, IsIdle, IsAlive, InHand
  <2>7. CASE TerminateSignal(c)
    BY <2>7
       DEF TerminateSignal, SignalStop, Notified, IInv, QueryAnswer, LockInv, Inside,
           QueueInside, Stopping, IsIdle, IsAlive, InHand
  <2>8. CASE TerminateJoin(c)
    BY <2>8
       DEF TerminateJoin, JoinManager, IInv, QueryAnswer, LockInv, Inside, QueueInside,
           Stopping, IsIdle, IsAlive, InHand
  <2>9. CASE TerminateReturn(c)
    BY <2>9
       DEF TerminateReturn, IInv, QueryAnswer, LockInv, Inside, QueueInside, Stopping,
           IsIdle, IsAlive, InHand
  <2>10. CASE DestroyJoin(c)
    BY <2>10
       DEF DestroyJoin, IInv, QueryAnswer, LockInv, Inside, QueueInside, Stopping, IsIdle,
           IsAlive, InHand, tmVars
  <2>11. CASE DestroyEmpty(c)
    <3>1. TypeOK /\ \A d \in Callers : pc[d] \notin Inside
      BY <2>11, NobodyInside DEF DestroyEmpty, IInv
    <3>2. \A d \in Callers : pc'[d] # "answer"
      BY <2>11, <3>1 DEF DestroyEmpty, TypeOK, Inside
    <3> QED  BY <3>2 DEF QueryAnswer
  <2> QED
    BY <1>5, <2>1, <2>2, <2>3, <2>4, <2>5, <2>6, <2>7, <2>8, <2>9, <2>10, <2>11
    DEF Caller
<1>6. ASSUME NEW c \in Callers, NewCall(c) PROVE QueryAnswer'
  <2>1. ASSUME NEW t \in Tasks, CallExecute(c, t) PROVE QueryAnswer'
    <3>1. QueryAnswer /\ TypeOK /\ CallInv
      BY DEF IInv
    <3>2. /\ pc[c] = "out" /\ pc'[c] = "enter" /\ hand'[c] = t
          /\ \A d \in Callers \ {c} : pc'[d] = pc[d] /\ op'[d] = op[d] /\ hand'[d] = hand[d]
          /\ UNCHANGED <<wpc, slot, deletes, answer>> /\ submitted' = submitted \cup {t}
      BY <2>1, <3>1 DEF CallExecute, Begin, tmVars, TypeOK
    <3>3. hand[c] = None
      BY <3>1, <3>2 DEF CallInv
    <3>4. ASSUME NEW u \in submitted', \A v \in submitted : deletes[v] = 1 \/ InHand(v) # {}
          PROVE  deletes'[u] = 1 \/ InHand(u)' # {}
      <4>1. CASE u = t
        BY <3>2, <4>1 DEF InHand
      <4>2. CASE u # t
        <5>1. u \in submitted /\ u # None
          BY <3>1, <3>2, <4>2, PoolAssumption DEF TypeOK
        <5> QED  BY <3>2, <3>3, <3>4, <5>1 DEF InHand
      <4> QED  BY <4>1, <4>2
    <3> QED  BY <3>1, <3>2, <3>4 DEF QueryAnswer, IsIdle, IsAlive
  <2>2. ASSUME NEW o \in {"is_idle", "is_busy", "terminate"}, Call(c, o) PROVE QueryAnswer'
    BY <2>2
       DEF Call, Begin, IInv, QueryAnswer, LockInv, Inside, QueueInside, Stopping, IsIdle,
           IsAlive, InHand, tmVars
  <2>3. CASE CallDestroy(c)
    BY <2>3
       DEF CallDestroy, Begin, IInv, QueryAnswer, LockInv, Inside, QueueInside, Stopping,
           IsIdle, IsAlive, InHand
  <2> QED  BY <1>6, <2>1, <2>2, <2>3 DEF NewCall
<1>7. CASE UNCHANGED vars
  BY <1>7
     DEF vars, IInv, QueryAnswer, LockInv, Inside, QueueInside, Stopping, IsIdle, IsAlive,
         InHand, tmVars, callVars
<1> QED  BY <1>1, <1>2, <1>3, <1>4, <1>5, <1>6, <1>7 DEF Next, Worker, Spurious, Quiescent

\* Every step keeps the queue a part of what was queued.
LEMMA PushedStep == IInv /\ [Next]_vars => PushedInv'
<1> SUFFICES ASSUME IInv, [Next]_vars PROVE PushedInv'
  OBVIOUS
<1>1. ASSUME NEW m \in Managers, WorkerStep(m) \/ WorkerSpurious(m),
             UNCHANGED <<owner, queueVars>>, QueueUnchanged
      PROVE  PushedInv'
  <2>1. CASE WorkerLock(m)
    BY <1>1, <2>1 DEF WorkerLock, IInv, PushedInv, queueVars, QueueUnchanged
  <2>2. CASE WorkerRun(m)
    BY <1>1, <2>2 DEF WorkerRun, IInv, PushedInv, queueVars, callVars, QueueUnchanged
  <2>3. CASE WorkerFinish(m)
    BY <1>1, <2>3 DEF WorkerFinish, IInv, PushedInv, queueVars, QueueUnchanged
  <2>4. CASE WorkerWait(m)
    BY <1>1, <2>4 DEF WorkerWait, IInv, PushedInv, queueVars, QueueUnchanged
  <2>5. CASE WorkerExit(m)
    BY <1>1, <2>5 DEF WorkerExit, IInv, PushedInv, queueVars, QueueUnchanged
  <2>6. CASE WorkerSpurious(m)
    BY <1>1, <2>6 DEF WorkerSpurious, IInv, PushedInv, queueVars, QueueUnchanged
  <2> QED  BY <1>1, <2>1, <2>2, <2>3, <2>4, <2>5, <2>6 DEF WorkerStep
<1>2. ASSUME NEW m \in Managers, IdleNotification(m) PROVE PushedInv'
  BY <1>2
     DEF IdleNotification, WorkerNotify, QueueNotified, IInv, PushedInv, QueueUnchanged
<1>3. CASE Queue
  <2>1. CASE QueueLock
    BY <2>1 DEF QueueLock, IInv, PushedInv, tmVars, callVars, QueueUnchanged
  <2>2. CASE QueueFront
    BY <2>2 DEF QueueFront, IInv, PushedInv, tmVars, callVars, QueueUnchanged
  <2>3. CASE QueueProbe
    BY <2>3 DEF QueueProbe, IInv, PushedInv, tmVars, callVars, QueueUnchanged
  <2>4. CASE QueueAssign
    BY <2>4 DEF QueueAssign, SetTask, Notified, IInv, PushedInv, QueueUnchanged
  <2>5. CASE QueuePop
    <3>1. TypeOK /\ PushedInv /\ queue # <<>> /\ queue' = Tail(queue) /\ pushed' = pushed
      BY <2>5 DEF QueuePop, IInv, ScanInv, QueueUnchanged
    <3> QED  BY <3>1, PushedTail
  <2>6. CASE QueueWait
    BY <2>6 DEF QueueWait, IInv, PushedInv, tmVars, callVars, QueueUnchanged
  <2>7. CASE QueueExit
    BY <2>7 DEF QueueExit, IInv, PushedInv, tmVars, callVars, QueueUnchanged
  <2> QED  BY <1>3, <2>1, <2>2, <2>3, <2>4, <2>5, <2>6, <2>7 DEF Queue
<1>4. CASE QueueSpurious
  BY <1>4 DEF QueueSpurious, IInv, PushedInv, tmVars, callVars, QueueUnchanged
<1>5. ASSUME NEW c \in Callers, Caller(c) PROVE PushedInv'
  <2>1. CASE Execute(c)
    <3>1. TypeOK /\ PushedInv /\ hand[c] \in Tasks
      BY <2>1 DEF Execute, IInv, CallInv, TypeOK
    <3>2. PICK t \in Tasks : t = hand[c]
      BY <3>1
    <3>3. \A i \in 1..Len(pushed) : pushed[i] # t
      BY <3>2 DEF IInv, OwnInv, OwnOf
    <3>4. CASE go
      <4>1. queue' = Append(queue, t) /\ pushed' = Append(pushed, t)
        BY <2>1, <3>2, <3>4 DEF Execute
      <4> QED  BY <3>1, <3>3, <4>1, PushedAppend
    <3>5. CASE ~go
      BY <2>1, <3>1, <3>5 DEF Execute, queueVars, PushedInv
    <3> QED  BY <3>4, <3>5
  <2>2. CASE QueryEnter(c)
    BY <2>2 DEF QueryEnter, IInv, PushedInv, tmVars, queueVars
  <2>3. CASE QueryProbe(c)
    BY <2>3 DEF QueryProbe, IInv, PushedInv, tmVars, queueVars
  <2>4. CASE QueryReturn(c)
    BY <2>4 DEF QueryReturn, IInv, PushedInv, tmVars, queueVars
  <2>5. CASE TerminateEnter(c)
    BY <2>5 DEF TerminateEnter, QueueNotified, IInv, PushedInv, tmVars, queueVars
  <2>6. CASE TerminateStop(c)
    BY <2>6 DEF TerminateStop, StopManager, IInv, PushedInv, tmVars, queueVars
  <2>7. CASE TerminateSignal(c)
    BY <2>7 DEF TerminateSignal, SignalStop, Notified, IInv, PushedInv, queueVars
  <2>8. CASE TerminateJoin(c)
    BY <2>8 DEF TerminateJoin, JoinManager, IInv, PushedInv, tmVars, queueVars
  <2>9. CASE TerminateReturn(c)
    BY <2>9 DEF TerminateReturn, IInv, PushedInv, tmVars, queueVars
  <2>10. CASE DestroyJoin(c)
    BY <2>10 DEF DestroyJoin, IInv, PushedInv, tmVars, queueVars
  <2>11. CASE DestroyEmpty(c)
    <3>1. TypeOK /\ PushedInv /\ pushed' = pushed
      BY <2>11 DEF DestroyEmpty, IInv
    <3>2. CASE queue # <<>>
      <4>1. queue' = Tail(queue)
        BY <2>11, <3>2 DEF DestroyEmpty
      <4> QED  BY <3>1, <3>2, <4>1, PushedTail
    <3>3. CASE queue = <<>>
      BY <2>11, <3>1, <3>3 DEF DestroyEmpty, PushedInv
    <3> QED  BY <3>2, <3>3
  <2> QED
    BY <1>5, <2>1, <2>2, <2>3, <2>4, <2>5, <2>6, <2>7, <2>8, <2>9, <2>10, <2>11
    DEF Caller
<1>6. ASSUME NEW c \in Callers, NewCall(c) PROVE PushedInv'
  <2>1. ASSUME NEW t \in Tasks, CallExecute(c, t) PROVE PushedInv'
    BY <2>1 DEF CallExecute, Begin, IInv, PushedInv, tmVars, queueVars
  <2>2. ASSUME NEW o \in {"is_idle", "is_busy", "terminate"}, Call(c, o) PROVE PushedInv'
    BY <2>2 DEF Call, Begin, IInv, PushedInv, tmVars, queueVars
  <2>3. CASE CallDestroy(c)
    BY <2>3 DEF CallDestroy, Begin, IInv, PushedInv, tmVars, queueVars
  <2> QED  BY <1>6, <2>1, <2>2, <2>3 DEF NewCall
<1>7. CASE UNCHANGED vars
  BY <1>7 DEF vars, IInv, PushedInv, tmVars, queueVars, callVars
<1> QED  BY <1>1, <1>2, <1>3, <1>4, <1>5, <1>6, <1>7 DEF Next, Worker, Spurious, Quiescent


\* Steps that move no task keep OwnInv.
LEMMA OwnFrame ==
    ASSUME IInv, UNCHANGED <<slot, hand, runs, deletes, submitted, queue, pushed>>,
           \A m \in Managers : wpc'[m] = "running" <=> wpc[m] = "running",
           qpc' = "pop" <=> qpc = "pop"
    PROVE  OwnInv'
<1> SUFFICES ASSUME NEW t \in Tasks PROVE OwnOf(t)'
  BY DEF OwnInv
<1>1. OwnOf(t) /\ (Queued(t)' <=> Queued(t))
  BY QueuedFrame DEF IInv, OwnInv
<1> QED  BY <1>1 DEF OwnOf

\* A worker that deletes its task, run or not, leaves it without a holder.
LEMMA OwnRelease ==
    ASSUME IInv, NEW m \in Managers, slot[m] # None,
           slot' = [slot EXCEPT ![m] = None],
           deletes' = [deletes EXCEPT ![slot[m]] = @ + 1],
           UNCHANGED <<hand, runs, submitted, queue, qpc, pushed>>,
           \A n \in Managers \ {m} : wpc'[n] = wpc[n]
    PROVE  OwnInv'
<1> SUFFICES ASSUME NEW t \in Tasks PROVE OwnOf(t)'
  BY DEF OwnInv
<1>1. OwnOf(t) /\ TypeOK /\ None # t /\ (Queued(t)' <=> Queued(t))
  BY PoolAssumption, QueuedFrame DEF IInv, OwnInv
<1>2. /\ slot[m] \in Tasks /\ slot'[m] = None /\ deletes[t] \in Nat
      /\ \A n \in Managers \ {m} : slot'[n] = slot[n]
      /\ deletes'[t] = IF t = slot[m] THEN deletes[t] + 1 ELSE deletes[t]
  BY DEF IInv, TypeOK, TmTypeOK
<1>3. CASE t = slot[m]
  <2>1. /\ deletes[t] = 0 /\ deletes'[t] = 1 /\ t \in submitted /\ ~Queued(t)
        /\ \A n \in Managers \ {m} : slot[n] # t
        /\ \A c \in Callers : hand[c] # t
    BY <1>1, <1>2, <1>3 DEF OwnOf
  <2>2. \A n \in Managers : slot'[n] # t
    BY <1>1, <1>2, <2>1
  <2> QED  BY <1>1, <2>1, <2>2 DEF OwnOf
<1>4. CASE t # slot[m]
  <2>1. deletes'[t] = deletes[t] /\ \A n \in Managers : slot'[n] = t <=> slot[n] = t
    BY <1>1, <1>2, <1>4
  <2>2. \A n \in Managers : slot[n] = t => wpc'[n] = wpc[n]
    BY <1>4
  <2> QED  BY <1>1, <2>1, <2>2 DEF OwnOf
<1> QED  BY <1>3, <1>4

\* assign() hands the first task to a worker.
LEMMA OwnAssign == ASSUME IInv, QueueAssign PROVE OwnInv'
<1> SUFFICES ASSUME NEW t \in Tasks PROVE OwnOf(t)'
  BY DEF OwnInv
<1>1. AssignEffect /\ qpc = "assign" /\ qcur \in Managers /\ slot[qcur] = None /\ queue # <<>>
  BY AssignSets, AssignReady DEF QueueAssign
<1>2. OwnOf(t) /\ TypeOK /\ PushedInv /\ t # None
  BY PoolAssumption DEF IInv, OwnInv
<1>3. /\ slot'[qcur] = queue[1] /\ \A m \in Managers \ {qcur} : slot'[m] = slot[m]
      /\ \A m \in Managers : wpc'[m] = "running" <=> wpc[m] = "running"
      /\ wpc[qcur] # "running"
      /\ UNCHANGED <<hand, runs, deletes, submitted, queue, pushed>>
  BY <1>1, <1>2 DEF AssignEffect, TypeOK, TmTypeOK
<1>4. Queued(t)' <=> Queued(t) /\ queue[1] # t
  BY <1>1, <1>3 DEF Queued, InQueue, Handed, AssignEffect
<1>5. CASE t = queue[1]
  <2>1. Queued(t)
    <3>1. 1 \in 1..Len(queue)
      BY <1>1, <1>2, FrontOf
    <3> QED  BY <1>1, <1>5, <3>1 DEF Queued, InQueue, Handed
  <2>2. /\ t \in submitted /\ runs[t] = 0 /\ deletes[t] = 0 /\ ~Queued(t)'
        /\ \A m \in Managers : slot[m] # t
    BY <1>2, <1>4, <1>5, <2>1 DEF OwnOf
  <2>3. \A c \in Callers : hand[c] # t
    BY <1>2, <2>1, QueuedPushed DEF OwnOf, Queued, InQueue
  <2>4. \A m \in Managers : slot'[m] = t <=> m = qcur
    BY <1>3, <1>5, <2>2
  <2> QED  BY <1>1, <1>2, <1>3, <2>2, <2>3, <2>4 DEF OwnOf
<1>6. CASE t # queue[1]
  <2>1. (Queued(t)' <=> Queued(t)) /\ \A m \in Managers : slot'[m] = t <=> slot[m] = t
    BY <1>1, <1>2, <1>3, <1>4, <1>6
  <2> QED  BY <1>2, <1>3, <2>1 DEF OwnOf
<1> QED  BY <1>5, <1>6

\* queue.pop() removes a task that the queue holds no more.
LEMMA OwnPop == ASSUME IInv, QueuePop PROVE OwnInv'
<1> SUFFICES ASSUME NEW t \in Tasks PROVE OwnOf(t)'
  BY DEF OwnInv
<1>1. OwnOf(t) /\ TypeOK /\ PushedInv /\ queue # <<>> /\ qpc = "pop"
  BY DEF IInv, OwnInv, ScanInv, QueuePop
<1>2. /\ queue' = Tail(queue) /\ qpc' = "decide"
      /\ UNCHANGED <<wpc, slot, hand, runs, deletes, submitted, pushed>>
  BY DEF QueuePop, QueueUnchanged, callVars, tmVars
<1>3. Queued(t)' <=> Queued(t) /\ queue[1] # t
  BY <1>1, <1>2, QueuedTail
<1>4. Queued(t) => queue[1] # t
  BY <1>1 DEF Queued, Handed
<1> QED  BY <1>1, <1>2, <1>3, <1>4 DEF OwnOf

\* execute() queues its argument, or deletes it after terminate().
LEMMA OwnExecute == ASSUME IInv, NEW c \in Callers, Execute(c) PROVE OwnInv'
<1> SUFFICES ASSUME NEW t \in Tasks PROVE OwnOf(t)'
  BY DEF OwnInv
<1>1. OwnOf(t) /\ TypeOK /\ PushedInv /\ t # None /\ qpc # "pop"
  BY PoolAssumption, NobodyInside DEF Execute, IInv, OwnInv, QueueInside
<1>2. PICK u \in Tasks : u = hand[c]
  BY DEF Execute, IInv, CallInv, TypeOK
<1>3. /\ hand'[c] = None /\ \A d \in Callers \ {c} : hand'[d] = hand[d]
      /\ UNCHANGED <<wpc, slot, runs, submitted>>
      /\ qpc' # "pop"
  BY <1>1 DEF Execute, QueueNotified, DeleteTask, queueVars, tmVars, TypeOK
<1>4. t = u => /\ t \in submitted /\ runs[t] = 0 /\ deletes[t] = 0
               /\ \A d \in Callers \ {c} : hand[d] # t
               /\ \A m \in Managers : slot[m] # t
               /\ \A i \in 1..Len(pushed) : pushed[i] # t
  BY <1>1, <1>2 DEF OwnOf
<1>5. t = u => \A d \in Callers : hand'[d] # t
  BY <1>1, <1>3, <1>4
<1>6. t # u => \A d \in Callers : hand'[d] = t <=> hand[d] = t
  BY <1>1, <1>2, <1>3
<1>7. CASE go
  <2>1. queue' = Append(queue, u) /\ pushed' = Append(pushed, u) /\ deletes' = deletes
    BY <1>2, <1>7 DEF Execute, tmVars
  <2>2. Queued(t)' <=> Queued(t) \/ t = u
    BY <1>1, <1>3, <2>1, QueuedAppend
  <2>3. t # u => ((\A i \in 1..Len(pushed') : pushed'[i] # t) <=> \A i \in 1..Len(pushed) : pushed[i] # t)
    <3>1. pushed \in Seq(Tasks)
      BY <1>1 DEF TypeOK
    <3>2. /\ Len(pushed) \in Nat /\ Len(pushed') = Len(pushed) + 1 /\ pushed'[Len(pushed) + 1] = u
          /\ \A i \in 1..Len(pushed) : pushed'[i] = pushed[i]
      BY <2>1, <3>1
    <3>3. \A i \in 1..Len(pushed') : i \in 1..Len(pushed) \/ i = Len(pushed) + 1
      BY <3>2
    <3>4. \A i \in 1..Len(pushed) : i \in 1..Len(pushed')
      BY <3>2
    <3> QED  BY <3>2, <3>3, <3>4
  <2>4. CASE t = u
    BY <1>1, <1>3, <1>4, <1>5, <2>1, <2>2, <2>4 DEF OwnOf
  <2>5. CASE t # u
    BY <1>1, <1>3, <1>6, <2>1, <2>2, <2>3, <2>5 DEF OwnOf
  <2> QED  BY <2>4, <2>5
<1>8. CASE ~go
  <2>1. /\ queue' = queue /\ pushed' = pushed
        /\ deletes'[t] = IF t = u THEN deletes[t] + 1 ELSE deletes[t]
    BY <1>1, <1>2, <1>8 DEF Execute, DeleteTask, queueVars, TypeOK, TmTypeOK
  <2>2. Queued(t)' <=> Queued(t)
    BY <1>1, <1>3, <2>1, QueuedFrame
  <2>3. CASE t = u
    <3>1. ~Queued(t)
      BY <1>1, <1>4, <2>3, QueuedPushed DEF Queued, InQueue
    <3> QED  BY <1>1, <1>3, <1>4, <1>5, <2>1, <2>2, <2>3, <3>1 DEF OwnOf
  <2>4. CASE t # u
    BY <1>1, <1>3, <1>6, <2>1, <2>2, <2>4 DEF OwnOf
  <2> QED  BY <2>3, <2>4
<1> QED  BY <1>7, <1>8

\* EmptyQueue() deletes the first task.
LEMMA OwnEmpty == ASSUME IInv, NEW c \in Callers, DestroyEmpty(c), queue # <<>> PROVE OwnInv'
<1> SUFFICES ASSUME NEW t \in Tasks PROVE OwnOf(t)'
  BY DEF OwnInv
<1>1. OwnOf(t) /\ TypeOK /\ PushedInv /\ qpc = "joined"
  BY DEF DestroyEmpty, IInv, OwnInv, GoneInv
<1>2. /\ queue' = Tail(queue) /\ Head(queue) = queue[1] /\ queue[1] \in Tasks /\ 1 \in 1..Len(queue)
      /\ UNCHANGED <<wpc, slot, runs, hand, submitted, pushed, qpc>>
      /\ deletes' = [deletes EXCEPT ![Head(queue)] = @ + 1]
  BY <1>1, FrontOf DEF DestroyEmpty, DeleteTask
<1>3. Queued(t)' <=> Queued(t) /\ queue[1] # t
  BY <1>1, <1>2, QueuedTail
<1>4. deletes'[t] = IF t = queue[1] THEN deletes[t] + 1 ELSE deletes[t]
  BY <1>1, <1>2 DEF TypeOK, TmTypeOK
<1>5. CASE t = queue[1]
  <2>1. Queued(t)
    BY <1>1, <1>2, <1>5 DEF Queued, InQueue, Handed
  <2>2. \A d \in Callers : hand[d] # t
    BY <1>1, <2>1, QueuedPushed DEF OwnOf, Queued, InQueue
  <2> QED  BY <1>1, <1>2, <1>3, <1>4, <1>5, <2>1, <2>2 DEF OwnOf
<1>6. CASE t # queue[1]
  BY <1>1, <1>2, <1>3, <1>4, <1>6 DEF OwnOf
<1> QED  BY <1>5, <1>6

\* execute() is called with a new task.
LEMMA OwnCall == ASSUME IInv, NEW c \in Callers, NEW u \in Tasks, CallExecute(c, u) PROVE OwnInv'
<1> SUFFICES ASSUME NEW t \in Tasks PROVE OwnOf(t)'
  BY DEF OwnInv
<1>1. OwnOf(t) /\ CallInv /\ TypeOK /\ t # None
  BY PoolAssumption DEF IInv, OwnInv
<1>2. /\ u \notin submitted /\ submitted' = submitted \cup {u} /\ hand'[c] = u
      /\ hand[c] = None /\ \A d \in Callers \ {c} : hand'[d] = hand[d]
      /\ UNCHANGED <<wpc, slot, runs, deletes, queue, qpc, pushed>>
  BY <1>1 DEF CallExecute, Begin, tmVars, queueVars, CallInv, TypeOK
<1>3. Queued(t)' <=> Queued(t)
  BY <1>2, QueuedFrame
<1>4. CASE t = u
  <2>1. /\ \A d \in Callers : hand[d] # t
        /\ \A m \in Managers : slot[m] # t
        /\ \A i \in 1..Len(pushed) : pushed[i] # t
        /\ runs[t] = 0 /\ deletes[t] = 0 /\ ~Queued(t)
    BY <1>1, <1>2, <1>4 DEF OwnOf
  <2> QED  BY <1>2, <1>3, <1>4, <2>1 DEF OwnOf
<1>5. CASE t # u
  <2>1. (\A d \in Callers : hand'[d] = t <=> hand[d] = t) /\ (t \in submitted' <=> t \in submitted)
    BY <1>1, <1>2, <1>5
  <2> QED  BY <1>1, <1>2, <1>3, <2>1 DEF OwnOf
<1> QED  BY <1>4, <1>5

\* Every step keeps a task with one holder.
LEMMA OwnStep == IInv /\ [Next]_vars => OwnInv'
<1> SUFFICES ASSUME IInv, [Next]_vars PROVE OwnInv'
  OBVIOUS
<1>1. ASSUME NEW m \in Managers, WorkerStep(m) \/ WorkerSpurious(m),
             UNCHANGED <<owner, queueVars>>, QueueUnchanged
      PROVE  OwnInv'
  <2>1. CASE WorkerLock(m)
    BY <1>1, <2>1, OwnFrame DEF WorkerLock, QueueUnchanged, callVars, queueVars, IInv
  <2>2. CASE WorkerRun(m)
    <3> SUFFICES ASSUME NEW t \in Tasks PROVE OwnOf(t)'
      BY DEF OwnInv
    <3>1. OwnOf(t) /\ TypeOK
      BY DEF IInv, OwnInv
    <3>2. /\ wpc[m] = "loop" /\ wpc'[m] = "running"
          /\ \A n \in Managers \ {m} : wpc'[n] = wpc[n]
          /\ runs'[t] = IF t = slot[m] THEN runs[t] + 1 ELSE runs[t]
          /\ UNCHANGED <<slot, hand, deletes, submitted, queue, qpc, pushed>>
      BY <1>1, <2>2, <3>1
         DEF WorkerRun, TypeOK, TmTypeOK, queueVars, QueueUnchanged, callVars
    <3>3. Queued(t)' <=> Queued(t)
      BY <3>2, QueuedFrame
    <3>4. CASE t = slot[m]
      <4>1. /\ runs[t] = 0 /\ ~Queued(t) /\ \A n \in Managers : slot[n] = t => n = m
            /\ t \in submitted /\ \A c \in Callers : hand[c] # t
        BY <3>1, <3>2, <3>4 DEF OwnOf
      <4> QED  BY <3>1, <3>2, <3>3, <3>4, <4>1 DEF OwnOf
    <3>5. CASE t # slot[m]
      BY <3>1, <3>2, <3>3, <3>5 DEF OwnOf
    <3> QED  BY <3>4, <3>5
  <2>3. CASE WorkerFinish(m)
    <3>1. slot[m] # None /\ wpc \in [Managers -> WorkerStates]
      BY <2>3 DEF WorkerFinish, IInv, TmShape, TypeOK, TmTypeOK
    <3> QED  BY <1>1, <2>3, <3>1, OwnRelease
         DEF WorkerFinish, queueVars, QueueUnchanged, callVars
  <2>4. CASE WorkerWait(m)
    BY <1>1, <2>4, OwnFrame DEF WorkerWait, QueueUnchanged, callVars, queueVars, IInv
  <2>5. CASE WorkerExit(m)
    <3>1. CASE slot[m] = None
      <4>1. slot' = slot /\ UNCHANGED <<runs, deletes>>
        BY <2>5, <3>1 DEF WorkerExit, IInv, TypeOK, TmTypeOK
      <4> QED  BY <1>1, <2>5, <4>1, OwnFrame
          DEF WorkerExit, queueVars, QueueUnchanged, callVars, IInv, TypeOK, TmTypeOK
    <3>2. CASE slot[m] # None
      BY <1>1, <2>5, <3>2, OwnRelease
         DEF WorkerExit, queueVars, QueueUnchanged, callVars, IInv, TypeOK, TmTypeOK
    <3> QED  BY <3>1, <3>2
  <2>6. CASE WorkerSpurious(m)
    BY <1>1, <2>6, OwnFrame DEF WorkerSpurious, callVars, queueVars, IInv, QueueUnchanged
  <2> QED  BY <1>1, <2>1, <2>2, <2>3, <2>4, <2>5, <2>6 DEF WorkerStep
<1>2. ASSUME NEW m \in Managers, IdleNotification(m) PROVE OwnInv'
  BY <1>2, OwnFrame
     DEF IdleNotification, WorkerNotify, QueueNotified, callVars, IInv, QueueUnchanged
<1>3. CASE Queue
  <2>1. CASE QueueLock
    BY <2>1, OwnFrame DEF QueueLock, QueueUnchanged, callVars, tmVars
  <2>2. CASE QueueFront
    BY <2>2, OwnFrame DEF QueueFront, QueueUnchanged, callVars, tmVars
  <2>3. CASE QueueProbe
    BY <2>3, OwnFrame DEF QueueProbe, QueueUnchanged, callVars, tmVars
  <2>4. CASE QueueAssign
    BY <2>4, OwnAssign
  <2>5. CASE QueuePop
    BY <2>5, OwnPop
  <2>6. CASE QueueWait
    BY <2>6, OwnFrame DEF QueueWait, QueueUnchanged, callVars, tmVars
  <2>7. CASE QueueExit
    BY <2>7, OwnFrame DEF QueueExit, QueueUnchanged, callVars, tmVars
  <2> QED  BY <1>3, <2>1, <2>2, <2>3, <2>4, <2>5, <2>6, <2>7 DEF Queue
<1>4. CASE QueueSpurious
  BY <1>4, OwnFrame DEF QueueSpurious, QueueUnchanged, callVars, tmVars
<1>5. ASSUME NEW c \in Callers, Caller(c) PROVE OwnInv'
  <2>1. CASE Execute(c)
    BY <2>1, OwnExecute
  <2>2. CASE QueryEnter(c)
    BY <2>2, OwnFrame DEF QueryEnter, queueVars, tmVars
  <2>3. CASE QueryProbe(c)
    BY <2>3, OwnFrame DEF QueryProbe, queueVars, tmVars
  <2>4. CASE QueryReturn(c)
    BY <2>4, OwnFrame DEF QueryReturn, queueVars, tmVars
  <2>5. CASE TerminateEnter(c)
    BY <2>5, OwnFrame DEF TerminateEnter, QueueNotified, tmVars
  <2>6. CASE TerminateStop(c)
    BY <2>6, OwnFrame DEF TerminateStop, StopManager, queueVars
  <2>7. CASE TerminateSignal(c)
    BY <2>7, OwnFrame DEF TerminateSignal, SignalStop, Notified, queueVars, IInv
  <2>8. CASE TerminateJoin(c)
    BY <2>8, OwnFrame DEF TerminateJoin, JoinManager, queueVars, IInv, TypeOK
  <2>9. CASE TerminateReturn(c)
    BY <2>9, OwnFrame DEF TerminateReturn, queueVars, tmVars
  <2>10. CASE DestroyJoin(c)
    BY <2>10, OwnFrame DEF DestroyJoin, tmVars
  <2>11. CASE DestroyEmpty(c)
    <3>1. CASE queue # <<>>
      BY <2>11, <3>1, OwnEmpty
    <3>2. CASE queue = <<>>
      BY <2>11, <3>2, OwnFrame DEF DestroyEmpty, tmVars
    <3> QED  BY <3>1, <3>2
  <2> QED
    BY <1>5, <2>1, <2>2, <2>3, <2>4, <2>5, <2>6, <2>7, <2>8, <2>9, <2>10, <2>11
    DEF Caller
<1>6. ASSUME NEW c \in Callers, NewCall(c) PROVE OwnInv'
  <2>1. ASSUME NEW t \in Tasks, CallExecute(c, t) PROVE OwnInv'
    BY <2>1, OwnCall
  <2>2. ASSUME NEW o \in {"is_idle", "is_busy", "terminate"}, Call(c, o) PROVE OwnInv'
    BY <2>2, OwnFrame DEF Call, Begin, tmVars, queueVars
  <2>3. CASE CallDestroy(c)
    BY <2>3, OwnFrame DEF CallDestroy, Begin, tmVars, queueVars
  <2> QED  BY <1>6, <2>1, <2>2, <2>3 DEF NewCall
<1>7. CASE UNCHANGED vars
  BY <1>7, OwnFrame DEF vars, tmVars, queueVars, callVars
<1> QED  BY <1>1, <1>2, <1>3, <1>4, <1>5, <1>6, <1>7 DEF Next, Worker, Spurious, Quiescent


\* The program starts in the invariant.
LEMMA InitInv == Init => IInv
<1> SUFFICES ASSUME Init PROVE IInv
  OBVIOUS
<1>1. /\ wpc \in [Managers -> {"start", "unborn"}] /\ slot = [m \in Managers |-> None]
      /\ tmGo = [m \in Managers |-> TRUE]
      /\ runs = [t \in Tasks |-> 0] /\ deletes = [t \in Tasks |-> 0]
  BY DEF Init, TmInit
<1>2. TypeOK
  <2>1. TmTypeOK
    BY <1>1 DEF TmTypeOK, WorkerStates
  <2>2. 1 \in 1..PoolSize + 1 /\ 0 \in 0..MaxCalls /\ qpc \in QueueStates
    BY PoolAssumption, CallerAssumption DEF Init, QueueStates
  <2>3. <<>> \in Seq(Tasks)
    OBVIOUS
  <2> QED  BY <2>1, <2>2, <2>3 DEF Init, TypeOK, CallerStates, Operations
<1>3. /\ \A c \in Callers : pc[c] = "out" /\ hand[c] = None /\ op[c] = "execute"
      /\ queue = <<>> /\ pushed = <<>> /\ qpc \in {"start", "unborn"} /\ go /\ ~gone /\ submitted = {}
  BY DEF Init
<1>4. LockInv /\ CallInv /\ ScanInv /\ QueryAnswer /\ GoneInv
  BY <1>3, CallerAssumption
     DEF Init, LockInv, CallInv, ScanInv, QueryAnswer, GoneInv, Inside, Stopping, QueueInside
<1>5. TmShape
  BY <1>1 DEF TmShape
<1>6. StopInv
  <2>1. size = 0 => Managers = {}
    BY PoolAssumption DEF Init, Managers
  <2> QED  BY <1>1, <1>3, <2>1 DEF StopInv, Stopping
<1>7. PushedInv
  BY <1>3 DEF PushedInv
<1>8. OwnInv
  <2>1. \A t \in Tasks : ~Queued(t)
    BY <1>3 DEF Queued, InQueue
  <2> QED  BY <1>1, <1>3, <2>1, PoolAssumption DEF OwnInv, OwnOf
<1> QED  BY <1>2, <1>4, <1>5, <1>6, <1>7, <1>8 DEF IInv

\* The invariant is inductive.
LEMMA StepInv == IInv /\ [Next]_vars => IInv'
  BY TypeStep, LockStep, CallStep, ScanStep, StopStep, GoneStep, ShapeStep, PushedStep,
     OwnStep, QueryStep
     DEF IInv

\* Every reachable state satisfies the invariant.
THEOREM Invariance == Spec => []IInv
  BY InitInv, StepInv, PTL DEF Spec

\* A set with at most one element.
LEMMA OneOrNone ==
    ASSUME NEW S, \A x, y \in S : x = y
    PROVE  Cardinality(S) = IF S = {} THEN 0 ELSE 1
<1>1. CASE S = {}
  BY <1>1, FS_EmptySet
<1>2. CASE S # {}
  <2>1. PICK x : S = {x}
    BY <1>2
  <2> QED  BY <2>1, FS_Singleton
<1> QED  BY <1>1, <1>2

\* A task is with one caller, or queued once, or in one slot, or deleted.
LEMMA Ownership == IInv => TaskOwnership
<1> SUFFICES ASSUME IInv, NEW t \in Tasks
             PROVE  /\ Cardinality(InQueue(t)) <= 1
                    /\ Cardinality(InHand(t)) + Cardinality(InSlot(t)) + deletes[t]
                         + (IF Queued(t) THEN 1 ELSE 0) = (IF t \in submitted THEN 1 ELSE 0)
                    /\ runs[t] <= 1
                    /\ runs[t] = 1 => InSlot(t) # {} \/ deletes[t] = 1
  BY DEF TaskOwnership
<1>1. OwnOf(t) /\ TypeOK /\ PushedInv
  BY DEF IInv, OwnInv
<1>2. Cardinality(InQueue(t)) = IF InQueue(t) = {} THEN 0 ELSE 1
  <2>1. \A i, j \in InQueue(t) : i = j
    BY <1>1, QueueDistinct DEF InQueue
  <2> QED  BY <2>1, OneOrNone
<1>3. Cardinality(InHand(t)) = IF InHand(t) = {} THEN 0 ELSE 1
  <2>1. \A c, d \in InHand(t) : c = d
    BY <1>1 DEF InHand, OwnOf
  <2> QED  BY <2>1, OneOrNone
<1>4. Cardinality(InSlot(t)) = IF InSlot(t) = {} THEN 0 ELSE 1
  <2>1. \A m, n \in InSlot(t) : m = n
    BY <1>1 DEF InSlot, OwnOf
  <2> QED  BY <2>1, OneOrNone
<1>5. /\ InHand(t) # {} <=> \E c \in Callers : hand[c] = t
      /\ InSlot(t) # {} <=> \E m \in Managers : slot[m] = t
  BY DEF InHand, InSlot
<1>6. InHand(t) # {} => ~Queued(t)
  BY <1>1, <1>5, QueuedPushed DEF OwnOf, Queued, InQueue
<1>7. /\ InHand(t) # {} => t \in submitted /\ runs[t] = 0 /\ deletes[t] = 0 /\ InSlot(t) = {}
      /\ InSlot(t) # {} => t \in submitted /\ deletes[t] = 0 /\ ~Queued(t)
      /\ Queued(t) => t \in submitted /\ runs[t] = 0 /\ deletes[t] = 0
      /\ t \notin submitted => runs[t] = 0 /\ deletes[t] = 0
      /\ t \in submitted /\ deletes[t] = 0 => InHand(t) # {} \/ InSlot(t) # {} \/ Queued(t)
      /\ runs[t] \in {0, 1} /\ deletes[t] \in {0, 1}
  BY <1>1, <1>5 DEF OwnOf
<1>8. Cardinality(InHand(t)) + Cardinality(InSlot(t)) + deletes[t]
        + (IF Queued(t) THEN 1 ELSE 0) = (IF t \in submitted THEN 1 ELSE 0)
  <2>1. CASE InHand(t) # {}
    BY <1>3, <1>4, <1>6, <1>7, <2>1
  <2>2. CASE InHand(t) = {} /\ InSlot(t) # {}
    BY <1>3, <1>4, <1>7, <2>2
  <2>3. CASE InHand(t) = {} /\ InSlot(t) = {}
    BY <1>3, <1>4, <1>7, <2>3
  <2> QED  BY <2>1, <2>2, <2>3
<1>9. runs[t] = 1 => InSlot(t) # {} \/ deletes[t] = 1
  BY <1>7
<1> QED  BY <1>2, <1>7, <1>8, <1>9

\* The types, who owns each task, that an assignment succeeds and what the
\* destructor leaves behind, however many threads there are (threadpool.cpp
\* 807-890).
THEOREM StaysConsistent == Spec => []Consistent
<1>1. IInv => Consistent
  <2> SUFFICES ASSUME IInv PROVE Consistent
    OBVIOUS
  <2>1. TypeOK /\ TaskOwnership
    BY Ownership DEF IInv
  <2>2. SetTaskSucceeds
    BY AssignReady DEF SetTaskSucceeds, IsIdle, IsAlive
  <2>3. DestroyedIsClean
    <3> SUFFICES ASSUME gone, \A c \in Callers : pc[c] = "out"
                 PROVE  /\ qpc = "joined"
                        /\ \A m \in Managers : wpc[m] = "joined"
                        /\ \A t \in submitted : deletes[t] = 1
      BY DEF DestroyedIsClean
    <3>1. size = 0 /\ qpc = "joined" /\ queue = <<>>
      BY DEF IInv, GoneInv
    <3>2. \A m \in Managers : wpc[m] = "joined" /\ slot[m] = None
      BY <3>1 DEF IInv, StopInv, TmShape
    <3>3. ASSUME NEW t \in submitted PROVE deletes[t] = 1
      <4>1. t \in Tasks /\ t # None
        BY PoolAssumption DEF IInv, TypeOK
      <4>2. OwnOf(t)
        BY <4>1 DEF IInv, OwnInv
      <4>3. (\A c \in Callers : hand[c] # t) /\ (\A m \in Managers : slot[m] # t) /\ ~Queued(t)
        BY <3>1, <3>2, <4>1 DEF IInv, CallInv, Queued, InQueue
      <4> QED  BY <4>2, <4>3 DEF OwnOf
    <3> QED  BY <3>1, <3>2, <3>3
  <2> QED  BY <2>1, <2>2, <2>3 DEF Consistent
<1> QED  BY <1>1, Invariance, PTL

\* No task starts, or is handed to a worker, while an earlier one is queued
\* (866-890).
THEOREM OrderIsKept == Spec => []FirstInFirstOut
<1>1. IInv => FirstInFirstOut
  <2> SUFFICES ASSUME IInv PROVE FirstInFirstOut
    OBVIOUS
  <2> SUFFICES ASSUME NEW i \in DOMAIN pushed, NEW j \in DOMAIN pushed, i < j, Queued(pushed[i])
               PROVE  Queued(pushed[j]) /\ runs[pushed[j]] = 0
    BY DEF FirstInFirstOut
  <2> DEFINE d == Len(pushed) - Len(queue)
  <2>1. /\ TypeOK /\ PushedInv /\ Len(queue) \in Nat /\ Len(pushed) \in Nat
        /\ Len(queue) <= Len(pushed)
        /\ i \in 1..Len(pushed) /\ j \in 1..Len(pushed) /\ pushed[j] \in Tasks
    <3>1. TypeOK /\ PushedInv /\ queue \in Seq(Tasks) /\ pushed \in Seq(Tasks)
      BY DEF IInv, TypeOK
    <3>2. Len(queue) <= Len(pushed)
      BY <3>1 DEF PushedInv
    <3> QED  BY <3>1, <3>2
  <2>2. PICK k \in 1..Len(queue) : queue[k] = pushed[i]
    BY DEF Queued, InQueue
  <2>3. d + k \in 1..Len(pushed) /\ pushed[d + k] = pushed[i]
    BY <2>1, <2>2 DEF PushedInv
  <2>4. i = d + k
    BY <2>1, <2>3 DEF PushedInv
  <2>5. j - d \in 1..Len(queue) /\ j - d # 1 /\ d + (j - d) = j /\ 1 \in 1..Len(queue)
    BY <2>1, <2>2, <2>4
  <2>6. queue[j - d] = pushed[j]
    BY <2>1, <2>5 DEF PushedInv
  <2>7. queue[1] # pushed[j]
    BY <2>1, <2>5, <2>6, QueueDistinct
  <2>8. Queued(pushed[j])
    BY <2>5, <2>6, <2>7 DEF Queued, InQueue, Handed
  <2>9. OwnOf(pushed[j])
    BY <2>1 DEF IInv, OwnInv
  <2> QED  BY <2>8, <2>9 DEF OwnOf
<1> QED  BY <1>1, Invariance, PTL

\* is_idle() is right when it says true and is_busy() when it says false (895-910).
THEOREM AnswersAreExact == Spec => []QueryAnswer
<1>1. IInv => QueryAnswer
  BY DEF IInv
<1> QED  BY <1>1, Invariance, PTL

\* After terminate() has cleared go nothing is handed to a worker (867-890, 912-919).
THEOREM StopAssignsNothing == Spec => StoppedAssignsNothing
<1>1. IInv /\ [Next]_vars => (~go => \A m \in Managers : slot'[m] \in {slot[m], None})
  <2> SUFFICES ASSUME IInv, [Next]_vars, ~go PROVE \A m \in Managers : slot'[m] \in {slot[m], None}
    OBVIOUS
  <2>0. slot \in [Managers -> Tasks \cup {None}]
    BY DEF IInv, TypeOK, TmTypeOK
  <2>1. ASSUME NEW m \in Managers, WorkerStep(m) \/ WorkerSpurious(m)
        PROVE  \A n \in Managers : slot'[n] \in {slot[n], None}
    BY <2>0, <2>1
       DEF WorkerStep, WorkerLock, WorkerRun, WorkerFinish, WorkerWait, WorkerExit, WorkerSpurious
  <2>2. ASSUME NEW m \in Managers, IdleNotification(m) PROVE slot' = slot
    BY <2>2 DEF IdleNotification, WorkerNotify
  <2>3. ASSUME Queue PROVE slot' = slot
    BY <2>3, AssignReady
       DEF Queue, QueueLock, QueueFront, QueueProbe, QueueAssign, QueuePop, QueueWait, QueueExit, tmVars
  <2>4. ASSUME NEW c \in Callers, Caller(c) \/ NewCall(c) PROVE slot' = slot
    <3>1. CASE Execute(c) \/ DestroyEmpty(c)
      BY <3>1 DEF Execute, DestroyEmpty, DeleteTask, tmVars
    <3>2. CASE QueryEnter(c) \/ QueryProbe(c) \/ QueryReturn(c) \/ TerminateEnter(c)
               \/ TerminateReturn(c) \/ DestroyJoin(c)
      BY <3>2
         DEF QueryEnter, QueryProbe, QueryReturn, TerminateEnter, TerminateReturn,
             DestroyJoin, tmVars
    <3>3. CASE TerminateStop(c) \/ TerminateSignal(c) \/ TerminateJoin(c)
      BY <3>3
         DEF TerminateStop, TerminateSignal, TerminateJoin, StopManager, SignalStop,
             JoinManager
    <3>4. CASE NewCall(c)
      BY <3>4 DEF NewCall, CallExecute, Call, CallDestroy, Begin, tmVars
    <3> QED  BY <2>4, <3>1, <3>2, <3>3, <3>4 DEF Caller
  <2>5. CASE QueueSpurious
    BY <2>5 DEF QueueSpurious, tmVars
  <2>6. CASE UNCHANGED vars
    BY <2>6 DEF vars, tmVars
  <2> QED  BY <2>0, <2>1, <2>2, <2>3, <2>4, <2>5, <2>6
       DEF Next, Worker, Spurious, Quiescent
<1>2. IInv /\ [Next]_vars => [~go => \A m \in Managers : slot'[m] \in {slot[m], None}]_vars
  BY <1>1
<1> QED  BY <1>2, Invariance, PTL DEF Spec, StoppedAssignsNothing

-----------------------------------------------------------------------------
(* The pool implements TaskExecution                                       *)

\* Tasks that each sit in the slot of a manager other than m are fewer than
\* the managers: a slot holds one task.
LEMMA FewerThanManagers ==
    ASSUME NEW m \in Managers, NEW R, \A t \in R : \E n \in Managers \ {m} : slot[n] = t
    PROVE  Cardinality(R) < PoolSize
<1> DEFINE Others == Managers \ {m}
           f == [t \in R |-> CHOOSE n \in Others : slot[n] = t]
<1>1. IsFiniteSet(Others) /\ Cardinality(Others) = PoolSize - 1
  <2>1. PoolSize \in Nat /\ 1 \in Int /\ PoolSize \in Int /\ m \in 1..PoolSize
    BY PoolAssumption DEF Managers
  <2>2. IsFiniteSet(1..PoolSize) /\ Cardinality(1..PoolSize) = PoolSize
    BY <2>1, FS_Interval
  <2> QED  BY <2>1, <2>2, FS_RemoveElement DEF Managers
<1>2. \A t \in R : f[t] \in Others /\ slot[f[t]] = t
  OBVIOUS
<1>3. f \in Injection(R, Others)
  <2>1. f \in [R -> Others] /\ \A t, u \in R : f[t] = f[u] => t = u
    BY <1>2
  <2> HIDE DEF f, Others
  <2> QED  BY <2>1 DEF Injection, IsInjective
<1>4. Cardinality(R) <= Cardinality(Others) /\ Cardinality(R) \in Nat
  <2> HIDE DEF f, Others
  <2> QED  BY <1>1, <1>3, FS_Injection, FS_CardinalityType
<1> QED  BY <1>1, <1>4, PoolAssumption

\* The two variables of the abstract pool.
Life == [t \in Tasks |-> LifeOf(t)]
Closing == PoolSize = 0 \/ ~go

\* The life of a task, read off the three variables it is computed from.
LifeTable ==
    \A t \in Tasks :
        /\ t \notin submitted => LifeOf(t) = "new" /\ runs[t] = 0 /\ deletes[t] = 0
        /\ t \in submitted =>
              \/ runs[t] = 0 /\ deletes[t] = 0 /\ LifeOf(t) = "accepted"
              \/ runs[t] = 1 /\ deletes[t] = 0 /\ LifeOf(t) = "running"
              \/ runs[t] = 1 /\ deletes[t] = 1 /\ LifeOf(t) = "finished"
              \/ runs[t] = 0 /\ deletes[t] = 1 /\ LifeOf(t) = "discarded"

LEMMA LifeIsTable == IInv => LifeTable
<1> SUFFICES ASSUME IInv, NEW t \in Tasks
             PROVE  /\ t \notin submitted => LifeOf(t) = "new" /\ runs[t] = 0 /\ deletes[t] = 0
                    /\ t \in submitted =>
                          \/ runs[t] = 0 /\ deletes[t] = 0 /\ LifeOf(t) = "accepted"
                          \/ runs[t] = 1 /\ deletes[t] = 0 /\ LifeOf(t) = "running"
                          \/ runs[t] = 1 /\ deletes[t] = 1 /\ LifeOf(t) = "finished"
                          \/ runs[t] = 0 /\ deletes[t] = 1 /\ LifeOf(t) = "discarded"
  BY DEF LifeTable
<1>1. /\ runs[t] \in {0, 1} /\ deletes[t] \in {0, 1}
      /\ t \notin submitted => runs[t] = 0 /\ deletes[t] = 0
  BY DEF IInv, OwnInv, OwnOf
<1>2. CASE t \notin submitted
  BY <1>1, <1>2 DEF LifeOf
<1>3. CASE t \in submitted /\ runs[t] = 0 /\ deletes[t] = 0
  BY <1>3 DEF LifeOf
<1>4. CASE t \in submitted /\ runs[t] = 1 /\ deletes[t] = 0
  BY <1>4 DEF LifeOf
<1>5. CASE t \in submitted /\ runs[t] = 1 /\ deletes[t] = 1
  BY <1>5 DEF LifeOf
<1>6. CASE t \in submitted /\ runs[t] = 0 /\ deletes[t] = 1
  BY <1>6 DEF LifeOf
<1> QED  BY <1>1, <1>2, <1>3, <1>4, <1>5, <1>6

\* The table holds after a step too.
LEMMA LifeIsTableNext == IInv /\ [Next]_vars => LifeTable /\ LifeTable'
<1>1. IInv => LifeTable
  BY LifeIsTable
<1>2. IInv' => LifeTable'
  BY <1>1, PTL
<1> QED  BY <1>1, <1>2, StepInv

\* A task that is being run is in the slot of a worker inside run().
LEMMA RunningIsInSlot ==
    ASSUME IInv, NEW t \in Tasks, LifeOf(t) = "running"
    PROVE  \E n \in Managers : slot[n] = t /\ wpc[n] = "running"
<1>1. t \in submitted /\ runs[t] = 1 /\ deletes[t] = 0
  BY LifeIsTable DEF LifeTable
<1>2. OwnOf(t)
  BY DEF IInv, OwnInv
<1>3. (\A c \in Callers : hand[c] # t) /\ ~Queued(t)
  BY <1>1, <1>2 DEF OwnOf
<1> QED  BY <1>1, <1>2, <1>3 DEF OwnOf

\* While a worker is not inside run(), fewer tasks run than there are managers.
LEMMA FreeWorker ==
    ASSUME IInv, NEW m \in Managers, wpc[m] # "running"
    PROVE  Cardinality({t \in Tasks : LifeOf(t) = "running"}) < PoolSize
<1>1. \A t \in {u \in Tasks : LifeOf(u) = "running"} : \E n \in Managers \ {m} : slot[n] = t
  BY RunningIsInSlot
<1> QED  BY <1>1, FewerThanManagers

\* Steps that change the life of no task.
LEMMA LifeFrame ==
    ASSUME UNCHANGED <<runs, deletes, submitted>>
    PROVE  Life' = Life
  BY DEF Life, LifeOf

\* Steps that change the life of one.
LEMMA LifeOfOne ==
    ASSUME NEW t \in Tasks, NEW s, LifeOf(t)' = s,
           \A u \in Tasks \ {t} : LifeOf(u)' = LifeOf(u)
    PROVE  Life' = [Life EXCEPT ![t] = s]
  BY DEF Life

\* terminate() is not undone.
LEMMA ClosingStays == IInv /\ [Next]_vars => (Closing => Closing')
<1> SUFFICES ASSUME IInv, [Next]_vars PROVE go' = go \/ ~go'
  BY DEF Closing, IInv, TypeOK
<1>1. ASSUME NEW m \in Managers, Worker(m) PROVE go' = go
  BY <1>1 DEF Worker, IdleNotification, queueVars
<1>2. ASSUME Queue PROVE go' = go
  BY <1>2
     DEF Queue, QueueLock, QueueFront, QueueProbe, QueueAssign, QueuePop, QueueWait,
         QueueExit
<1>3. ASSUME NEW c \in Callers, Caller(c) PROVE go' = go \/ ~go'
  BY <1>3
     DEF Caller, Execute, QueryEnter, QueryProbe, QueryReturn, TerminateEnter,
         TerminateStop, TerminateSignal, TerminateJoin, TerminateReturn, DestroyJoin,
         DestroyEmpty, queueVars
<1>4. ASSUME NEW c \in Callers, NewCall(c) PROVE go' = go
  BY <1>4 DEF NewCall, CallExecute, Call, CallDestroy, Begin, queueVars
<1>5. ASSUME Spurious PROVE go' = go
  BY <1>5 DEF Spurious, QueueSpurious, queueVars
<1>6. CASE UNCHANGED vars
  BY <1>6 DEF vars, queueVars
<1> QED  BY <1>1, <1>2, <1>3, <1>4, <1>5, <1>6 DEF Next, Quiescent

\* What a step of the pool is for the abstract pool.
AbstractStep == Abstract!Next \/ UNCHANGED <<Life, Closing>>

\* A step that changes no life is a Close or a stutter.
LEMMA QuietStep ==
    ASSUME IInv, [Next]_vars, Life' = Life
    PROVE  AbstractStep
<1>1. Closing \in BOOLEAN /\ Closing' \in BOOLEAN
  BY DEF Closing
<1>2. CASE Closing' = Closing
  BY <1>2 DEF AbstractStep
<1>3. CASE Closing' = TRUE
  <2>1. Abstract!Close
    BY <1>3 DEF Abstract!Close, Closing, Life
  <2> QED  BY <2>1 DEF AbstractStep, Abstract!Next
<1> QED  BY <1>1, <1>2, <1>3, ClosingStays

\* A step that changes one.
LEMMA LifeStep ==
    ASSUME NEW t \in Tasks, NEW s, LifeOf(t)' = s,
           \A u \in Tasks \ {t} : LifeOf(u)' = LifeOf(u),
           UNCHANGED go
    PROVE  Abstract!Become(t, LifeOf(t), s)
<1>1. Life' = [Life EXCEPT ![t] = s]
  BY LifeOfOne
<1>2. Life[t] = LifeOf(t)
  BY DEF Life
<1>3. Closing' = Closing
  BY DEF Closing
<1> QED  BY <1>1, <1>2, <1>3 DEF Abstract!Become, Life, Closing

\* The abstract module counts with the same Cardinality.
LEMMA SameCardinality == \A S : Abstract!Cardinality(S) = Cardinality(S)
  BY DEF Abstract!Cardinality, Cardinality

\* run() is entered: Start.
LEMMA RunMaps ==
    ASSUME IInv, [Next]_vars, NEW m \in Managers, NEW t \in Tasks, t = slot[m], WorkerRun(m),
           UNCHANGED <<owner, queueVars>>, QueueUnchanged
    PROVE  AbstractStep
<1>1. t \in submitted /\ runs[t] = 0 /\ deletes[t] = 0
  <2>1. wpc[m] # "running" /\ OwnOf(t)
    BY DEF WorkerRun, IInv, OwnInv
  <2> QED  BY <2>1 DEF OwnOf
<1>2. /\ runs \in [Tasks -> Nat] /\ runs' = [runs EXCEPT ![t] = @ + 1]
      /\ UNCHANGED <<deletes, submitted, go>>
  BY DEF WorkerRun, queueVars, QueueUnchanged, IInv, TypeOK, TmTypeOK
<1>3. LifeOf(t) = "accepted"
  BY <1>1, LifeIsTable DEF LifeTable
<1>4. LifeOf(t)' = "running"
  <2>1. runs'[t] = 1 /\ deletes'[t] = 0 /\ t \in submitted'
    BY <1>1, <1>2
  <2> QED  BY <2>1, LifeIsTableNext DEF LifeTable
<1>5. \A u \in Tasks \ {t} : LifeOf(u)' = LifeOf(u)
  <2>1. \A u \in Tasks \ {t} : runs'[u] = runs[u]
    BY <1>2
  <2> QED  BY <1>2, <2>1 DEF LifeOf
<1>6. Abstract!Become(t, "accepted", "running")
  BY <1>2, <1>3, <1>4, <1>5, LifeStep
<1>7. Abstract!Cardinality(Abstract!With("running")) < PoolSize
  <2>1. wpc[m] # "running"
    BY DEF WorkerRun
  <2>2. Abstract!With("running") = {u \in Tasks : LifeOf(u) = "running"}
    BY DEF Abstract!With
  <2> QED  BY <2>1, <2>2, FreeWorker, SameCardinality
<1> QED  BY <1>6, <1>7 DEF AbstractStep, Abstract!Next, Abstract!Start

\* A task is deleted, by the worker that ran it or in the way of terminate().
LEMMA DeleteMaps ==
    ASSUME IInv, [Next]_vars, NEW t \in Tasks, deletes[t] = 0, t \in submitted,
           deletes' = [deletes EXCEPT ![t] = @ + 1],
           UNCHANGED <<runs, submitted, go>>,
           runs[t] = 0 => Closing
    PROVE  AbstractStep
<1>1. /\ \A u \in Tasks \ {t} : deletes'[u] = deletes[u]
      /\ deletes'[t] = 1 /\ t \in submitted'
  BY DEF IInv, TypeOK, TmTypeOK
<1>2. \A u \in Tasks \ {t} : LifeOf(u)' = LifeOf(u)
  BY <1>1 DEF LifeOf
<1>3. CASE runs[t] = 1
  <2>1. LifeOf(t) = "running" /\ LifeOf(t)' = "finished"
    BY <1>1, <1>3, LifeIsTableNext DEF LifeTable
  <2>2. Abstract!Become(t, "running", "finished")
    BY <1>2, <2>1, LifeStep
  <2> QED  BY <2>2 DEF AbstractStep, Abstract!Next, Abstract!Finish
<1>4. CASE runs[t] = 0
  <2>1. LifeOf(t) = "accepted" /\ LifeOf(t)' = "discarded"
    BY <1>1, <1>4, LifeIsTableNext DEF LifeTable
  <2>2. Abstract!Become(t, "accepted", "discarded")
    BY <1>2, <2>1, LifeStep
  <2>3. Closing
    BY <1>4
  <2> QED  BY <2>2, <2>3 DEF AbstractStep, Abstract!Next, Abstract!Discard, Closing
<1> QED  BY <1>3, <1>4 DEF IInv, OwnInv, OwnOf

\* execute() is called: Accept.
LEMMA AcceptMaps ==
    ASSUME IInv, [Next]_vars, NEW c \in Callers, NEW t \in Tasks, CallExecute(c, t)
    PROVE  AbstractStep
<1>1. /\ t \notin submitted /\ submitted' = submitted \cup {t}
      /\ UNCHANGED <<runs, deletes, go>>
  BY DEF CallExecute, Begin, tmVars, queueVars
<1>2. LifeOf(t) = "new" /\ runs[t] = 0 /\ deletes[t] = 0
  BY <1>1, LifeIsTable DEF LifeTable
<1>3. LifeOf(t)' = "accepted"
  <2>1. runs'[t] = 0 /\ deletes'[t] = 0 /\ t \in submitted'
    BY <1>1, <1>2
  <2> QED  BY <2>1, LifeIsTableNext DEF LifeTable
<1>4. \A u \in Tasks \ {t} : LifeOf(u)' = LifeOf(u)
  <2>1. \A u \in Tasks \ {t} : u \in submitted' <=> u \in submitted
    BY <1>1
  <2> QED  BY <1>1, <2>1 DEF LifeOf
<1>5. Abstract!Become(t, "new", "accepted")
  BY <1>1, <1>2, <1>3, <1>4, LifeStep
<1> QED  BY <1>5 DEF AbstractStep, Abstract!Next, Abstract!Accept

\* Every step of the pool is one of the abstract pool or a stutter.
LEMMA StepMaps == IInv /\ [Next]_vars => AbstractStep
<1> SUFFICES ASSUME IInv, [Next]_vars PROVE AbstractStep
  OBVIOUS
<1>0. UNCHANGED <<runs, deletes, submitted>> => AbstractStep
  BY LifeFrame, QuietStep
<1>1. ASSUME NEW m \in Managers, WorkerStep(m) \/ WorkerSpurious(m),
             UNCHANGED <<owner, queueVars>>, QueueUnchanged
      PROVE  AbstractStep
  <2>0. UNCHANGED <<submitted, go>>
    BY <1>1 DEF queueVars, QueueUnchanged
  <2>1. CASE WorkerLock(m) \/ WorkerWait(m) \/ WorkerSpurious(m)
    BY <1>0, <2>0, <2>1 DEF WorkerLock, WorkerWait, WorkerSpurious
  <2>2. CASE WorkerRun(m)
    <3>1. PICK t \in Tasks : t = slot[m]
      BY <2>2 DEF WorkerRun, IInv, TypeOK, TmTypeOK
    <3> QED  BY <1>1, <2>2, <3>1, RunMaps
  <2>3. CASE WorkerFinish(m)
    <3>1. wpc[m] = "running" /\ slot[m] # None
      BY <2>3 DEF WorkerFinish, IInv, TmShape
    <3>2. PICK t \in Tasks : t = slot[m]
      BY <3>1 DEF IInv, TypeOK, TmTypeOK
    <3>3. t \in submitted /\ deletes[t] = 0 /\ runs[t] = 1
      <4>1. OwnOf(t)
        BY DEF IInv, OwnInv
      <4> QED  BY <3>1, <3>2, <4>1 DEF OwnOf
    <3>4. deletes' = [deletes EXCEPT ![t] = @ + 1] /\ UNCHANGED <<runs, submitted, go>>
      BY <2>0, <2>3, <3>2 DEF WorkerFinish
    <3>5. runs[t] = 0 => Closing
      BY <3>3
    <3> QED  BY <3>3, <3>4, <3>5, DeleteMaps
  <2>4. CASE WorkerExit(m)
    <3>1. CASE slot[m] = None
      BY <1>0, <2>0, <2>4, <3>1 DEF WorkerExit
    <3>2. CASE slot[m] # None
      <4>1. PICK t \in Tasks : t = slot[m]
        BY <3>2 DEF IInv, TypeOK, TmTypeOK
      <4>2. t \in submitted /\ deletes[t] = 0
        <5>1. OwnOf(t)
          BY DEF IInv, OwnInv
        <5> QED  BY <4>1, <5>1 DEF OwnOf
      <4>3. Closing
        BY <2>4 DEF WorkerExit, Closing, IInv, StopInv
      <4>4. deletes' = [deletes EXCEPT ![t] = @ + 1] /\ UNCHANGED <<runs, submitted, go>>
        BY <2>0, <2>4, <3>2, <4>1 DEF WorkerExit
      <4> QED  BY <4>2, <4>3, <4>4, DeleteMaps
    <3> QED  BY <3>1, <3>2
  <2> QED  BY <1>1, <2>1, <2>2, <2>3, <2>4 DEF WorkerStep
<1>2. ASSUME NEW m \in Managers, IdleNotification(m) PROVE AbstractStep
  BY <1>0, <1>2 DEF IdleNotification, WorkerNotify, QueueUnchanged
<1>3. CASE Queue
  <2>1. CASE QueueAssign
    BY <1>0, <2>1, AssignSets DEF AssignEffect
  <2>2. CASE QueueLock \/ QueueFront \/ QueueProbe \/ QueuePop \/ QueueWait \/ QueueExit
    BY <1>0, <2>2 DEF QueueLock, QueueFront, QueueProbe, QueuePop, QueueWait, QueueExit,
                      QueueUnchanged, tmVars
  <2> QED  BY <1>3, <2>1, <2>2 DEF Queue
<1>4. CASE QueueSpurious
  BY <1>0, <1>4 DEF QueueSpurious, QueueUnchanged, tmVars
<1>5. ASSUME NEW c \in Callers, Caller(c) PROVE AbstractStep
  <2>1. CASE QueryEnter(c) \/ QueryProbe(c) \/ QueryReturn(c) \/ TerminateEnter(c)
             \/ TerminateReturn(c) \/ DestroyJoin(c)
    BY <1>0, <2>1
       DEF QueryEnter, QueryProbe, QueryReturn, TerminateEnter, TerminateReturn,
           DestroyJoin, tmVars
  <2>2. CASE TerminateStop(c) \/ TerminateSignal(c) \/ TerminateJoin(c)
    BY <1>0, <2>2
       DEF TerminateStop, TerminateSignal, TerminateJoin, StopManager, SignalStop,
           JoinManager
  <2>3. CASE Execute(c)
    <3>1. CASE go
      BY <1>0, <2>3, <3>1 DEF Execute, tmVars
    <3>2. CASE ~go
      <4>1. PICK t \in Tasks : t = hand[c]
        BY <2>3 DEF Execute, IInv, CallInv, TypeOK
      <4>2. t \in submitted /\ deletes[t] = 0
        <5>1. OwnOf(t)
          BY DEF IInv, OwnInv
        <5> QED  BY <4>1, <5>1 DEF OwnOf
      <4>3. Closing
        BY <3>2 DEF Closing
      <4>4. deletes' = [deletes EXCEPT ![t] = @ + 1] /\ UNCHANGED <<runs, submitted, go>>
        BY <2>3, <3>2, <4>1 DEF Execute, DeleteTask, queueVars
      <4> QED  BY <4>2, <4>3, <4>4, DeleteMaps
    <3> QED  BY <3>1, <3>2
  <2>4. CASE DestroyEmpty(c)
    <3>1. CASE queue = <<>>
      BY <1>0, <2>4, <3>1 DEF DestroyEmpty, tmVars
    <3>2. CASE queue # <<>>
      <4>1. TypeOK /\ qpc # "pop" /\ ~go
        BY <2>4 DEF DestroyEmpty, IInv, GoneInv, StopInv
      <4>2. PICK t \in Tasks : t = queue[1]
        BY <3>2, <4>1, FrontOf
      <4>3. Queued(t) /\ Head(queue) = t
        <5>1. 1 \in 1..Len(queue) /\ Head(queue) = queue[1]
          BY <3>2, <4>1, FrontOf
        <5> QED  BY <4>1, <4>2, <5>1 DEF Queued, InQueue, Handed
      <4>4. t \in submitted /\ deletes[t] = 0
        <5>1. OwnOf(t)
          BY DEF IInv, OwnInv
        <5> QED  BY <4>3, <5>1 DEF OwnOf
      <4>5. Closing
        BY <4>1 DEF Closing
      <4>6. deletes' = [deletes EXCEPT ![t] = @ + 1] /\ UNCHANGED <<runs, submitted, go>>
        BY <2>4, <3>2, <4>3 DEF DestroyEmpty, DeleteTask
      <4> QED  BY <4>4, <4>5, <4>6, DeleteMaps
    <3> QED  BY <3>1, <3>2
  <2> QED  BY <1>5, <2>1, <2>2, <2>3, <2>4 DEF Caller
<1>6. ASSUME NEW c \in Callers, NewCall(c) PROVE AbstractStep
  <2>1. ASSUME NEW t \in Tasks, CallExecute(c, t) PROVE AbstractStep
    BY <2>1, AcceptMaps
  <2>2. ASSUME NEW o \in {"is_idle", "is_busy", "terminate"}, Call(c, o) PROVE AbstractStep
    BY <1>0, <2>2 DEF Call, Begin, tmVars
  <2>3. CASE CallDestroy(c)
    BY <1>0, <2>3 DEF CallDestroy, Begin, tmVars
  <2> QED  BY <1>6, <2>1, <2>2, <2>3 DEF NewCall
<1>7. CASE UNCHANGED vars
  BY <1>0, <1>7 DEF vars, tmVars
<1> QED  BY <1>1, <1>2, <1>3, <1>4, <1>5, <1>6, <1>7 DEF Next, Worker, Spurious, Quiescent

\* The pool starts as the abstract pool does.
LEMMA InitMaps == Init => Abstract!Init
<1> SUFFICES ASSUME Init PROVE Abstract!Init
  OBVIOUS
<1>1. Life = [t \in Tasks |-> "new"]
  <2>1. submitted = {}
    BY DEF Init
  <2>2. \A t \in Tasks : LifeOf(t) = "new"
    BY <2>1, InitInv, LifeIsTable DEF LifeTable
  <2> QED  BY <2>2 DEF Life
<1>2. Closing = (PoolSize = 0)
  BY DEF Init, Closing
<1> QED  BY <1>1, <1>2 DEF Abstract!Init, Life, Closing

\* A task given to execute() is run once, by one of at most PoolSize threads,
\* and then deleted once; unrun it is deleted only after terminate(), although
\* the queue thread hands it over and pops it in two steps (threadpool.cpp 807-890).
THEOREM Implementation == Spec => ImplementsTaskExecution
<1>1. IInv /\ [Next]_vars => [Abstract!Next]_(Abstract!vars)
  BY StepMaps DEF AbstractStep, Abstract!vars, Life, Closing
<1> QED  BY <1>1, InitMaps, Invariance, PTL
     DEF Spec, ImplementsTaskExecution, Abstract!Spec
=============================================================================
