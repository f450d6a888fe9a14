----------------------- MODULE PosixThreadPool_proofs -----------------------
(***************************************************************************)
(* Proofs about PosixThreadPool, for every number of managers, every set   *)
(* of tasks and callers and every bound on the calls.                      *)
(***************************************************************************)
EXTENDS PosixThreadPool, FiniteSetTheorems, TLAPS

\* A caller is inside the pool's monitor exactly when it holds the lock.
LockInv == \A c \in Callers : pc[c] \in Inside <=> poolOwner = c

\* The states of a call fit the call; execute() has its argument until it
\* passes it on.
CallInv ==
    \A c \in Callers :
        /\ pc[c] \in {"assign", "waiting", "woken"} => op[c] = "execute"
        /\ pc[c] = "answer" => op[c] \in {"is_idle", "is_busy"}
        /\ pc[c] = "probe" => op[c] \in {"execute", "is_idle", "is_busy"}
        /\ pc[c] \in Stopping => op[c] \in {"terminate", "destroy"}
        /\ hand[c] # None <=> op[c] = "execute" /\ pc[c] # "out"

\* What the holder of the lock has found out about the managers stays true
\* until it gives the lock back.
ScanInv ==
    \A c \in Callers :
        /\ pc[c] = "assign" => cur[c] <= size /\ IsIdle(cur[c])
        /\ pc[c] = "probe" /\ op[c] \in {"is_idle", "is_busy"} =>
              /\ cur[c] <= size
              /\ answer[c] = (op[c] = "is_busy")
              /\ \A m \in 1..(cur[c] - 1) : IsIdle(m)

\* Which managers are stopped and freed, by how far terminate() has come.
StopInv ==
    /\ \A m \in Managers :
          /\ ~tmGo[m] => size = 0 \/ (poolOwner \in Callers /\ pc[poolOwner] \in Stopping)
          /\ wpc[m] = "joined" =>
                \/ size = 0
                \/ /\ poolOwner \in Callers
                   /\ \/ pc[poolOwner] \in {"signal", "join"} /\ m < cur[poolOwner]
                      \/ pc[poolOwner] = "clear"
    /\ size = 0 => \A m \in Managers : wpc[m] = "joined"
    /\ \A c \in Callers :
          /\ pc[c] = "clear" => \A m \in Managers : wpc[m] = "joined"
          /\ pc[c] \in {"stop", "signal", "join"} => cur[c] <= size
          /\ pc[c] \in {"signal", "join"} => \A m \in 1..(cur[c] - 1) : wpc[m] = "joined"
          /\ pc[c] = "join" => ~tmGo[cur[c]]

\* TaskOwnership, said without the sets InHand and InSlot: a task is held by
\* at most one caller or slot, and as long as one holds it, it is not deleted.
OwnOf(t) ==
    /\ \A c, d \in Callers : hand[c] = t /\ hand[d] = t => c = d
    /\ \A m, n \in Managers : slot[m] = t /\ slot[n] = t => m = n
    /\ \A c \in Callers, m \in Managers : ~(hand[c] = t /\ slot[m] = t)
    /\ \A c \in Callers : hand[c] = t => t \in submitted /\ runs[t] = 0 /\ deletes[t] = 0
    /\ \A m \in Managers : slot[m] = t =>
          /\ t \in submitted
          /\ deletes[t] = 0
          /\ runs[t] = IF wpc[m] = "running" THEN 1 ELSE 0
    /\ t \notin submitted => runs[t] = 0 /\ deletes[t] = 0
    /\ runs[t] \in {0, 1} /\ deletes[t] \in {0, 1}
    /\ t \in submitted /\ deletes[t] = 0 =>
          (\E c \in Callers : hand[c] = t) \/ (\E m \in Managers : slot[m] = t)

OwnInv == \A t \in Tasks : OwnOf(t)

\* The inductive invariant.
IInv == /\ TypeOK /\ LockInv /\ CallInv /\ ScanInv /\ StopInv
        /\ TmShape /\ OwnInv /\ QueryAnswer

\* notify() wakes at most one waiting caller and touches no other.
LEMMA NotifyOneEffect ==
    ASSUME NEW f \in [Callers -> CallerStates], NEW g \in NotifyOne(f)
    PROVE  /\ g \in [Callers -> CallerStates]
           /\ \A c \in Callers : g[c] = f[c] \/ (f[c] = "waiting" /\ g[c] = "woken")
  BY DEF NotifyOne, Waiters, CallerStates

\* The same, for the two steps that call notify().
LEMMA IdleNotificationEffect ==
    ASSUME TypeOK, NEW m \in Managers, IdleNotification(m)
    PROVE  /\ pc' \in [Callers -> CallerStates]
           /\ \A c \in Callers : pc'[c] = pc[c] \/ (pc[c] = "waiting" /\ pc'[c] = "woken")
  BY NotifyOneEffect DEF IdleNotification, TypeOK

LEMMA TerminateReturnEffect ==
    ASSUME TypeOK, NEW c \in Callers, TerminateReturn(c)
    PROVE  /\ pc' \in [Callers -> CallerStates]
           /\ pc'[c] = "out"
           /\ \A d \in Callers \ {c} :
                 pc'[d] = pc[d] \/ (pc[d] = "waiting" /\ pc'[d] = "woken")
<1> DEFINE f == [pc EXCEPT ![c] = "out"]
<1>1. f \in [Callers -> CallerStates] /\ pc' \in NotifyOne(f)
  BY DEF TerminateReturn, TypeOK, CallerStates
<1>2. /\ pc' \in [Callers -> CallerStates]
      /\ \A d \in Callers : pc'[d] = f[d] \/ (f[d] = "waiting" /\ pc'[d] = "woken")
  <2> HIDE DEF f
  <2> QED  BY <1>1, NotifyOneEffect
<1>3. f[c] = "out" /\ \A d \in Callers \ {c} : f[d] = pc[d]
  BY DEF TypeOK
<1> QED  BY <1>2, <1>3

\* The lock holder is the only caller inside.
LEMMA Exclusive ==
    ASSUME IInv, NEW c \in Callers, pc[c] \in Inside
    PROVE  poolOwner = c /\ \A d \in Callers \ {c} : pc[d] \notin Inside
  BY DEF IInv, LockInv

\* When it leaves the monitor, nobody is inside.
LEMMA LeavingEmpties ==
    ASSUME IInv, NEW c \in Callers, pc[c] \in Inside, pc'[c] \in {"out", "waiting"},
           \A d \in Callers \ {c} : pc'[d] = pc[d] \/ (pc[d] = "waiting" /\ pc'[d] = "woken")
    PROVE  \A d \in Callers : pc'[d] \notin Inside
  BY Exclusive DEF Inside, Stopping

\* While a caller is inside and is not terminating, the pool is whole or was
\* terminated before.
LEMMA OpenInside ==
    ASSUME IInv, NEW c \in Callers, pc[c] \in Inside \ Stopping
    PROVE  size = 0 \/ \A m \in Managers : tmGo[m] /\ wpc[m] \notin {"stopped", "joined"}
<1>1. poolOwner = c /\ pc[poolOwner] \notin Stopping
  BY Exclusive
<1>2. size = 0 \/ \A m \in Managers : tmGo[m]
  BY <1>1 DEF IInv, StopInv
<1> QED  BY <1>2 DEF IInv, TmShape

\* FirstState, case by case.
FirstStateOf(c) ==
    \/ FirstState(c) = "probe" /\ op[c] = "execute"
    \/ FirstState(c) = "probe" /\ op[c] \in {"is_idle", "is_busy"} /\ 1 <= size
    \/ FirstState(c) = "answer" /\ op[c] \in {"is_idle", "is_busy"} /\ size = 0
    \/ FirstState(c) = "stop" /\ op[c] \in {"terminate", "destroy"} /\ 1 <= size
    \/ FirstState(c) = "clear" /\ op[c] \in {"terminate", "destroy"} /\ size = 0

\* A call goes from the lock to one of these states.
LEMMA FirstStateCases ==
    ASSUME IInv, NEW c \in Callers
    PROVE  FirstStateOf(c)
<1> USE DEF FirstStateOf
<1>1. op[c] \in Operations /\ size \in Nat
  BY PoolAssumption DEF IInv, TypeOK
<1>2. CASE op[c] = "execute"
  BY <1>2 DEF FirstState
<1>3. CASE op[c] \in {"is_idle", "is_busy"}
  BY <1>1, <1>3 DEF FirstState
<1>4. CASE op[c] \in {"terminate", "destroy"}
  BY <1>1, <1>4 DEF FirstState
<1> QED  BY <1>1, <1>2, <1>3, <1>4 DEF Operations

\* Steps that change neither a slot nor go, free no manager and take no caller
\* into or out of terminate() keep StopInv.
LEMMA StopFrame ==
    ASSUME IInv,
           UNCHANGED <<tmGo, size>>,
           \A m \in Managers : wpc'[m] = "joined" <=> wpc[m] = "joined",
           \A c \in Callers : pc'[c] \in Stopping <=> pc[c] \in Stopping,
           \A c \in Callers : pc[c] \in Stopping =>
              pc'[c] = pc[c] /\ cur'[c] = cur[c] /\ poolOwner' = poolOwner,
           poolOwner' # poolOwner /\ size # 0 =>
              \A m \in Managers : tmGo[m] /\ wpc[m] # "joined"
    PROVE  StopInv'
<1>1. ASSUME NEW m \in Managers, ~tmGo'[m], size' # 0
      PROVE  poolOwner' \in Callers /\ pc'[poolOwner'] \in Stopping
  <2>1. ~tmGo[m] /\ size # 0
    BY <1>1
  <2>2. poolOwner' = poolOwner
    BY <2>1
  <2>3. poolOwner \in Callers /\ pc[poolOwner] \in Stopping
    BY <2>1 DEF IInv, StopInv
  <2> QED  BY <2>2, <2>3
<1>2. \A m \in Managers : wpc'[m] = "joined" =>
                \/ size' = 0
                \/ /\ poolOwner' \in Callers
                   /\ \/ pc'[poolOwner'] \in {"signal", "join"} /\ m < cur'[poolOwner']
                      \/ pc'[poolOwner'] = "clear"
  BY DEF IInv, StopInv, Stopping
<1>3. size' = 0 => \A m \in Managers : wpc'[m] = "joined"
  BY DEF IInv, StopInv
<1>4. ASSUME NEW c \in Callers
      PROVE  /\ pc'[c] = "clear" => \A m \in Managers : wpc'[m] = "joined"
             /\ pc'[c] \in {"stop", "signal", "join"} => cur'[c] <= size'
             /\ pc'[c] \in {"signal", "join"} => \A m \in 1..(cur'[c] - 1) : wpc'[m] = "joined"
             /\ pc'[c] = "join" => ~tmGo'[cur'[c]]
  <2>1. CASE pc[c] \in Stopping
    <3>1. pc'[c] \in {"signal", "join"} => 1..(cur[c] - 1) \subseteq Managers
      BY <2>1, PoolAssumption DEF IInv, TypeOK, StopInv, Managers, Stopping
    <3> QED  BY <2>1, <3>1 DEF IInv, StopInv, Stopping
  <2> QED  BY <2>1 DEF Stopping
<1> QED  BY <1>1, <1>2, <1>3, <1>4 DEF StopInv

\* The iterator of a caller that works on a manager names one.
LEMMA CursorInside ==
    ASSUME IInv, NEW c \in Callers,
           \/ pc[c] \in {"assign", "stop", "signal", "join"}
           \/ pc[c] = "probe" /\ op[c] \in {"is_idle", "is_busy"}
    PROVE  cur[c] \in Managers /\ size = PoolSize
<1>1. cur[c] \in 1..PoolSize + 1 /\ cur[c] <= size /\ size \in {0, PoolSize}
  BY DEF IInv, TypeOK, ScanInv, StopInv
<1> QED  BY <1>1, PoolAssumption DEF Managers

\* A caller at set_task() has a task, and a live manager that has none.
AssignReady(c) ==
    /\ cur[c] \in Managers
    /\ hand[c] \in Tasks
    /\ slot[cur[c]] = None
    /\ wpc[cur[c]] \notin {"unborn", "stopped", "joined"}
    /\ tmGo[cur[c]]
    /\ poolOwner = c

\* Nobody else could assign, stop or free the manager since is_idle().
LEMMA AssignFacts ==
    ASSUME IInv, NEW c \in Callers, pc[c] = "assign"
    PROVE  AssignReady(c)
<1>1. cur[c] \in Managers /\ size = PoolSize
  BY CursorInside
<1>2. hand[c] \in Tasks
  BY DEF IInv, TypeOK, CallInv
<1>3. slot[cur[c]] = None /\ wpc[cur[c]] \notin {"unborn", "joined"}
  BY DEF IInv, ScanInv, IsIdle, IsAlive
<1>4. poolOwner = c /\ pc[c] \in Inside \ Stopping
  BY Exclusive DEF Inside, Stopping
<1>5. tmGo[cur[c]] /\ wpc[cur[c]] \notin {"stopped", "joined"}
  BY <1>1, <1>4, OpenInside, PoolAssumption DEF Managers
<1> QED  BY <1>1, <1>2, <1>3, <1>4, <1>5 DEF AssignReady

\* What the step at set_task() does, given that the task is accepted.
AssignEffect(c) ==
    /\ slot' = [slot EXCEPT ![cur[c]] = hand[c]]
    /\ hand' = [hand EXCEPT ![c] = None]
    /\ pc' = [pc EXCEPT ![c] = "out"]
    /\ poolOwner' = None
    /\ wpc' \in [Managers -> WorkerStates]
    /\ wpc'[cur[c]] \in {"start", "waiting", "woken"}
    /\ wpc[cur[c]] \in {"start", "waiting", "woken"}
    /\ \A m \in Managers : wpc'[m] = wpc[m] \/ (wpc[m] = "waiting" /\ wpc'[m] = "woken")
    /\ UNCHANGED <<tmGo, runs, deletes, size, gone, op, cur, answer, calls, submitted>>

\* set_task() after is_idle() always accepts the task.
LEMMA ExecuteAssignEffect ==
    ASSUME IInv, NEW c \in Callers, ExecuteAssign(c)
    PROVE  AssignEffect(c)
<1>1. pc[c] = "assign" /\ TmFree(cur[c])
  BY DEF ExecuteAssign
<1>2. cur[c] \in Managers /\ slot[cur[c]] = None /\ wpc[cur[c]] \notin {"unborn", "stopped", "joined"}
  BY <1>1, AssignFacts DEF AssignReady
<1>3. SetTask(cur[c], hand[c]) /\ hand' = [hand EXCEPT ![c] = None]
      /\ pc' = [pc EXCEPT ![c] = "out"] /\ poolOwner' = None
      /\ UNCHANGED <<size, gone, op, cur, answer, calls, submitted>>
  BY <1>2 DEF ExecuteAssign
<1>4. wpc \in [Managers -> WorkerStates]
  BY DEF IInv, TypeOK, TmTypeOK
<1>5. /\ wpc' \in [Managers -> WorkerStates]
      /\ wpc'[cur[c]] \in {"start", "waiting", "woken"}
      /\ wpc[cur[c]] \in {"start", "waiting", "woken"}
      /\ \A m \in Managers : wpc'[m] = wpc[m] \/ (wpc[m] = "waiting" /\ wpc'[m] = "woken")
  BY <1>1, <1>2, <1>3, <1>4 DEF SetTask, Notified, TmFree, WorkerStates
<1> QED  BY <1>3, <1>5 DEF SetTask, AssignEffect


\* Every step keeps the types.
LEMMA TypeStep == IInv /\ [Next]_vars => TypeOK'
<1> SUFFICES ASSUME IInv, [Next]_vars PROVE TypeOK'
  OBVIOUS
<1>1. ASSUME NEW m \in Managers, WorkerStep(m) \/ WorkerSpurious(m), UNCHANGED <<poolOwner, size, gone, callVars>> PROVE TypeOK'
  <2>1. CASE WorkerLock(m)
    BY <1>1, <2>1 DEF WorkerLock, IInv, TypeOK, TmTypeOK, callVars, WorkerStates
  <2>2. CASE WorkerRun(m)
    BY <1>1, <2>2, PoolAssumption
       DEF WorkerRun, IInv, TypeOK, TmTypeOK, callVars, WorkerStates
  <2>3. CASE WorkerFinish(m)
    BY <1>1, <2>3
       DEF WorkerFinish, IInv, TypeOK, TmTypeOK, callVars, WorkerStates, TmShape
  <2>4. CASE WorkerWait(m)
    BY <1>1, <2>4 DEF WorkerWait, IInv, TypeOK, TmTypeOK, callVars, WorkerStates
  <2>5. CASE WorkerExit(m)
    BY <1>1, <2>5, PoolAssumption
       DEF WorkerExit, IInv, TypeOK, TmTypeOK, callVars, WorkerStates
  <2>6. CASE WorkerSpurious(m)
    BY <1>1, <2>6 DEF WorkerSpurious, IInv, TypeOK, TmTypeOK, callVars, WorkerStates
  <2> QED  BY <1>1, <2>1, <2>2, <2>3, <2>4, <2>5, <2>6 DEF WorkerStep
<1>2. ASSUME NEW m \in Managers, IdleNotification(m) PROVE TypeOK'
  <2>1. TypeOK
    BY DEF IInv
  <2>2. /\ pc' \in [Callers -> CallerStates]
        /\ \A c \in Callers : pc'[c] = pc[c] \/ (pc[c] = "waiting" /\ pc'[c] = "woken")
    BY <1>2, <2>1, IdleNotificationEffect
  <2> QED  BY <1>2, <2>2
     DEF IdleNotification, WorkerNotify, IInv, TypeOK, TmTypeOK, WorkerStates
<1>3. ASSUME NEW c \in Callers, NewCall(c) PROVE TypeOK'
  <2>1. ASSUME NEW t \in Tasks, CallExecute(c, t) PROVE TypeOK'
    BY <2>1, CallerAssumption
       DEF CallExecute, Begin, IInv, TypeOK, TmTypeOK, tmVars, CallerStates,
           Operations
  <2>2. ASSUME NEW o \in {"is_idle", "is_busy", "terminate"}, Call(c, o) PROVE TypeOK'
    BY <2>2, CallerAssumption
       DEF Call, Begin, IInv, TypeOK, TmTypeOK, tmVars, CallerStates, Operations
  <2>3. CASE CallDestroy(c)
    BY <2>3, CallerAssumption
       DEF CallDestroy, Begin, IInv, TypeOK, TmTypeOK, tmVars, CallerStates,
           Operations
  <2> QED  BY <1>3, <2>1, <2>2, <2>3 DEF NewCall
<1>4. ASSUME NEW c \in Callers, Caller(c) PROVE TypeOK'
  <2>1. CASE Enter(c)
    <3>1. TypeOK /\ FirstState(c) \in CallerStates /\ 1 \in 1..PoolSize + 1
      BY FirstStateCases, PoolAssumption DEF FirstStateOf, CallerStates, IInv
    <3> QED  BY <1>4, <2>1, <3>1 DEF Enter, TypeOK, TmTypeOK, tmVars
  <2>2. CASE ExecuteProbe(c)
    <3>1. TypeOK /\ cur[c] \in 1..size
      BY <1>4, <2>2 DEF ExecuteProbe, IInv
    <3>2. cur[c] + 1 \in 1..PoolSize + 1 /\ 1 \in 1..PoolSize + 1
      BY <3>1, PoolAssumption DEF TypeOK, Managers
    <3>3. /\ pc' \in [Callers -> CallerStates]
          /\ cur' \in [Callers -> 1..PoolSize + 1]
      BY <1>4, <2>2, <3>1, <3>2 DEF ExecuteProbe, TypeOK, CallerStates
    <3> QED  BY <1>4, <2>2, <3>1, <3>3 DEF ExecuteProbe, TypeOK, TmTypeOK, tmVars
  <2>3. CASE ExecuteAssign(c)
    <3>1. TypeOK /\ AssignEffect(c)
      BY <1>4, <2>3, ExecuteAssignEffect DEF IInv
    <3>2. cur[c] \in Managers /\ hand[c] \in Tasks
      BY <1>4, <2>3, AssignFacts DEF AssignReady, ExecuteAssign
    <3>3. /\ slot' \in [Managers -> Tasks \cup {None}]
          /\ hand' \in [Callers -> Tasks \cup {None}]
          /\ pc' \in [Callers -> CallerStates]
      BY <3>1, <3>2 DEF AssignEffect, TypeOK, TmTypeOK, CallerStates
    <3> QED  BY <3>1, <3>3 DEF AssignEffect, TypeOK, TmTypeOK
  <2>4. CASE QueryProbe(c)
    <3>1. TypeOK /\ cur[c] \in Managers
      BY <1>4, <2>4, CursorInside DEF QueryProbe, IInv
    <3>2. cur[c] + 1 \in 1..PoolSize + 1 /\ 1 \in 1..PoolSize + 1
      BY <3>1, PoolAssumption DEF TypeOK, Managers
    <3>3. answer' \in [Callers -> BOOLEAN]
      BY <1>4, <2>4, <3>1 DEF QueryProbe, TypeOK
    <3>4. /\ pc' \in [Callers -> CallerStates]
          /\ cur' \in [Callers -> 1..PoolSize + 1]
      BY <1>4, <2>4, <3>1, <3>2 DEF QueryProbe, TypeOK, CallerStates
    <3> QED  BY <1>4, <2>4, <3>1, <3>3, <3>4 DEF QueryProbe, TypeOK, TmTypeOK, tmVars
  <2>5. CASE TerminateStop(c)
    <3>1. TypeOK /\ cur[c] \in Managers
      BY <1>4, <2>5, CursorInside DEF TerminateStop, IInv
    <3>2. cur[c] + 1 \in 1..PoolSize + 1 /\ 1 \in 1..PoolSize + 1
      BY <3>1, PoolAssumption DEF TypeOK, Managers
    <3>3. tmGo' \in [Managers -> BOOLEAN]
      BY <1>4, <2>5, <3>1 DEF TerminateStop, StopManager, TypeOK, TmTypeOK
    <3>4. /\ pc' \in [Callers -> CallerStates]
          /\ cur' \in [Callers -> 1..PoolSize + 1]
      BY <1>4, <2>5, <3>1, <3>2 DEF TerminateStop, TypeOK, CallerStates
    <3> QED  BY <1>4, <2>5, <3>1, <3>3, <3>4
         DEF TerminateStop, StopManager, TypeOK, TmTypeOK, tmVars
  <2>6. CASE TerminateReturn(c)
    <3>1. TypeOK
      BY DEF IInv
    <3>2. pc' \in [Callers -> CallerStates]
      BY <1>4, <2>6, <3>1, TerminateReturnEffect
    <3> QED  BY <1>4, <2>6, <3>1, <3>2 DEF TerminateReturn, TypeOK, TmTypeOK, tmVars
  <2>7. CASE ExecuteReject(c)
    BY <1>4, <2>7
       DEF ExecuteReject, DeleteTask, IInv, TypeOK, TmTypeOK, CallerStates, CallInv
  <2>8. CASE ExecuteWait(c)
    BY <1>4, <2>8 DEF ExecuteWait, IInv, TypeOK, TmTypeOK, tmVars, CallerStates
  <2>9. CASE QueryReturn(c)
    BY <1>4, <2>9 DEF QueryReturn, IInv, TypeOK, TmTypeOK, tmVars, CallerStates
  <2>10. CASE TerminateSignal(c)
    BY <1>4, <2>10
       DEF TerminateSignal, SignalStop, Notified, IInv, TypeOK, TmTypeOK,
           WorkerStates, CallerStates
  <2>11. CASE TerminateJoin(c)
    BY <1>4, <2>11
       DEF TerminateJoin, JoinManager, IInv, TypeOK, TmTypeOK, Managers, WorkerStates,
           CallerStates, StopInv
  <2> QED  BY <1>4, <2>1, <2>2, <2>3, <2>4, <2>5, <2>6, <2>7, <2>8, <2>9, <2>10, <2>11
       DEF Caller
<1>5. ASSUME NEW c \in Callers, ExecuteSpurious(c) PROVE TypeOK'
  BY <1>5 DEF ExecuteSpurious, IInv, TypeOK, TmTypeOK, tmVars, CallerStates
<1>6. CASE UNCHANGED vars
  BY <1>6 DEF vars, IInv, TypeOK, TmTypeOK, tmVars, callVars
<1> QED  BY <1>1, <1>2, <1>3, <1>4, <1>5, <1>6 DEF Next, Worker, Spurious, Quiescent

\* Every step keeps mutual exclusion in the pool's monitor.
LEMMA LockStep == IInv /\ [Next]_vars => LockInv'
<1> SUFFICES ASSUME IInv, [Next]_vars PROVE LockInv'
  OBVIOUS
<1>1. ASSUME NEW m \in Managers, WorkerStep(m) \/ WorkerSpurious(m), UNCHANGED <<poolOwner, size, gone, callVars>> PROVE LockInv'
  <2>1. CASE WorkerLock(m)
    BY <1>1, <2>1 DEF WorkerLock, IInv, callVars, LockInv
  <2>2. CASE WorkerRun(m)
    BY <1>1, <2>2 DEF WorkerRun, IInv, callVars, LockInv
  <2>3. CASE WorkerFinish(m)
    BY <1>1, <2>3 DEF WorkerFinish, IInv, callVars, LockInv
  <2>4. CASE WorkerWait(m)
    BY <1>1, <2>4 DEF WorkerWait, IInv, callVars, LockInv
  <2>5. CASE WorkerExit(m)
    BY <1>1, <2>5 DEF WorkerExit, IInv, callVars, LockInv
  <2>6. CASE WorkerSpurious(m)
    BY <1>1, <2>6 DEF WorkerSpurious, IInv, callVars, LockInv
  <2> QED  BY <1>1, <2>1, <2>2, <2>3, <2>4, <2>5, <2>6 DEF WorkerStep
<1>2. ASSUME NEW m \in Managers, IdleNotification(m) PROVE LockInv'
  <2>1. TypeOK
    BY DEF IInv
  <2>2. /\ pc' \in [Callers -> CallerStates]
        /\ \A c \in Callers : pc'[c] = pc[c] \/ (pc[c] = "waiting" /\ pc'[c] = "woken")
    BY <1>2, <2>1, IdleNotificationEffect
  <2> QED  BY <1>2, <2>2
     DEF IdleNotification, WorkerNotify, IInv, LockInv, Inside, Stopping
<1>3. ASSUME NEW c \in Callers, NewCall(c) PROVE LockInv'
  <2>1. ASSUME NEW t \in Tasks, CallExecute(c, t) PROVE LockInv'
    BY <2>1 DEF CallExecute, Begin, IInv, LockInv, Inside, Stopping
  <2>2. ASSUME NEW o \in {"is_idle", "is_busy", "terminate"}, Call(c, o) PROVE LockInv'
    BY <2>2 DEF Call, Begin, IInv, LockInv, Inside, Stopping
  <2>3. CASE CallDestroy(c)
    BY <2>3 DEF CallDestroy, Begin, IInv, LockInv, Inside, Stopping
  <2> QED  BY <1>3, <2>1, <2>2, <2>3 DEF NewCall
<1>4. ASSUME NEW c \in Callers, Caller(c) PROVE LockInv'
  <2>1. CASE Enter(c)
    <3>1. FirstStateOf(c)
      BY FirstStateCases
    <3> QED  BY <1>4, <2>1, <3>1, CallerAssumption
       DEF Enter, FirstStateOf, IInv, TypeOK, LockInv, Inside, Stopping
  <2>2. CASE ExecuteAssign(c)
    <3>1. AssignEffect(c)
      BY <1>4, <2>2, ExecuteAssignEffect
    <3>2. AssignReady(c)
      BY <1>4, <2>2, AssignFacts DEF ExecuteAssign
    <3> QED  BY <3>1, <3>2, CallerAssumption
       DEF AssignEffect, AssignReady, IInv, TypeOK, LockInv, Inside, Stopping
  <2>3. CASE TerminateReturn(c)
    <3>1. TypeOK
      BY DEF IInv
    <3>2. /\ pc' \in [Callers -> CallerStates]
          /\ pc'[c] = "out"
          /\ \A e \in Callers \ {c} : pc'[e] = pc[e] \/ (pc[e] = "waiting" /\ pc'[e] = "woken")
      BY <1>4, <2>3, <3>1, TerminateReturnEffect
    <3> QED  BY <1>4, <2>3, <3>2, CallerAssumption
       DEF TerminateReturn, IInv, LockInv, Inside, Stopping
  <2>4. CASE ExecuteReject(c)
    BY <1>4, <2>4, CallerAssumption
       DEF ExecuteReject, DeleteTask, IInv, TypeOK, LockInv, Inside, Stopping
  <2>5. CASE ExecuteProbe(c)
    BY <1>4, <2>5 DEF ExecuteProbe, TmFree, IInv, TypeOK, LockInv, Inside
  <2>6. CASE ExecuteWait(c)
    BY <1>4, <2>6, CallerAssumption
       DEF ExecuteWait, IInv, TypeOK, LockInv, Inside, Stopping
  <2>7. CASE QueryProbe(c)
    BY <1>4, <2>7 DEF QueryProbe, TmFree, IInv, TypeOK, LockInv, Inside
  <2>8. CASE QueryReturn(c)
    BY <1>4, <2>8, CallerAssumption
       DEF QueryReturn, IInv, TypeOK, LockInv, Inside, Stopping
  <2>9. CASE TerminateStop(c)
    BY <1>4, <2>9
       DEF TerminateStop, StopManager, IInv, TypeOK, LockInv, Inside, Stopping
  <2>10. CASE TerminateSignal(c)
    BY <1>4, <2>10
       DEF TerminateSignal, SignalStop, Notified, IInv, LockInv, Inside, Stopping
  <2>11. CASE TerminateJoin(c)
    BY <1>4, <2>11 DEF TerminateJoin, JoinManager, IInv, LockInv, Inside, Stopping
  <2> QED  BY <1>4, <2>1, <2>2, <2>3, <2>4, <2>5, <2>6, <2>7, <2>8, <2>9, <2>10, <2>11
       DEF Caller
<1>5. ASSUME NEW c \in Callers, ExecuteSpurious(c) PROVE LockInv'
  BY <1>5 DEF ExecuteSpurious, IInv, LockInv, Inside, Stopping
<1>6. CASE UNCHANGED vars
  BY <1>6 DEF vars, IInv, callVars, LockInv
<1> QED  BY <1>1, <1>2, <1>3, <1>4, <1>5, <1>6 DEF Next, Worker, Spurious, Quiescent

\* Every step keeps the state of a call and its argument in line.
LEMMA CallStep == IInv /\ [Next]_vars => CallInv'
<1> SUFFICES ASSUME IInv, [Next]_vars PROVE CallInv'
  OBVIOUS
<1>1. ASSUME NEW m \in Managers, WorkerStep(m) \/ WorkerSpurious(m), UNCHANGED <<poolOwner, size, gone, callVars>> PROVE CallInv'
  <2>1. CASE WorkerLock(m)
    BY <1>1, <2>1 DEF WorkerLock, IInv, callVars, CallInv
  <2>2. CASE WorkerRun(m)
    BY <1>1, <2>2 DEF WorkerRun, IInv, callVars, CallInv
  <2>3. CASE WorkerFinish(m)
    BY <1>1, <2>3 DEF WorkerFinish, IInv, callVars, CallInv
  <2>4. CASE WorkerWait(m)
    BY <1>1, <2>4 DEF WorkerWait, IInv, callVars, CallInv
  <2>5. CASE WorkerExit(m)
    BY <1>1, <2>5 DEF WorkerExit, IInv, callVars, CallInv
  <2>6. CASE WorkerSpurious(m)
    BY <1>1, <2>6 DEF WorkerSpurious, IInv, callVars, CallInv
  <2> QED  BY <1>1, <2>1, <2>2, <2>3, <2>4, <2>5, <2>6 DEF WorkerStep
<1>2. ASSUME NEW m \in Managers, IdleNotification(m) PROVE CallInv'
  <2>1. TypeOK
    BY DEF IInv
  <2>2. /\ pc' \in [Callers -> CallerStates]
        /\ \A c \in Callers : pc'[c] = pc[c] \/ (pc[c] = "waiting" /\ pc'[c] = "woken")
    BY <1>2, <2>1, IdleNotificationEffect
  <2> QED  BY <1>2, <2>2 DEF IdleNotification, WorkerNotify, IInv, CallInv, Stopping
<1>3. ASSUME NEW c \in Callers, NewCall(c) PROVE CallInv'
  <2>1. ASSUME NEW t \in Tasks, CallExecute(c, t) PROVE CallInv'
    BY <2>1, PoolAssumption DEF CallExecute, Begin, IInv, TypeOK, CallInv, Stopping
  <2>2. ASSUME NEW o \in {"is_idle", "is_busy", "terminate"}, Call(c, o) PROVE CallInv'
    BY <2>2 DEF Call, Begin, IInv, TypeOK, CallInv, Stopping
  <2>3. CASE CallDestroy(c)
    BY <2>3 DEF CallDestroy, Begin, IInv, TypeOK, CallInv
  <2> QED  BY <1>3, <2>1, <2>2, <2>3 DEF NewCall
<1>4. ASSUME NEW c \in Callers, Caller(c) PROVE CallInv'
  <2>1. CASE Enter(c)
    <3>1. FirstStateOf(c)
      BY FirstStateCases
    <3> QED  BY <1>4, <2>1, <3>1 DEF Enter, FirstStateOf, IInv, CallInv, Stopping
  <2>2. CASE ExecuteAssign(c)
    <3>1. AssignEffect(c)
      BY <1>4, <2>2, ExecuteAssignEffect
    <3>2. AssignReady(c)
      BY <1>4, <2>2, AssignFacts DEF ExecuteAssign
    <3> QED  BY <3>1, <3>2
       DEF AssignEffect, AssignReady, IInv, TypeOK, CallInv, Stopping
  <2>3. CASE TerminateReturn(c)
    <3>1. TypeOK /\ CallInv
      BY DEF IInv
    <3>2. /\ pc'[c] = "out" /\ op[c] \in {"terminate", "destroy"}
          /\ \A d \in Callers \ {c} : pc'[d] = pc[d] \/ (pc[d] = "waiting" /\ pc'[d] = "woken")
      BY <1>4, <2>3, <3>1, TerminateReturnEffect DEF TerminateReturn, CallInv, Stopping
    <3> QED  BY <1>4, <2>3, <3>1, <3>2 DEF TerminateReturn, CallInv, Stopping
  <2>4. CASE ExecuteReject(c)
    BY <1>4, <2>4 DEF ExecuteReject, DeleteTask, IInv, TypeOK, CallInv, Stopping
  <2>5. CASE ExecuteProbe(c)
    BY <1>4, <2>5 DEF ExecuteProbe, TmFree, IInv, TypeOK, CallInv, Stopping
  <2>6. CASE ExecuteWait(c)
    BY <1>4, <2>6 DEF ExecuteWait, IInv, CallInv, Stopping
  <2>7. CASE QueryProbe(c)
    BY <1>4, <2>7 DEF QueryProbe, TmFree, IInv, TypeOK, CallInv, Stopping
  <2>8. CASE QueryReturn(c)
    BY <1>4, <2>8 DEF QueryReturn, IInv, CallInv, Stopping
  <2>9. CASE TerminateStop(c)
    BY <1>4, <2>9 DEF TerminateStop, StopManager, IInv, TypeOK, CallInv, Stopping
  <2>10. CASE TerminateSignal(c)
    BY <1>4, <2>10 DEF TerminateSignal, SignalStop, Notified, IInv, CallInv, Stopping
  <2>11. CASE TerminateJoin(c)
    BY <1>4, <2>11 DEF TerminateJoin, JoinManager, IInv, CallInv, Stopping
  <2> QED  BY <1>4, <2>1, <2>2, <2>3, <2>4, <2>5, <2>6, <2>7, <2>8, <2>9, <2>10, <2>11
       DEF Caller
<1>5. ASSUME NEW c \in Callers, ExecuteSpurious(c) PROVE CallInv'
  BY <1>5 DEF ExecuteSpurious, IInv, CallInv, Stopping
<1>6. CASE UNCHANGED vars
  BY <1>6 DEF vars, IInv, callVars, CallInv
<1> QED  BY <1>1, <1>2, <1>3, <1>4, <1>5, <1>6 DEF Next, Worker, Spurious, Quiescent

\* What a scan has found stays true while the lock is held.
LEMMA ScanStep == IInv /\ [Next]_vars => ScanInv'
<1> SUFFICES ASSUME IInv, [Next]_vars PROVE ScanInv'
  OBVIOUS
<1>1. ASSUME NEW m \in Managers, WorkerStep(m) \/ WorkerSpurious(m), UNCHANGED <<poolOwner, size, gone, callVars>> PROVE ScanInv'
  <2>1. CASE WorkerLock(m)
    BY <1>1, <2>1 DEF WorkerLock, IInv, callVars, ScanInv, IsIdle, IsAlive
  <2>2. CASE WorkerRun(m)
    BY <1>1, <2>2 DEF WorkerRun, IInv, callVars, ScanInv, IsIdle, IsAlive
  <2>3. CASE WorkerFinish(m)
    BY <1>1, <2>3 DEF WorkerFinish, IInv, callVars, ScanInv, IsIdle, IsAlive
  <2>4. CASE WorkerWait(m)
    BY <1>1, <2>4 DEF WorkerWait, IInv, callVars, ScanInv, IsIdle, IsAlive
  <2>5. CASE WorkerExit(m)
    BY <1>1, <2>5 DEF WorkerExit, IInv, callVars, ScanInv, IsIdle, IsAlive
  <2>6. CASE WorkerSpurious(m)
    BY <1>1, <2>6 DEF WorkerSpurious, IInv, callVars, ScanInv, IsIdle, IsAlive
  <2> QED  BY <1>1, <2>1, <2>2, <2>3, <2>4, <2>5, <2>6 DEF WorkerStep
<1>2. ASSUME NEW m \in Managers, IdleNotification(m) PROVE ScanInv'
  <2>1. TypeOK
    BY DEF IInv
  <2>2. /\ pc' \in [Callers -> CallerStates]
        /\ \A c \in Callers : pc'[c] = pc[c] \/ (pc[c] = "waiting" /\ pc'[c] = "woken")
    BY <1>2, <2>1, IdleNotificationEffect
  <2> QED  BY <1>2, <2>2
     DEF IdleNotification, WorkerNotify, IInv, ScanInv, IsIdle, IsAlive
<1>3. ASSUME NEW c \in Callers, NewCall(c) PROVE ScanInv'
  <2>1. ASSUME NEW t \in Tasks, CallExecute(c, t) PROVE ScanInv'
    BY <2>1 DEF CallExecute, Begin, IInv, tmVars, ScanInv, IsIdle, IsAlive
  <2>2. ASSUME NEW o \in {"is_idle", "is_busy", "terminate"}, Call(c, o) PROVE ScanInv'
    BY <2>2 DEF Call, Begin, IInv, tmVars, ScanInv, IsIdle, IsAlive
  <2>3. CASE CallDestroy(c)
    BY <2>3 DEF CallDestroy, Begin, ScanInv
  <2> QED  BY <1>3, <2>1, <2>2, <2>3 DEF NewCall
<1>4. ASSUME NEW c \in Callers, Caller(c) PROVE ScanInv'
  <2>1. CASE Enter(c)
    <3>1. FirstStateOf(c) /\ op[c] = op'[c] /\ pc'[c] = FirstState(c) /\ cur'[c] = 1
          /\ answer'[c] = (op[c] = "is_busy") /\ size' = size
      BY <1>4, <2>1, FirstStateCases DEF Enter, IInv, TypeOK
    <3>2. ASSUME NEW d \in Callers \ {c} PROVE pc'[d] \notin {"assign", "probe"}
      BY <1>4, <2>1, CallerAssumption DEF Enter, IInv, TypeOK, LockInv, Inside
    <3>3. 1..(cur'[c] - 1) = {}
      BY <3>1
    <3> QED  BY <3>1, <3>2, <3>3 DEF ScanInv, FirstStateOf
  <2>2. CASE ExecuteAssign(c)
    <3>1. \A d \in Callers : pc'[d] \notin Inside
      <4>1. AssignEffect(c)
        BY <1>4, <2>2, ExecuteAssignEffect
      <4> QED  BY <1>4, <2>2, <4>1, LeavingEmpties
               DEF ExecuteAssign, AssignEffect, Inside, IInv, TypeOK
    <3> QED  BY <3>1 DEF ScanInv, Inside
  <2>3. CASE TerminateReturn(c)
    <3>1. \A d \in Callers : pc'[d] \notin Inside
      <4>1. TypeOK /\ pc[c] \in Inside
        BY <1>4, <2>3 DEF TerminateReturn, Inside, Stopping, IInv
      <4> QED  BY <1>4, <2>3, <4>1, LeavingEmpties, TerminateReturnEffect
    <3> QED  BY <3>1 DEF ScanInv, Inside
  <2>4. CASE ExecuteReject(c)
    BY <1>4, <2>4 DEF ExecuteReject, DeleteTask, IInv, TypeOK, ScanInv
  <2>5. CASE ExecuteProbe(c)
    BY <1>4, <2>5
       DEF ExecuteProbe, TmFree, IInv, TypeOK, tmVars, ScanInv, IsIdle, IsAlive
  <2>6. CASE ExecuteWait(c)
    BY <1>4, <2>6 DEF ExecuteWait, IInv, ScanInv, LockInv, Inside
  <2>7. CASE QueryProbe(c)
    BY <1>4, <2>7 DEF QueryProbe, TmFree, IInv, TypeOK, tmVars, ScanInv, IsIdle, IsAlive
  <2>8. CASE QueryReturn(c)
    BY <1>4, <2>8 DEF QueryReturn, IInv, ScanInv, LockInv, Inside
  <2>9. CASE TerminateStop(c)
    BY <1>4, <2>9 DEF TerminateStop, StopManager, IInv, TypeOK, ScanInv, IsIdle, IsAlive
  <2>10. CASE TerminateSignal(c)
    BY <1>4, <2>10
       DEF TerminateSignal, SignalStop, Notified, IInv, ScanInv, IsIdle, IsAlive
  <2>11. CASE TerminateJoin(c)
    BY <1>4, <2>11
       DEF TerminateJoin, JoinManager, IInv, ScanInv, LockInv, Inside, Stopping
  <2> QED  BY <1>4, <2>1, <2>2, <2>3, <2>4, <2>5, <2>6, <2>7, <2>8, <2>9, <2>10, <2>11
       DEF Caller
<1>5. ASSUME NEW c \in Callers, ExecuteSpurious(c) PROVE ScanInv'
  BY <1>5 DEF ExecuteSpurious, IInv, tmVars, ScanInv, IsIdle, IsAlive
<1>6. CASE UNCHANGED vars
  BY <1>6 DEF vars, IInv, tmVars, callVars, ScanInv, IsIdle, IsAlive
<1> QED  BY <1>1, <1>2, <1>3, <1>4, <1>5, <1>6 DEF Next, Worker, Spurious, Quiescent

\* Managers are stopped and freed by terminate() only.
LEMMA StopStep == IInv /\ [Next]_vars => StopInv'
<1> SUFFICES ASSUME IInv, [Next]_vars PROVE StopInv'
  OBVIOUS
<1>1. ASSUME NEW m \in Managers, WorkerStep(m) \/ WorkerSpurious(m), UNCHANGED <<poolOwner, size, gone, callVars>> PROVE StopInv'
  <2>1. CASE WorkerLock(m)
    BY <1>1, <2>1 DEF WorkerLock, IInv, callVars, StopInv
  <2>2. CASE WorkerRun(m)
    BY <1>1, <2>2 DEF WorkerRun, IInv, callVars, StopInv
  <2>3. CASE WorkerFinish(m)
    BY <1>1, <2>3 DEF WorkerFinish, IInv, callVars, StopInv
  <2>4. CASE WorkerWait(m)
    BY <1>1, <2>4 DEF WorkerWait, IInv, callVars, StopInv
  <2>5. CASE WorkerExit(m)
    BY <1>1, <2>5 DEF WorkerExit, IInv, callVars, StopInv
  <2>6. CASE WorkerSpurious(m)
    BY <1>1, <2>6 DEF WorkerSpurious, IInv, callVars, StopInv
  <2> QED  BY <1>1, <2>1, <2>2, <2>3, <2>4, <2>5, <2>6 DEF WorkerStep
<1>2. ASSUME NEW m \in Managers, IdleNotification(m) PROVE StopInv'
  <2>1. TypeOK
    BY DEF IInv
  <2>2. /\ pc' \in [Callers -> CallerStates]
        /\ \A c \in Callers : pc'[c] = pc[c] \/ (pc[c] = "waiting" /\ pc'[c] = "woken")
    BY <1>2, <2>1, IdleNotificationEffect
  <2> QED  BY <1>2, <2>2 DEF IdleNotification, WorkerNotify, IInv, StopInv, Stopping
<1>3. ASSUME NEW c \in Callers, NewCall(c) PROVE StopInv'
  <2>1. ASSUME NEW t \in Tasks, CallExecute(c, t) PROVE StopInv'
    BY <2>1 DEF CallExecute, Begin, IInv, tmVars, StopInv, Stopping
  <2>2. ASSUME NEW o \in {"is_idle", "is_busy", "terminate"}, Call(c, o) PROVE StopInv'
    BY <2>2 DEF Call, Begin, IInv, tmVars, StopInv, Stopping
  <2>3. CASE CallDestroy(c)
    BY <2>3 DEF CallDestroy, Begin, IInv, tmVars, StopInv, Stopping
  <2> QED  BY <1>3, <2>1, <2>2, <2>3 DEF NewCall
<1>4. ASSUME NEW c \in Callers, Caller(c) PROVE StopInv'
  <2>1. CASE Enter(c)
    <3>1. /\ FirstStateOf(c) /\ pc'[c] = FirstState(c) /\ cur'[c] = 1
          /\ UNCHANGED <<tmGo, wpc, size>>
      BY <1>4, <2>1, FirstStateCases DEF Enter, IInv, TypeOK, tmVars
    <3>2. ASSUME NEW d \in Callers \ {c} PROVE pc'[d] \notin Stopping
      BY <1>4, <2>1, CallerAssumption DEF Enter, IInv, TypeOK, LockInv, Inside
    <3>3. \A m \in Managers : ~tmGo[m] \/ wpc[m] = "joined" => size = 0
      BY <1>4, <2>1, CallerAssumption DEF Enter, IInv, StopInv
    <3>4. size = 0 => \A m \in Managers : wpc[m] = "joined"
      BY DEF IInv, StopInv
    <3> QED  BY <3>1, <3>2, <3>3, <3>4 DEF StopInv, FirstStateOf, Stopping
  <2>2. CASE ExecuteProbe(c)
    <3>1. /\ UNCHANGED <<tmGo, wpc, size, poolOwner>>
          /\ \A d \in Callers : pc[d] \in Stopping => d # c
      BY <1>4, <2>2 DEF ExecuteProbe, tmVars, Stopping
    <3>2. \A d \in Callers \ {c} : pc'[d] = pc[d] /\ cur'[d] = cur[d]
      BY <1>4, <2>2 DEF ExecuteProbe, IInv, TypeOK
    <3>3. pc'[c] \notin Stopping
      BY <1>4, <2>2 DEF ExecuteProbe, Stopping, IInv, TypeOK
    <3> QED  BY <3>1, <3>2, <3>3, StopFrame
  <2>3. CASE ExecuteAssign(c)
    <3>1. AssignEffect(c) /\ AssignReady(c) /\ pc[c] \in Inside \ Stopping
      BY <1>4, <2>3, ExecuteAssignEffect, AssignFacts DEF ExecuteAssign, Inside, Stopping
    <3>2. \A d \in Callers : pc[d] \notin Stopping
      BY <3>1, Exclusive DEF Inside
    <3>3. \A d \in Callers : pc'[d] \notin Stopping
      BY <3>1, <3>2 DEF AssignEffect, Stopping, IInv, TypeOK
    <3>4. size # 0 => \A m \in Managers : tmGo[m] /\ wpc[m] # "joined"
      BY <3>1, OpenInside
    <3>5. \A m \in Managers : wpc'[m] = "joined" <=> wpc[m] = "joined"
      BY <3>1 DEF AssignEffect
    <3>6. UNCHANGED <<tmGo, size>>
      BY <3>1 DEF AssignEffect
    <3> QED  BY <3>2, <3>3, <3>4, <3>5, <3>6, StopFrame
  <2>4. CASE TerminateReturn(c)
    <3>1. \A d \in Callers : pc'[d] \notin Inside
      <4>1. TypeOK /\ pc[c] \in Inside
        BY <1>4, <2>4 DEF TerminateReturn, Inside, Stopping, IInv
      <4> QED  BY <1>4, <2>4, <4>1, LeavingEmpties, TerminateReturnEffect
    <3>2. size' = 0 /\ \A m \in Managers : wpc'[m] = "joined"
      BY <1>4, <2>4 DEF TerminateReturn, IInv, StopInv, tmVars
    <3> QED  BY <3>1, <3>2 DEF StopInv, Inside, Stopping
  <2>5. CASE ExecuteReject(c)
    BY <1>4, <2>5 DEF ExecuteReject, DeleteTask, IInv, StopInv
  <2>6. CASE ExecuteWait(c)
    BY <1>4, <2>6 DEF ExecuteWait, IInv, tmVars, StopInv, LockInv, Inside, Stopping
  <2>7. CASE QueryProbe(c)
    BY <1>4, <2>7 DEF QueryProbe, TmFree, IInv, TypeOK, tmVars, StopInv, Stopping
  <2>8. CASE QueryReturn(c)
    BY <1>4, <2>8 DEF QueryReturn, IInv, tmVars, StopInv, LockInv, Inside, Stopping
  <2>9. CASE TerminateStop(c)
    BY <1>4, <2>9
       DEF TerminateStop, StopManager, IInv, TypeOK, StopInv, LockInv, CallInv,
           Inside, Stopping
  <2>10. CASE TerminateSignal(c)
    BY <1>4, <2>10
       DEF TerminateSignal, SignalStop, Notified, IInv, TypeOK, TmTypeOK, Managers,
           StopInv, LockInv, Inside, Stopping
  <2>11. CASE TerminateJoin(c)
    BY <1>4, <2>11
       DEF TerminateJoin, JoinManager, IInv, TypeOK, TmTypeOK, Managers, StopInv,
           LockInv, Inside, Stopping
  <2> QED  BY <1>4, <2>1, <2>2, <2>3, <2>4, <2>5, <2>6, <2>7, <2>8, <2>9, <2>10, <2>11
       DEF Caller
<1>5. ASSUME NEW c \in Callers, ExecuteSpurious(c) PROVE StopInv'
  BY <1>5 DEF ExecuteSpurious, IInv, tmVars, StopInv, Stopping
<1>6. CASE UNCHANGED vars
  BY <1>6 DEF vars, IInv, tmVars, callVars, StopInv
<1> QED  BY <1>1, <1>2, <1>3, <1>4, <1>5, <1>6 DEF Next, Worker, Spurious, Quiescent

\* A slot is full or empty as the worker's state says.
LEMMA ShapeStep == IInv /\ [Next]_vars => TmShape'
<1> SUFFICES ASSUME IInv, [Next]_vars PROVE TmShape'
  OBVIOUS
<1>1. ASSUME NEW m \in Managers, WorkerStep(m) \/ WorkerSpurious(m), UNCHANGED <<poolOwner, size, gone, callVars>> PROVE TmShape'
  <2>1. CASE WorkerLock(m)
    BY <1>1, <2>1 DEF WorkerLock, IInv, TmShape
  <2>2. CASE WorkerRun(m)
    BY <1>1, <2>2 DEF WorkerRun, IInv, TmShape
  <2>3. CASE WorkerFinish(m)
    BY <1>1, <2>3 DEF WorkerFinish, IInv, TypeOK, TmTypeOK, TmShape
  <2>4. CASE WorkerWait(m)
    BY <1>1, <2>4 DEF WorkerWait, IInv, TmShape
  <2>5. CASE WorkerExit(m)
    BY <1>1, <2>5 DEF WorkerExit, IInv, TypeOK, TmTypeOK, TmShape
  <2>6. CASE WorkerSpurious(m)
    BY <1>1, <2>6 DEF WorkerSpurious, IInv, TmShape
  <2> QED  BY <1>1, <2>1, <2>2, <2>3, <2>4, <2>5, <2>6 DEF WorkerStep
<1>2. ASSUME NEW m \in Managers, IdleNotification(m) PROVE TmShape'
  <2>1. TypeOK
    BY DEF IInv
  <2>2. /\ pc' \in [Callers -> CallerStates]
        /\ \A c \in Callers : pc'[c] = pc[c] \/ (pc[c] = "waiting" /\ pc'[c] = "woken")
    BY <1>2, <2>1, IdleNotificationEffect
  <2> QED  BY <1>2, <2>2 DEF IdleNotification, WorkerNotify, IInv, TmShape
<1>3. ASSUME NEW c \in Callers, NewCall(c) PROVE TmShape'
  <2>1. ASSUME NEW t \in Tasks, CallExecute(c, t) PROVE TmShape'
    BY <2>1 DEF CallExecute, Begin, IInv, tmVars, TmShape
  <2>2. ASSUME NEW o \in {"is_idle", "is_busy", "terminate"}, Call(c, o) PROVE TmShape'
    BY <2>2 DEF Call, Begin, IInv, tmVars, TmShape
  <2>3. CASE CallDestroy(c)
    BY <2>3 DEF CallDestroy, Begin, IInv, tmVars, TmShape
  <2> QED  BY <1>3, <2>1, <2>2, <2>3 DEF NewCall
<1>4. ASSUME NEW c \in Callers, Caller(c) PROVE TmShape'
  <2>1. CASE Enter(c)
    BY <1>4, <2>1 DEF Enter, tmVars, TmShape, IInv
  <2>2. CASE ExecuteAssign(c)
    <3>1. AssignEffect(c) /\ AssignReady(c)
      BY <1>4, <2>2, ExecuteAssignEffect, AssignFacts DEF ExecuteAssign
    <3> QED  BY <3>1, CallerAssumption
         DEF AssignEffect, AssignReady, TmShape, IInv, TypeOK, TmTypeOK
  <2>3. CASE TerminateReturn(c)
    BY <1>4, <2>3 DEF TerminateReturn, tmVars, TmShape, IInv
  <2>4. CASE ExecuteReject(c)
    BY <1>4, <2>4 DEF ExecuteReject, DeleteTask, IInv, TmShape
  <2>5. CASE ExecuteProbe(c)
    BY <1>4, <2>5 DEF ExecuteProbe, TmFree, IInv, tmVars, TmShape
  <2>6. CASE ExecuteWait(c)
    BY <1>4, <2>6 DEF ExecuteWait, IInv, tmVars, TmShape
  <2>7. CASE QueryProbe(c)
    BY <1>4, <2>7 DEF QueryProbe, TmFree, IInv, tmVars, TmShape
  <2>8. CASE QueryReturn(c)
    BY <1>4, <2>8 DEF QueryReturn, IInv, tmVars, TmShape
  <2>9. CASE TerminateStop(c)
    BY <1>4, <2>9 DEF TerminateStop, StopManager, IInv, TmShape
  <2>10. CASE TerminateSignal(c)
    BY <1>4, <2>10 DEF TerminateSignal, SignalStop, Notified, IInv, TmShape
  <2>11. CASE TerminateJoin(c)
    BY <1>4, <2>11 DEF TerminateJoin, JoinManager, IInv, TmShape, StopInv
  <2> QED  BY <1>4, <2>1, <2>2, <2>3, <2>4, <2>5, <2>6, <2>7, <2>8, <2>9, <2>10, <2>11
       DEF Caller
<1>5. ASSUME NEW c \in Callers, ExecuteSpurious(c) PROVE TmShape'
  BY <1>5 DEF ExecuteSpurious, IInv, tmVars, TmShape
<1>6. CASE UNCHANGED vars
  BY <1>6 DEF vars, IInv, tmVars, TmShape
<1> QED  BY <1>1, <1>2, <1>3, <1>4, <1>5, <1>6 DEF Next, Worker, Spurious, Quiescent

\* The answers of is_idle() and is_busy() are exact.
LEMMA QueryStep == IInv /\ [Next]_vars => QueryAnswer'
<1> SUFFICES ASSUME IInv, [Next]_vars PROVE QueryAnswer'
  OBVIOUS
<1>1. ASSUME NEW m \in Managers, WorkerStep(m) \/ WorkerSpurious(m), UNCHANGED <<poolOwner, size, gone, callVars>> PROVE QueryAnswer'
  <2>1. CASE WorkerLock(m)
    BY <1>1, <2>1 DEF WorkerLock, IInv, callVars, QueryAnswer, IsIdle, IsAlive
  <2>2. CASE WorkerRun(m)
    BY <1>1, <2>2 DEF WorkerRun, IInv, callVars, QueryAnswer, IsIdle
  <2>3. CASE WorkerFinish(m)
    BY <1>1, <2>3 DEF WorkerFinish, IInv, callVars, QueryAnswer, IsIdle, IsAlive
  <2>4. CASE WorkerWait(m)
    BY <1>1, <2>4 DEF WorkerWait, IInv, callVars, QueryAnswer, IsIdle, IsAlive
  <2>5. CASE WorkerExit(m)
    BY <1>1, <2>5 DEF WorkerExit, IInv, callVars, QueryAnswer, IsIdle, IsAlive
  <2>6. CASE WorkerSpurious(m)
    BY <1>1, <2>6 DEF WorkerSpurious, IInv, callVars, QueryAnswer, IsIdle, IsAlive
  <2> QED  BY <1>1, <2>1, <2>2, <2>3, <2>4, <2>5, <2>6 DEF WorkerStep
<1>2. ASSUME NEW m \in Managers, IdleNotification(m) PROVE QueryAnswer'
  <2>1. TypeOK
    BY DEF IInv
  <2>2. /\ pc' \in [Callers -> CallerStates]
        /\ \A c \in Callers : pc'[c] = pc[c] \/ (pc[c] = "waiting" /\ pc'[c] = "woken")
    BY <1>2, <2>1, IdleNotificationEffect
  <2> QED  BY <1>2, <2>2
     DEF IdleNotification, WorkerNotify, IInv, QueryAnswer, IsIdle, IsAlive
<1>3. ASSUME NEW c \in Callers, NewCall(c) PROVE QueryAnswer'
  <2>1. ASSUME NEW t \in Tasks, CallExecute(c, t) PROVE QueryAnswer'
    BY <2>1 DEF CallExecute, Begin, IInv, tmVars, QueryAnswer, IsIdle, IsAlive
  <2>2. ASSUME NEW o \in {"is_idle", "is_busy", "terminate"}, Call(c, o) PROVE QueryAnswer'
    BY <2>2 DEF Call, Begin, IInv, tmVars, QueryAnswer, IsIdle, IsAlive
  <2>3. CASE CallDestroy(c)
    BY <2>3 DEF CallDestroy, Begin, QueryAnswer
  <2> QED  BY <1>3, <2>1, <2>2, <2>3 DEF NewCall
<1>4. ASSUME NEW c \in Callers, Caller(c) PROVE QueryAnswer'
  <2>1. CASE Enter(c)
    <3>1. FirstStateOf(c)
      BY FirstStateCases
    <3> QED  BY <1>4, <2>1, <3>1
       DEF Enter, FirstStateOf, IInv, TypeOK, tmVars, QueryAnswer, IsIdle, IsAlive
  <2>2. CASE ExecuteAssign(c)
    <3>1. \A d \in Callers : pc'[d] \notin Inside
      <4>1. AssignEffect(c)
        BY <1>4, <2>2, ExecuteAssignEffect
      <4> QED  BY <1>4, <2>2, <4>1, LeavingEmpties
               DEF ExecuteAssign, AssignEffect, Inside, IInv, TypeOK
    <3> QED  BY <3>1 DEF QueryAnswer, Inside
  <2>3. CASE TerminateReturn(c)
    <3>1. \A d \in Callers : pc'[d] \notin Inside
      <4>1. TypeOK /\ pc[c] \in Inside
        BY <1>4, <2>3 DEF TerminateReturn, Inside, Stopping, IInv
      <4> QED  BY <1>4, <2>3, <4>1, LeavingEmpties, TerminateReturnEffect
    <3> QED  BY <3>1 DEF QueryAnswer, Inside
  <2>4. CASE ExecuteReject(c)
    BY <1>4, <2>4 DEF ExecuteReject, DeleteTask, IInv, QueryAnswer, IsIdle, IsAlive
  <2>5. CASE ExecuteProbe(c)
    BY <1>4, <2>5 DEF ExecuteProbe, TmFree, IInv, TypeOK, QueryAnswer, LockInv, Inside
  <2>6. CASE ExecuteWait(c)
    BY <1>4, <2>6 DEF ExecuteWait, IInv, QueryAnswer, LockInv, Inside
  <2>7. CASE QueryProbe(c)
    BY <1>4, <2>7
       DEF QueryProbe, TmFree, IInv, TypeOK, Managers, tmVars, QueryAnswer, ScanInv,
           IsIdle, IsAlive
  <2>8. CASE QueryReturn(c)
    BY <1>4, <2>8 DEF QueryReturn, IInv, TypeOK, QueryAnswer, LockInv, Inside
  <2>9. CASE TerminateStop(c)
    BY <1>4, <2>9
       DEF TerminateStop, StopManager, IInv, TypeOK, QueryAnswer, IsIdle, IsAlive
  <2>10. CASE TerminateSignal(c)
    BY <1>4, <2>10
       DEF TerminateSignal, SignalStop, Notified, IInv, QueryAnswer, IsIdle, IsAlive
  <2>11. CASE TerminateJoin(c)
    BY <1>4, <2>11
       DEF TerminateJoin, JoinManager, IInv, QueryAnswer, LockInv, Inside, Stopping
  <2> QED  BY <1>4, <2>1, <2>2, <2>3, <2>4, <2>5, <2>6, <2>7, <2>8, <2>9, <2>10, <2>11
       DEF Caller
<1>5. ASSUME NEW c \in Callers, ExecuteSpurious(c) PROVE QueryAnswer'
  BY <1>5 DEF ExecuteSpurious, IInv, tmVars, QueryAnswer, IsIdle, IsAlive
<1>6. CASE UNCHANGED vars
  BY <1>6 DEF vars, IInv, tmVars, callVars, QueryAnswer, IsIdle, IsAlive
<1> QED  BY <1>1, <1>2, <1>3, <1>4, <1>5, <1>6 DEF Next, Worker, Spurious, Quiescent

\* Steps that move no task keep OwnInv.
LEMMA OwnFrame ==
    ASSUME IInv, UNCHANGED <<slot, hand, runs, deletes, submitted>>,
           \A m \in Managers : wpc'[m] = "running" <=> wpc[m] = "running"
    PROVE  OwnInv'
<1> SUFFICES ASSUME NEW t \in Tasks PROVE OwnOf(t)'
  BY DEF OwnInv
<1>1. OwnOf(t)
  BY DEF IInv, OwnInv
<1> QED  BY <1>1 DEF OwnOf

\* A worker may finish only what it has: running out of the slot, or deleting
\* the task unrun, leaves no holder.
LEMMA OwnRelease ==
    ASSUME IInv, NEW m \in Managers, slot[m] # None,
           slot' = [slot EXCEPT ![m] = None],
           deletes' = [deletes EXCEPT ![slot[m]] = @ + 1],
           UNCHANGED <<hand, runs, submitted>>,
           \A n \in Managers \ {m} : wpc'[n] = wpc[n]
    PROVE  OwnInv'
<1> SUFFICES ASSUME NEW t \in Tasks PROVE OwnOf(t)'
  BY DEF OwnInv
<1>1. OwnOf(t) /\ TypeOK /\ None # t
  BY PoolAssumption DEF IInv, OwnInv
<1>2. /\ slot[m] \in Tasks /\ slot'[m] = None /\ deletes[t] \in Nat
      /\ \A n \in Managers \ {m} : slot'[n] = slot[n]
      /\ deletes'[t] = IF t = slot[m] THEN deletes[t] + 1 ELSE deletes[t]
  BY DEF IInv, TypeOK, TmTypeOK
<1>3. CASE t = slot[m]
  <2>1. /\ deletes[t] = 0 /\ deletes'[t] = 1 /\ t \in submitted
        /\ \A n \in Managers \ {m} : slot[n] # t
        /\ \A c \in Callers : hand[c] # t
    BY <1>1, <1>2, <1>3 DEF OwnOf
  <2>2. \A n \in Managers : slot'[n] # t
    BY <1>1, <1>2, <2>1
  <2> QED  BY <1>1, <2>1, <2>2 DEF OwnOf
<1>4. CASE t # slot[m]
  <2>1. deletes'[t] = deletes[t] /\ \A n \in Managers : slot'[n] = t <=> slot[n] = t
    BY <1>1, <1>2, <1>4
  <2>2. \A n \in Managers : slot[n] = t => wpc'[n] = wpc[n]
    BY <1>4
  <2> QED  BY <1>1, <2>1, <2>2 DEF OwnOf
<1> QED  BY <1>3, <1>4

\* Every step keeps a task with one holder.
LEMMA OwnStep == IInv /\ [Next]_vars => OwnInv'
<1> SUFFICES ASSUME IInv, [Next]_vars PROVE OwnInv'
  OBVIOUS
<1>1. ASSUME NEW m \in Managers, WorkerStep(m) \/ WorkerSpurious(m), UNCHANGED <<poolOwner, size, gone, callVars>> PROVE OwnInv'
  <2>0. UNCHANGED <<hand, submitted>> /\ wpc \in [Managers -> WorkerStates]
    BY <1>1 DEF callVars, IInv, TypeOK, TmTypeOK
  <2>1. CASE WorkerLock(m)
    BY <2>0, <2>1, OwnFrame DEF WorkerLock
  <2>2. CASE WorkerRun(m)
    <3> SUFFICES ASSUME NEW t \in Tasks PROVE OwnOf(t)'
      BY DEF OwnInv
    <3>1. OwnOf(t) /\ runs \in [Tasks -> Nat]
      BY DEF IInv, OwnInv, TypeOK, TmTypeOK
    <3>2. /\ wpc[m] = "loop" /\ slot' = slot /\ deletes' = deletes /\ wpc'[m] = "running"
          /\ \A n \in Managers \ {m} : wpc'[n] = wpc[n]
          /\ runs'[t] = IF t = slot[m] THEN runs[t] + 1 ELSE runs[t]
      BY <2>0, <2>2, <3>1 DEF WorkerRun
    <3>3. \A c \in Callers : hand[c] = t => slot[m] # t
      BY <3>1 DEF OwnOf
    <3>4. slot[m] = t => runs[t] = 0 /\ t \in submitted /\ \A n \in Managers : slot[n] = t => n = m
      BY <3>1, <3>2 DEF OwnOf
    <3>5. slot[m] # t => runs'[t] = runs[t]
      BY <3>2
    <3>6. slot[m] = t => runs'[t] = 1
      BY <3>2, <3>4
    <3> QED  BY <2>0, <3>1, <3>2, <3>3, <3>4, <3>5, <3>6 DEF OwnOf
  <2>3. CASE WorkerFinish(m)
    <3>1. slot[m] # None
      BY <2>3 DEF WorkerFinish, IInv, TmShape
    <3> QED  BY <2>0, <2>3, <3>1, OwnRelease DEF WorkerFinish
  <2>4. CASE WorkerWait(m)
    BY <2>0, <2>4, OwnFrame DEF WorkerWait
  <2>5. CASE WorkerExit(m)
    <3>1. CASE slot[m] = None
      <4>1. slot' = slot /\ UNCHANGED <<runs, deletes>>
        BY <2>5, <3>1 DEF WorkerExit, IInv, TypeOK, TmTypeOK
      <4> QED  BY <2>0, <2>5, <4>1, OwnFrame DEF WorkerExit
    <3>2. CASE slot[m] # None
      BY <2>0, <2>5, <3>2, OwnRelease DEF WorkerExit
    <3> QED  BY <3>1, <3>2
  <2>6. CASE WorkerSpurious(m)
    BY <2>0, <2>6, OwnFrame DEF WorkerSpurious
  <2> QED  BY <1>1, <2>1, <2>2, <2>3, <2>4, <2>5, <2>6 DEF WorkerStep
<1>2. ASSUME NEW m \in Managers, IdleNotification(m) PROVE OwnInv'
  <2>1. wpc \in [Managers -> WorkerStates]
    BY DEF IInv, TypeOK, TmTypeOK
  <2> QED  BY <1>2, <2>1, OwnFrame DEF IdleNotification, WorkerNotify
<1>3. ASSUME NEW c \in Callers, NewCall(c) PROVE OwnInv'
  <2>1. ASSUME NEW u \in Tasks, CallExecute(c, u) PROVE OwnInv'
    <3> SUFFICES ASSUME NEW t \in Tasks PROVE OwnOf(t)'
      BY DEF OwnInv
    <3>1. OwnOf(t) /\ CallInv /\ hand \in [Callers -> Tasks \cup {None}] /\ t # None
      BY PoolAssumption DEF IInv, OwnInv, TypeOK
    <3>2. /\ u \notin submitted /\ submitted' = submitted \cup {u} /\ hand'[c] = u
          /\ hand[c] = None /\ \A d \in Callers \ {c} : hand'[d] = hand[d]
          /\ UNCHANGED <<wpc, slot, runs, deletes>>
      BY <2>1, <3>1 DEF CallExecute, Begin, tmVars, CallInv
    <3>3. CASE t = u
      <4>1. (\A d \in Callers : hand[d] # t) /\ (\A m \in Managers : slot[m] # t)
            /\ runs[t] = 0 /\ deletes[t] = 0
        BY <3>1, <3>2, <3>3 DEF OwnOf
      <4> QED  BY <3>2, <3>3, <4>1 DEF OwnOf
    <3>4. CASE t # u
      <4>1. \A d \in Callers : hand'[d] = t <=> hand[d] = t
        BY <3>1, <3>2, <3>4
      <4>2. t \in submitted' <=> t \in submitted
        BY <3>2, <3>4
      <4> QED  BY <3>1, <3>2, <4>1, <4>2 DEF OwnOf
    <3> QED  BY <3>3, <3>4
  <2>2. ASSUME NEW o \in {"is_idle", "is_busy", "terminate"}, Call(c, o) PROVE OwnInv'
    BY <2>2, OwnFrame DEF Call, Begin, tmVars
  <2>3. CASE CallDestroy(c)
    BY <2>3, OwnFrame DEF CallDestroy, Begin, tmVars
  <2> QED  BY <1>3, <2>1, <2>2, <2>3 DEF NewCall
<1>4. ASSUME NEW c \in Callers, Caller(c) PROVE OwnInv'
  <2>0. wpc \in [Managers -> WorkerStates]
    BY DEF IInv, TypeOK, TmTypeOK
  <2>1. CASE Enter(c)
    BY <2>1, OwnFrame DEF Enter, tmVars
  <2>2. CASE ExecuteReject(c)
    <3> SUFFICES ASSUME NEW t \in Tasks PROVE OwnOf(t)'
      BY DEF OwnInv
    <3>1. OwnOf(t) /\ CallInv /\ t # None /\ TypeOK
      BY PoolAssumption DEF IInv, OwnInv
    <3>2. /\ hand[c] \in Tasks /\ hand'[c] = None
          /\ \A d \in Callers \ {c} : hand'[d] = hand[d]
          /\ UNCHANGED <<wpc, slot, runs, submitted>>
          /\ deletes'[t] = IF t = hand[c] THEN deletes[t] + 1 ELSE deletes[t]
      BY <2>2, <3>1 DEF ExecuteReject, DeleteTask, CallInv, TypeOK, TmTypeOK
    <3>3. CASE t = hand[c]
      <4>1. /\ deletes[t] = 0 /\ deletes'[t] = 1 /\ t \in submitted
            /\ \A d \in Callers \ {c} : hand[d] # t
            /\ \A m \in Managers : slot[m] # t
        BY <3>1, <3>2, <3>3 DEF OwnOf
      <4>2. \A d \in Callers : hand'[d] # t
        BY <3>1, <3>2, <4>1
      <4> QED  BY <3>1, <3>2, <4>1, <4>2 DEF OwnOf
    <3>4. CASE t # hand[c]
      <4>1. deletes'[t] = deletes[t] /\ \A d \in Callers : hand'[d] = t <=> hand[d] = t
        BY <3>1, <3>2, <3>4
      <4> QED  BY <3>1, <3>2, <4>1 DEF OwnOf
    <3> QED  BY <3>3, <3>4
  <2>3. CASE ExecuteProbe(c)
    BY <2>3, OwnFrame DEF ExecuteProbe, tmVars
  <2>4. CASE ExecuteAssign(c)
    <3> SUFFICES ASSUME NEW t \in Tasks PROVE OwnOf(t)'
      BY DEF OwnInv
    <3>1. OwnOf(t) /\ t # None /\ TypeOK
      BY PoolAssumption DEF IInv, OwnInv
    <3>2. AssignEffect(c) /\ AssignReady(c)
      BY <2>4, ExecuteAssignEffect, AssignFacts DEF ExecuteAssign
    <3>3. /\ hand'[c] = None /\ \A d \in Callers \ {c} : hand'[d] = hand[d]
          /\ cur[c] \in Managers /\ slot[cur[c]] = None
          /\ slot'[cur[c]] = hand[c] /\ \A m \in Managers \ {cur[c]} : slot'[m] = slot[m]
          /\ UNCHANGED <<runs, deletes, submitted>>
          /\ \A m \in Managers : wpc'[m] = "running" <=> wpc[m] = "running"
          /\ wpc[cur[c]] # "running"
      BY <3>1, <3>2 DEF AssignEffect, AssignReady, TypeOK, TmTypeOK
    <3>4. CASE t = hand[c]
      <4>1. /\ runs[t] = 0 /\ deletes[t] = 0 /\ t \in submitted
            /\ \A d \in Callers \ {c} : hand[d] # t
            /\ \A m \in Managers : slot[m] # t
        BY <3>1, <3>4 DEF OwnOf
      <4>2. \A d \in Callers : hand'[d] # t
        BY <3>1, <3>3, <4>1
      <4>3. \A m \in Managers : slot'[m] = t <=> m = cur[c]
        BY <3>3, <3>4, <4>1
      <4> QED  BY <3>1, <3>3, <4>1, <4>2, <4>3 DEF OwnOf
    <3>5. CASE t # hand[c]
      <4>1. /\ \A d \in Callers : hand'[d] = t <=> hand[d] = t
            /\ \A m \in Managers : slot'[m] = t <=> slot[m] = t
        BY <3>1, <3>3, <3>5
      <4> QED  BY <3>1, <3>3, <4>1 DEF OwnOf
    <3> QED  BY <3>4, <3>5
  <2>5. CASE ExecuteWait(c)
    BY <2>5, OwnFrame DEF ExecuteWait, tmVars
  <2>6. CASE QueryProbe(c)
    BY <2>6, OwnFrame DEF QueryProbe, tmVars
  <2>7. CASE QueryReturn(c)
    BY <2>7, OwnFrame DEF QueryReturn, tmVars
  <2>8. CASE TerminateStop(c)
    BY <2>8, OwnFrame DEF TerminateStop, StopManager
  <2>9. CASE TerminateSignal(c)
    BY <2>0, <2>9, OwnFrame DEF TerminateSignal, SignalStop, Notified, TmFree
  <2>10. CASE TerminateJoin(c)
    BY <2>0, <2>10, OwnFrame DEF TerminateJoin, JoinManager
  <2>11. CASE TerminateReturn(c)
    BY <2>11, OwnFrame DEF TerminateReturn, tmVars
  <2> QED  BY <1>4, <2>1, <2>2, <2>3, <2>4, <2>5, <2>6, <2>7, <2>8, <2>9, <2>10, <2>11
       DEF Caller
<1>5. ASSUME NEW c \in Callers, ExecuteSpurious(c) PROVE OwnInv'
  BY <1>5, OwnFrame DEF ExecuteSpurious, tmVars
<1>6. CASE UNCHANGED vars
  BY <1>6, OwnFrame DEF vars, tmVars, callVars
<1> QED  BY <1>1, <1>2, <1>3, <1>4, <1>5, <1>6 DEF Next, Worker, Spurious, Quiescent

\* The program starts in the invariant.
LEMMA InitInv == Init => IInv
<1> SUFFICES ASSUME Init PROVE IInv
  OBVIOUS
<1>1. /\ wpc \in [Managers -> {"start", "unborn"}] /\ slot = [m \in Managers |-> None]
      /\ tmGo = [m \in Managers |-> TRUE]
      /\ runs = [t \in Tasks |-> 0] /\ deletes = [t \in Tasks |-> 0]
  BY DEF Init, TmInit
<1>2. TypeOK
  <2>1. TmTypeOK
    BY <1>1 DEF TmTypeOK, WorkerStates
  <2>2. 1 \in 1..PoolSize + 1 /\ 0 \in 0..MaxCalls
    BY PoolAssumption, CallerAssumption
  <2> QED  BY <2>1, <2>2 DEF Init, TypeOK, CallerStates, Operations
<1>3. \A c \in Callers : pc[c] = "out" /\ hand[c] = None
  BY DEF Init
<1>4. LockInv /\ CallInv /\ ScanInv /\ QueryAnswer
  BY <1>3, CallerAssumption
     DEF Init, LockInv, CallInv, ScanInv, QueryAnswer, Inside, Stopping
<1>5. TmShape
  BY <1>1 DEF TmShape
<1>6. StopInv
  <2>1. size = 0 => Managers = {}
    BY PoolAssumption DEF Init, Managers
  <2> QED  BY <1>1, <1>3, <2>1 DEF StopInv
<1>7. OwnInv
  BY <1>1, <1>3, PoolAssumption DEF Init, OwnInv, OwnOf
<1> QED  BY <1>2, <1>4, <1>5, <1>6, <1>7 DEF IInv

\* The invariant is inductive.
LEMMA StepInv == IInv /\ [Next]_vars => IInv'
  BY TypeStep, LockStep, CallStep, ScanStep, StopStep, ShapeStep, OwnStep, QueryStep
     DEF IInv

\* Every reachable state satisfies the invariant.
THEOREM Invariance == Spec => []IInv
  BY InitInv, StepInv, PTL DEF Spec

\* The variables have their types and every iterator stays inside the vector,
\* whatever the callers do to the pool (threadpool.cpp 666-787).
THEOREM TypeCorrect == Spec => []TypeOK
<1>1. IInv => TypeOK
  BY DEF IInv
<1> QED  BY <1>1, Invariance, PTL

\* A task has one owner at a time, is run at most once and deleted once
\* (execute 668-698, run 616-637).
THEOREM TasksAreOwned == Spec => []TaskOwnership
<1>1. IInv => TaskOwnership
  <2> SUFFICES ASSUME OwnInv PROVE TaskOwnership
    BY DEF IInv
  <2> SUFFICES ASSUME NEW t \in Tasks
               PROVE  /\ \A c, d \in InHand(t) : c = d
                      /\ \A m, n \in InSlot(t) : m = n
                      /\ InHand(t) = {} \/ InSlot(t) = {}
                      /\ runs[t] \in {0, 1} /\ deletes[t] \in {0, 1}
                      /\ t \in submitted =>
                            (deletes[t] = 1 <=> InHand(t) = {} /\ InSlot(t) = {})
                      /\ t \notin submitted =>
                            runs[t] = 0 /\ deletes[t] = 0 /\ InHand(t) = {} /\ InSlot(t) = {}
    BY DEF TaskOwnership
  <2>1. OwnOf(t)
    BY DEF OwnInv
  <2>2. \A c : c \in InHand(t) <=> c \in Callers /\ hand[c] = t
    BY DEF InHand
  <2>3. \A m : m \in InSlot(t) <=> m \in Managers /\ slot[m] = t
    BY DEF InSlot
  <2>4. /\ \A c, d \in InHand(t) : c = d
        /\ \A m, n \in InSlot(t) : m = n
        /\ InHand(t) = {} \/ InSlot(t) = {}
        /\ runs[t] \in {0, 1} /\ deletes[t] \in {0, 1}
    BY <2>1, <2>2, <2>3 DEF OwnOf
  <2>5. t \in submitted => (deletes[t] = 1 <=> InHand(t) = {} /\ InSlot(t) = {})
    <3>1. deletes[t] = 1 => InHand(t) = {} /\ InSlot(t) = {}
      BY <2>1, <2>2, <2>3 DEF OwnOf
    <3>2. t \in submitted /\ deletes[t] # 1 => InHand(t) # {} \/ InSlot(t) # {}
      BY <2>1, <2>2, <2>3 DEF OwnOf
    <3> QED  BY <3>1, <3>2
  <2>6. t \notin submitted =>
           runs[t] = 0 /\ deletes[t] = 0 /\ InHand(t) = {} /\ InSlot(t) = {}
    BY <2>1, <2>2, <2>3 DEF OwnOf
  <2> QED  BY <2>4, <2>5, <2>6
<1> QED  BY <1>1, Invariance, PTL

\* The answers of is_idle() and is_busy() hold at the instant they are
\* computed, though the scan is not one step (705-743).
THEOREM AnswersAreExact == Spec => []QueryAnswer
<1>1. IInv => QueryAnswer
  BY DEF IInv
<1> QED  BY <1>1, Invariance, PTL

\* set_task() after is_idle() never fails and never meets a worker that is
\* stopping (682-686).
THEOREM AssignmentSucceeds == Spec => []SetTaskSucceeds
<1>1. IInv => SetTaskSucceeds
  BY AssignFacts DEF SetTaskSucceeds, AssignReady, IInv, ScanInv
<1> QED  BY <1>1, Invariance, PTL

\* No call uses a manager that was deleted (745-764).
THEOREM NoFreedManager == Spec => []NoUseAfterFree
<1>1. IInv => NoUseAfterFree
  <2> SUFFICES ASSUME IInv, NEW c \in Callers
               PROVE  /\ pc[c] \in {"probe", "assign", "stop", "signal", "join"} /\ cur[c] <= size =>
                            wpc[cur[c]] # "joined"
                      /\ pc[c] \in {"assign", "stop", "signal", "join"} => cur[c] <= size
    BY DEF NoUseAfterFree
  <2>1. pc[c] \in {"assign", "stop", "signal", "join"} => cur[c] <= size
    BY DEF IInv, ScanInv, StopInv
  <2>2. ASSUME pc[c] \in {"probe", "assign", "stop", "signal", "join"}, cur[c] <= size
        PROVE  wpc[cur[c]] # "joined"
    <3>1. cur[c] \in Managers /\ size # 0 /\ cur[c] \in Nat
      BY <2>2, PoolAssumption DEF IInv, TypeOK, Managers
    <3>2. poolOwner = c
      BY <2>2, Exclusive DEF Inside, Stopping
    <3> QED  BY <2>2, <3>1, <3>2 DEF IInv, StopInv
  <2> QED  BY <2>1, <2>2
<1> QED  BY <1>1, Invariance, PTL

\* When terminate() has emptied the vector, every worker is gone and no task
\* is left behind in a slot (745-764).
THEOREM TerminationIsComplete == Spec => []TerminatedIsStopped
<1>1. IInv => TerminatedIsStopped
  BY DEF TerminatedIsStopped, IInv, StopInv, TmShape
<1> QED  BY <1>1, Invariance, PTL

-----------------------------------------------------------------------------
(* The pool implements TaskExecution                                       *)

\* Tasks that each sit in the slot of a manager other than m are fewer than
\* the managers: a slot holds one task.
LEMMA FewerThanManagers ==
    ASSUME NEW m \in Managers, NEW R, \A t \in R : \E n \in Managers \ {m} : slot[n] = t
    PROVE  Cardinality(R) < PoolSize
<1> DEFINE Others == Managers \ {m}
           f == [t \in R |-> CHOOSE n \in Others : slot[n] = t]
<1>1. IsFiniteSet(Others) /\ Cardinality(Others) = PoolSize - 1
  <2>1. PoolSize \in Nat /\ 1 \in Int /\ PoolSize \in Int /\ m \in 1..PoolSize
    BY PoolAssumption DEF Managers
  <2>2. IsFiniteSet(1..PoolSize) /\ Cardinality(1..PoolSize) = PoolSize
    BY <2>1, FS_Interval
  <2> QED  BY <2>1, <2>2, FS_RemoveElement DEF Managers
<1>2. \A t \in R : f[t] \in Others /\ slot[f[t]] = t
  OBVIOUS
<1>3. f \in Injection(R, Others)
  <2>1. f \in [R -> Others] /\ \A t, u \in R : f[t] = f[u] => t = u
    BY <1>2
  <2> HIDE DEF f, Others
  <2> QED  BY <2>1 DEF Injection, IsInjective
<1>4. Cardinality(R) <= Cardinality(Others) /\ Cardinality(R) \in Nat
  <2> HIDE DEF f, Others
  <2> QED  BY <1>1, <1>3, FS_Injection, FS_CardinalityType
<1> QED  BY <1>1, <1>4, PoolAssumption

\* The two variables of the abstract pool.
Life == [t \in Tasks |-> LifeOf(t)]
Closing == size = 0 \/ \E m \in Managers : ~tmGo[m]

\* The life of a task, read off the three variables it is computed from.
LifeTable ==
    \A t \in Tasks :
        /\ t \notin submitted => LifeOf(t) = "new" /\ runs[t] = 0 /\ deletes[t] = 0
        /\ t \in submitted =>
              \/ runs[t] = 0 /\ deletes[t] = 0 /\ LifeOf(t) = "accepted"
              \/ runs[t] = 1 /\ deletes[t] = 0 /\ LifeOf(t) = "running"
              \/ runs[t] = 1 /\ deletes[t] = 1 /\ LifeOf(t) = "finished"
              \/ runs[t] = 0 /\ deletes[t] = 1 /\ LifeOf(t) = "discarded"

LEMMA LifeIsTable == IInv => LifeTable
<1> SUFFICES ASSUME IInv, NEW t \in Tasks
             PROVE  /\ t \notin submitted => LifeOf(t) = "new" /\ runs[t] = 0 /\ deletes[t] = 0
                    /\ t \in submitted =>
                          \/ runs[t] = 0 /\ deletes[t] = 0 /\ LifeOf(t) = "accepted"
                          \/ runs[t] = 1 /\ deletes[t] = 0 /\ LifeOf(t) = "running"
                          \/ runs[t] = 1 /\ deletes[t] = 1 /\ LifeOf(t) = "finished"
                          \/ runs[t] = 0 /\ deletes[t] = 1 /\ LifeOf(t) = "discarded"
  BY DEF LifeTable
<1>1. /\ runs[t] \in {0, 1} /\ deletes[t] \in {0, 1}
      /\ t \notin submitted => runs[t] = 0 /\ deletes[t] = 0
  BY DEF IInv, OwnInv, OwnOf
<1>2. CASE t \notin submitted
  BY <1>1, <1>2 DEF LifeOf
<1>3. CASE t \in submitted /\ runs[t] = 0 /\ deletes[t] = 0
  BY <1>3 DEF LifeOf
<1>4. CASE t \in submitted /\ runs[t] = 1 /\ deletes[t] = 0
  BY <1>4 DEF LifeOf
<1>5. CASE t \in submitted /\ runs[t] = 1 /\ deletes[t] = 1
  BY <1>5 DEF LifeOf
<1>6. CASE t \in submitted /\ runs[t] = 0 /\ deletes[t] = 1
  BY <1>6 DEF LifeOf
<1> QED  BY <1>1, <1>2, <1>3, <1>4, <1>5, <1>6

\* The table holds after a step too.
LEMMA LifeIsTableNext == IInv /\ [Next]_vars => LifeTable /\ LifeTable'
<1>1. IInv => LifeTable
  BY LifeIsTable
<1>2. IInv' => LifeTable'
  BY <1>1, PTL
<1> QED  BY <1>1, <1>2, StepInv

\* A task that is being run is in the slot of a worker inside run().
LEMMA RunningIsInSlot ==
    ASSUME IInv, NEW t \in Tasks, LifeOf(t) = "running"
    PROVE  \E n \in Managers : slot[n] = t /\ wpc[n] = "running"
<1>1. t \in submitted /\ runs[t] = 1 /\ deletes[t] = 0
  BY LifeIsTable DEF LifeTable
<1>2. OwnOf(t)
  BY DEF IInv, OwnInv
<1>3. \A c \in Callers : hand[c] # t
  BY <1>1, <1>2 DEF OwnOf
<1> QED  BY <1>1, <1>2, <1>3 DEF OwnOf

\* While a worker is not inside run(), fewer tasks run than there are managers.
LEMMA FreeWorker ==
    ASSUME IInv, NEW m \in Managers, wpc[m] # "running"
    PROVE  Cardinality({t \in Tasks : LifeOf(t) = "running"}) < PoolSize
<1>1. \A t \in {u \in Tasks : LifeOf(u) = "running"} : \E n \in Managers \ {m} : slot[n] = t
  BY RunningIsInSlot
<1> QED  BY <1>1, FewerThanManagers

\* Steps that change the life of no task.
LEMMA LifeFrame ==
    ASSUME UNCHANGED <<runs, deletes, submitted>>
    PROVE  Life' = Life
  BY DEF Life, LifeOf

\* Steps that change the life of one.
LEMMA LifeOfOne ==
    ASSUME NEW t \in Tasks, NEW s, LifeOf(t)' = s,
           \A u \in Tasks \ {t} : LifeOf(u)' = LifeOf(u)
    PROVE  Life' = [Life EXCEPT ![t] = s]
  BY DEF Life

\* terminate() is not undone.
LEMMA ClosingStays == IInv /\ [Next]_vars => (Closing => Closing')
<1> SUFFICES ASSUME IInv, [Next]_vars
             PROVE  (size' = size \/ size' = 0) /\ \A m \in Managers : ~tmGo[m] => ~tmGo'[m]
  BY DEF Closing
<1>0. tmGo \in [Managers -> BOOLEAN]
  BY DEF IInv, TypeOK, TmTypeOK
<1>1. ASSUME NEW m \in Managers, WorkerStep(m) \/ WorkerSpurious(m),
             UNCHANGED <<poolOwner, size, gone, callVars>>
      PROVE  UNCHANGED <<tmGo, size>>
  BY <1>1
     DEF WorkerStep, WorkerLock, WorkerRun, WorkerFinish, WorkerWait, WorkerExit,
         WorkerSpurious
<1>2. ASSUME NEW m \in Managers, IdleNotification(m) PROVE UNCHANGED <<tmGo, size>>
  BY <1>2 DEF IdleNotification, WorkerNotify
<1>3. ASSUME NEW c \in Callers, NewCall(c) PROVE UNCHANGED <<tmGo, size>>
  BY <1>3 DEF NewCall, CallExecute, Call, CallDestroy, Begin, tmVars
<1>4. ASSUME NEW c \in Callers, Caller(c)
      PROVE  (size' = size \/ size' = 0) /\ \A m \in Managers : ~tmGo[m] => ~tmGo'[m]
  <2>1. CASE Enter(c) \/ ExecuteProbe(c) \/ ExecuteWait(c) \/ QueryProbe(c) \/ QueryReturn(c)
             \/ TerminateReturn(c)
    BY <2>1
       DEF Enter, ExecuteProbe, ExecuteWait, QueryProbe, QueryReturn, TerminateReturn,
           tmVars
  <2>2. CASE ExecuteReject(c)
    BY <2>2 DEF ExecuteReject, DeleteTask
  <2>3. CASE ExecuteAssign(c)
    BY <2>3 DEF ExecuteAssign, SetTask, tmVars
  <2>4. CASE TerminateStop(c)
    BY <1>0, <2>4 DEF TerminateStop, StopManager
  <2>5. CASE TerminateSignal(c)
    BY <1>0, <2>5 DEF TerminateSignal, SignalStop
  <2>6. CASE TerminateJoin(c)
    BY <2>6 DEF TerminateJoin, JoinManager
  <2> QED  BY <1>4, <2>1, <2>2, <2>3, <2>4, <2>5, <2>6 DEF Caller
<1>5. ASSUME NEW c \in Callers, ExecuteSpurious(c) PROVE UNCHANGED <<tmGo, size>>
  BY <1>5 DEF ExecuteSpurious, tmVars
<1>6. CASE UNCHANGED vars
  BY <1>6 DEF vars, tmVars
<1> QED  BY <1>1, <1>2, <1>3, <1>4, <1>5, <1>6 DEF Next, Worker, Spurious, Quiescent

\* What a step of the pool is for the abstract pool.
AbstractStep == Abstract!Next \/ UNCHANGED <<Life, Closing>>

\* A step that changes no life is a Close or a stutter.
LEMMA QuietStep ==
    ASSUME IInv, [Next]_vars, Life' = Life
    PROVE  AbstractStep
<1>1. Closing \in BOOLEAN /\ Closing' \in BOOLEAN
  BY DEF Closing
<1>2. CASE Closing' = Closing
  BY <1>2 DEF AbstractStep
<1>3. CASE Closing' = TRUE
  <2>1. Abstract!Close
    BY <1>3 DEF Abstract!Close, Closing, Life
  <2> QED  BY <2>1 DEF AbstractStep, Abstract!Next
<1> QED  BY <1>1, <1>2, <1>3, ClosingStays

\* A step that changes one.
LEMMA LifeStep ==
    ASSUME NEW t \in Tasks, NEW s, LifeOf(t)' = s,
           \A u \in Tasks \ {t} : LifeOf(u)' = LifeOf(u),
           UNCHANGED <<size, tmGo>>
    PROVE  Abstract!Become(t, LifeOf(t), s)
<1>1. Life' = [Life EXCEPT ![t] = s]
  BY LifeOfOne
<1>2. Life[t] = LifeOf(t)
  BY DEF Life
<1>3. Closing' = Closing
  BY DEF Closing
<1> QED  BY <1>1, <1>2, <1>3 DEF Abstract!Become, Life, Closing

\* The abstract module counts with the same Cardinality.
LEMMA SameCardinality == \A S : Abstract!Cardinality(S) = Cardinality(S)
  BY DEF Abstract!Cardinality, Cardinality

\* run() is entered: Start.
LEMMA RunMaps ==
    ASSUME IInv, [Next]_vars, NEW m \in Managers, NEW t \in Tasks, t = slot[m], WorkerRun(m),
           UNCHANGED <<poolOwner, size, gone, callVars>>
    PROVE  AbstractStep
<1>1. t \in submitted /\ runs[t] = 0 /\ deletes[t] = 0
  <2>1. wpc[m] # "running" /\ OwnOf(t)
    BY DEF WorkerRun, IInv, OwnInv
  <2> QED  BY <2>1 DEF OwnOf
<1>2. /\ runs \in [Tasks -> Nat] /\ runs' = [runs EXCEPT ![t] = @ + 1]
      /\ UNCHANGED <<deletes, submitted, size, tmGo>>
  BY DEF WorkerRun, callVars, IInv, TypeOK, TmTypeOK
<1>3. LifeOf(t) = "accepted"
  BY <1>1, LifeIsTable DEF LifeTable
<1>4. LifeOf(t)' = "running"
  <2>1. runs'[t] = 1 /\ deletes'[t] = 0 /\ t \in submitted'
    BY <1>1, <1>2
  <2> QED  BY <2>1, LifeIsTableNext DEF LifeTable
<1>5. \A u \in Tasks \ {t} : LifeOf(u)' = LifeOf(u)
  <2>1. \A u \in Tasks \ {t} : runs'[u] = runs[u]
    BY <1>2
  <2> QED  BY <1>2, <2>1 DEF LifeOf
<1>6. Abstract!Become(t, "accepted", "running")
  BY <1>2, <1>3, <1>4, <1>5, LifeStep
<1>7. Abstract!Cardinality(Abstract!With("running")) < PoolSize
  <2>1. wpc[m] # "running"
    BY DEF WorkerRun
  <2>2. Abstract!With("running") = {u \in Tasks : LifeOf(u) = "running"}
    BY DEF Abstract!With
  <2> QED  BY <2>1, <2>2, FreeWorker, SameCardinality
<1> QED  BY <1>6, <1>7 DEF AbstractStep, Abstract!Next, Abstract!Start

\* A task is deleted, by the worker that ran it or in the way of terminate().
LEMMA DeleteMaps ==
    ASSUME IInv, [Next]_vars, NEW t \in Tasks, deletes[t] = 0, t \in submitted,
           deletes' = [deletes EXCEPT ![t] = @ + 1],
           UNCHANGED <<runs, submitted, size, tmGo>>,
           runs[t] = 0 => Closing
    PROVE  AbstractStep
<1>1. /\ \A u \in Tasks \ {t} : deletes'[u] = deletes[u]
      /\ deletes'[t] = 1 /\ t \in submitted'
  BY DEF IInv, TypeOK, TmTypeOK
<1>2. \A u \in Tasks \ {t} : LifeOf(u)' = LifeOf(u)
  BY <1>1 DEF LifeOf
<1>3. CASE runs[t] = 1
  <2>1. LifeOf(t) = "running" /\ LifeOf(t)' = "finished"
    BY <1>1, <1>3, LifeIsTableNext DEF LifeTable
  <2>2. Abstract!Become(t, "running", "finished")
    BY <1>2, <2>1, LifeStep
  <2> QED  BY <2>2 DEF AbstractStep, Abstract!Next, Abstract!Finish
<1>4. CASE runs[t] = 0
  <2>1. LifeOf(t) = "accepted" /\ LifeOf(t)' = "discarded"
    BY <1>1, <1>4, LifeIsTableNext DEF LifeTable
  <2>2. Abstract!Become(t, "accepted", "discarded")
    BY <1>2, <2>1, LifeStep
  <2>3. Closing
    BY <1>4
  <2> QED  BY <2>2, <2>3 DEF AbstractStep, Abstract!Next, Abstract!Discard, Closing
<1> QED  BY <1>3, <1>4 DEF IInv, OwnInv, OwnOf

\* execute() is called: Accept.
LEMMA AcceptMaps ==
    ASSUME IInv, [Next]_vars, NEW c \in Callers, NEW t \in Tasks, CallExecute(c, t)
    PROVE  AbstractStep
<1>1. /\ t \notin submitted /\ submitted' = submitted \cup {t}
      /\ UNCHANGED <<runs, deletes, size, tmGo>>
  BY DEF CallExecute, Begin, tmVars
<1>2. LifeOf(t) = "new" /\ runs[t] = 0 /\ deletes[t] = 0
  BY <1>1, LifeIsTable DEF LifeTable
<1>3. LifeOf(t)' = "accepted"
  <2>1. runs'[t] = 0 /\ deletes'[t] = 0 /\ t \in submitted'
    BY <1>1, <1>2
  <2> QED  BY <2>1, LifeIsTableNext DEF LifeTable
<1>4. \A u \in Tasks \ {t} : LifeOf(u)' = LifeOf(u)
  <2>1. \A u \in Tasks \ {t} : u \in submitted' <=> u \in submitted
    BY <1>1
  <2> QED  BY <1>1, <2>1 DEF LifeOf
<1>5. Abstract!Become(t, "new", "accepted")
  BY <1>1, <1>2, <1>3, <1>4, LifeStep
<1> QED  BY <1>5 DEF AbstractStep, Abstract!Next, Abstract!Accept

\* Every step of the pool is one of the abstract pool or a stutter.
LEMMA StepMaps == IInv /\ [Next]_vars => AbstractStep
<1> SUFFICES ASSUME IInv, [Next]_vars PROVE AbstractStep
  OBVIOUS
<1>0. UNCHANGED <<runs, deletes, submitted>> => AbstractStep
  BY LifeFrame, QuietStep
<1>1. ASSUME NEW m \in Managers, WorkerStep(m) \/ WorkerSpurious(m),
             UNCHANGED <<poolOwner, size, gone, callVars>>
      PROVE  AbstractStep
  <2>1. CASE WorkerLock(m) \/ WorkerWait(m) \/ WorkerSpurious(m)
    BY <1>0, <1>1, <2>1 DEF WorkerLock, WorkerWait, WorkerSpurious, callVars
  <2>2. CASE WorkerRun(m)
    <3>1. PICK t \in Tasks : t = slot[m]
      BY <2>2 DEF WorkerRun, IInv, TypeOK, TmTypeOK
    <3> QED  BY <1>1, <2>2, <3>1, RunMaps
  <2>3. CASE WorkerFinish(m)
    <3>1. wpc[m] = "running" /\ slot[m] # None
      BY <2>3 DEF WorkerFinish, IInv, TmShape
    <3>2. PICK t \in Tasks : t = slot[m]
      BY <3>1 DEF IInv, TypeOK, TmTypeOK
    <3>3. t \in submitted /\ deletes[t] = 0 /\ runs[t] = 1
      <4>1. OwnOf(t)
        BY DEF IInv, OwnInv
      <4> QED  BY <3>1, <3>2, <4>1 DEF OwnOf
    <3>4. deletes' = [deletes EXCEPT ![t] = @ + 1] /\ UNCHANGED <<runs, submitted, size, tmGo>>
      BY <1>1, <2>3, <3>2 DEF WorkerFinish, callVars
    <3>5. runs[t] = 0 => Closing
      BY <3>3
    <3> QED  BY <3>3, <3>4, <3>5, DeleteMaps
  <2>4. CASE WorkerExit(m)
    <3>1. CASE slot[m] = None
      BY <1>0, <1>1, <2>4, <3>1 DEF WorkerExit, callVars
    <3>2. CASE slot[m] # None
      <4>1. PICK t \in Tasks : t = slot[m]
        BY <3>2 DEF IInv, TypeOK, TmTypeOK
      <4>2. t \in submitted /\ deletes[t] = 0
        <5>1. OwnOf(t)
          BY DEF IInv, OwnInv
        <5> QED  BY <4>1, <5>1 DEF OwnOf
      <4>3. Closing
        BY <2>4 DEF WorkerExit, Closing
      <4>4. /\ deletes' = [deletes EXCEPT ![t] = @ + 1]
            /\ UNCHANGED <<runs, submitted, size, tmGo>>
        BY <1>1, <2>4, <3>2, <4>1 DEF WorkerExit, callVars
      <4> QED  BY <4>2, <4>3, <4>4, DeleteMaps
    <3> QED  BY <3>1, <3>2
  <2> QED  BY <1>1, <2>1, <2>2, <2>3, <2>4 DEF WorkerStep
<1>2. ASSUME NEW m \in Managers, IdleNotification(m) PROVE AbstractStep
  BY <1>0, <1>2 DEF IdleNotification, WorkerNotify
<1>3. ASSUME NEW c \in Callers, NewCall(c) PROVE AbstractStep
  <2>1. ASSUME NEW t \in Tasks, CallExecute(c, t) PROVE AbstractStep
    BY <2>1, AcceptMaps
  <2>2. ASSUME NEW o \in {"is_idle", "is_busy", "terminate"}, Call(c, o) PROVE AbstractStep
    BY <1>0, <2>2 DEF Call, Begin, tmVars
  <2>3. CASE CallDestroy(c)
    BY <1>0, <2>3 DEF CallDestroy, Begin, tmVars
  <2> QED  BY <1>3, <2>1, <2>2, <2>3 DEF NewCall
<1>4. ASSUME NEW c \in Callers, Caller(c) PROVE AbstractStep
  <2>1. CASE Enter(c) \/ ExecuteProbe(c) \/ ExecuteWait(c) \/ QueryProbe(c) \/ QueryReturn(c)
             \/ TerminateReturn(c)
    BY <1>0, <2>1
       DEF Enter, ExecuteProbe, ExecuteWait, QueryProbe, QueryReturn, TerminateReturn,
           tmVars
  <2>2. CASE ExecuteReject(c)
    <3>1. PICK t \in Tasks : t = hand[c]
      BY <2>2 DEF ExecuteReject, IInv, CallInv, TypeOK
    <3>2. t \in submitted /\ deletes[t] = 0
      <4>1. OwnOf(t)
        BY DEF IInv, OwnInv
      <4> QED  BY <3>1, <4>1 DEF OwnOf
    <3>3. Closing
      BY <2>2 DEF ExecuteReject, Closing
    <3>4. deletes' = [deletes EXCEPT ![t] = @ + 1] /\ UNCHANGED <<runs, submitted, size, tmGo>>
      BY <2>2, <3>1 DEF ExecuteReject, DeleteTask
    <3> QED  BY <3>2, <3>3, <3>4, DeleteMaps
  <2>3. CASE ExecuteAssign(c)
    BY <1>0, <2>3 DEF ExecuteAssign, SetTask, tmVars
  <2>4. CASE TerminateStop(c)
    BY <1>0, <2>4 DEF TerminateStop, StopManager
  <2>5. CASE TerminateSignal(c)
    BY <1>0, <2>5 DEF TerminateSignal, SignalStop
  <2>6. CASE TerminateJoin(c)
    BY <1>0, <2>6 DEF TerminateJoin, JoinManager
  <2> QED  BY <1>4, <2>1, <2>2, <2>3, <2>4, <2>5, <2>6 DEF Caller
<1>5. ASSUME NEW c \in Callers, ExecuteSpurious(c) PROVE AbstractStep
  BY <1>0, <1>5 DEF ExecuteSpurious, tmVars
<1>6. CASE UNCHANGED vars
  BY <1>0, <1>6 DEF vars, tmVars, callVars
<1> QED  BY <1>1, <1>2, <1>3, <1>4, <1>5, <1>6 DEF Next, Worker, Spurious, Quiescent

\* The pool starts as the abstract pool does.
LEMMA InitMaps == Init => Abstract!Init
<1> SUFFICES ASSUME Init PROVE Abstract!Init
  OBVIOUS
<1>1. Life = [t \in Tasks |-> "new"]
  <2>1. submitted = {}
    BY DEF Init
  <2>2. \A t \in Tasks : LifeOf(t) = "new"
    BY <2>1, InitInv, LifeIsTable DEF LifeTable
  <2> QED  BY <2>2 DEF Life
<1>2. Closing = (PoolSize = 0)
  BY DEF Init, TmInit, Closing
<1> QED  BY <1>1, <1>2 DEF Abstract!Init, Life, Closing

\* A task given to execute() is run once, by one of at most PoolSize threads,
\* and then deleted once; unrun it is deleted only after terminate() (threadpool.hpp
\* 483-591).
THEOREM Implementation == Spec => ImplementsTaskExecution
<1>1. IInv /\ [Next]_vars => [Abstract!Next]_(Abstract!vars)
  BY StepMaps DEF AbstractStep, Abstract!vars, Life, Closing
<1> QED  BY <1>1, InitMaps, Invariance, PTL
     DEF Spec, ImplementsTaskExecution, Abstract!Spec
=============================================================================
