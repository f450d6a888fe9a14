----------------------- MODULE BoostThreadPool_proofs -----------------------
(***************************************************************************)
(* Proofs about BoostThreadPool, for every number of managers, every set   *)
(* of tasks and callers and every bound on the calls.                      *)
(***************************************************************************)
EXTENDS BoostThreadPool, FiniteSetTheorems, TLAPS

\* Between the pool's lock and its unlock.
Inside == {"probe", "assign", "answer", "stop"}

\* The steps of the destructor, which takes no lock of the pool.
Destroying == {"free", "joining", "base"}

\* A caller is inside the pool's monitor exactly when it has the lock.
LockInv == \A c \in Callers : pc[c] \in Inside <=> owner = c

\* The states of a call fit the call; execute() has its argument until a
\* manager takes it.
CallInv ==
    \A c \in Callers :
        /\ pc[c] = "out" <=> op[c] = "none"
        /\ pc[c] \in {"assign", "waiting", "woken", "late"} => op[c] = "execute"
        /\ pc[c] = "probe" => op[c] \in {"execute", "is_idle", "is_busy"}
        /\ pc[c] = "answer" => op[c] \in {"is_idle", "is_busy"}
        /\ pc[c] = "stop" => op[c] = "terminate"
        /\ pc[c] \in Destroying <=> op[c] = "destroy"
        /\ hand[c] # None <=> op[c] = "execute"

\* Every loop over the managers begins at the first and stays inside the vector.
CursorInv ==
    \A c \in Callers :
        /\ pc[c] \notin {"probe", "assign", "stop", "free", "joining"} => cur[c] = 1
        /\ pc[c] = "probe" /\ op[c] # "execute" => cur[c] \in Managers

\* What is_idle() has seen stays true until it gives the lock back: only the
\* holder of the lock gives a manager a task.
ScanInv ==
    \A c \in Callers :
        pc[c] = "probe" /\ op[c] = "is_idle" => \A m \in Managers : m < cur[c] => slot[m] = None

\* The pool is closing when a manager was stopped, and as long as it is not
\* nobody terminates or destroys it.
StopInv ==
    /\ \A m \in Managers : ~tmGo[m] => object # "whole"
    /\ \A c \in Callers : op[c] = "terminate" => object # "whole"

\* The destructor is alone, and joins the workers in their order.
DestroyInv ==
    /\ \A c \in Callers : op[c] = "destroy" => object = "closing"
    /\ object = "closing" => \A c \in Callers : op[c] \in {"none", "destroy"}
    /\ object = "closing" => \A c, d \in Callers : pc[c] # "out" /\ pc[d] # "out" => c = d
    /\ object = "gone" => \A c \in Callers : pc[c] = "out"
    /\ \A c \in Callers :
          pc[c] \in {"free", "joining"} => \A m \in Managers : m < cur[c] => wpc[m] = "ended"
    /\ \A c \in Callers : pc[c] = "base" => \A m \in Managers : wpc[m] = "ended"
    /\ object = "gone" => \A m \in Managers : wpc[m] = "ended"

\* TaskOwnership, said without counting: a task is held by at most one caller or
\* slot, and as long as one holds it, it is not deleted.
OwnOf(t) ==
    /\ \A c, d \in Callers : hand[c] = t /\ hand[d] = t => c = d
    /\ \A m, n \in Managers : slot[m] = t /\ slot[n] = t => m = n
    /\ \A c \in Callers, m \in Managers : ~(hand[c] = t /\ slot[m] = t)
    /\ \A c \in Callers : hand[c] = t => t \in submitted /\ runs[t] = 0 /\ deletes[t] = 0
    /\ \A m \in Managers : slot[m] = t =>
          /\ t \in submitted
          /\ deletes[t] = 0
          /\ runs[t] = IF wpc[m] = "running" THEN 1 ELSE 0
    /\ t \notin submitted => runs[t] = 0 /\ deletes[t] = 0
    /\ runs[t] \in {0, 1} /\ deletes[t] \in {0, 1}
    /\ t \in submitted /\ deletes[t] = 0 =>
          (\E c \in Callers : hand[c] = t) \/ (\E m \in Managers : slot[m] = t)

OwnInv == \A t \in Tasks : OwnOf(t)

\* A worker inside run() has the task it runs.
RunInv == \A m \in Managers : wpc[m] = "running" => slot[m] # None

\* The inductive invariant.
IInv == /\ TypeOK /\ LockInv /\ CallInv /\ CursorInv /\ ScanInv /\ StopInv
        /\ DestroyInv /\ RunInv /\ OwnInv /\ IdleAnswer

-----------------------------------------------------------------------------
(* What the steps leave alone                                              *)

\* A caller that another thread's step may only wake.
Stays(c) ==
    /\ op'[c] = op[c] /\ cur'[c] = cur[c] /\ hand'[c] = hand[c] /\ answer'[c] = answer[c]
    /\ pc'[c] = pc[c] \/ (pc[c] = "waiting" /\ pc'[c] = "woken")

\* A worker wakes callers, empties slots and goes on to its end; nothing else.
WorkerFrame ==
    /\ UNCHANGED <<tmGo, owner, object, op, cur, hand, answer, calls, submitted>>
    /\ pc' \in [Callers -> CallerStates] /\ \A c \in Callers : Stays(c)
    /\ wpc' \in [Managers -> WorkerStates] /\ slot' \in [Managers -> Tasks \cup {None}]
    /\ \A m \in Managers : /\ slot'[m] = slot[m] \/ slot'[m] = None
                           /\ wpc[m] = "ended" => wpc'[m] = "ended"

LEMMA WorkerEffect ==
    ASSUME TypeOK, NEW m \in Managers, Worker(m)
    PROVE  WorkerFrame
<1>1. UNCHANGED <<tmGo, owner, object, op, cur, hand, answer, calls, submitted>>
  BY DEF Worker
<1>2. pc' \in [Callers -> CallerStates] /\ \A c \in Callers : Stays(c)
  <2>1. CASE WorkerLoop(m) \/ WorkerFinish(m) \/ WorkerLeave(m)
    BY <1>1, <2>1 DEF WorkerLoop, WorkerFinish, WorkerLeave, TypeOK, Stays
  <2>2. CASE WorkerNotify(m)
    <3>1. CASE UNCHANGED pc
      BY <1>1, <3>1 DEF TypeOK, Stays
    <3>2. CASE \E c \in Callers : pc[c] = "waiting" /\ pc' = [pc EXCEPT ![c] = "woken"]
      BY <1>1, <3>2 DEF TypeOK, Stays, CallerStates
    <3> QED  BY <2>2, <3>1, <3>2 DEF WorkerNotify
  <2> QED  BY <2>1, <2>2 DEF Worker
<1>3. /\ wpc' \in [Managers -> WorkerStates] /\ slot' \in [Managers -> Tasks \cup {None}]
      /\ \A n \in Managers : /\ slot'[n] = slot[n] \/ slot'[n] = None
                             /\ wpc[n] = "ended" => wpc'[n] = "ended"
  <2>0. wpc \in [Managers -> WorkerStates] /\ slot \in [Managers -> Tasks \cup {None}]
    BY DEF TypeOK
  <2>1. CASE WorkerLoop(m)
    BY <2>0, <2>1 DEF WorkerLoop, Emptied, WorkerStates
  <2>2. CASE WorkerFinish(m)
    BY <2>0, <2>2 DEF WorkerFinish, Emptied, WorkerStates
  <2>3. CASE WorkerNotify(m)
    BY <2>0, <2>3 DEF WorkerNotify, WorkerStates
  <2>4. CASE WorkerLeave(m)
    BY <2>0, <2>4 DEF WorkerLeave, WorkerStates
  <2> QED  BY <2>1, <2>2, <2>3, <2>4 DEF Worker
<1> QED  BY <1>1, <1>2, <1>3 DEF WorkerFrame

\* A caller's step leaves the other callers where they are.
LEMMA OthersStay ==
    ASSUME TypeOK, NEW c \in Callers, Actor(c) \/ Call(c)
    PROVE  \A d \in Callers \ {c} : Stays(d)
<1> SUFFICES ASSUME NEW d \in Callers \ {c} PROVE Stays(d)
  OBVIOUS
<1>0. /\ pc \in [Callers -> CallerStates] /\ op \in [Callers -> Operations]
      /\ cur \in [Callers -> 1..PoolSize + 1] /\ hand \in [Callers -> Tasks \cup {None}]
      /\ answer \in [Callers -> BOOLEAN]
  BY DEF TypeOK
<1>1. CASE Enter(c) \/ Probe(c) \/ NobodyIdle(c) \/ TimeOut(c)
  BY <1>0, <1>1 DEF Enter, Probe, NobodyIdle, TimeOut, Stays
<1>2. CASE Assign(c)
  BY <1>0, <1>2 DEF Assign, HandedOver, Leave, Stays
<1>3. CASE Query(c)
  BY <1>0, <1>3 DEF Query, Stays
<1>4. CASE QueryReturn(c)
  BY <1>0, <1>4 DEF QueryReturn, Leave, Stays
<1>5. CASE TerminateStop(c)
  BY <1>0, <1>5 DEF TerminateStop, Stays
<1>6. CASE DestroyQuit(c) \/ DestroyJoin(c) \/ DestroyBase(c)
  BY <1>0, <1>6 DEF DestroyQuit, DestroyJoin, DestroyBase, Leave, Stays
<1>7. ASSUME NEW o, NEW t, Begin(c, o, t) PROVE Stays(d)
  BY <1>0, <1>7 DEF Begin, Stays
<1> QED  BY <1>1, <1>2, <1>3, <1>4, <1>5, <1>6, <1>7 DEF Actor, Call

\* The holder of the lock is the only caller inside.
LEMMA Exclusive ==
    ASSUME LockInv, NEW c \in Callers, pc[c] \in Inside
    PROVE  owner = c /\ \A d \in Callers \ {c} : pc[d] \notin Inside
  BY DEF LockInv

-----------------------------------------------------------------------------
(* The invariant is inductive                                              *)

\* Every step keeps the types.
LEMMA TypeStep == IInv /\ [Next]_vars => TypeOK'
<1> SUFFICES ASSUME IInv, [Next]_vars PROVE TypeOK'
  OBVIOUS
<1>0. TypeOK /\ CursorInv /\ CallInv /\ RunInv
  BY DEF IInv
<1>1. ASSUME NEW m \in Managers, Worker(m) PROVE TypeOK'
  <2>1. WorkerFrame
    BY <1>0, <1>1, WorkerEffect
  <2>2. /\ status' \in [Managers -> Statuses] /\ signal' \in BOOLEAN
        /\ runs' \in [Tasks -> Nat] /\ deletes' \in [Tasks -> Nat]
    <3>0. /\ status \in [Managers -> Statuses] /\ signal \in BOOLEAN
          /\ runs \in [Tasks -> Nat] /\ deletes \in [Tasks -> Nat]
          /\ slot \in [Managers -> Tasks \cup {None}]
      BY <1>0 DEF TypeOK
    <3>1. CASE WorkerLoop(m)
      <4>1. \A t \in Tasks : deletes[t] + (IF slot[m] = t THEN 1 ELSE 0) \in Nat
        BY <3>0
      <4>2. deletes' \in [Tasks -> Nat]
        BY <3>0, <3>1, <4>1 DEF WorkerLoop
      <4>3. runs' \in [Tasks -> Nat]
        BY <3>0, <3>1 DEF WorkerLoop
      <4> QED  BY <3>0, <3>1, <4>2, <4>3 DEF WorkerLoop
    <3>2. CASE WorkerFinish(m)
      <4>1. slot[m] \in Tasks
        BY <1>0, <3>0, <3>2 DEF WorkerFinish, RunInv
      <4>2. deletes' \in [Tasks -> Nat]
        BY <3>0, <3>2, <4>1 DEF WorkerFinish
      <4> QED  BY <3>0, <3>2, <4>2 DEF WorkerFinish
    <3>3. CASE WorkerNotify(m)
      BY <3>0, <3>3 DEF WorkerNotify
    <3>4. CASE WorkerLeave(m)
      BY <3>0, <3>4 DEF WorkerLeave, Statuses
    <3> QED  BY <1>1, <3>1, <3>2, <3>3, <3>4 DEF Worker
  <2>3. \A c \in Callers : pc'[c] \in {"assign", "stop", "free", "joining"} => cur'[c] \in Managers
    BY <1>0, <2>1 DEF WorkerFrame, Stays, TypeOK
  <2> QED  BY <1>0, <2>1, <2>2, <2>3 DEF WorkerFrame, TypeOK
<1>2. ASSUME NEW c \in Callers, Call(c) PROVE TypeOK'
  <2>1. ASSUME NEW o \in Operations, NEW t \in Tasks \cup {None}, Begin(c, o, t), object' \in Objects
        PROVE  TypeOK'
    <3>1. UNCHANGED <<tmVars, owner, signal, cur, answer>> /\ calls' \in 0..MaxCalls
      BY <1>0, <2>1, BoostAssumption DEF Begin, TypeOK
    <3>2. /\ pc' \in [Callers -> CallerStates] /\ op' \in [Callers -> Operations]
          /\ hand' \in [Callers -> Tasks \cup {None}] /\ submitted' \in SUBSET Tasks
      BY <1>0, <2>1 DEF Begin, TypeOK, CallerStates
    <3>3. \A d \in Callers : pc'[d] \in {"assign", "stop", "free", "joining"} => cur'[d] \in Managers
      <4>1. cur[c] = 1 /\ 1 \in Managers
        BY <1>0, <2>1, BoostAssumption DEF Begin, CursorInv, Managers
      <4> QED  BY <1>0, <2>1, <3>1, <4>1 DEF Begin, TypeOK
    <3> QED  BY <1>0, <2>1, <3>1, <3>2, <3>3 DEF TypeOK, tmVars
  <2> QED  BY <1>0, <1>2, <2>1 DEF Call, Operations, Objects, TypeOK
<1>3. ASSUME NEW c \in Callers, Actor(c) PROVE TypeOK'
  <2>0. /\ UNCHANGED <<calls, submitted>> /\ \A d \in Callers \ {c} : Stays(d)
        /\ PoolSize \in Nat /\ cur[c] \in 1..PoolSize + 1 /\ 1 \in Managers
    BY <1>0, <1>3, OthersStay, BoostAssumption DEF Actor, TypeOK, Managers
  <2>1. CASE Enter(c)
    BY <1>0, <2>0, <2>1 DEF Enter, TypeOK, CallerStates, tmVars, CursorInv
  <2>2. CASE Probe(c)
    <3>1. cur[c] \in Managers /\ cur[c] + 1 \in 1..PoolSize + 1
      BY <2>0, <2>2 DEF Probe, Managers
    <3> QED  BY <1>0, <2>0, <2>2, <3>1 DEF Probe, TypeOK, CallerStates, tmVars, poolVars
  <2>3. CASE Assign(c)
    <3>1. cur[c] \in Managers /\ cur[c] + 1 \in 1..PoolSize + 1 /\ 1 \in 1..PoolSize + 1
      BY <1>0, <2>0, <2>3 DEF Assign, TypeOK, Managers
    <3> QED  BY <1>0, <2>0, <2>3, <3>1
             DEF Assign, Notified, HandedOver, Leave, TypeOK, CallerStates, Operations, WorkerStates
  <2>4. CASE NobodyIdle(c)
    <3>1. 1 \in 1..PoolSize + 1
      BY <2>0
    <3> QED  BY <1>0, <2>0, <2>4, <3>1 DEF NobodyIdle, TypeOK, CallerStates, tmVars
  <2>5. CASE TimeOut(c)
    BY <1>0, <2>0, <2>5 DEF TimeOut, TypeOK, CallerStates, tmVars, poolVars
  <2>6. CASE Query(c)
    <3>1. cur[c] \in Managers /\ cur[c] + 1 \in 1..PoolSize + 1 /\ 1 \in 1..PoolSize + 1
      BY <1>0, <2>0, <2>6 DEF Query, CursorInv, Managers
    <3>2. /\ cur' \in [Callers -> 1..PoolSize + 1] /\ pc' \in [Callers -> CallerStates]
          /\ answer' \in [Callers -> BOOLEAN] /\ pc'[c] \in {"probe", "answer"}
      BY <1>0, <2>6, <3>1 DEF Query, TypeOK, CallerStates
    <3> QED  BY <1>0, <2>0, <2>6, <3>2 DEF Query, TypeOK, tmVars, poolVars, Stays
  <2>7. CASE QueryReturn(c)
    BY <1>0, <2>0, <2>7 DEF QueryReturn, Leave, TypeOK, CallerStates, Operations, tmVars
  <2>8. CASE TerminateStop(c)
    <3>1. cur[c] \in Managers /\ 1 \in 1..PoolSize + 1
      BY <1>0, <2>0, <2>8 DEF TerminateStop, TypeOK
    <3>2. More(c) => cur[c] + 1 \in Managers /\ cur[c] + 1 \in 1..PoolSize + 1
      BY <2>0, <3>1 DEF More, Managers
    <3>3. /\ cur' \in [Callers -> 1..PoolSize + 1] /\ op' \in [Callers -> Operations]
          /\ owner' \in Callers \cup {None} /\ signal' \in BOOLEAN
          /\ tmGo' \in [Managers -> BOOLEAN] /\ pc' \in [Callers -> CallerStates]
      <4>1. CASE More(c)
        BY <1>0, <2>8, <3>1, <3>2, <4>1 DEF TerminateStop, TypeOK
      <4>2. CASE ~More(c)
        BY <1>0, <2>8, <3>1, <4>2 DEF TerminateStop, TypeOK, CallerStates, Operations
      <4> QED  BY <4>1, <4>2
    <3>4. pc'[c] = "out" \/ cur'[c] \in Managers
      BY <1>0, <2>8, <3>2 DEF TerminateStop, TypeOK
    <3> QED  BY <1>0, <2>0, <2>8, <3>3, <3>4 DEF TerminateStop, TypeOK, Stays
  <2>9. CASE DestroyQuit(c)
    BY <1>0, <2>0, <2>9 DEF DestroyQuit, Notified, TypeOK, CallerStates, WorkerStates, poolVars
  <2>10. CASE DestroyJoin(c)
    <3>1. cur[c] \in Managers /\ 1 \in 1..PoolSize + 1
      BY <1>0, <2>0, <2>10 DEF DestroyJoin, TypeOK
    <3>2. More(c) => cur[c] + 1 \in Managers /\ cur[c] + 1 \in 1..PoolSize + 1
      BY <2>0, <3>1 DEF More, Managers
    <3> QED  BY <1>0, <2>0, <2>10, <3>1, <3>2 DEF DestroyJoin, TypeOK, CallerStates, Statuses, poolVars
  <2>11. CASE DestroyBase(c)
    BY <1>0, <2>0, <2>11
       DEF DestroyBase, Leave, TypeOK, CallerStates, Operations, Objects, tmVars
  <2> QED  BY <1>3, <2>1, <2>2, <2>3, <2>4, <2>5, <2>6, <2>7, <2>8, <2>9, <2>10, <2>11 DEF Actor
<1>4. CASE UNCHANGED vars
  BY <1>0, <1>4 DEF vars, tmVars, poolVars, callVars, TypeOK
<1> QED  BY <1>1, <1>2, <1>3, <1>4 DEF Next, Quiescent

\* Every step keeps the lock with the one who is inside.
LEMMA LockStep == IInv /\ [Next]_vars => LockInv'
<1> SUFFICES ASSUME IInv, [Next]_vars PROVE LockInv'
  OBVIOUS
<1>0. TypeOK /\ LockInv /\ CallInv /\ \A c \in Callers : c # None
  BY BoostAssumption DEF IInv, Callers
<1>1. ASSUME NEW m \in Managers, Worker(m) PROVE LockInv'
  BY <1>0, <1>1, WorkerEffect DEF WorkerFrame, Stays, LockInv, Inside
<1>2. ASSUME NEW c \in Callers, Call(c) PROVE LockInv'
  <2>1. \A d \in Callers \ {c} : Stays(d)
    BY <1>0, <1>2, OthersStay
  <2>2. pc[c] = "out" /\ pc'[c] \in {"free", "enter"} /\ owner' = owner
    BY <1>0, <1>2 DEF Call, Begin, TypeOK
  <2> QED  BY <1>0, <2>1, <2>2 DEF LockInv, Inside, Stays
<1>3. ASSUME NEW c \in Callers, Actor(c) PROVE LockInv'
  <2>0. \A d \in Callers \ {c} : Stays(d)
    BY <1>0, <1>3, OthersStay
  <2>1. ASSUME owner' = owner, pc'[c] \in Inside <=> pc[c] \in Inside PROVE LockInv'
    BY <1>0, <2>0, <2>1 DEF LockInv, Inside, Stays
  <2>2. ASSUME pc[c] \in Inside, owner' = None, pc'[c] \notin Inside PROVE LockInv'
    BY <1>0, <2>0, <2>2, Exclusive DEF LockInv, Inside, Stays
  <2>3. CASE Enter(c)
    <3>1. CASE owner' = owner
      BY <1>0, <2>1, <2>3, <3>1 DEF Enter, LockFree, TypeOK, Inside
    <3>2. CASE owner' = c
      <4>1. \A d \in Callers : pc[d] \notin Inside
        BY <1>0, <2>3 DEF Enter, LockFree, LockInv
      <4>2. pc'[c] \in Inside
        BY <1>0, <2>3, <3>2 DEF Enter, LockFree, TypeOK, Inside
      <4> QED  BY <2>0, <3>2, <4>1, <4>2 DEF LockInv, Inside, Stays
    <3> QED  BY <2>3, <3>1, <3>2 DEF Enter
  <2>4. CASE Probe(c)
    BY <1>0, <2>1, <2>4 DEF Probe, TypeOK, Inside, poolVars
  <2>5. CASE Assign(c)
    BY <1>0, <2>1, <2>2, <2>5 DEF Assign, Leave, TypeOK, Inside
  <2>6. CASE NobodyIdle(c)
    BY <1>0, <2>2, <2>6 DEF NobodyIdle, TypeOK, Inside
  <2>7. CASE TimeOut(c)
    BY <1>0, <2>1, <2>7 DEF TimeOut, TypeOK, Inside, poolVars
  <2>8. CASE Query(c)
    BY <1>0, <2>1, <2>8 DEF Query, TypeOK, Inside, poolVars
  <2>9. CASE QueryReturn(c)
    BY <1>0, <2>2, <2>9 DEF QueryReturn, Leave, TypeOK, Inside
  <2>10. CASE TerminateStop(c)
    BY <1>0, <2>1, <2>2, <2>10 DEF TerminateStop, TypeOK, Inside
  <2>11. CASE DestroyQuit(c)
    BY <1>0, <2>1, <2>11 DEF DestroyQuit, TypeOK, Inside, poolVars
  <2>12. CASE DestroyJoin(c)
    BY <1>0, <2>1, <2>12 DEF DestroyJoin, TypeOK, Inside, poolVars
  <2>13. CASE DestroyBase(c)
    <3>1. pc[c] = "base" /\ op[c] = "destroy"
      BY <1>0, <2>13 DEF DestroyBase, CallInv, Destroying
    <3>2. object = "closing" /\ \A d \in Callers : pc[d] # "out" => d = c
      BY <3>1 DEF IInv, DestroyInv
    <3>3. pc'[c] = "out" /\ owner' = None
      BY <1>0, <2>13 DEF DestroyBase, Leave, TypeOK
    <3> QED  BY <1>0, <2>0, <3>2, <3>3 DEF LockInv, Inside, Stays
  <2> QED  BY <1>3, <2>3, <2>4, <2>5, <2>6, <2>7, <2>8, <2>9, <2>10, <2>11, <2>12, <2>13 DEF Actor
<1>4. CASE UNCHANGED vars
  BY <1>0, <1>4 DEF vars, poolVars, callVars, LockInv
<1> QED  BY <1>1, <1>2, <1>3, <1>4 DEF Next, Quiescent

\* CallInv and CursorInv, for one caller.
CallOf(c) ==
    /\ pc[c] = "out" <=> op[c] = "none"
    /\ pc[c] \in {"assign", "waiting", "woken", "late"} => op[c] = "execute"
    /\ pc[c] = "probe" => op[c] \in {"execute", "is_idle", "is_busy"}
    /\ pc[c] = "answer" => op[c] \in {"is_idle", "is_busy"}
    /\ pc[c] = "stop" => op[c] = "terminate"
    /\ pc[c] \in Destroying <=> op[c] = "destroy"
    /\ hand[c] # None <=> op[c] = "execute"
    /\ pc[c] \notin {"probe", "assign", "stop", "free", "joining"} => cur[c] = 1
    /\ pc[c] = "probe" /\ op[c] # "execute" => cur[c] \in Managers

\* Every step keeps a caller's states and its cursor fit for its call.
LEMMA CallStep == IInv /\ [Next]_vars => CallInv' /\ CursorInv'
<1> SUFFICES ASSUME IInv, [Next]_vars, NEW d \in Callers PROVE CallOf(d)'
  BY DEF CallInv, CursorInv, CallOf
<1>0. TypeOK /\ CallOf(d) /\ CallInv /\ CursorInv
  BY DEF IInv, CallInv, CursorInv, CallOf
<1>1. Stays(d) => CallOf(d)'
  BY <1>0 DEF Stays, CallOf, Destroying
<1>2. ASSUME NEW m \in Managers, Worker(m) PROVE CallOf(d)'
  BY <1>0, <1>1, <1>2, WorkerEffect DEF WorkerFrame
<1>3. ASSUME NEW c \in Callers, Call(c) PROVE CallOf(d)'
  <2>1. CASE d # c
    BY <1>0, <1>1, <1>3, <2>1, OthersStay
  <2>2. CASE d = c
    <3>1. ASSUME NEW t \in Tasks, Begin(c, "execute", t) PROVE CallOf(d)'
      <4>1. t # None
        BY BoostAssumption DEF Tasks
      <4> QED  BY <1>0, <2>2, <3>1, <4>1 DEF Begin, CallOf, TypeOK, Destroying
    <3>2. ASSUME NEW o \in {"is_idle", "is_busy", "terminate", "destroy"}, Begin(c, o, None)
          PROVE  CallOf(d)'
      BY <1>0, <2>2, <3>2 DEF Begin, CallOf, TypeOK, Destroying
    <3> QED  BY <1>3, <3>1, <3>2 DEF Call
  <2> QED  BY <2>1, <2>2
<1>4. ASSUME NEW c \in Callers, Actor(c) PROVE CallOf(d)'
  <2>1. CASE d # c
    BY <1>0, <1>1, <1>4, <2>1, OthersStay
  <2>2. CASE d = c
    <3>0. PoolSize \in Nat /\ cur[c] \in 1..PoolSize + 1 /\ 1 \in Managers /\ op[c] \in Operations
      BY <1>0, BoostAssumption DEF TypeOK, Managers
    <3>1. CASE Enter(c)
      BY <1>0, <2>2, <3>0, <3>1 DEF Enter, CallOf, TypeOK, Operations, Destroying
    <3>2. CASE Probe(c)
      BY <1>0, <2>2, <3>0, <3>2 DEF Probe, CallOf, TypeOK, Destroying
    <3>3. CASE Assign(c)
      BY <1>0, <2>2, <3>0, <3>3 DEF Assign, HandedOver, Leave, CallOf, TypeOK, Destroying
    <3>4. CASE NobodyIdle(c) \/ TimeOut(c)
      BY <1>0, <2>2, <3>0, <3>4 DEF NobodyIdle, TimeOut, CallOf, TypeOK, Destroying
    <3>5. CASE Query(c)
      <4>1. cur[c] \in Managers /\ (More(c) => cur[c] + 1 \in Managers)
        BY <1>0, <2>2, <3>0, <3>5 DEF Query, CallOf, More, Managers
      <4> QED  BY <1>0, <2>2, <3>0, <3>5, <4>1 DEF Query, CallOf, TypeOK, Destroying
    <3>6. CASE QueryReturn(c)
      BY <1>0, <2>2, <3>6 DEF QueryReturn, Leave, CallOf, TypeOK, Destroying
    <3>7. CASE TerminateStop(c)
      <4>1. CASE More(c)
        BY <1>0, <2>2, <3>7, <4>1 DEF TerminateStop, CallOf, TypeOK, Destroying
      <4>2. CASE ~More(c)
        BY <1>0, <2>2, <3>7, <4>2 DEF TerminateStop, CallOf, TypeOK, Destroying
      <4> QED  BY <4>1, <4>2
    <3>8. CASE DestroyQuit(c) \/ DestroyJoin(c)
      BY <1>0, <2>2, <3>8 DEF DestroyQuit, DestroyJoin, CallOf, TypeOK, Destroying
    <3>9. CASE DestroyBase(c)
      BY <1>0, <2>2, <3>9 DEF DestroyBase, Leave, CallOf, TypeOK, Destroying
    <3> QED  BY <1>4, <3>1, <3>2, <3>3, <3>4, <3>5, <3>6, <3>7, <3>8, <3>9 DEF Actor
  <2> QED  BY <2>1, <2>2
<1>5. CASE UNCHANGED vars
  BY <1>0, <1>5 DEF vars, callVars, CallOf
<1> QED  BY <1>2, <1>3, <1>4, <1>5 DEF Next, Quiescent

\* Only set_task() fills a slot, and only a caller with the lock calls it.
LEMMA SlotFrame ==
    ASSUME NEW c \in Callers, Actor(c) \/ Call(c), ~Assign(c)
    PROVE  slot' = slot
  BY DEF Actor, Call, Begin, Enter, Probe, NobodyIdle, TimeOut, Query, QueryReturn, TerminateStop,
         DestroyQuit, DestroyJoin, DestroyBase, tmVars

\* What is_idle() knows, while it looks and when it answers.
ScanOf(c) ==
    /\ pc[c] = "probe" /\ op[c] = "is_idle" => \A m \in Managers : m < cur[c] => slot[m] = None
    /\ pc[c] = "answer" /\ op[c] = "is_idle" /\ answer[c] => \A m \in Managers : slot[m] = None

\* No step makes it wrong.
LEMMA ScanStep == IInv /\ [Next]_vars => ScanInv' /\ IdleAnswer'
<1> SUFFICES ASSUME IInv, [Next]_vars, NEW d \in Callers PROVE ScanOf(d)'
  BY DEF ScanInv, IdleAnswer, ScanOf
<1>0. TypeOK /\ ScanOf(d) /\ LockInv /\ CallInv /\ CursorInv
  BY DEF IInv, ScanInv, IdleAnswer, ScanOf
<1>1. ASSUME Stays(d), \A m \in Managers : slot'[m] = slot[m] \/ slot'[m] = None
      PROVE  ScanOf(d)'
  BY <1>0, <1>1 DEF Stays, ScanOf
<1>2. ASSUME NEW m \in Managers, Worker(m) PROVE ScanOf(d)'
  BY <1>0, <1>1, <1>2, WorkerEffect DEF WorkerFrame
<1>3. ASSUME NEW c \in Callers, Call(c) PROVE ScanOf(d)'
  <2>1. CASE d # c
    <3>1. pc[c] = "out"
      BY <1>3 DEF Call, Begin
    <3>2. ~Assign(c)
      BY <3>1 DEF Assign
    <3> QED  BY <1>0, <1>1, <1>3, <2>1, <3>2, OthersStay, SlotFrame
  <2>2. CASE d = c
    <3>1. pc'[c] \in {"free", "enter"}
      BY <1>0, <1>3 DEF Call, Begin, TypeOK
    <3> QED  BY <2>2, <3>1 DEF ScanOf
  <2> QED  BY <2>1, <2>2
<1>4. ASSUME NEW c \in Callers, Actor(c) PROVE ScanOf(d)'
  <2>1. CASE d # c
    <3>1. CASE Assign(c)
      <4>1. pc[d] \notin Inside
        BY <1>0, <2>1, <3>1, Exclusive DEF Assign, Inside
      <4>2. Stays(d)
        BY <1>0, <1>4, <2>1, OthersStay
      <4> QED  BY <4>1, <4>2 DEF Stays, ScanOf, Inside
    <3> QED  BY <1>0, <1>1, <1>4, <2>1, <3>1, OthersStay, SlotFrame
  <2>2. CASE d = c
    <3>1. CASE Enter(c)
      <4>1. cur'[c] = 1 /\ pc'[c] # "answer"
        BY <1>0, <3>1 DEF Enter, CursorInv, TypeOK
      <4>2. \A m \in Managers : ~(m < 1)
        BY BoostAssumption DEF Managers
      <4> QED  BY <2>2, <4>1, <4>2 DEF ScanOf
    <3>2. CASE Probe(c)
      BY <1>0, <2>2, <3>2 DEF Probe, ScanOf, TypeOK
    <3>3. CASE Query(c)
      <4>0. /\ PoolSize \in Nat /\ cur[c] \in Managers /\ slot' = slot /\ op' = op
            /\ pc[c] = "probe"
        BY <1>0, <3>3, BoostAssumption DEF Query, CursorInv, tmVars
      <4> SUFFICES ASSUME op[c] = "is_idle" PROVE ScanOf(c)'
        BY <2>2, <4>0 DEF ScanOf
      <4>1. \A m \in Managers : m < cur[c] => slot[m] = None
        BY <1>0, <2>2, <4>0 DEF ScanOf
      <4>2. CASE ~IsIdle(cur[c])
        <5>1. answer'[c] = FALSE /\ pc'[c] = "answer"
          BY <1>0, <3>3, <4>2 DEF Query, TypeOK, IsIdle
        <5> QED  BY <5>1 DEF ScanOf
      <4>3. CASE IsIdle(cur[c])
        <5>1. \A m \in Managers : m < cur[c] + 1 => slot[m] = None
          BY <4>0, <4>1, <4>3 DEF IsIdle, Managers
        <5>2. CASE More(c)
          <6>1. cur'[c] = cur[c] + 1 /\ pc'[c] = "probe"
            BY <1>0, <3>3, <4>0, <4>3, <5>2 DEF Query, TypeOK, IsIdle
          <6> QED  BY <4>0, <5>1, <6>1 DEF ScanOf
        <5>3. CASE ~More(c)
          <6>1. pc'[c] = "answer"
            BY <1>0, <3>3, <5>3 DEF Query, TypeOK
          <6>2. \A m \in Managers : m < cur[c] + 1
            BY <4>0, <5>3 DEF More, Managers
          <6> QED  BY <4>0, <5>1, <6>1, <6>2 DEF ScanOf
        <5> QED  BY <5>2, <5>3
      <4> QED  BY <4>2, <4>3
    <3>4. ASSUME pc'[c] \notin {"probe", "answer"} \/ op'[c] # "is_idle" PROVE ScanOf(d)'
      BY <2>2, <3>4 DEF ScanOf
    <3>5. CASE Assign(c) \/ NobodyIdle(c) \/ TimeOut(c)
      <4>1. op[c] # "is_idle" /\ op'[c] \in {op[c], "none"}
        BY <1>0, <3>5 DEF Assign, Leave, NobodyIdle, TimeOut, TypeOK, CallInv
      <4> QED  BY <3>4, <4>1
    <3>6. CASE QueryReturn(c) \/ DestroyQuit(c) \/ DestroyJoin(c) \/ DestroyBase(c)
      <4>1. pc'[c] \notin {"probe", "answer"}
        BY <1>0, <3>6
           DEF QueryReturn, DestroyQuit, DestroyJoin, DestroyBase, Leave, TypeOK
      <4> QED  BY <3>4, <4>1
    <3>7. CASE TerminateStop(c)
      <4>1. pc'[c] \notin {"probe", "answer"}
        BY <1>0, <3>7 DEF TerminateStop, TypeOK
      <4> QED  BY <3>4, <4>1
    <3> QED  BY <1>4, <3>1, <3>2, <3>3, <3>5, <3>6, <3>7 DEF Actor
  <2> QED  BY <2>1, <2>2
<1>5. CASE UNCHANGED vars
  BY <1>0, <1>5 DEF vars, tmVars, callVars, ScanOf
<1> QED  BY <1>2, <1>3, <1>4, <1>5 DEF Next, Quiescent

\* Every step keeps the pool closing once it is, ...
LEMMA ClosingStays == IInv /\ [Next]_vars => (object # "whole" => object' # "whole")
<1> SUFFICES ASSUME IInv, [Next]_vars, object # "whole" PROVE object' # "whole"
  OBVIOUS
<1>1. ASSUME NEW m \in Managers, Worker(m) PROVE object' = object
  BY <1>1 DEF Worker
<1>2. ASSUME NEW c \in Callers, Call(c) PROVE object' # "whole"
  BY <1>2 DEF Call
<1>3. ASSUME NEW c \in Callers, Actor(c) PROVE object' \in {object, "gone"}
  BY <1>3
     DEF Actor, Enter, Probe, Assign, NobodyIdle, TimeOut, Query, QueryReturn, TerminateStop,
         DestroyQuit, DestroyJoin, DestroyBase, poolVars
<1>4. CASE UNCHANGED vars
  BY <1>4 DEF vars, poolVars
<1> QED  BY <1>1, <1>2, <1>3, <1>4 DEF Next, Quiescent

\* ... and stops no manager before.
LEMMA StopStep == IInv /\ [Next]_vars => StopInv'
<1> SUFFICES ASSUME IInv, [Next]_vars PROVE StopInv'
  OBVIOUS
<1>0. TypeOK /\ StopInv /\ CallInv /\ DestroyInv /\ (object # "whole" => object' # "whole")
  BY ClosingStays DEF IInv
<1>1. ASSUME tmGo' = tmGo, \A c \in Callers : op'[c] \in {op[c], "none"} PROVE StopInv'
  BY <1>0, <1>1 DEF StopInv
<1>2. ASSUME NEW m \in Managers, Worker(m) PROVE StopInv'
  BY <1>1, <1>2 DEF Worker
<1>3. ASSUME NEW c \in Callers, Call(c) PROVE StopInv'
  <2>1. ASSUME NEW o \in {"execute", "is_idle", "is_busy"}, NEW t, Begin(c, o, t) PROVE StopInv'
    BY <1>0, <2>1 DEF Begin, StopInv, tmVars, TypeOK
  <2>2. ASSUME NEW o, NEW t, Begin(c, o, t), object' # "whole" PROVE StopInv'
    BY <1>0, <2>2 DEF Begin, StopInv, tmVars, TypeOK
  <2> QED  BY <1>3, <2>1, <2>2 DEF Call
<1>4. ASSUME NEW c \in Callers, Actor(c) PROVE StopInv'
  <2>0. \A d \in Callers \ {c} : op'[d] = op[d]
    BY <1>0, <1>4, OthersStay DEF Stays
  <2>1. CASE Enter(c) \/ Probe(c) \/ NobodyIdle(c) \/ TimeOut(c) \/ Query(c) \/ DestroyJoin(c)
    BY <1>1, <2>1 DEF Enter, Probe, NobodyIdle, TimeOut, Query, DestroyJoin, tmVars
  <2>2. CASE Assign(c) \/ QueryReturn(c) \/ DestroyBase(c)
    <3>1. tmGo' = tmGo /\ op'[c] \in {op[c], "none"}
      BY <1>0, <2>2 DEF Assign, QueryReturn, DestroyBase, Leave, tmVars, TypeOK
    <3> QED  BY <1>1, <2>0, <3>1
  <2>3. CASE TerminateStop(c) \/ DestroyQuit(c)
    <3>1. object # "whole"
      BY <1>0, <2>3
         DEF TerminateStop, DestroyQuit, CallInv, StopInv, DestroyInv, Destroying
    <3> QED  BY <1>0, <3>1 DEF StopInv
  <2> QED  BY <1>4, <2>1, <2>2, <2>3 DEF Actor
<1>5. CASE UNCHANGED vars
  BY <1>1, <1>5 DEF vars, tmVars, callVars
<1> QED  BY <1>2, <1>3, <1>4, <1>5 DEF Next, Quiescent

\* A worker that has ended has ended for good, whoever notifies its manager.
LEMMA EndedStays ==
    ASSUME TypeOK, NEW c \in Callers, Actor(c) \/ Call(c), NEW m \in Managers, wpc[m] = "ended"
    PROVE  wpc'[m] = "ended"
  BY DEF TypeOK, Actor, Call, Begin, Enter, Probe, Assign, Notified, NobodyIdle, TimeOut, Query,
         QueryReturn, TerminateStop, DestroyQuit, DestroyJoin, DestroyBase, tmVars

\* A call in progress never changes its name, and only the destructor's last
\* step changes how far the pool is.
LEMMA ActorFrame ==
    ASSUME TypeOK, NEW c \in Callers, Actor(c)
    PROVE  /\ pc[c] # "out"
           /\ op'[c] \in {op[c], "none"}
           /\ object' = object \/ DestroyBase(c)
  BY DEF TypeOK, Actor, Enter, Probe, Assign, Leave, NobodyIdle, TimeOut, Query,
         QueryReturn, TerminateStop, DestroyQuit, DestroyJoin, DestroyBase, poolVars

\* Every step of the destructor keeps what it has joined, and no other call is
\* made behind it.
LEMMA DestroyStep == IInv /\ [Next]_vars => DestroyInv'
<1> SUFFICES ASSUME IInv, [Next]_vars PROVE DestroyInv'
  OBVIOUS
<1>0. TypeOK /\ DestroyInv /\ CallInv /\ CallInv' /\ CursorInv
  BY CallStep DEF IInv
<1>1. ASSUME NEW m \in Managers, Worker(m) PROVE DestroyInv'
  <2>1. WorkerFrame
    BY <1>0, <1>1, WorkerEffect
  <2>2. \A c \in Callers : Stays(c) /\ (pc'[c] = "out" <=> pc[c] = "out")
    BY <2>1 DEF WorkerFrame, Stays
  <2> QED  BY <1>0, <2>1, <2>2 DEF WorkerFrame, Stays, DestroyInv
<1>2. ASSUME NEW c \in Callers, Call(c) PROVE DestroyInv'
  <2>0. /\ \A d \in Callers \ {c} : Stays(d)
        /\ \A m \in Managers : wpc[m] = "ended" => wpc'[m] = "ended"
    BY <1>0, <1>2, OthersStay, EndedStays
  <2>1. object \in {"whole", "terminated"}
    BY <1>2 DEF Call
  <2>2. \A d \in Callers : op[d] # "destroy" /\ pc[d] \notin Destroying
    BY <1>0, <2>1 DEF DestroyInv, CallInv
  <2>3. CASE op'[c] # "destroy" /\ object' \in {"whole", "terminated"}
    <3>1. \A d \in Callers : op'[d] # "destroy"
      BY <2>0, <2>2, <2>3 DEF Stays
    <3>2. \A d \in Callers : pc'[d] \notin Destroying
      BY <1>0, <3>1 DEF CallInv
    <3> QED  BY <2>3, <3>1, <3>2 DEF DestroyInv, Destroying
  <2>4. CASE Begin(c, "destroy", None) /\ object' = "closing" /\ \A d \in Callers : pc[d] = "out"
    <3>1. /\ pc'[c] = "free" /\ op'[c] = "destroy" /\ cur'[c] = 1
          /\ \A d \in Callers \ {c} : pc'[d] = "out" /\ op'[d] = "none"
      BY <1>0, <2>4 DEF Begin, TypeOK, CursorInv, CallInv
    <3>2. \A m \in Managers : ~(m < 1)
      BY BoostAssumption DEF Managers
    <3> QED  BY <2>4, <3>1, <3>2 DEF DestroyInv
  <2>5. ASSUME NEW o \in Operations \ {"destroy"}, NEW t, Begin(c, o, t),
               object' \in {"whole", "terminated"}
        PROVE  DestroyInv'
    BY <1>0, <2>3, <2>5 DEF Begin, TypeOK
  <2> QED  BY <1>2, <2>4, <2>5 DEF Call, Operations
<1>3. ASSUME NEW c \in Callers, Actor(c) PROVE DestroyInv'
  <2>0. /\ \A d \in Callers \ {c} : Stays(d)
        /\ \A m \in Managers : wpc[m] = "ended" => wpc'[m] = "ended"
        /\ pc[c] # "out" /\ op'[c] \in {op[c], "none"}
        /\ object' = object \/ DestroyBase(c)
    BY <1>0, <1>3, OthersStay, EndedStays, ActorFrame
  <2>1. object # "gone"
    BY <1>0, <2>0 DEF DestroyInv
  <2>2. CASE object # "closing"
    <3>1. \A d \in Callers : op[d] # "destroy"
      BY <1>0, <2>2 DEF DestroyInv
    <3>2. \A d \in Callers : op'[d] # "destroy"
      BY <2>0, <3>1 DEF Stays
    <3>3. \A d \in Callers : pc'[d] \notin Destroying
      BY <1>0, <3>2 DEF CallInv
    <3>4. object' = object
      BY <1>0, <2>0, <3>1 DEF DestroyBase, CallInv, Destroying
    <3> QED  BY <2>1, <2>2, <3>2, <3>3, <3>4 DEF DestroyInv, Destroying
  <2>3. CASE object = "closing"
    <3>1. op[c] = "destroy" /\ pc[c] \in Destroying
      BY <1>0, <2>0, <2>3 DEF DestroyInv, CallInv
    <3>2. \A d \in Callers \ {c} : pc[d] = "out" /\ op[d] = "none"
      BY <1>0, <2>0, <2>3 DEF DestroyInv, CallInv
    <3>3. \A d \in Callers \ {c} : pc'[d] = "out" /\ op'[d] = "none"
      BY <2>0, <3>2 DEF Stays
    <3>4. CASE DestroyQuit(c)
      <4>1. /\ pc'[c] = "joining" /\ cur'[c] = cur[c] /\ object' = "closing" /\ op'[c] = "destroy"
            /\ pc[c] = "free"
        BY <1>0, <2>3, <3>1, <3>4 DEF DestroyQuit, poolVars, TypeOK
      <4> QED  BY <1>0, <2>0, <3>3, <4>1 DEF DestroyInv
    <3>5. CASE DestroyJoin(c)
      <4>0. /\ PoolSize \in Nat /\ cur[c] \in Managers /\ wpc' = wpc /\ object' = "closing"
            /\ op'[c] = "destroy"
        BY <1>0, <2>3, <3>1, <3>5, BoostAssumption DEF DestroyJoin, poolVars, TypeOK
      <4>1. \A m \in Managers : m < cur[c] + 1 => wpc[m] = "ended"
        BY <1>0, <3>5, <4>0 DEF DestroyJoin, Joinable, DestroyInv, Managers
      <4>2. CASE More(c)
        <5>1. pc'[c] = "free" /\ cur'[c] = cur[c] + 1
          BY <1>0, <3>5, <4>2 DEF DestroyJoin, TypeOK
        <5> QED  BY <3>3, <4>0, <4>1, <5>1 DEF DestroyInv
      <4>3. CASE ~More(c)
        <5>1. pc'[c] = "base"
          BY <1>0, <3>5, <4>3 DEF DestroyJoin, TypeOK
        <5>2. \A m \in Managers : wpc[m] = "ended"
          BY <4>0, <4>1, <4>3 DEF More, Managers
        <5> QED  BY <3>3, <4>0, <5>1, <5>2 DEF DestroyInv
      <4> QED  BY <4>2, <4>3
    <3>6. CASE DestroyBase(c)
      <4>1. /\ pc'[c] = "out" /\ op'[c] = "none" /\ object' = "gone"
            /\ \A m \in Managers : wpc'[m] = "ended"
        BY <1>0, <2>0, <3>6 DEF DestroyBase, Leave, TypeOK, DestroyInv
      <4> QED  BY <3>3, <4>1 DEF DestroyInv
    <3>7. DestroyQuit(c) \/ DestroyJoin(c) \/ DestroyBase(c)
      BY <1>3, <3>1
         DEF Actor, Enter, Probe, Assign, NobodyIdle, TimeOut, Query, QueryReturn, TerminateStop,
             Destroying
    <3> QED  BY <3>4, <3>5, <3>6, <3>7
  <2> QED  BY <2>2, <2>3
<1>4. CASE UNCHANGED vars
  BY <1>0, <1>4 DEF vars, tmVars, poolVars, callVars, DestroyInv
<1> QED  BY <1>1, <1>2, <1>3, <1>4 DEF Next, Quiescent

\* What set_task() does when it sets the task, and when it does not.
AssignEffect(c) ==
    /\ cur[c] \in Managers /\ hand[c] \in Tasks
    /\ slot[cur[c]] = None /\ wpc[cur[c]] \notin {"running", "notify"}
    /\ slot' = [slot EXCEPT ![cur[c]] = hand[c]]
    /\ hand' = [hand EXCEPT ![c] = None]
    /\ \A m \in Managers : wpc'[m] = wpc[m] \/ (wpc[m] = "waiting" /\ wpc'[m] = "woken")
    /\ UNCHANGED <<runs, deletes, submitted>>

LEMMA AssignCases ==
    ASSUME IInv, NEW c \in Callers, Assign(c), Actor(c)
    PROVE  AssignEffect(c) \/ UNCHANGED <<slot, wpc, hand, runs, deletes, submitted>>
<1>0. TypeOK /\ CallInv
  BY DEF IInv
<1>1. CASE Accepts(cur[c])
  BY <1>0, <1>1
     DEF Assign, Actor, Accepts, TmFree, Notified, HandedOver, AssignEffect, TypeOK, CallInv
<1>2. CASE ~Accepts(cur[c])
  BY <1>2 DEF Assign, Actor
<1> QED  BY <1>1, <1>2

\* Every step keeps a task for the worker that runs it.
LEMMA RunStep == IInv /\ [Next]_vars => RunInv'
<1> SUFFICES ASSUME IInv, [Next]_vars PROVE RunInv'
  OBVIOUS
<1>0. TypeOK /\ RunInv
  BY DEF IInv
<1>1. ASSUME NEW m \in Managers, Worker(m) PROVE RunInv'
  <2>0. wpc \in [Managers -> WorkerStates] /\ slot \in [Managers -> Tasks \cup {None}]
    BY <1>0 DEF TypeOK
  <2>1. CASE WorkerLoop(m)
    BY <1>0, <2>0, <2>1 DEF WorkerLoop, Emptied, RunInv
  <2>2. CASE WorkerFinish(m)
    BY <1>0, <2>0, <2>2 DEF WorkerFinish, Emptied, RunInv
  <2>3. CASE WorkerNotify(m) \/ WorkerLeave(m)
    BY <1>0, <2>0, <2>3 DEF WorkerNotify, WorkerLeave, RunInv
  <2> QED  BY <1>1, <2>1, <2>2, <2>3 DEF Worker
<1>2. ASSUME NEW c \in Callers, Actor(c) \/ Call(c) PROVE RunInv'
  <2>1. CASE Actor(c) /\ Assign(c)
    <3>1. CASE AssignEffect(c)
      BY <1>0, <3>1, BoostAssumption DEF AssignEffect, RunInv, TypeOK, Tasks
    <3> QED  BY <1>0, <2>1, <3>1, AssignCases DEF RunInv
  <2>2. CASE ~Assign(c)
    <3>1. \A m \in Managers : wpc'[m] = "running" => wpc[m] = "running"
      BY <1>0, <1>2, <2>2
         DEF Actor, Call, Begin, Enter, Probe, Notified, NobodyIdle, TimeOut, Query, QueryReturn,
             TerminateStop, DestroyQuit, DestroyJoin, DestroyBase, tmVars, TypeOK
    <3> QED  BY <1>0, <1>2, <2>2, <3>1, SlotFrame DEF RunInv
  <2>3. CASE Call(c) /\ Assign(c)
    BY <2>3 DEF Call, Begin, Assign
  <2> QED  BY <1>2, <2>1, <2>2, <2>3
<1>3. CASE UNCHANGED vars
  BY <1>0, <1>3 DEF vars, tmVars, RunInv
<1> QED  BY <1>1, <1>2, <1>3 DEF Next, Quiescent

\* Steps that move no task keep OwnInv.
LEMMA OwnFrame ==
    ASSUME OwnInv, UNCHANGED <<slot, hand, runs, deletes, submitted>>,
           \A m \in Managers : wpc'[m] = "running" <=> wpc[m] = "running"
    PROVE  OwnInv'
<1> SUFFICES ASSUME NEW t \in Tasks PROVE OwnOf(t)'
  BY DEF OwnInv
<1>1. OwnOf(t)
  BY DEF OwnInv
<1> QED  BY <1>1 DEF OwnOf

\* A manager that deletes what it has leaves the task without a holder.
LEMMA OwnRelease ==
    ASSUME IInv, NEW m \in Managers, slot[m] # None,
           slot' = [slot EXCEPT ![m] = None],
           \A t \in Tasks : deletes'[t] = deletes[t] + (IF slot[m] = t THEN 1 ELSE 0),
           UNCHANGED <<hand, runs, submitted>>,
           \A n \in Managers \ {m} : wpc'[n] = wpc[n]
    PROVE  OwnInv'
<1> SUFFICES ASSUME NEW t \in Tasks PROVE OwnOf(t)'
  BY DEF OwnInv
<1>1. OwnOf(t) /\ TypeOK /\ None # t
  BY BoostAssumption DEF IInv, OwnInv, Tasks
<1>2. /\ slot[m] \in Tasks /\ slot'[m] = None /\ deletes[t] \in Nat
      /\ \A n \in Managers \ {m} : slot'[n] = slot[n]
  BY DEF IInv, TypeOK
<1>3. CASE t = slot[m]
  <2>1. /\ deletes[t] = 0 /\ deletes'[t] = 1 /\ t \in submitted
        /\ \A n \in Managers \ {m} : slot[n] # t
        /\ \A c \in Callers : hand[c] # t
    BY <1>1, <1>2, <1>3 DEF OwnOf
  <2>2. \A n \in Managers : slot'[n] # t
    BY <1>1, <1>2, <2>1
  <2> QED  BY <1>1, <2>1, <2>2 DEF OwnOf
<1>4. CASE t # slot[m]
  <2>1. deletes'[t] = deletes[t] /\ \A n \in Managers : slot'[n] = t <=> slot[n] = t
    BY <1>1, <1>2, <1>4
  <2>2. \A n \in Managers : slot[n] = t => wpc'[n] = wpc[n]
    BY <1>4
  <2> QED  BY <1>1, <2>1, <2>2 DEF OwnOf
<1> QED  BY <1>3, <1>4

\* run() is entered with the task of this manager, for the first time.
LEMMA OwnRun ==
    ASSUME IInv, NEW m \in Managers, WorkerLoop(m), Worker(m), tmGo[m], slot[m] # None
    PROVE  OwnInv'
<1> SUFFICES ASSUME NEW t \in Tasks PROVE OwnOf(t)'
  BY DEF OwnInv
<1>1. OwnOf(t) /\ TypeOK
  BY DEF IInv, OwnInv
<1>2. /\ wpc[m] # "running" /\ wpc'[m] = "running"
      /\ UNCHANGED <<slot, hand, deletes, submitted>>
      /\ \A n \in Managers \ {m} : wpc'[n] = wpc[n]
      /\ runs' = [runs EXCEPT ![slot[m]] = @ + 1]
  BY <1>1 DEF WorkerLoop, Worker, TypeOK
<1>3. runs[t] \in Nat /\ runs'[t] = IF t = slot[m] THEN runs[t] + 1 ELSE runs[t]
  BY <1>1, <1>2 DEF TypeOK
<1>4. CASE t = slot[m]
  <2>1. /\ runs[t] = 0 /\ t \in submitted /\ \A n \in Managers : slot[n] = t => n = m
        /\ \A c \in Callers : hand[c] # t
    BY <1>1, <1>2, <1>4 DEF OwnOf
  <2>2. runs'[t] = 1
    BY <1>3, <1>4, <2>1
  <2> QED  BY <1>1, <1>2, <2>1, <2>2 DEF OwnOf
<1>5. CASE t # slot[m]
  <2>1. runs'[t] = runs[t] /\ \A n \in Managers : slot[n] = t => wpc'[n] = wpc[n]
    BY <1>2, <1>3, <1>5
  <2> QED  BY <1>1, <1>2, <2>1 DEF OwnOf
<1> QED  BY <1>4, <1>5

\* execute() is called with the next task.
LEMMA OwnAccept ==
    ASSUME IInv, NEW c \in Callers, NEW u \in Tasks, submitted = 1..(u - 1),
           Begin(c, "execute", u)
    PROVE  OwnInv'
<1> SUFFICES ASSUME NEW t \in Tasks PROVE OwnOf(t)'
  BY DEF OwnInv
<1>1. OwnOf(t) /\ CallInv /\ TypeOK /\ t # None /\ u # None /\ u \notin submitted
  BY BoostAssumption DEF IInv, OwnInv, Tasks
<1>2. /\ submitted' = submitted \cup {u} /\ hand'[c] = u /\ hand[c] = None
      /\ \A d \in Callers \ {c} : hand'[d] = hand[d]
      /\ UNCHANGED <<wpc, slot, runs, deletes>>
  BY <1>1 DEF Begin, tmVars, CallInv, TypeOK
<1>3. CASE t = u
  <2>1. (\A d \in Callers : hand[d] # t) /\ (\A m \in Managers : slot[m] # t)
        /\ runs[t] = 0 /\ deletes[t] = 0
    BY <1>1, <1>3 DEF OwnOf
  <2> QED  BY <1>2, <1>3, <2>1 DEF OwnOf
<1>4. CASE t # u
  <2>1. \A d \in Callers : hand'[d] = t <=> hand[d] = t
    BY <1>1, <1>2, <1>4
  <2>2. t \in submitted' <=> t \in submitted
    BY <1>2, <1>4
  <2> QED  BY <1>1, <1>2, <2>1, <2>2 DEF OwnOf
<1> QED  BY <1>3, <1>4

\* A task goes from the caller's hand to an empty slot.
LEMMA OwnAssign ==
    ASSUME IInv, NEW c \in Callers, AssignEffect(c)
    PROVE  OwnInv'
<1> SUFFICES ASSUME NEW t \in Tasks PROVE OwnOf(t)'
  BY DEF OwnInv
<1>1. OwnOf(t) /\ t # None /\ TypeOK
  BY BoostAssumption DEF IInv, OwnInv, Tasks
<1>2. /\ hand'[c] = None /\ \A d \in Callers \ {c} : hand'[d] = hand[d]
      /\ cur[c] \in Managers /\ slot[cur[c]] = None
      /\ slot'[cur[c]] = hand[c] /\ \A m \in Managers \ {cur[c]} : slot'[m] = slot[m]
      /\ UNCHANGED <<runs, deletes, submitted>>
      /\ \A m \in Managers : wpc'[m] = "running" <=> wpc[m] = "running"
      /\ wpc[cur[c]] # "running"
  BY <1>1 DEF AssignEffect, TypeOK
<1>3. CASE t = hand[c]
  <2>1. /\ runs[t] = 0 /\ deletes[t] = 0 /\ t \in submitted
        /\ \A d \in Callers \ {c} : hand[d] # t
        /\ \A m \in Managers : slot[m] # t
    BY <1>1, <1>3 DEF OwnOf
  <2>2. \A d \in Callers : hand'[d] # t
    BY <1>1, <1>2, <2>1
  <2>3. \A m \in Managers : slot'[m] = t <=> m = cur[c]
    BY <1>2, <1>3, <2>1
  <2> QED  BY <1>1, <1>2, <2>1, <2>2, <2>3 DEF OwnOf
<1>4. CASE t # hand[c]
  <2>1. /\ \A d \in Callers : hand'[d] = t <=> hand[d] = t
        /\ \A m \in Managers : slot'[m] = t <=> slot[m] = t
    BY <1>1, <1>2, <1>4
  <2> QED  BY <1>1, <1>2, <2>1 DEF OwnOf
<1> QED  BY <1>3, <1>4

\* Every step keeps a task with one holder.
LEMMA OwnStep == IInv /\ [Next]_vars => OwnInv'
<1> SUFFICES ASSUME IInv, [Next]_vars PROVE OwnInv'
  OBVIOUS
<1>0. TypeOK /\ OwnInv /\ RunInv
  BY DEF IInv
<1>1. ASSUME NEW m \in Managers, Worker(m) PROVE OwnInv'
  <2>0. /\ UNCHANGED <<hand, submitted>>
        /\ wpc \in [Managers -> WorkerStates] /\ slot \in [Managers -> Tasks \cup {None}]
        /\ deletes \in [Tasks -> Nat]
    BY <1>0, <1>1 DEF Worker, TypeOK
  <2>1. CASE WorkerLoop(m) /\ ~tmGo[m]
    <3>1. CASE slot[m] = None
      <4>1. slot' = slot
        BY <2>0, <2>1, <3>1 DEF WorkerLoop, Emptied
      <4>2. \A t \in Tasks : slot[m] # t
        BY <3>1, BoostAssumption DEF Tasks
      <4>3. deletes' = deletes
        BY <2>0, <2>1, <4>2 DEF WorkerLoop
      <4> QED  BY <1>0, <2>0, <2>1, <4>1, <4>3, OwnFrame DEF WorkerLoop
    <3>2. CASE slot[m] # None
      <4>1. /\ \A t \in Tasks : deletes'[t] = deletes[t] + (IF slot[m] = t THEN 1 ELSE 0)
            /\ slot' = [slot EXCEPT ![m] = None] /\ runs' = runs
            /\ \A n \in Managers \ {m} : wpc'[n] = wpc[n]
        BY <2>0, <2>1, <3>2 DEF WorkerLoop, Emptied
      <4> QED  BY <2>0, <3>2, <4>1, OwnRelease
    <3> QED  BY <3>1, <3>2
  <2>2. CASE WorkerLoop(m) /\ tmGo[m]
    <3>1. CASE slot[m] = None
      BY <1>0, <2>0, <2>2, <3>1, OwnFrame DEF WorkerLoop
    <3>2. CASE slot[m] # None
      BY <1>1, <2>2, <3>2, OwnRun
    <3> QED  BY <3>1, <3>2
  <2>3. CASE WorkerFinish(m)
    <3>1. slot[m] \in Tasks /\ slot[m] # None
      BY <1>0, <2>0, <2>3 DEF WorkerFinish, RunInv
    <3>2. /\ \A t \in Tasks : deletes'[t] = deletes[t] + (IF slot[m] = t THEN 1 ELSE 0)
          /\ slot' = [slot EXCEPT ![m] = None] /\ runs' = runs
          /\ \A n \in Managers \ {m} : wpc'[n] = wpc[n]
      BY <2>0, <2>3, <3>1 DEF WorkerFinish, Emptied
    <3> QED  BY <2>0, <3>1, <3>2, OwnRelease
  <2>4. CASE WorkerNotify(m) \/ WorkerLeave(m)
    BY <1>0, <2>0, <2>4, OwnFrame DEF WorkerNotify, WorkerLeave
  <2> QED  BY <1>1, <2>1, <2>2, <2>3, <2>4 DEF Worker
<1>2. ASSUME NEW c \in Callers, Call(c) PROVE OwnInv'
  <2>1. ASSUME NEW o \in {"is_idle", "is_busy", "terminate", "destroy"}, Begin(c, o, None)
        PROVE  OwnInv'
    <3>1. hand[c] = None
      BY <2>1 DEF Begin, IInv, CallInv
    <3>2. UNCHANGED <<slot, hand, runs, deletes, submitted, wpc>>
      BY <1>0, <2>1, <3>1 DEF Begin, tmVars, TypeOK
    <3> QED  BY <1>0, <3>2, OwnFrame
  <2> QED  BY <1>2, <2>1, OwnAccept DEF Call
<1>3. ASSUME NEW c \in Callers, Actor(c) PROVE OwnInv'
  <2>1. CASE Assign(c)
    BY <1>0, <1>3, <2>1, AssignCases, OwnAssign, OwnFrame
  <2>2. CASE ~Assign(c)
    <3>1. UNCHANGED <<slot, hand, runs, deletes, submitted>>
      BY <1>3, <2>2
         DEF Actor, Enter, Probe, NobodyIdle, TimeOut, Query, QueryReturn, TerminateStop,
             DestroyQuit, DestroyJoin, DestroyBase, tmVars
    <3>2. \A m \in Managers : wpc'[m] = "running" <=> wpc[m] = "running"
      BY <1>0, <1>3, <2>2
         DEF Actor, Enter, Probe, Notified, NobodyIdle, TimeOut, Query, QueryReturn,
             TerminateStop, DestroyQuit, DestroyJoin, DestroyBase, tmVars, TypeOK
    <3> QED  BY <1>0, <3>1, <3>2, OwnFrame
  <2> QED  BY <2>1, <2>2
<1>4. CASE UNCHANGED vars
  BY <1>0, <1>4, OwnFrame DEF vars, tmVars, callVars
<1> QED  BY <1>1, <1>2, <1>3, <1>4 DEF Next, Quiescent

\* The program starts in the invariant.
LEMMA InitInv == Init => IInv
<1> SUFFICES ASSUME Init PROVE IInv
  OBVIOUS
<1>1. TypeOK
  <2>1. 1 \in 1..PoolSize + 1 /\ 0 \in 0..MaxCalls
    BY BoostAssumption
  <2> QED  BY <2>1
           DEF Init, TypeOK, WorkerStates, Statuses, Objects, CallerStates, Operations
<1>2. LockInv /\ CallInv /\ CursorInv /\ ScanInv /\ StopInv /\ DestroyInv /\ RunInv /\ IdleAnswer
  BY BoostAssumption
     DEF Init, LockInv, CallInv, CursorInv, ScanInv, StopInv, DestroyInv, RunInv, IdleAnswer,
         Inside, Destroying, Callers
<1>3. OwnInv
  BY BoostAssumption DEF Init, OwnInv, OwnOf, Tasks
<1> QED  BY <1>1, <1>2, <1>3 DEF IInv

\* The invariant is inductive.
LEMMA StepInv == IInv /\ [Next]_vars => IInv'
  BY TypeStep, LockStep, CallStep, ScanStep, StopStep, DestroyStep, RunStep, OwnStep DEF IInv

\* Every reachable state satisfies the invariant.
THEOREM Invariance == Spec => []IInv
  BY InitInv, StepInv, PTL DEF Spec

-----------------------------------------------------------------------------
(* What follows from it                                                    *)

\* A set without two members has one or none.
LEMMA OneOrNone ==
    ASSUME NEW S, \A x, y \in S : x = y
    PROVE  Cardinality(S) = IF S = {} THEN 0 ELSE 1
<1>1. CASE S = {}
  BY <1>1, FS_EmptySet
<1>2. CASE S # {}
  <2>1. PICK x : S = {x}
    BY <1>2
  <2> QED  BY <2>1, FS_Singleton
<1> QED  BY <1>1, <1>2

\* A task is with one caller or in one slot, or deleted.
LEMMA Ownership == IInv => TaskOwnership
<1> SUFFICES ASSUME IInv PROVE TaskOwnership
  OBVIOUS
<1>1. ASSUME NEW t \in Tasks
      PROVE  /\ runs[t] <= 1 /\ deletes[t] <= 1
             /\ Cardinality({c \in Callers : hand[c] = t})
                  + Cardinality({m \in Managers : slot[m] = t})
                  = IF t \in submitted /\ deletes[t] = 0 THEN 1 ELSE 0
  <2> DEFINE H == {c \in Callers : hand[c] = t}
             L == {m \in Managers : slot[m] = t}
  <2>1. OwnOf(t)
    BY DEF IInv, OwnInv
  <2>2. Cardinality(H) = IF H = {} THEN 0 ELSE 1
    <3>1. \A c, d \in H : c = d
      BY <2>1 DEF OwnOf
    <3> QED  BY <3>1, OneOrNone
  <2>3. Cardinality(L) = IF L = {} THEN 0 ELSE 1
    <3>1. \A m, n \in L : m = n
      BY <2>1 DEF OwnOf
    <3> QED  BY <3>1, OneOrNone
  <2>4. /\ H # {} <=> \E c \in Callers : hand[c] = t
        /\ L # {} <=> \E m \in Managers : slot[m] = t
    OBVIOUS
  <2>5. /\ H # {} => L = {} /\ t \in submitted /\ deletes[t] = 0
        /\ L # {} => t \in submitted /\ deletes[t] = 0
        /\ t \in submitted /\ deletes[t] = 0 => H # {} \/ L # {}
        /\ runs[t] \in {0, 1} /\ deletes[t] \in {0, 1}
    BY <2>1, <2>4 DEF OwnOf
  <2> HIDE DEF H, L
  <2>6. Cardinality(H) + Cardinality(L) = IF t \in submitted /\ deletes[t] = 0 THEN 1 ELSE 0
    <3>1. CASE H # {}
      BY <2>2, <2>3, <2>5, <3>1
    <3>2. CASE H = {} /\ L # {}
      BY <2>2, <2>3, <2>5, <3>2
    <3>3. CASE H = {} /\ L = {}
      BY <2>2, <2>3, <2>5, <3>3
    <3> QED  BY <3>1, <3>2, <3>3
  <2> QED  BY <2>5, <2>6 DEF H, L
<1>2. ASSUME NEW m \in Managers, wpc[m] = "running"
      PROVE  slot[m] # None /\ runs[slot[m]] = 1
  <2>1. slot[m] \in Tasks /\ slot[m] # None
    BY <1>2 DEF IInv, RunInv, TypeOK
  <2>2. OwnOf(slot[m])
    BY <2>1 DEF IInv, OwnInv
  <2> QED  BY <1>2, <2>1, <2>2 DEF OwnOf
<1> QED  BY <1>1, <1>2 DEF TaskOwnership

\* The variables have their types, a task has one owner although the pool sets
\* and reads a manager's pointer without a common lock (515-570), and a true
\* answer of is_idle() is true of all managers at once (581-592).
THEOREM StaysConsistent == Spec => []Consistent
<1>1. IInv => Consistent
  BY Ownership DEF IInv, Consistent
<1> QED  BY <1>1, Invariance, PTL

\* Behind the destructor no thread is left, and a task that was not deleted is
\* in a manager whose worker was gone when it came (threadpool.hpp 608-611).
THEOREM DestructionIsClean == Spec => []DestroyedIsClean
<1>1. IInv => DestroyedIsClean
  <2> SUFFICES ASSUME IInv, object = "gone"
               PROVE  /\ owner = None /\ \A m \in Managers : wpc[m] = "ended"
                      /\ \A t \in submitted : deletes[t] = 1 \/ \E m \in Managers : slot[m] = t
    BY DEF DestroyedIsClean
  <2>1. \A c \in Callers : pc[c] = "out" /\ hand[c] = None
    BY DEF IInv, DestroyInv, CallInv
  <2>2. owner = None
    BY <2>1 DEF IInv, TypeOK, LockInv, Inside
  <2>3. ASSUME NEW t \in submitted PROVE deletes[t] = 1 \/ \E m \in Managers : slot[m] = t
    <3>1. t \in Tasks /\ t # None
      BY BoostAssumption DEF IInv, TypeOK, Tasks
    <3>2. OwnOf(t)
      BY <3>1 DEF IInv, OwnInv
    <3> QED  BY <2>1, <3>1, <3>2 DEF OwnOf
  <2> QED  BY <2>2, <2>3 DEF IInv, DestroyInv
<1> QED  BY <1>1, Invariance, PTL

-----------------------------------------------------------------------------
(* The pool implements TaskExecution                                       *)

\* The two variables of the abstract pool.
Life == [t \in Tasks |-> LifeOf(t)]
Closing == object # "whole"

\* The life of a task, read off the three variables it is computed from.
LifeTable ==
    \A t \in Tasks :
        /\ t \notin submitted => LifeOf(t) = "new" /\ runs[t] = 0 /\ deletes[t] = 0
        /\ t \in submitted =>
              \/ runs[t] = 0 /\ deletes[t] = 0 /\ LifeOf(t) = "accepted"
              \/ runs[t] = 1 /\ deletes[t] = 0 /\ LifeOf(t) = "running"
              \/ runs[t] = 1 /\ deletes[t] = 1 /\ LifeOf(t) = "finished"
              \/ runs[t] = 0 /\ deletes[t] = 1 /\ LifeOf(t) = "discarded"

LEMMA LifeIsTable == IInv => LifeTable
<1> SUFFICES ASSUME IInv, NEW t \in Tasks
             PROVE  /\ t \notin submitted => LifeOf(t) = "new" /\ runs[t] = 0 /\ deletes[t] = 0
                    /\ t \in submitted =>
                          \/ runs[t] = 0 /\ deletes[t] = 0 /\ LifeOf(t) = "accepted"
                          \/ runs[t] = 1 /\ deletes[t] = 0 /\ LifeOf(t) = "running"
                          \/ runs[t] = 1 /\ deletes[t] = 1 /\ LifeOf(t) = "finished"
                          \/ runs[t] = 0 /\ deletes[t] = 1 /\ LifeOf(t) = "discarded"
  BY DEF LifeTable
<1>1. /\ runs[t] \in {0, 1} /\ deletes[t] \in {0, 1}
      /\ t \notin submitted => runs[t] = 0 /\ deletes[t] = 0
  BY DEF IInv, OwnInv, OwnOf
<1>2. CASE t \notin submitted
  BY <1>1, <1>2 DEF LifeOf
<1>3. CASE t \in submitted /\ runs[t] = 0 /\ deletes[t] = 0
  BY <1>3 DEF LifeOf
<1>4. CASE t \in submitted /\ runs[t] = 1 /\ deletes[t] = 0
  BY <1>4 DEF LifeOf
<1>5. CASE t \in submitted /\ runs[t] = 1 /\ deletes[t] = 1
  BY <1>5 DEF LifeOf
<1>6. CASE t \in submitted /\ runs[t] = 0 /\ deletes[t] = 1
  BY <1>6 DEF LifeOf
<1> QED  BY <1>1, <1>2, <1>3, <1>4, <1>5, <1>6

\* The table holds after a step too.
LEMMA LifeIsTableNext == IInv /\ [Next]_vars => LifeTable /\ LifeTable'
<1>1. IInv => LifeTable
  BY LifeIsTable
<1>2. IInv' => LifeTable'
  BY <1>1, PTL
<1> QED  BY <1>1, <1>2, StepInv

\* A task that is being run is in the slot of a manager whose worker runs it.
LEMMA RunningIsInSlot ==
    ASSUME IInv, NEW t \in Tasks, LifeOf(t) = "running"
    PROVE  \E n \in Managers : slot[n] = t /\ wpc[n] = "running"
<1>1. t \in submitted /\ runs[t] = 1 /\ deletes[t] = 0
  BY LifeIsTable DEF LifeTable
<1>2. OwnOf(t)
  BY DEF IInv, OwnInv
<1>3. \A c \in Callers : hand[c] # t
  BY <1>1, <1>2 DEF OwnOf
<1> QED  BY <1>1, <1>2, <1>3 DEF OwnOf

\* Tasks that each sit in the slot of a manager other than m are fewer than
\* the managers: a slot holds one task.
LEMMA FewerThanManagers ==
    ASSUME NEW m \in Managers, NEW R, \A t \in R : \E n \in Managers \ {m} : slot[n] = t
    PROVE  Cardinality(R) < PoolSize
<1> DEFINE Others == Managers \ {m}
           Held == {slot[n] : n \in Others}
           f == [n \in Others |-> slot[n]]
<1>1. IsFiniteSet(Others) /\ Cardinality(Others) = PoolSize - 1
  <2>1. PoolSize \in Int /\ 1 \in Int /\ PoolSize >= 1
    BY BoostAssumption
  <2>2. IsFiniteSet(Managers) /\ Cardinality(Managers) = PoolSize
    BY <2>1, FS_Interval DEF Managers
  <2> QED  BY <2>1, <2>2, FS_RemoveElement
<1>2. IsFiniteSet(Held) /\ Cardinality(Held) <= Cardinality(Others)
  <2>1. f \in Surjection(Others, Held)
    BY DEF Surjection
  <2> HIDE DEF Others, Held, f
  <2> QED  BY <1>1, <2>1, FS_Surjection
<1>3. R \in SUBSET Held
  OBVIOUS
<1>4. Cardinality(R) <= Cardinality(Held) /\ Cardinality(Held) \in Nat /\ Cardinality(R) \in Nat
  <2> HIDE DEF Held
  <2> QED  BY <1>2, <1>3, FS_Subset, FS_CardinalityType
<1> QED  BY <1>1, <1>2, <1>4, BoostAssumption

\* The abstract module counts with the same Cardinality.
LEMMA SameCardinality == \A S : Abstract!Cardinality(S) = Cardinality(S)
  BY DEF Abstract!Cardinality, Cardinality

\* What a step of the pool is for the abstract pool.
AbstractStep == Abstract!Next \/ UNCHANGED <<Life, Closing>>

\* A step that changes no life is a Close or a stutter.
LEMMA QuietStep ==
    ASSUME IInv, [Next]_vars, UNCHANGED <<runs, deletes, submitted>>
    PROVE  AbstractStep
<1>1. Life' = Life
  BY DEF Life, LifeOf
<1>2. CASE Closing' = Closing
  BY <1>1, <1>2 DEF AbstractStep
<1>3. CASE Closing' # Closing
  <2>1. Abstract!Close
    BY <1>1, <1>3, ClosingStays DEF Abstract!Close, Closing, Life
  <2> QED  BY <2>1 DEF AbstractStep, Abstract!Next
<1> QED  BY <1>2, <1>3

\* A step that changes one.
LEMMA LifeStep ==
    ASSUME NEW t \in Tasks, NEW s, LifeOf(t)' = s,
           \A u \in Tasks \ {t} : LifeOf(u)' = LifeOf(u),
           object' = object
    PROVE  Abstract!Become(t, LifeOf(t), s)
<1>1. Life' = [Life EXCEPT ![t] = s] /\ Life[t] = LifeOf(t)
  BY DEF Life
<1>2. Closing' = Closing
  BY DEF Closing
<1> QED  BY <1>1, <1>2 DEF Abstract!Become, Life, Closing

\* run() is entered: Start, while this worker's manager makes room.
LEMMA RunMaps ==
    ASSUME IInv, [Next]_vars, NEW m \in Managers, NEW t \in Tasks, t = slot[m],
           WorkerLoop(m), Worker(m), tmGo[m], slot[m] # None
    PROVE  AbstractStep
<1>1. t \in submitted /\ runs[t] = 0 /\ deletes[t] = 0 /\ wpc[m] # "running"
  BY DEF WorkerLoop, IInv, OwnInv, OwnOf
<1>2. /\ runs \in [Tasks -> Nat] /\ runs' = [runs EXCEPT ![t] = @ + 1]
      /\ UNCHANGED <<deletes, submitted, object>>
  BY DEF WorkerLoop, Worker, IInv, TypeOK
<1>3. LifeOf(t) = "accepted"
  BY <1>1, LifeIsTable DEF LifeTable
<1>4. LifeOf(t)' = "running"
  <2>1. runs'[t] = 1 /\ deletes'[t] = 0 /\ t \in submitted'
    BY <1>1, <1>2
  <2> QED  BY <2>1, LifeIsTableNext DEF LifeTable
<1>5. \A u \in Tasks \ {t} : LifeOf(u)' = LifeOf(u)
  <2>1. \A u \in Tasks \ {t} : runs'[u] = runs[u]
    BY <1>2
  <2> QED  BY <1>2, <2>1 DEF LifeOf
<1>6. Abstract!Become(t, "accepted", "running")
  BY <1>2, <1>3, <1>4, <1>5, LifeStep
<1>7. Abstract!Cardinality(Abstract!With("running")) < PoolSize
  <2>1. Abstract!With("running") = {u \in Tasks : LifeOf(u) = "running"}
    BY DEF Abstract!With
  <2>2. \A u \in {v \in Tasks : LifeOf(v) = "running"} : \E n \in Managers \ {m} : slot[n] = u
    BY <1>1, RunningIsInSlot
  <2> QED  BY <2>1, <2>2, FewerThanManagers, SameCardinality
<1> QED  BY <1>6, <1>7 DEF AbstractStep, Abstract!Next, Abstract!Start

\* A task is deleted, behind its run or by a worker that was told to stop.
LEMMA DeleteMaps ==
    ASSUME IInv, [Next]_vars, NEW t \in Tasks, deletes[t] = 0, t \in submitted,
           \A u \in Tasks : deletes'[u] = deletes[u] + (IF t = u THEN 1 ELSE 0),
           UNCHANGED <<runs, submitted, object>>,
           runs[t] = 0 => Closing
    PROVE  AbstractStep
<1>1. /\ \A u \in Tasks \ {t} : deletes'[u] = deletes[u]
      /\ deletes'[t] = 1 /\ t \in submitted'
  BY DEF IInv, TypeOK
<1>2. \A u \in Tasks \ {t} : LifeOf(u)' = LifeOf(u)
  BY <1>1 DEF LifeOf
<1>3. CASE runs[t] = 1
  <2>1. LifeOf(t) = "running" /\ LifeOf(t)' = "finished"
    BY <1>1, <1>3, LifeIsTableNext DEF LifeTable
  <2>2. Abstract!Become(t, "running", "finished")
    BY <1>2, <2>1, LifeStep
  <2> QED  BY <2>2 DEF AbstractStep, Abstract!Next, Abstract!Finish
<1>4. CASE runs[t] = 0
  <2>1. LifeOf(t) = "accepted" /\ LifeOf(t)' = "discarded"
    BY <1>1, <1>4, LifeIsTableNext DEF LifeTable
  <2>2. Abstract!Become(t, "accepted", "discarded")
    BY <1>2, <2>1, LifeStep
  <2> QED  BY <1>4, <2>2 DEF AbstractStep, Abstract!Next, Abstract!Discard, Closing
<1> QED  BY <1>3, <1>4 DEF IInv, OwnInv, OwnOf

\* execute() is called: Accept.
LEMMA AcceptMaps ==
    ASSUME IInv, [Next]_vars, NEW c \in Callers, NEW t \in Tasks, submitted = 1..(t - 1),
           Begin(c, "execute", t), object' = object
    PROVE  AbstractStep
<1>1. /\ t \notin submitted /\ submitted' = submitted \cup {t} /\ UNCHANGED <<runs, deletes>>
  BY BoostAssumption DEF Begin, tmVars, Tasks
<1>2. LifeOf(t) = "new" /\ runs[t] = 0 /\ deletes[t] = 0
  BY <1>1, LifeIsTable DEF LifeTable
<1>3. LifeOf(t)' = "accepted"
  <2>1. runs'[t] = 0 /\ deletes'[t] = 0 /\ t \in submitted'
    BY <1>1, <1>2
  <2> QED  BY <2>1, LifeIsTableNext DEF LifeTable
<1>4. \A u \in Tasks \ {t} : LifeOf(u)' = LifeOf(u)
  <2>1. \A u \in Tasks \ {t} : u \in submitted' <=> u \in submitted
    BY <1>1
  <2> QED  BY <1>1, <2>1 DEF LifeOf
<1>5. Abstract!Become(t, "new", "accepted")
  BY <1>1, <1>2, <1>3, <1>4, LifeStep
<1> QED  BY <1>5 DEF AbstractStep, Abstract!Next, Abstract!Accept

\* Every step of the pool is one of the abstract pool or a stutter.
LEMMA StepMaps == IInv /\ [Next]_vars => AbstractStep
<1> SUFFICES ASSUME IInv, [Next]_vars PROVE AbstractStep
  OBVIOUS
<1>0. TypeOK /\ RunInv /\ CallInv /\ (UNCHANGED <<runs, deletes, submitted>> => AbstractStep)
  BY QuietStep DEF IInv
<1>1. ASSUME NEW m \in Managers, Worker(m) PROVE AbstractStep
  <2>0. UNCHANGED <<submitted, object>> /\ deletes \in [Tasks -> Nat]
    BY <1>0, <1>1 DEF Worker, TypeOK
  <2>1. ASSUME NEW t \in Tasks, t = slot[m] PROVE t \in submitted /\ deletes[t] = 0
    BY <2>1 DEF IInv, OwnInv, OwnOf
  <2>2. CASE slot[m] = None
    <3>1. \A t \in Tasks : slot[m] # t
      BY <2>2, BoostAssumption DEF Tasks
    <3>2. UNCHANGED <<runs, deletes>>
      BY <1>0, <1>1, <2>0, <2>2, <3>1
         DEF Worker, WorkerLoop, WorkerFinish, WorkerNotify, WorkerLeave, RunInv
    <3> QED  BY <1>0, <2>0, <3>2
  <2>3. CASE slot[m] # None
    <3>0. PICK t \in Tasks : t = slot[m]
      BY <1>0, <2>3 DEF TypeOK
    <3>1. CASE WorkerLoop(m) /\ tmGo[m]
      BY <1>1, <2>3, <3>0, <3>1, RunMaps
    <3>2. CASE WorkerLoop(m) /\ ~tmGo[m]
      <4>1. /\ \A u \in Tasks : deletes'[u] = deletes[u] + (IF t = u THEN 1 ELSE 0)
            /\ runs' = runs /\ Closing
        BY <2>0, <3>0, <3>2 DEF WorkerLoop, IInv, StopInv, Closing
      <4> QED  BY <2>0, <2>1, <3>0, <4>1, DeleteMaps
    <3>3. CASE WorkerFinish(m)
      <4>1. /\ \A u \in Tasks : deletes'[u] = deletes[u] + (IF t = u THEN 1 ELSE 0)
            /\ runs' = runs /\ runs[t] = 1
        BY <2>0, <3>0, <3>3 DEF WorkerFinish, IInv, OwnInv, OwnOf
      <4> QED  BY <2>0, <2>1, <3>0, <4>1, DeleteMaps
    <3>4. CASE WorkerNotify(m) \/ WorkerLeave(m)
      BY <1>0, <2>0, <3>4 DEF WorkerNotify, WorkerLeave
    <3> QED  BY <1>1, <3>1, <3>2, <3>3, <3>4 DEF Worker
  <2> QED  BY <2>2, <2>3
<1>2. ASSUME NEW c \in Callers, Call(c) PROVE AbstractStep
  <2>1. ASSUME NEW o, Begin(c, o, None) PROVE AbstractStep
    <3>1. UNCHANGED <<runs, deletes, submitted>>
      BY <2>1 DEF Begin, tmVars
    <3> QED  BY <1>0, <3>1
  <2> QED  BY <1>2, <2>1, AcceptMaps DEF Call
<1>3. ASSUME NEW c \in Callers, Actor(c) PROVE AbstractStep
  <2>1. UNCHANGED <<runs, deletes, submitted>>
    BY <1>3
       DEF Actor, Enter, Probe, Assign, NobodyIdle, TimeOut, Query, QueryReturn, TerminateStop,
           DestroyQuit, DestroyJoin, DestroyBase, tmVars
  <2> QED  BY <1>0, <2>1
<1>4. CASE UNCHANGED vars
  BY <1>0, <1>4 DEF vars, tmVars
<1> QED  BY <1>1, <1>2, <1>3, <1>4 DEF Next, Quiescent

\* The pool starts as the abstract pool does.
LEMMA InitMaps == Init => Abstract!Init
<1> SUFFICES ASSUME Init PROVE Abstract!Init
  OBVIOUS
<1>1. Life = [t \in Tasks |-> "new"]
  <2>1. \A t \in Tasks : LifeOf(t) = "new"
    BY DEF Init, LifeOf
  <2> QED  BY <2>1 DEF Life
<1>2. Closing = (PoolSize = 0)
  BY BoostAssumption DEF Init, Closing
<1> QED  BY <1>1, <1>2 DEF Abstract!Init, Life, Closing

\* A task given to execute() is run once, by one of at most PoolSize threads,
\* and deleted once; unrun it is deleted only when the pool is terminated or
\* destroyed.
THEOREM Implementation == Spec => ImplementsTaskExecution
<1>1. IInv /\ [Next]_vars => [Abstract!Next]_(Abstract!vars)
  BY StepMaps DEF AbstractStep, Abstract!vars, Life, Closing
<1> QED  BY <1>1, InitMaps, Invariance, PTL
     DEF Spec, ImplementsTaskExecution, Abstract!Spec
=============================================================================
