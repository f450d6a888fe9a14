----------------------- MODULE AgentLockQueue_proofs ------------------------
(***************************************************************************)
(* Proofs about AgentLockQueue, for every number of requests and calls and *)
(* every set of direct threads.                                            *)
(***************************************************************************)
EXTENDS AgentLockQueue, FiniteSetTheorems, TLAPS

\* A list names r, and names it once.
In(s, r) == \E i \in 1..Len(s) : s[i] = r
Once(s, r) == \A i, j \in 1..Len(s) : s[i] = r /\ s[j] = r => i = j

\* Where a request is: on a list, or in the hand of the queue's thread.
PlaceOf(r) ==
    /\ Once(pendingLock, r) /\ Once(pendingRelease, r)
    /\ In(pendingLock, r) => rpc[r] \in {"asked", "wait"} /\ hand # r
    /\ In(pendingRelease, r) => rpc[r] \in {"told", "rwait"} /\ hand # r
    /\ rpc[r] \in {"asked", "wait"} => In(pendingLock, r) \/ hand = r
    /\ rpc[r] \in {"told", "rwait"} => In(pendingRelease, r) \/ hand = r

PlaceInv == \A r \in Requesters : PlaceOf(r)

\* The queue's thread has a request in its hand from the list to its answer, and
\* only one that waits for an answer.
HandInv ==
    /\ hand # None <=> qpc \in {"unlocking", "marking", "telling"}
    /\ hand # None => rpc[hand] \in {"asked", "wait", "told", "rwait"}
    /\ qpc = "unlocking" => rpc[hand] \in {"told", "rwait"}
    /\ qpc = "marking" => rpc[hand] \in {"asked", "wait"} /\ tryLockResult[hand]

\* tryLockResult is LOCKED from the grant to the answer to the release.
ResultOf(r) ==
    /\ rpc[r] \in {"held", "told", "rwait"} => tryLockResult[r]
    /\ rpc[r] \in {"out", "done"} => ~tryLockResult[r]
    /\ In(pendingLock, r) => ~tryLockResult[r]

ResultInv == \A r \in Requesters : ResultOf(r)

\* The mutex of its target is held for r: it was granted and is not yet unlocked.
Holds(r) == tryLockResult[r] /\ ~(rpc[r] \in {"told", "rwait"} /\ hand = r /\ qpc = "telling")

\* HeldForOne, said without counting.
MutexInv ==
    /\ \A r, s \in Requesters : Holds(r) /\ Holds(s) /\ target[r] = target[s] => r = s
    /\ \A r \in Requesters : Holds(r) => mutex[target[r]] = Queue
    /\ \A x \in Targets : mutex[x] = Queue => \E r \in Requesters : Holds(r) /\ target[r] = x

\* A direct thread is between the lock and the unlock exactly when it has Shared.
DirectInv ==
    /\ \A d \in Direct : mutex[Shared] = d <=> dpc[d] \in {"marking", "in", "unlocking", "parting"}
    /\ mutex[Own] \notin Direct

\* isLocked, exactly: set by whoever has the mutex and is past the one and not
\* yet at the other of its two writes.
FlagInv ==
    \A x \in Targets :
        isLocked[x] <=>
            \/ mutex[x] = Queue /\ ~(qpc \in {"marking", "unlocking"} /\ target[hand] = x)
            \/ x = Shared /\ \E d \in Direct : dpc[d] = "in"

\* The inductive invariant.
IInv == TypeOK /\ PlaceInv /\ HandInv /\ ResultInv /\ MutexInv /\ DirectInv /\ FlagInv

-----------------------------------------------------------------------------
(* Lists                                                                   *)

\* The first of a list.
LEMMA HeadOf ==
    ASSUME NEW s \in Seq(Requesters), s # <<>>
    PROVE  /\ Head(s) \in Requesters /\ In(s, Head(s)) /\ Head(s) = s[1]
           /\ Tail(s) \in Seq(Requesters)
           /\ Len(s) \in Nat /\ Len(s) >= 1 /\ Len(Tail(s)) = Len(s) - 1
           /\ \A i \in 1..(Len(s) - 1) : Tail(s)[i] = s[i + 1]
<1>1. Len(s) \in Nat /\ Len(s) >= 1 /\ 1 \in 1..Len(s) /\ Head(s) = s[1] /\ s[1] \in Requesters
  OBVIOUS
<1> QED  BY <1>1 DEF In

\* removeFirst() takes the first out and no other.
LEMMA Shrinks ==
    ASSUME NEW s \in Seq(Requesters), s # <<>>, NEW r \in Requesters, Once(s, r)
    PROVE  Once(Tail(s), r) /\ (In(Tail(s), r) <=> In(s, r) /\ r # Head(s))
<1> DEFINE q == Tail(s)
<1>1. /\ Len(s) \in Nat /\ Len(s) >= 1 /\ Len(q) = Len(s) - 1 /\ Head(s) = s[1]
      /\ \A i \in 1..(Len(s) - 1) : q[i] = s[i + 1]
  BY HeadOf
<1> HIDE DEF q
<1>2. Once(q, r)
  <2> SUFFICES ASSUME NEW i \in 1..Len(q), NEW j \in 1..Len(q), q[i] = r, q[j] = r PROVE i = j
    BY DEF Once
  <2>1. i + 1 \in 1..Len(s) /\ j + 1 \in 1..Len(s) /\ s[i + 1] = r /\ s[j + 1] = r
    BY <1>1
  <2>2. i + 1 = j + 1
    BY <2>1 DEF Once
  <2> QED  BY <1>1, <2>2
<1>3. ASSUME In(q, r) PROVE In(s, r) /\ r # Head(s)
  <2>1. PICK i \in 1..Len(q) : q[i] = r
    BY <1>3 DEF In
  <2>2. i + 1 \in 1..Len(s) /\ s[i + 1] = r /\ i + 1 # 1 /\ 1 \in 1..Len(s)
    BY <1>1, <2>1
  <2> QED  BY <1>1, <2>2 DEF In, Once
<1>4. ASSUME In(s, r), r # Head(s) PROVE In(q, r)
  <2>1. PICK i \in 1..Len(s) : s[i] = r
    BY <1>4 DEF In
  <2>2. i # 1
    BY <1>1, <1>4, <2>1
  <2>3. i - 1 \in 1..Len(q) /\ i - 1 \in 1..(Len(s) - 1) /\ (i - 1) + 1 = i
    BY <1>1, <2>1, <2>2
  <2>4. q[i - 1] = r
    BY <1>1, <2>1, <2>3
  <2> QED  BY <2>3, <2>4 DEF In
<1> QED  BY <1>2, <1>3, <1>4 DEF q

\* add() puts one in, at the end.
LEMMA Grows ==
    ASSUME NEW s \in Seq(Requesters), NEW u \in Requesters, NEW r \in Requesters, Once(s, r),
           r = u => ~In(s, r)
    PROVE  /\ Append(s, u) \in Seq(Requesters) /\ Len(Append(s, u)) = Len(s) + 1
           /\ Once(Append(s, u), r) /\ (In(Append(s, u), r) <=> In(s, r) \/ r = u)
<1> DEFINE q == Append(s, u)
<1>1. /\ q \in Seq(Requesters)
      /\ Len(s) \in Nat /\ Len(q) = Len(s) + 1 /\ q[Len(s) + 1] = u
      /\ \A i \in 1..Len(s) : q[i] = s[i]
  OBVIOUS
<1> HIDE DEF q
<1>2. /\ \A i \in 1..Len(q) : i \in 1..Len(s) \/ i = Len(s) + 1
      /\ Len(s) + 1 \in 1..Len(q) /\ \A i \in 1..Len(s) : i \in 1..Len(q)
  BY <1>1
<1>3. Once(q, r)
  <2> SUFFICES ASSUME NEW i \in 1..Len(q), NEW j \in 1..Len(q), q[i] = r, q[j] = r PROVE i = j
    BY DEF Once
  <2> QED  BY <1>1, <1>2 DEF Once, In
<1>4. In(q, r) <=> In(s, r) \/ r = u
  BY <1>1, <1>2 DEF In
<1> QED  BY <1>1, <1>3, <1>4 DEF q

\* A request that was tried in vain goes to the end, and nobody else moves out.
LEMMA Rotates ==
    ASSUME NEW s \in Seq(Requesters), s # <<>>, NEW r \in Requesters, Once(s, r)
    PROVE  /\ Append(Tail(s), Head(s)) \in Seq(Requesters)
           /\ Len(Append(Tail(s), Head(s))) = Len(s)
           /\ Once(Append(Tail(s), Head(s)), r)
           /\ In(Append(Tail(s), Head(s)), r) <=> In(s, r)
<1>1. /\ Tail(s) \in Seq(Requesters) /\ Head(s) \in Requesters /\ In(s, Head(s))
      /\ Len(s) \in Nat /\ Len(Tail(s)) = Len(s) - 1
  BY HeadOf
<1>2. Once(Tail(s), r) /\ (In(Tail(s), r) <=> In(s, r) /\ r # Head(s))
  BY Shrinks
<1>3. /\ Append(Tail(s), Head(s)) \in Seq(Requesters)
      /\ Len(Append(Tail(s), Head(s))) = Len(Tail(s)) + 1
      /\ Once(Append(Tail(s), Head(s)), r)
      /\ In(Append(Tail(s), Head(s)), r) <=> In(Tail(s), r) \/ r = Head(s)
  BY <1>1, <1>2, Grows
<1> QED  BY <1>1, <1>2, <1>3

-----------------------------------------------------------------------------
(* The invariant is inductive                                              *)

LEMMA Names ==
    /\ Shared \in Targets /\ Own \in Targets /\ Shared # Own /\ \A x \in Targets : x = Shared \/ x = Own
    /\ Queue \notin Direct /\ Queue # None /\ None \notin Direct
    /\ \A r \in Requesters : r # None /\ r \in Nat
  BY LockQueueAssumption DEF Targets, Requesters

\* The types, without the bound on left.
Types ==
    /\ mutex \in [Targets -> Direct \cup {Queue, None}] /\ isLocked \in [Targets -> BOOLEAN]
    /\ dpc \in [Direct -> DirectStates]
    /\ rpc \in [Requesters -> RequesterStates] /\ target \in [Requesters -> Targets]
    /\ waitForLock \in [Requesters -> BOOLEAN] /\ tryLockResult \in [Requesters -> BOOLEAN]
    /\ pendingLock \in Seq(Requesters) /\ pendingRelease \in Seq(Requesters)
    /\ qpc \in QueueStates /\ hand \in Requesters \cup {None}
    /\ Len(pendingLock) \in Nat /\ left \in Int /\ 0 <= left /\ left <= Len(pendingLock)

LEMMA TypesHold == TypeOK => Types
  BY DEF TypeOK, Types

\* Where the requests are, as long as lists, hand and requesters stay.
LEMMA RequestFrame ==
    ASSUME IInv, UNCHANGED <<requestVars, queueVars>>
    PROVE  /\ PlaceInv' /\ HandInv' /\ ResultInv'
           /\ \A r \in Requesters : Holds(r)' = Holds(r)
  BY DEF IInv, requestVars, queueVars, PlaceInv, PlaceOf, HandInv, ResultInv, ResultOf, Holds, Once, In

\* Who has the mutexes, as long as they stay and everybody keeps what he holds.
LEMMA MutexFrame ==
    ASSUME MutexInv, mutex' = mutex, \A r \in Requesters : Holds(r)' = Holds(r),
           \A r \in Requesters : Holds(r) => target'[r] = target[r]
    PROVE  MutexInv'
  BY DEF MutexInv

\* Who has them when Shared goes from or to a direct thread.
LEMMA MutexPasses ==
    ASSUME Types, MutexInv, mutex[Shared] # Queue, mutex'[Shared] # Queue, mutex'[Own] = mutex[Own],
           target' = target, \A r \in Requesters : Holds(r)' = Holds(r)
    PROVE  MutexInv'
<1>1. \A r \in Requesters : target[r] = Shared \/ target[r] = Own
  BY Names DEF Types
<1>2. \A r \in Requesters : Holds(r)' => mutex'[target'[r]] = Queue
  BY <1>1 DEF MutexInv
<1>3. ASSUME NEW x \in Targets, mutex'[x] = Queue PROVE \E r \in Requesters : Holds(r)' /\ target'[r] = x
  <2>1. mutex[x] = Queue
    BY <1>3, Names
  <2> QED  BY <2>1 DEF MutexInv
<1> QED  BY <1>2, <1>3 DEF MutexInv

\* Neither the direct threads nor the flags notice a step of a request that
\* stays between the queue's writes.
LEMMA DirectFrame ==
    ASSUME IInv, UNCHANGED <<mutex, isLocked, dpc>>,
           qpc \in {"marking", "unlocking"} <=> qpc' \in {"marking", "unlocking"},
           qpc \in {"marking", "unlocking"} => hand' = hand /\ target'[hand] = target[hand]
    PROVE  DirectInv' /\ FlagInv'
  BY DEF IInv, DirectInv, FlagInv

\* A direct thread takes and leaves the mutex of Shared as its own.
LEMMA DirectKeeps ==
    ASSUME IInv, NEW d \in Direct, DirectStep(d)
    PROVE  IInv'
<1>0. Types /\ UNCHANGED <<requestVars, queueVars, closing>>
  BY TypesHold DEF IInv, DirectStep
<1>1. PlaceInv' /\ HandInv' /\ ResultInv' /\ \A r \in Requesters : Holds(r)' = Holds(r)
  BY <1>0, RequestFrame
<1>2. MutexInv /\ DirectInv /\ FlagInv
  BY DEF IInv
<1> USE Names
<1>3. ASSUME UNCHANGED <<mutex, isLocked>>, dpc' \in [Direct -> DirectStates],
             \A e \in Direct \ {d} : dpc'[e] = dpc[e],
             dpc[d] \in {"out", "polling"}, dpc'[d] \in {"out", "polling"}
      PROVE  MutexInv' /\ DirectInv' /\ FlagInv'
  <2>1. MutexInv'
    BY <1>0, <1>1, <1>2, <1>3, MutexFrame DEF requestVars
  <2>2. DirectInv'
    BY <1>2, <1>3 DEF DirectInv
  <2>3. FlagInv'
    BY <1>0, <1>2, <1>3 DEF FlagInv, requestVars, queueVars
  <2> QED  BY <2>1, <2>2, <2>3
<1>4. ASSUME Take(d), isLocked' = isLocked, dpc[d] \in {"out", "polling", "sleeping"}
      PROVE  MutexInv' /\ DirectInv' /\ FlagInv' /\ mutex' \in [Targets -> Direct \cup {Queue, None}]
             /\ dpc' \in [Direct -> DirectStates]
  <2>1. /\ mutex'[Shared] = d /\ mutex'[Own] = mutex[Own] /\ mutex[Shared] = None
        /\ dpc'[d] = "marking" /\ \A e \in Direct \ {d} : dpc'[e] = dpc[e]
        /\ mutex' \in [Targets -> Direct \cup {Queue, None}] /\ dpc' \in [Direct -> DirectStates]
    <3>1. mutex \in [Targets -> Direct \cup {Queue, None}] /\ dpc \in [Direct -> DirectStates]
      BY <1>0 DEF Types
    <3> QED  BY <1>4, <3>1 DEF Take, DirectStates
  <2>2. MutexInv'
    BY <1>0, <1>1, <1>2, <2>1, MutexPasses DEF requestVars
  <2>3. DirectInv'
    BY <1>2, <2>1 DEF DirectInv
  <2>4. FlagInv'
    BY <1>0, <1>2, <1>4, <2>1 DEF FlagInv, requestVars, queueVars
  <2> QED  BY <2>1, <2>2, <2>3, <2>4
<1>5. CASE DirectLock(d) \/ DirectResume(d)
  BY <1>0, <1>1, <1>4, <1>5, LockQueueAssumption
     DEF DirectLock, DirectResume, Call, IInv, TypeOK, requestVars, queueVars
<1>6. CASE DirectTryLock(d)
  <2>0. isLocked' = isLocked /\ asserts' \in BOOLEAN /\ calls' \in 0..MaxCalls /\ dpc[d] = "out"
    BY <1>6, LockQueueAssumption DEF DirectTryLock, Call, IInv, TypeOK
  <2>1. CASE Take(d)
    BY <1>0, <1>1, <1>4, <2>0, <2>1 DEF IInv, TypeOK, requestVars, queueVars
  <2>2. CASE UNCHANGED <<mutex, dpc>>
    BY <1>0, <1>1, <1>3, <2>0, <2>2 DEF IInv, TypeOK, requestVars, queueVars, Types
  <2> QED  BY <1>6, <2>1, <2>2 DEF DirectTryLock
<1>7. CASE DirectTimedLock(d)
  <2>0. isLocked' = isLocked /\ asserts' = asserts /\ calls' \in 0..MaxCalls /\ dpc[d] \in {"out", "polling"}
    BY <1>7, LockQueueAssumption DEF DirectTimedLock, Call, IInv, TypeOK
  <2>1. CASE Take(d)
    BY <1>0, <1>1, <1>4, <2>0, <2>1 DEF IInv, TypeOK, requestVars, queueVars
  <2>2. CASE mutex' = mutex /\ \E s \in {"out", "polling"} : dpc' = [dpc EXCEPT ![d] = s]
    <3>1. /\ dpc' \in [Direct -> DirectStates] /\ dpc'[d] \in {"out", "polling"}
          /\ \A e \in Direct \ {d} : dpc'[e] = dpc[e]
      BY <1>0, <2>2 DEF Types, DirectStates
    <3> QED  BY <1>0, <1>1, <1>3, <2>0, <2>2, <3>1 DEF IInv, TypeOK, requestVars, queueVars
  <2> QED  BY <1>7, <2>1, <2>2 DEF DirectTimedLock
<1>8. CASE DirectMark(d)
  <2>1. /\ dpc[d] = "marking" /\ dpc'[d] = "in" /\ \A e \in Direct \ {d} : dpc'[e] = dpc[e]
        /\ dpc' \in [Direct -> DirectStates] /\ isLocked' \in [Targets -> BOOLEAN]
        /\ isLocked'[Shared] = TRUE /\ isLocked'[Own] = isLocked[Own]
        /\ UNCHANGED <<mutex, asserts, calls>>
    BY <1>0, <1>8 DEF DirectMark, Marked, Types, DirectStates
  <2>2. MutexInv'
    BY <1>0, <1>1, <1>2, <2>1, MutexFrame DEF requestVars
  <2>3. DirectInv'
    BY <1>2, <2>1 DEF DirectInv
  <2>4. FlagInv'
    BY <1>0, <1>2, <2>1 DEF FlagInv, requestVars, queueVars
  <2> QED  BY <1>0, <1>1, <2>1, <2>2, <2>3, <2>4 DEF IInv, TypeOK, requestVars, queueVars
<1>9. CASE DirectUnmark(d)
  <2>1. /\ dpc[d] = "in" /\ dpc'[d] \in {"unlocking", "parting"}
        /\ \A e \in Direct \ {d} : dpc'[e] = dpc[e]
        /\ dpc' \in [Direct -> DirectStates] /\ isLocked' \in [Targets -> BOOLEAN]
        /\ isLocked'[Shared] = FALSE /\ isLocked'[Own] = isLocked[Own]
        /\ UNCHANGED <<mutex, asserts>> /\ calls' \in 0..MaxCalls
    <3>1. dpc \in [Direct -> DirectStates] /\ isLocked \in [Targets -> BOOLEAN]
      BY <1>0 DEF Types
    <3>2. calls' \in 0..MaxCalls
      BY <1>9, LockQueueAssumption DEF DirectUnmark, Call, IInv, TypeOK
    <3>3. /\ isLocked' = [isLocked EXCEPT ![Shared] = FALSE]
          /\ \E s \in {"unlocking", "parting"} : dpc' = [dpc EXCEPT ![d] = s]
      BY <1>9 DEF DirectUnmark
    <3>4. isLocked' \in [Targets -> BOOLEAN] /\ isLocked'[Shared] = FALSE /\ isLocked'[Own] = isLocked[Own]
      BY <3>1, <3>3
    <3> QED  BY <1>9, <3>1, <3>2, <3>3, <3>4 DEF DirectUnmark, DirectStates
  <2>2. MutexInv'
    BY <1>0, <1>1, <1>2, <2>1, MutexFrame DEF requestVars
  <2>3. DirectInv'
    BY <1>2, <2>1 DEF DirectInv
  <2>4. mutex[Shared] = d /\ \A e \in Direct : dpc'[e] # "in"
    BY <1>2, <2>1 DEF DirectInv
  <2>5. FlagInv'
    BY <1>0, <1>2, <2>1, <2>4 DEF FlagInv, requestVars, queueVars
  <2> QED  BY <1>0, <1>1, <2>1, <2>2, <2>3, <2>5 DEF IInv, TypeOK, requestVars, queueVars
<1>10. CASE DirectUnlock(d)
  <2>1. /\ dpc[d] \in {"unlocking", "parting"} /\ dpc'[d] \in {"sleeping", "out"}
        /\ \A e \in Direct \ {d} : dpc'[e] = dpc[e]
        /\ dpc' \in [Direct -> DirectStates] /\ mutex' \in [Targets -> Direct \cup {Queue, None}]
        /\ mutex'[Shared] = None /\ mutex'[Own] = mutex[Own]
        /\ UNCHANGED <<isLocked, asserts, calls>>
    BY <1>0, <1>10 DEF DirectUnlock, Types, DirectStates
  <2>2. mutex[Shared] = d /\ \A e \in Direct : dpc[e] # "in" /\ dpc'[e] # "in"
    BY <1>2, <2>1 DEF DirectInv
  <2>3. MutexInv'
    BY <1>0, <1>1, <1>2, <2>1, <2>2, MutexPasses DEF requestVars
  <2>4. DirectInv'
    BY <1>2, <2>1, <2>2 DEF DirectInv
  <2>5. FlagInv'
    BY <1>0, <1>2, <2>1, <2>2 DEF FlagInv, requestVars, queueVars
  <2> QED  BY <1>0, <1>1, <2>1, <2>3, <2>4, <2>5 DEF IInv, TypeOK, requestVars, queueVars
<1> QED  BY <1>5, <1>6, <1>7, <1>8, <1>9, <1>10 DEF DirectStep

\* A requester goes on: a request is added to a list when nothing is in the
\* queue's hand, or its owner begins to wait.
LEMMA RequesterKeeps ==
    ASSUME IInv, NEW r \in Requesters, Requester(r)
    PROVE  IInv'
<1>0. /\ Types /\ TypeOK /\ PlaceInv /\ HandInv /\ ResultInv /\ MutexInv
      /\ UNCHANGED <<syncVars, directVars, closing>>
  BY TypesHold DEF IInv, Requester
<1> USE Names
<1>1. /\ QueueFree => qpc \notin {"marking", "unlocking"} /\ hand = None
      /\ QueueFree => QueueNotified \in QueueStates /\ QueueNotified \notin {"marking", "unlocking", "telling"}
  BY <1>0 DEF QueueFree, QueueNotified, HandInv, QueueStates
<1>2. CASE Acquire(r)
  <2>1. /\ QueueFree /\ qpc' = QueueNotified /\ hand' = hand /\ left' = left /\ go' = go
        /\ tryLockResult' = tryLockResult /\ pendingRelease' = pendingRelease
        /\ pendingLock' = Append(pendingLock, r)
        /\ rpc[r] = "out" /\ rpc'[r] = "asked" /\ rpc' \in [Requesters -> RequesterStates]
        /\ \A s \in Requesters \ {r} : rpc'[s] = rpc[s] /\ target'[s] = target[s]
    BY <1>0, <1>2 DEF Acquire, Types, RequesterStates, Enqueue
  <2>2. target' \in [Requesters -> Targets] /\ waitForLock' \in [Requesters -> BOOLEAN]
    BY <1>0, <1>2 DEF Acquire, Types
  <2>3. /\ hand = None /\ tryLockResult[r] = FALSE /\ ~In(pendingLock, r) /\ ~In(pendingRelease, r)
    BY <1>0, <1>1, <2>1 DEF ResultInv, ResultOf, PlaceInv, PlaceOf, Types
  <2>4. \A s \in Requesters : Once(pendingLock, s)
    BY <1>0 DEF PlaceInv, PlaceOf
  <2>5. /\ pendingLock' \in Seq(Requesters) /\ Len(pendingLock') = Len(pendingLock) + 1
        /\ \A s \in Requesters :
              Once(pendingLock', s) /\ (In(pendingLock', s) <=> In(pendingLock, s) \/ s = r)
    BY <1>0, <2>1, <2>3, <2>4, Grows DEF Types
  <2>6. PlaceInv'
    BY <1>0, <2>1, <2>3, <2>5 DEF PlaceInv, PlaceOf
  <2>7. HandInv'
    BY <1>1, <2>1, <2>3 DEF HandInv
  <2>8. ResultInv'
    BY <1>0, <2>1, <2>3, <2>5 DEF ResultInv, ResultOf
  <2>9. \A s \in Requesters : Holds(s)' = Holds(s) /\ (Holds(s) => target'[s] = target[s])
    <3>1. \A s \in Requesters : tryLockResult[s] \in BOOLEAN
      BY <1>0 DEF Types
    <3> QED  BY <1>0, <2>1, <2>3, <3>1 DEF Holds
  <2>10. MutexInv'
    BY <1>0, <2>9, MutexFrame DEF syncVars
  <2>11. DirectInv' /\ FlagInv'
    BY <1>0, <1>1, <2>1, DirectFrame DEF syncVars, directVars
  <2>12. left' \in 0..Len(pendingLock')
    BY <1>0, <2>1, <2>5 DEF Types
  <2>13. TypeOK'
    BY <1>0, <1>1, <2>1, <2>2, <2>5, <2>12 DEF TypeOK, syncVars, directVars
  <2> QED  BY <2>6, <2>7, <2>8, <2>10, <2>11, <2>13 DEF IInv
<1>3. CASE Release(r)
  <2>1. /\ QueueFree /\ qpc' = QueueNotified
        /\ UNCHANGED <<target, waitForLock, tryLockResult, pendingLock, go, hand, left>>
        /\ pendingRelease' = Append(pendingRelease, r)
        /\ rpc[r] = "held" /\ rpc'[r] = "told" /\ rpc' \in [Requesters -> RequesterStates]
        /\ \A s \in Requesters \ {r} : rpc'[s] = rpc[s]
    BY <1>0, <1>3 DEF Release, Types, RequesterStates
  <2>2. hand = None /\ tryLockResult[r] = TRUE /\ ~In(pendingLock, r) /\ ~In(pendingRelease, r)
    BY <1>0, <1>1, <2>1 DEF ResultInv, ResultOf, PlaceInv, PlaceOf, Types
  <2>3. \A s \in Requesters : Once(pendingRelease, s)
    BY <1>0 DEF PlaceInv, PlaceOf
  <2>4. /\ pendingRelease' \in Seq(Requesters)
        /\ \A s \in Requesters :
              Once(pendingRelease', s) /\ (In(pendingRelease', s) <=> In(pendingRelease, s) \/ s = r)
    BY <1>0, <2>1, <2>2, <2>3, Grows DEF Types
  <2>5. PlaceInv'
    BY <1>0, <2>1, <2>2, <2>4 DEF PlaceInv, PlaceOf
  <2>6. HandInv'
    BY <1>1, <2>1, <2>2 DEF HandInv
  <2>7. ResultInv'
    BY <1>0, <2>1, <2>2 DEF ResultInv, ResultOf
  <2>8. \A s \in Requesters : Holds(s)' = Holds(s)
    <3>1. \A s \in Requesters : tryLockResult[s] \in BOOLEAN
      BY <1>0 DEF Types
    <3> QED  BY <2>1, <2>2, <3>1 DEF Holds
  <2>9. MutexInv'
    BY <1>0, <2>1, <2>8, MutexFrame DEF syncVars
  <2>10. DirectInv' /\ FlagInv'
    BY <1>0, <1>1, <2>1, DirectFrame DEF syncVars, directVars
  <2>11. TypeOK'
    BY <1>0, <1>1, <2>1, <2>4 DEF TypeOK, syncVars, directVars
  <2> QED  BY <2>5, <2>6, <2>7, <2>9, <2>10, <2>11 DEF IInv
<1>4. CASE RequesterWait(r)
  <2>1. /\ UNCHANGED <<target, waitForLock, tryLockResult, queueVars>>
        /\ \/ rpc[r] = "asked" /\ rpc'[r] = "wait"
           \/ rpc[r] = "told" /\ rpc'[r] = "rwait"
        /\ rpc' \in [Requesters -> RequesterStates]
        /\ \A s \in Requesters \ {r} : rpc'[s] = rpc[s]
    BY <1>0, <1>4 DEF RequesterWait, Types, RequesterStates
  <2>2. PlaceInv'
    BY <1>0, <2>1 DEF PlaceInv, PlaceOf, queueVars
  <2>3. HandInv'
    BY <1>0, <2>1 DEF HandInv, queueVars, Types
  <2>4. ResultInv'
    BY <1>0, <2>1 DEF ResultInv, ResultOf, queueVars
  <2>5. \A s \in Requesters : Holds(s)' = Holds(s)
    BY <2>1 DEF Holds, queueVars
  <2>6. MutexInv'
    BY <1>0, <2>1, <2>5, MutexFrame DEF syncVars
  <2>7. DirectInv' /\ FlagInv'
    BY <1>0, <2>1, DirectFrame DEF syncVars, directVars, queueVars
  <2>8. TypeOK'
    BY <1>0, <2>1 DEF TypeOK, syncVars, directVars, queueVars
  <2> QED  BY <2>2, <2>3, <2>4, <2>6, <2>7, <2>8 DEF IInv
<1> QED  BY <1>2, <1>3, <1>4 DEF Requester

\* Steps that only move the queue's thread, with nothing in its hand.
LEMMA QueueMoves ==
    ASSUME IInv, UNCHANGED <<syncVars, directVars, requestVars, pendingLock, pendingRelease, hand>>,
           {qpc, qpc'} \subseteq QueueStates \ {"marking", "unlocking", "telling"},
           go' \in BOOLEAN, closing' \in {"no", "notify", "join", "gone"},
           left' \in 0..Len(pendingLock)
    PROVE  IInv'
<1>0. TypeOK /\ PlaceInv /\ HandInv /\ ResultInv /\ MutexInv
  BY DEF IInv
<1>1. PlaceInv' /\ HandInv' /\ ResultInv' /\ \A r \in Requesters : Holds(r)' = Holds(r)
  BY <1>0 DEF PlaceInv, PlaceOf, HandInv, ResultInv, ResultOf, Holds, requestVars
<1>2. MutexInv'
  BY <1>0, <1>1, MutexFrame DEF syncVars, requestVars
<1>3. DirectInv' /\ FlagInv'
  BY DirectFrame DEF syncVars, directVars
<1>4. TypeOK'
  BY <1>0 DEF TypeOK, syncVars, directVars, requestVars
<1> QED  BY <1>1, <1>2, <1>3, <1>4 DEF IInv

LEMMA DestructorKeeps == IInv /\ Destructor => IInv'
<1> SUFFICES ASSUME IInv, Destructor PROVE IInv'
  OBVIOUS
<1>0. TypeOK /\ HandInv /\ UNCHANGED <<syncVars, directVars, requestVars>>
  BY DEF IInv, Destructor
<1>1. CASE CloseNotify
  <2>1. {qpc, qpc'} \subseteq QueueStates \ {"marking", "unlocking", "telling"}
    BY <1>1 DEF CloseNotify, QueueFree, QueueNotified, QueueStates
  <2> QED  BY <1>0, <1>1, <2>1, QueueMoves DEF CloseNotify, TypeOK
<1>2. CASE Close \/ CloseJoin
  <2>1. UNCHANGED <<pendingLock, pendingRelease, qpc, hand, left>> /\ go' \in BOOLEAN
        /\ closing' \in {"no", "notify", "join", "gone"}
    BY <1>0, <1>2 DEF Close, CloseJoin, queueVars, TypeOK
  <2>2. PlaceInv' /\ HandInv' /\ ResultInv' /\ \A r \in Requesters : Holds(r)' = Holds(r)
    BY <1>0, <2>1 DEF IInv, PlaceInv, PlaceOf, HandInv, ResultInv, ResultOf, Holds, requestVars
  <2>3. MutexInv'
    BY <1>0, <2>2, MutexFrame DEF IInv, syncVars, requestVars
  <2>4. DirectInv' /\ FlagInv'
    BY <1>0, <2>1, DirectFrame DEF syncVars, directVars, requestVars
  <2>5. TypeOK'
    BY <1>0, <2>1 DEF TypeOK, syncVars, directVars, requestVars
  <2> QED  BY <2>2, <2>3, <2>4, <2>5 DEF IInv
<1> QED  BY <1>1, <1>2 DEF Destructor

\* The end of the lock or wait, and of the wait behind the loops.
LEMMA IdleKeeps ==
    ASSUME IInv, QueueStep,
           QueueEnter \/ QueueWait \/ QueueTimeOut \/ (QueueDrain /\ pendingRelease = <<>>)
    PROVE  IInv'
<1>0. TypeOK /\ Types /\ UNCHANGED <<directVars, go, closing>>
  BY TypesHold DEF IInv, QueueStep
<1>1. {qpc, qpc'} \subseteq QueueStates \ {"marking", "unlocking", "telling"}
  BY DEF QueueEnter, QueueWait, QueueTimeOut, QueueDrain, TimedOut, QueueStates
<1>2. left' \in 0..Len(pendingLock)
  BY <1>0 DEF QueueEnter, QueueWait, QueueTimeOut, QueueDrain, Turns, TypeOK, Types
<1>3. UNCHANGED <<syncVars, requestVars, pendingLock, pendingRelease, hand>>
  BY DEF QueueEnter, QueueWait, QueueTimeOut, QueueDrain, syncVars
<1> QED  BY <1>0, <1>1, <1>2, <1>3, QueueMoves DEF TypeOK

\* A pending release is taken up: the flag of its target is cleared.
LEMMA DrainKeeps ==
    ASSUME IInv, QueueStep, QueueDrain, pendingRelease # <<>>
    PROVE  IInv'
<1> DEFINE r == Head(pendingRelease)
<1>0. /\ Types /\ TypeOK /\ PlaceInv /\ HandInv /\ ResultInv /\ MutexInv /\ DirectInv /\ FlagInv
      /\ UNCHANGED <<directVars, go, closing>>
  BY TypesHold DEF IInv, QueueStep
<1> USE Names
<1>1. /\ r \in Requesters /\ In(pendingRelease, r) /\ Tail(pendingRelease) \in Seq(Requesters)
      /\ hand = None /\ hand' = r /\ qpc = "drain" /\ qpc' = "unlocking"
      /\ pendingRelease' = Tail(pendingRelease)
      /\ isLocked' = [isLocked EXCEPT ![target[r]] = FALSE]
      /\ UNCHANGED <<mutex, asserts, requestVars, pendingLock, left>>
  BY <1>0, HeadOf DEF QueueDrain, HandInv, Types
<1>2. \A s \in Requesters :
         Once(pendingRelease', s) /\ (In(pendingRelease', s) <=> In(pendingRelease, s) /\ s # r)
  BY <1>0, <1>1, Shrinks DEF Types, PlaceInv, PlaceOf
<1> HIDE DEF r
<1>3. rpc[r] \in {"told", "rwait"} /\ tryLockResult[r] /\ target[r] \in Targets
  BY <1>0, <1>1 DEF PlaceInv, PlaceOf, ResultInv, ResultOf, Types
<1>4. Holds(r) /\ mutex[target[r]] = Queue
  BY <1>0, <1>1, <1>3 DEF Holds, MutexInv
<1>5. PlaceInv'
  BY <1>0, <1>1, <1>2, <1>3 DEF PlaceInv, PlaceOf, requestVars
<1>6. HandInv'
  BY <1>1, <1>3 DEF HandInv, requestVars
<1>7. ResultInv'
  BY <1>0, <1>1 DEF ResultInv, ResultOf, requestVars
<1>8. \A s \in Requesters : Holds(s)' = Holds(s)
  BY <1>1 DEF Holds, requestVars
<1>9. MutexInv'
  BY <1>0, <1>1, <1>8, MutexFrame DEF requestVars
<1>10. DirectInv'
  BY <1>0, <1>1 DEF DirectInv, directVars
<1>11. FlagInv'
  <2>1. /\ isLocked'[target[r]] = FALSE /\ target' = target
        /\ \A x \in Targets \ {target[r]} : isLocked'[x] = isLocked[x]
    BY <1>0, <1>1, <1>3 DEF Types, requestVars
  <2>2. target[r] = Shared => \A d \in Direct : dpc'[d] # "in"
    BY <1>0, <1>4 DEF DirectInv, directVars
  <2> QED  BY <1>0, <1>1, <2>1, <2>2 DEF FlagInv, directVars
<1>12. TypeOK'
  <2>1. isLocked' \in [Targets -> BOOLEAN]
    BY <1>0, <1>1 DEF Types
  <2> QED  BY <1>0, <1>1, <2>1 DEF TypeOK, QueueStates, requestVars, directVars
<1> QED  BY <1>5, <1>6, <1>7, <1>9, <1>10, <1>11, <1>12 DEF IInv

\* Its mutex is unlocked.
LEMMA UnlockKeeps ==
    ASSUME IInv, QueueStep, QueueUnlock
    PROVE  IInv'
<1>0. /\ Types /\ TypeOK /\ PlaceInv /\ HandInv /\ ResultInv /\ MutexInv /\ DirectInv /\ FlagInv
      /\ UNCHANGED <<directVars, go, closing>>
  BY TypesHold DEF IInv, QueueStep
<1> USE Names
<1>1. /\ qpc = "unlocking" /\ qpc' = "telling"
      /\ mutex' = [mutex EXCEPT ![target[hand]] = None]
      /\ UNCHANGED <<isLocked, asserts, requestVars, pendingLock, pendingRelease, hand, left>>
      /\ hand \in Requesters /\ target[hand] \in Targets
      /\ rpc[hand] \in {"told", "rwait"} /\ tryLockResult[hand]
  BY <1>0 DEF QueueUnlock, HandInv, ResultInv, ResultOf, Types
<1>2. Holds(hand) /\ mutex[target[hand]] = Queue
  BY <1>0, <1>1 DEF Holds, MutexInv
<1>3. /\ mutex'[target[hand]] = None /\ \A x \in Targets \ {target[hand]} : mutex'[x] = mutex[x]
      /\ mutex' \in [Targets -> Direct \cup {Queue, None}] /\ target' = target
  BY <1>0, <1>1 DEF Types, requestVars
<1>4. PlaceInv' /\ HandInv' /\ ResultInv'
  BY <1>0, <1>1 DEF PlaceInv, PlaceOf, HandInv, ResultInv, ResultOf, requestVars
<1>5. ~Holds(hand)' /\ \A s \in Requesters \ {hand} : Holds(s)' = Holds(s)
  BY <1>1 DEF Holds, requestVars
<1>6. MutexInv'
  <2>1. ASSUME NEW s \in Requesters, Holds(s)' PROVE s # hand /\ Holds(s) /\ target[s] # target[hand]
    BY <1>0, <1>1, <1>2, <1>5, <2>1 DEF MutexInv
  <2>2. \A s \in Requesters : Holds(s)' => mutex'[target'[s]] = Queue
    BY <1>0, <1>3, <2>1 DEF MutexInv, Types
  <2>3. ASSUME NEW x \in Targets, mutex'[x] = Queue PROVE \E s \in Requesters : Holds(s)' /\ target'[s] = x
    <3>1. x # target[hand] /\ mutex[x] = Queue
      BY <1>3, <2>3
    <3>2. PICK s \in Requesters : Holds(s) /\ target[s] = x
      BY <1>0, <3>1 DEF MutexInv
    <3>3. s # hand
      BY <3>1, <3>2
    <3> QED  BY <1>3, <1>5, <3>2, <3>3
  <2> QED  BY <1>0, <1>3, <2>1, <2>2, <2>3 DEF MutexInv
<1>7. DirectInv'
  BY <1>0, <1>2, <1>3 DEF DirectInv, directVars
<1>8. FlagInv'
  BY <1>0, <1>1, <1>2, <1>3 DEF FlagInv, directVars
<1>9. TypeOK'
  BY <1>0, <1>1, <1>3 DEF TypeOK, QueueStates, requestVars, directVars
<1> QED  BY <1>4, <1>6, <1>7, <1>8, <1>9 DEF IInv

\* The mutex of a pending request is tried: it is granted, or the request is put
\* into the hand to be refused, or back to the end of the list.
LEMMA ScanKeeps ==
    ASSUME IInv, QueueStep, QueueScan
    PROVE  IInv'
<1> DEFINE r == Head(pendingLock)
           x == target[r]
<1>0. /\ Types /\ TypeOK /\ PlaceInv /\ HandInv /\ ResultInv /\ MutexInv /\ DirectInv /\ FlagInv
      /\ UNCHANGED <<directVars, go, closing>>
  BY TypesHold DEF IInv, QueueStep
<1> USE Names
<1>1. /\ qpc = "scan" /\ left > 0 /\ left' = left - 1 /\ hand = None
      /\ asserts' = (asserts /\ isLocked[x] = (mutex[x] # None))
      /\ UNCHANGED <<isLocked, rpc, target, waitForLock, pendingRelease>>
  BY <1>0 DEF QueueScan, HandInv
<1>2. pendingLock # <<>>
  BY <1>0, <1>1 DEF Types
<1>3. /\ r \in Requesters /\ In(pendingLock, r) /\ Tail(pendingLock) \in Seq(Requesters)
      /\ Len(Tail(pendingLock)) = Len(pendingLock) - 1 /\ x \in Targets
  BY <1>0, <1>2, HeadOf DEF Types
<1>4. \A s \in Requesters :
         /\ Once(Tail(pendingLock), s) /\ (In(Tail(pendingLock), s) <=> In(pendingLock, s) /\ s # r)
         /\ Append(Tail(pendingLock), r) \in Seq(Requesters)
         /\ Len(Append(Tail(pendingLock), r)) = Len(pendingLock)
         /\ Once(Append(Tail(pendingLock), r), s)
         /\ In(Append(Tail(pendingLock), r), s) <=> In(pendingLock, s)
  BY <1>0, <1>2, Shrinks, Rotates DEF Types, PlaceInv, PlaceOf
<1>5. \/ /\ mutex[x] = None /\ mutex' = [mutex EXCEPT ![x] = Queue]
         /\ tryLockResult' = [tryLockResult EXCEPT ![r] = TRUE]
         /\ qpc' = "marking" /\ hand' = r /\ pendingLock' = Tail(pendingLock)
      \/ /\ qpc' = "telling" /\ hand' = r /\ pendingLock' = Tail(pendingLock)
         /\ UNCHANGED <<mutex, tryLockResult>>
      \/ /\ pendingLock' = Append(Tail(pendingLock), r)
         /\ UNCHANGED <<mutex, tryLockResult, qpc, hand>>
  BY DEF QueueScan, Grantable, Retried
<1> HIDE DEF r, x
<1>6. rpc[r] \in {"asked", "wait"} /\ tryLockResult[r] = FALSE /\ ~In(pendingRelease, r) /\ x = target[r]
  BY <1>0, <1>3 DEF PlaceInv, PlaceOf, ResultInv, ResultOf, Types, x
<1>7. asserts' \in BOOLEAN /\ (asserts' => asserts)
  <2>1. (isLocked[x] = (mutex[x] # None)) \in BOOLEAN /\ asserts \in BOOLEAN
    BY <1>0 DEF TypeOK
  <2> QED  BY <1>1, <2>1
<1>8. CASE /\ mutex[x] = None /\ mutex' = [mutex EXCEPT ![x] = Queue]
           /\ tryLockResult' = [tryLockResult EXCEPT ![r] = TRUE]
           /\ qpc' = "marking" /\ hand' = r /\ pendingLock' = Tail(pendingLock)
  <2>1. /\ mutex'[x] = Queue /\ (\A y \in Targets \ {x} : mutex'[y] = mutex[y])
        /\ tryLockResult'[r] = TRUE /\ (\A s \in Requesters \ {r} : tryLockResult'[s] = tryLockResult[s])
        /\ mutex' \in [Targets -> Direct \cup {Queue, None}]
        /\ tryLockResult' \in [Requesters -> BOOLEAN]
    BY <1>0, <1>3, <1>8 DEF Types
  <2>2. PlaceInv'
    BY <1>0, <1>1, <1>3, <1>4, <1>6, <1>8 DEF PlaceInv, PlaceOf
  <2>3. HandInv'
    BY <1>1, <1>3, <1>6, <1>8, <2>1 DEF HandInv
  <2>4. ResultInv'
    BY <1>0, <1>1, <1>4, <1>6, <1>8, <2>1 DEF ResultInv, ResultOf
  <2>0. PICK c \in Requesters : c = r
    BY <1>3
  <2>5. Holds(c)' /\ ~Holds(c) /\ \A s \in Requesters \ {c} : Holds(s)' = Holds(s)
    <3>1. \A s \in Requesters : tryLockResult[s] \in BOOLEAN /\ tryLockResult'[s] \in BOOLEAN
      BY <1>0, <2>1 DEF Types
    <3>2. qpc # "telling" /\ qpc' # "telling"
      BY <1>1, <1>8
    <3>3. \A s \in Requesters : (Holds(s) <=> tryLockResult[s]) /\ (Holds(s)' <=> tryLockResult'[s])
      BY <3>2 DEF Holds
    <3>4. \A s \in Requesters \ {c} : tryLockResult'[s] = tryLockResult[s]
      BY <2>0, <2>1
    <3>5. \A s \in Requesters \ {c} : Holds(s)' <=> Holds(s)
      BY <3>3, <3>4
    <3>6. \A s \in Requesters : Holds(s) \in BOOLEAN /\ Holds(s)' \in BOOLEAN
      BY DEF Holds
    <3>7. tryLockResult'[c] /\ ~tryLockResult[c]
      BY <1>6, <2>0, <2>1
    <3> QED  BY <3>3, <3>5, <3>6, <3>7
  <2>6. \A s \in Requesters : Holds(s) => target[s] # x
    BY <1>0, <1>8 DEF MutexInv
  <2>7. MutexInv'
    <3>1. \A s, u \in Requesters : Holds(s)' /\ Holds(u)' /\ target'[s] = target'[u] => s = u
      BY <1>0, <1>1, <1>3, <1>6, <2>0, <2>5, <2>6 DEF MutexInv
    <3>2. \A s \in Requesters : Holds(s)' => mutex'[target'[s]] = Queue
      BY <1>0, <1>1, <1>6, <2>0, <2>1, <2>5, <2>6 DEF MutexInv, Types
    <3>3. \A y \in Targets : mutex'[y] = Queue => \E s \in Requesters : Holds(s)' /\ target'[s] = y
      <4>1. Holds(c)' /\ target'[c] = x
        BY <1>1, <1>6, <2>0, <2>5
      <4>2. ASSUME NEW y \in Targets, mutex'[y] = Queue, y # x
            PROVE  \E s \in Requesters : Holds(s)' /\ target'[s] = y
        <5>1. mutex[y] = Queue
          BY <2>1, <4>2
        <5>2. PICK s \in Requesters : Holds(s) /\ target[s] = y
          BY <1>0, <5>1 DEF MutexInv
        <5>3. s # c
          BY <2>5, <5>2
        <5>4. Holds(s)' /\ target'[s] = y
          BY <1>1, <2>5, <5>2, <5>3
        <5> QED  BY <5>4
      <4> QED  BY <4>1, <4>2
    <3> QED  BY <3>1, <3>2, <3>3 DEF MutexInv
  <2>8. DirectInv'
    BY <1>0, <1>3, <1>8, <2>1 DEF DirectInv, directVars
  <2>9. FlagInv'
    <3>1. isLocked[x] = FALSE /\ (x = Shared => \A d \in Direct : dpc[d] # "in")
      <4>1. x = Shared => \A d \in Direct : dpc[d] # "in"
        BY <1>0, <1>8 DEF DirectInv
      <4> QED  BY <1>0, <1>3, <1>8, <4>1 DEF FlagInv, Types
    <3> QED  BY <1>0, <1>1, <1>6, <1>8, <2>1, <3>1 DEF FlagInv, directVars
  <2>10. left' \in 0..Len(pendingLock') /\ pendingLock' \in Seq(Requesters)
    BY <1>0, <1>1, <1>3, <1>8 DEF Types
  <2>11. TypeOK'
    BY <1>0, <1>1, <1>3, <1>7, <1>8, <2>1, <2>10 DEF TypeOK, QueueStates, directVars
  <2> QED  BY <2>2, <2>3, <2>4, <2>7, <2>8, <2>9, <2>11 DEF IInv
<1>9. CASE /\ qpc' = "telling" /\ hand' = r /\ pendingLock' = Tail(pendingLock)
           /\ UNCHANGED <<mutex, tryLockResult>>
  <2>1. PlaceInv'
    BY <1>0, <1>1, <1>3, <1>4, <1>6, <1>9 DEF PlaceInv, PlaceOf
  <2>2. HandInv'
    BY <1>1, <1>3, <1>6, <1>9 DEF HandInv
  <2>3. ResultInv'
    BY <1>0, <1>1, <1>4, <1>9 DEF ResultInv, ResultOf
  <2>4. \A s \in Requesters : Holds(s)' = Holds(s)
    BY <1>1, <1>6, <1>9 DEF Holds
  <2>5. MutexInv'
    BY <1>0, <1>1, <1>9, <2>4, MutexFrame
  <2>6. DirectInv' /\ FlagInv'
    BY <1>0, <1>1, <1>9, DirectFrame DEF directVars
  <2>7. left' \in 0..Len(pendingLock') /\ pendingLock' \in Seq(Requesters)
    BY <1>0, <1>1, <1>3, <1>9 DEF Types
  <2>8. TypeOK'
    BY <1>0, <1>1, <1>3, <1>7, <1>9, <2>7 DEF TypeOK, QueueStates, directVars
  <2> QED  BY <2>1, <2>2, <2>3, <2>5, <2>6, <2>8 DEF IInv
<1>10. CASE /\ pendingLock' = Append(Tail(pendingLock), r)
            /\ UNCHANGED <<mutex, tryLockResult, qpc, hand>>
  <2>1. PlaceInv'
    BY <1>0, <1>1, <1>3, <1>4, <1>10 DEF PlaceInv, PlaceOf
  <2>2. HandInv' /\ ResultInv' /\ \A s \in Requesters : Holds(s)' = Holds(s)
    BY <1>0, <1>1, <1>4, <1>10 DEF HandInv, ResultInv, ResultOf, Holds
  <2>3. MutexInv'
    BY <1>0, <1>1, <1>10, <2>2, MutexFrame
  <2>4. DirectInv' /\ FlagInv'
    BY <1>0, <1>1, <1>10, DirectFrame DEF directVars
  <2>5. left' \in 0..Len(pendingLock') /\ pendingLock' \in Seq(Requesters)
    BY <1>0, <1>1, <1>3, <1>4, <1>10 DEF Types
  <2>6. TypeOK'
    BY <1>0, <1>1, <1>7, <1>10, <2>5 DEF TypeOK, directVars
  <2> QED  BY <2>1, <2>2, <2>3, <2>4, <2>6 DEF IInv
<1> QED  BY <1>5, <1>8, <1>9, <1>10

\* The flag of a mutex that was granted is set.
LEMMA MarkKeeps ==
    ASSUME IInv, QueueStep, QueueMark
    PROVE  IInv'
<1>0. /\ Types /\ TypeOK /\ PlaceInv /\ HandInv /\ ResultInv /\ MutexInv /\ DirectInv /\ FlagInv
      /\ UNCHANGED <<directVars, go, closing>>
  BY TypesHold DEF IInv, QueueStep
<1> USE Names
<1>1. /\ qpc = "marking" /\ qpc' = "telling"
      /\ isLocked' = [isLocked EXCEPT ![target[hand]] = TRUE]
      /\ UNCHANGED <<mutex, asserts, requestVars, pendingLock, pendingRelease, hand, left>>
      /\ hand \in Requesters /\ target[hand] \in Targets
      /\ rpc[hand] \in {"asked", "wait"} /\ tryLockResult[hand]
  BY <1>0 DEF QueueMark, HandInv, Types
<1>2. mutex[target[hand]] = Queue
  BY <1>0, <1>1 DEF Holds, MutexInv
<1>3. /\ isLocked'[target[hand]] = TRUE /\ \A x \in Targets \ {target[hand]} : isLocked'[x] = isLocked[x]
      /\ isLocked' \in [Targets -> BOOLEAN] /\ target' = target
  BY <1>0, <1>1 DEF Types, requestVars
<1>4. PlaceInv' /\ HandInv' /\ ResultInv' /\ \A s \in Requesters : Holds(s)' = Holds(s)
  BY <1>0, <1>1 DEF PlaceInv, PlaceOf, HandInv, ResultInv, ResultOf, Holds, requestVars
<1>5. MutexInv'
  BY <1>0, <1>1, <1>3, <1>4, MutexFrame
<1>6. DirectInv'
  BY <1>0, <1>1 DEF DirectInv, directVars
<1>7. FlagInv'
  BY <1>0, <1>1, <1>2, <1>3 DEF FlagInv, directVars
<1>8. TypeOK'
  BY <1>0, <1>1, <1>3 DEF TypeOK, QueueStates, requestVars, directVars
<1> QED  BY <1>4, <1>5, <1>6, <1>7, <1>8 DEF IInv

\* The requester gets its answer.
LEMMA TellKeeps ==
    ASSUME IInv, QueueStep, QueueTell
    PROVE  IInv'
<1>0. /\ Types /\ TypeOK /\ PlaceInv /\ HandInv /\ ResultInv /\ MutexInv /\ DirectInv /\ FlagInv
      /\ UNCHANGED <<directVars, go, closing>>
  BY TypesHold DEF IInv, QueueStep
<1> USE Names
<1>1. /\ qpc = "telling" /\ hand \in Requesters /\ hand' = None /\ qpc' \in {"drain", "scan"}
      /\ UNCHANGED <<syncVars, pendingLock, pendingRelease, left>>
      /\ rpc[hand] \in {"wait", "rwait"} /\ ~In(pendingLock, hand) /\ ~In(pendingRelease, hand)
      /\ Tell(hand, IF rpc[hand] = "wait" /\ tryLockResult[hand] THEN "held" ELSE "done")
  BY <1>0 DEF QueueTell, HandInv, Types, PlaceInv, PlaceOf
<1>2. /\ rpc'[hand] \in {"held", "done"} /\ (rpc'[hand] = "held" <=> rpc[hand] = "wait" /\ tryLockResult[hand])
      /\ tryLockResult'[hand] = (rpc'[hand] = "held")
      /\ rpc'[hand] = "held" => target' = target
      /\ \A s \in Requesters \ {hand} :
            rpc'[s] = rpc[s] /\ tryLockResult'[s] = tryLockResult[s] /\ target'[s] = target[s]
      /\ rpc' \in [Requesters -> RequesterStates] /\ tryLockResult' \in [Requesters -> BOOLEAN]
      /\ target' \in [Requesters -> Targets] /\ waitForLock' \in [Requesters -> BOOLEAN]
  <2>0. /\ rpc \in [Requesters -> RequesterStates] /\ tryLockResult \in [Requesters -> BOOLEAN]
        /\ target \in [Requesters -> Targets] /\ waitForLock \in [Requesters -> BOOLEAN]
    BY <1>0 DEF Types
  <2>1. CASE rpc[hand] = "wait" /\ tryLockResult[hand]
    <3>1. rpc' = [rpc EXCEPT ![hand] = "held"] /\ UNCHANGED <<target, waitForLock, tryLockResult>>
      BY <1>1, <2>1 DEF Tell
    <3>2. tryLockResult[hand] = TRUE
      BY <1>1, <2>0, <2>1
    <3>3. /\ rpc'[hand] = "held" /\ rpc' \in [Requesters -> RequesterStates]
          /\ \A s \in Requesters \ {hand} : rpc'[s] = rpc[s]
      BY <1>1, <2>0, <3>1 DEF RequesterStates
    <3> QED  BY <2>0, <2>1, <3>1, <3>2, <3>3
  <2>2. CASE ~(rpc[hand] = "wait" /\ tryLockResult[hand])
    <3>1. /\ rpc' = [rpc EXCEPT ![hand] = "done"] /\ target' = [target EXCEPT ![hand] = Own]
          /\ waitForLock' = [waitForLock EXCEPT ![hand] = TRUE]
          /\ tryLockResult' = [tryLockResult EXCEPT ![hand] = FALSE]
      BY <1>1, <2>2 DEF Tell
    <3>2. /\ rpc'[hand] = "done" /\ rpc' \in [Requesters -> RequesterStates]
          /\ \A s \in Requesters \ {hand} : rpc'[s] = rpc[s]
      BY <1>1, <2>0, <3>1 DEF RequesterStates
    <3>3. /\ tryLockResult'[hand] = FALSE /\ tryLockResult' \in [Requesters -> BOOLEAN]
          /\ waitForLock' \in [Requesters -> BOOLEAN] /\ target' \in [Requesters -> Targets]
          /\ \A s \in Requesters \ {hand} : tryLockResult'[s] = tryLockResult[s] /\ target'[s] = target[s]
      BY <1>1, <2>0, <3>1
    <3> QED  BY <2>2, <3>2, <3>3
  <2> QED  BY <2>1, <2>2
<1>3. PlaceInv'
  BY <1>0, <1>1, <1>2 DEF PlaceInv, PlaceOf
<1>4. HandInv'
  BY <1>1 DEF HandInv
<1>5. ResultInv'
  BY <1>0, <1>1, <1>2 DEF ResultInv, ResultOf
<1>6. \A s \in Requesters : Holds(s)' = Holds(s) /\ (Holds(s) => target'[s] = target[s])
  <2>0. PICK h \in Requesters : h = hand
    BY <1>1
  <2>1. \A s \in Requesters : tryLockResult[s] \in BOOLEAN
    BY <1>0 DEF Types
  <2>2. \A s \in Requesters \ {h} : Holds(s)' = Holds(s)
    BY <1>1, <1>2, <2>0 DEF Holds
  <2>3. CASE rpc[hand] = "wait" /\ tryLockResult[hand]
    <3>1. rpc'[h] = "held" /\ tryLockResult'[h] /\ rpc[h] = "wait" /\ tryLockResult[h] /\ target' = target
      BY <1>2, <2>0, <2>3
    <3>2. Holds(h) /\ Holds(h)' /\ Holds(h) \in BOOLEAN /\ Holds(h)' \in BOOLEAN
      BY <3>1 DEF Holds
    <3> QED  BY <2>2, <3>1, <3>2
  <2>4. CASE ~(rpc[hand] = "wait" /\ tryLockResult[hand])
    <3>1. rpc'[h] # "held" /\ ~tryLockResult'[h]
      BY <1>2, <2>0, <2>4
    <3>2. ~Holds(h)'
      BY <3>1 DEF Holds
    <3>3. rpc[hand] = "rwait" \/ ~tryLockResult[hand]
      BY <1>1, <2>4
    <3>4. ~Holds(h)
      BY <1>1, <2>0, <3>3 DEF Holds
    <3>5. Holds(h) \in BOOLEAN /\ Holds(h)' \in BOOLEAN
      BY DEF Holds
    <3> QED  BY <1>2, <2>0, <2>2, <3>2, <3>4, <3>5
  <2> QED  BY <2>3, <2>4
<1>7. MutexInv'
  BY <1>0, <1>1, <1>6, MutexFrame DEF syncVars
<1>8. DirectInv' /\ FlagInv'
  BY <1>0, <1>1, DirectFrame DEF syncVars, directVars
<1>9. TypeOK'
  BY <1>0, <1>1, <1>2 DEF TypeOK, QueueStates, syncVars, directVars
<1> QED  BY <1>3, <1>4, <1>5, <1>7, <1>8, <1>9 DEF IInv

LEMMA InitInv == Init => IInv
<1> SUFFICES ASSUME Init PROVE IInv
  OBVIOUS
<1>1. TypeOK
  <2>1. 0 \in 0..MaxCalls /\ 0 \in 0..Len(<<>>)
    BY LockQueueAssumption
  <2> QED  BY <2>1, Names DEF Init, TypeOK, DirectStates, RequesterStates, QueueStates
<1>2. PlaceInv /\ HandInv /\ ResultInv
  BY Names DEF Init, PlaceInv, PlaceOf, HandInv, ResultInv, ResultOf, In, Once
<1>3. MutexInv /\ DirectInv /\ FlagInv
  BY Names DEF Init, MutexInv, Holds, DirectInv, FlagInv
<1> QED  BY <1>1, <1>2, <1>3 DEF IInv

LEMMA StepInv == IInv /\ [Next]_vars => IInv'
<1> SUFFICES ASSUME IInv, [Next]_vars PROVE IInv'
  OBVIOUS
<1>1. CASE QueueStep
  <2>1. CASE QueueDrain /\ pendingRelease # <<>>
    BY <1>1, <2>1, DrainKeeps
  <2> QED  BY <1>1, <2>1, IdleKeeps, UnlockKeeps, ScanKeeps, MarkKeeps, TellKeeps DEF QueueStep
<1>2. CASE UNCHANGED vars
  <2>1. UNCHANGED <<syncVars, directVars, requestVars, queueVars, closing>>
    BY <1>2 DEF vars
  <2>2. PlaceInv' /\ HandInv' /\ ResultInv' /\ \A r \in Requesters : Holds(r)' = Holds(r)
    BY <2>1, RequestFrame
  <2>3. MutexInv'
    BY <2>1, <2>2, MutexFrame DEF IInv, syncVars, requestVars
  <2>4. DirectInv' /\ FlagInv'
    BY <2>1, DirectFrame DEF syncVars, directVars, requestVars, queueVars
  <2>5. TypeOK'
    BY <2>1 DEF IInv, TypeOK, syncVars, directVars, requestVars, queueVars
  <2> QED  BY <2>2, <2>3, <2>4, <2>5 DEF IInv
<1> QED  BY <1>1, <1>2, DirectKeeps, RequesterKeeps, DestructorKeeps DEF Next, Quiescent

\* Every reachable state satisfies the invariant.
THEOREM Invariance == Spec => []IInv
  BY InitInv, StepInv, PTL DEF Spec

-----------------------------------------------------------------------------
(* What follows from it                                                    *)

\* A set without two members has one or none.
LEMMA OneOrNone ==
    ASSUME NEW S, \A x, y \in S : x = y
    PROVE  Cardinality(S) = IF S = {} THEN 0 ELSE 1
<1>1. CASE S = {}
  BY <1>1, FS_EmptySet
<1>2. CASE S # {}
  <2>1. PICK x : S = {x}
    BY <1>2
  <2> QED  BY <2>1, FS_Singleton
<1> QED  BY <1>1, <1>2

\* Counting those a mutex is held for.
LEMMA OneHolder == IInv => HeldForOne
<1> SUFFICES ASSUME IInv, NEW x \in Targets
             PROVE  Cardinality({r \in Requesters :
                          /\ target[r] = x /\ tryLockResult[r]
                          /\ ~(rpc[r] \in {"told", "rwait"} /\ hand = r /\ qpc = "telling")})
                       = IF mutex[x] = Queue THEN 1 ELSE 0
  BY DEF HeldForOne
<1> DEFINE H == {r \in Requesters : target[r] = x /\ Holds(r)}
<1>1. \A r, s \in H : r = s
  BY DEF IInv, MutexInv
<1>2. H # {} <=> mutex[x] = Queue
  BY DEF IInv, MutexInv
<1>3. Cardinality(H) = IF mutex[x] = Queue THEN 1 ELSE 0
  BY <1>1, <1>2, OneOrNone
<1> QED  BY <1>3 DEF Holds

\* isLocked and the mutex.
LEMMA FlagsFollow == IInv => FlagSettles
<1> SUFFICES ASSUME IInv, NEW x \in Targets,
                    \A d \in Direct : ~(x = Shared /\ dpc[d] \in {"marking", "unlocking", "parting"}),
                    ~(qpc \in {"marking", "unlocking"} /\ target[hand] = x)
             PROVE  isLocked[x] = (mutex[x] # None)
  BY DEF FlagSettles
<1>0. Types /\ DirectInv /\ FlagInv /\ isLocked[x] \in BOOLEAN
  BY TypesHold DEF IInv, Types
<1>1. CASE mutex[x] = Queue
  BY <1>0, <1>1, Names DEF FlagInv
<1>2. CASE mutex[x] = None
  BY <1>0, <1>2, Names DEF FlagInv, DirectInv
<1>3. CASE mutex[x] \in Direct
  BY <1>0, <1>3, Names DEF FlagInv, DirectInv
<1> QED  BY <1>0, <1>1, <1>2, <1>3 DEF Types

\* The mutex, isLocked and what the requesters were told agree, whoever locks
\* and unlocks directly meanwhile (threads.cpp 417-502, 1011-1079).
THEOREM StaysConsistent == Spec => []Consistent
<1>1. IInv => Consistent
  BY OneHolder, FlagsFollow DEF IInv, Consistent
<1> QED  BY <1>1, Invariance, PTL

\* How often a list names a request.
LEMMA PlacesIn ==
    ASSUME NEW s \in Seq(Requesters), NEW r \in Requesters, Once(s, r)
    PROVE  Cardinality({i \in DOMAIN s : s[i] = r}) = IF In(s, r) THEN 1 ELSE 0
<1>1. DOMAIN s = 1..Len(s)
  OBVIOUS
<1> DEFINE P == {i \in DOMAIN s : s[i] = r}
<1>2. \A i, j \in P : i = j
  BY <1>1 DEF Once
<1>3. P # {} <=> In(s, r)
  BY <1>1 DEF In
<1> QED  BY <1>2, <1>3, OneOrNone

\* Every open request is on the one list it belongs on, once, or in the hand of
\* the queue's thread, through every turn of both loops of run() (1011-1079).
THEOREM NoneIsLost == Spec => []NoRequestLost
<1>1. IInv => NoRequestLost
  <2> SUFFICES ASSUME IInv, NEW r \in Requesters
               PROVE  /\ Cardinality({i \in DOMAIN pendingLock : pendingLock[i] = r})
                            + (IF hand = r /\ rpc[r] \in {"asked", "wait"} THEN 1 ELSE 0)
                            = IF rpc[r] \in {"asked", "wait"} THEN 1 ELSE 0
                      /\ Cardinality({i \in DOMAIN pendingRelease : pendingRelease[i] = r})
                            + (IF hand = r /\ rpc[r] \in {"told", "rwait"} THEN 1 ELSE 0)
                            = IF rpc[r] \in {"told", "rwait"} THEN 1 ELSE 0
    BY DEF NoRequestLost
  <2>1. PlaceOf(r) /\ Types
    BY TypesHold DEF IInv, PlaceInv
  <2>2. /\ Cardinality({i \in DOMAIN pendingLock : pendingLock[i] = r})
              = IF In(pendingLock, r) THEN 1 ELSE 0
        /\ Cardinality({i \in DOMAIN pendingRelease : pendingRelease[i] = r})
              = IF In(pendingRelease, r) THEN 1 ELSE 0
    BY <2>1, PlacesIn DEF PlaceOf, Types
  <2> QED  BY <2>1, <2>2 DEF PlaceOf
<1> QED  BY <1>1, Invariance, PTL

-----------------------------------------------------------------------------
(* The order of the grants                                                 *)

\* The loop over pendingLock is in progress, a turn of it included.
Scanning == qpc = "scan" \/ (qpc \in {"marking", "telling"} /\ rpc[hand] \in {"asked", "wait"})

\* A request for Own that was put back in this round was put back because Own is
\* held, and nobody but the queue's thread unlocks it, before the next round.
TurnInv ==
    /\ ~Scanning => left = 0
    /\ Scanning => \A i \in 1..Len(pendingLock) :
          i > left /\ target[pendingLock[i]] = Own /\ waitForLock[pendingLock[i]] => mutex[Own] # None

\* s[i] is before s[j], when the last l turns are still to come.
Before(l, i, j) == (i > l /\ j <= l) \/ (i < j /\ (i > l <=> j > l))

\* Ahead and WaitsForOwn, with the domains of the list spelled out.
LEMMA AheadIs ==
    ASSUME pendingLock \in Seq(Requesters)
    PROVE  \A r, s \in Requesters :
              /\ Ahead(r, s) <=> \E i, j \in 1..Len(pendingLock) :
                    pendingLock[i] = r /\ pendingLock[j] = s /\ Before(left, i, j)
              /\ WaitsForOwn(r) <=> target[r] = Own /\ waitForLock[r] /\ In(pendingLock, r)
  BY DEF Ahead, WaitsForOwn, Before, In

\* The same after a step.
LEMMA AheadIsNext ==
    ASSUME pendingLock' \in Seq(Requesters)
    PROVE  \A r, s \in Requesters :
              /\ Ahead(r, s)' <=> \E i, j \in 1..Len(pendingLock') :
                    pendingLock'[i] = r /\ pendingLock'[j] = s /\ Before(left', i, j)
              /\ WaitsForOwn(r)' <=> target'[r] = Own /\ waitForLock'[r] /\ In(pendingLock', r)
<1>1. DOMAIN pendingLock' = 1..Len(pendingLock')
  OBVIOUS
<1> QED  BY <1>1 DEF Ahead, WaitsForOwn, Before, In

\* What a step does to the list, and to the requests in it.
Order(r, s) ==
    /\ WaitsForOwn(r) /\ WaitsForOwn(s) /\ Ahead(r, s) =>
          WaitsForOwn(s)' /\ (WaitsForOwn(r)' => Ahead(r, s)')
    /\ WaitsForOwn(r) /\ ~WaitsForOwn(s) /\ WaitsForOwn(s)' => WaitsForOwn(r)' /\ Ahead(r, s)'

\* The list stays, and so do the turns left, or a round begins.
LEMMA OrderFrame ==
    ASSUME Types, Types', pendingLock' = pendingLock,
           left' = left \/ (left = 0 /\ left' = Len(pendingLock)),
           \A r \in Requesters : In(pendingLock, r) => target'[r] = target[r] /\ waitForLock'[r] = waitForLock[r]
    PROVE  \A r, s \in Requesters : Order(r, s)
<1> SUFFICES ASSUME NEW r \in Requesters, NEW s \in Requesters PROVE Order(r, s)
  OBVIOUS
<1>1. /\ Ahead(r, s) <=> \E i, j \in 1..Len(pendingLock) :
            pendingLock[i] = r /\ pendingLock[j] = s /\ Before(left, i, j)
      /\ WaitsForOwn(r) <=> target[r] = Own /\ waitForLock[r] /\ In(pendingLock, r)
      /\ WaitsForOwn(s) <=> target[s] = Own /\ waitForLock[s] /\ In(pendingLock, s)
  BY AheadIs DEF Types
<1>2. /\ Ahead(r, s)' <=> \E i, j \in 1..Len(pendingLock') :
            pendingLock'[i] = r /\ pendingLock'[j] = s /\ Before(left', i, j)
      /\ WaitsForOwn(r)' <=> target'[r] = Own /\ waitForLock'[r] /\ In(pendingLock', r)
      /\ WaitsForOwn(s)' <=> target'[s] = Own /\ waitForLock'[s] /\ In(pendingLock', s)
  <2>1. pendingLock' \in Seq(Requesters)
    BY DEF Types
  <2> QED  BY <2>1, AheadIsNext
<1>3. Ahead(r, s) => Ahead(r, s)'
  <2>1. \A i, j \in 1..Len(pendingLock) : Before(left, i, j) => Before(left', i, j)
    BY DEF Before, Types
  <2> QED  BY <1>1, <1>2, <2>1
<1> QED  BY <1>1, <1>2, <1>3 DEF Order

\* acquire(): the new request is behind all others.
LEMMA OrderAppend ==
    ASSUME Types, Types', NEW u \in Requesters, pendingLock' = Append(pendingLock, u),
           left = 0, left' = 0, ~In(pendingLock, u),
           \A r \in Requesters \ {u} : target'[r] = target[r] /\ waitForLock'[r] = waitForLock[r]
    PROVE  \A r, s \in Requesters : Order(r, s)
<1> SUFFICES ASSUME NEW r \in Requesters, NEW s \in Requesters PROVE Order(r, s)
  OBVIOUS
<1>0. pendingLock \in Seq(Requesters) /\ pendingLock' \in Seq(Requesters)
  BY DEF Types
<1>1. /\ Len(pendingLock) \in Nat /\ Len(pendingLock') = Len(pendingLock) + 1
      /\ pendingLock'[Len(pendingLock) + 1] = u
      /\ \A i \in 1..Len(pendingLock) : i \in 1..Len(pendingLock') /\ pendingLock'[i] = pendingLock[i]
      /\ \A i \in 1..Len(pendingLock') : i \in 1..Len(pendingLock) \/ i = Len(pendingLock) + 1
  BY <1>0
<1>2. /\ Ahead(r, s) <=> \E i, j \in 1..Len(pendingLock) :
            pendingLock[i] = r /\ pendingLock[j] = s /\ Before(left, i, j)
      /\ WaitsForOwn(r) <=> target[r] = Own /\ waitForLock[r] /\ In(pendingLock, r)
      /\ WaitsForOwn(s) <=> target[s] = Own /\ waitForLock[s] /\ In(pendingLock, s)
  BY <1>0, AheadIs
<1>3. /\ Ahead(r, s)' <=> \E i, j \in 1..Len(pendingLock') :
            pendingLock'[i] = r /\ pendingLock'[j] = s /\ Before(left', i, j)
      /\ WaitsForOwn(r)' <=> target'[r] = Own /\ waitForLock'[r] /\ In(pendingLock', r)
      /\ WaitsForOwn(s)' <=> target'[s] = Own /\ waitForLock'[s] /\ In(pendingLock', s)
  BY <1>0, AheadIsNext
<1>4. \A q \in Requesters : In(pendingLock', q) <=> In(pendingLock, q) \/ q = u
  BY <1>1 DEF In
<1>5. Ahead(r, s) => Ahead(r, s)'
  BY <1>1, <1>2, <1>3
<1>6. ASSUME WaitsForOwn(r), ~WaitsForOwn(s), WaitsForOwn(s)' PROVE WaitsForOwn(r)' /\ Ahead(r, s)'
  <2>1. In(pendingLock, r) /\ r # u
    BY <1>2, <1>6
  <2>2. s = u
    BY <1>2, <1>3, <1>4, <1>6
  <2>3. PICK i \in 1..Len(pendingLock) : pendingLock[i] = r
    BY <2>1 DEF In
  <2>4. /\ i \in 1..Len(pendingLock') /\ Len(pendingLock) + 1 \in 1..Len(pendingLock')
        /\ pendingLock'[i] = r /\ Before(left', i, Len(pendingLock) + 1)
    BY <1>1, <2>3 DEF Before
  <2>5. Ahead(r, s)'
    BY <1>1, <1>3, <2>2, <2>4
  <2> QED  BY <1>2, <1>3, <1>4, <1>6, <2>1, <2>5
<1>7. ASSUME WaitsForOwn(s) PROVE WaitsForOwn(s)'
  BY <1>2, <1>3, <1>4, <1>7
<1> QED  BY <1>5, <1>6, <1>7 DEF Order

\* Where the others are when the first leaves the list.
LEMMA Shifts ==
    ASSUME NEW s \in Seq(Requesters), s # <<>>, NEW l \in 1..Len(s)
    PROVE  \A i, j \in 2..Len(s) :
              /\ i - 1 \in 1..Len(Tail(s)) /\ Tail(s)[i - 1] = s[i]
              /\ Before(l, i, j) <=> Before(l - 1, i - 1, j - 1)
<1>1. /\ Len(s) \in Nat /\ Len(Tail(s)) = Len(s) - 1
      /\ \A i \in 1..(Len(s) - 1) : Tail(s)[i] = s[i + 1]
  BY HeadOf
<1> SUFFICES ASSUME NEW i \in 2..Len(s), NEW j \in 2..Len(s)
             PROVE  /\ i - 1 \in 1..Len(Tail(s)) /\ Tail(s)[i - 1] = s[i]
                    /\ Before(l, i, j) <=> Before(l - 1, i - 1, j - 1)
  OBVIOUS
<1>2. i - 1 \in 1..(Len(s) - 1) /\ (i - 1) + 1 = i
  BY <1>1
<1>3. Before(l, i, j) <=> Before(l - 1, i - 1, j - 1)
  BY <1>1 DEF Before
<1> QED  BY <1>1, <1>2, <1>3

\* A turn of the loop that puts the request back changes no order.
LEMMA OrderRotates ==
    ASSUME Types, Types', PlaceInv, pendingLock # <<>>, left > 0, left' = left - 1,
           pendingLock' = Append(Tail(pendingLock), Head(pendingLock)),
           UNCHANGED <<target, waitForLock>>
    PROVE  \A r, s \in Requesters : Order(r, s)
<1> SUFFICES ASSUME NEW r \in Requesters, NEW s \in Requesters PROVE Order(r, s)
  OBVIOUS
<1>0. pendingLock \in Seq(Requesters) /\ pendingLock' \in Seq(Requesters) /\ left \in 1..Len(pendingLock)
  BY DEF Types
<1> DEFINE n == Len(pendingLock)
<1>1. /\ n \in Nat /\ n >= 1 /\ Len(pendingLock') = n /\ Len(Tail(pendingLock)) = n - 1
      /\ Tail(pendingLock) \in Seq(Requesters)
      /\ Head(pendingLock) = pendingLock[1] /\ Head(pendingLock) \in Requesters
  BY <1>0, HeadOf
<1>2. /\ pendingLock'[n] = pendingLock[1] /\ n \in 1..n
      /\ \A i \in 1..(n - 1) : pendingLock'[i] = Tail(pendingLock)[i]
  BY <1>1
<1>3. \A i, j \in 2..n : /\ i - 1 \in 1..(n - 1) /\ i - 1 \in 1..n /\ pendingLock'[i - 1] = pendingLock[i]
                         /\ Before(left, i, j) <=> Before(left', i - 1, j - 1)
  BY <1>0, <1>1, <1>2, Shifts
<1>4. /\ Ahead(r, s) <=> \E i, j \in 1..n :
            pendingLock[i] = r /\ pendingLock[j] = s /\ Before(left, i, j)
      /\ WaitsForOwn(r) <=> target[r] = Own /\ waitForLock[r] /\ In(pendingLock, r)
      /\ WaitsForOwn(s) <=> target[s] = Own /\ waitForLock[s] /\ In(pendingLock, s)
  BY <1>0, AheadIs
<1>5. /\ Ahead(r, s)' <=> \E i, j \in 1..n :
            pendingLock'[i] = r /\ pendingLock'[j] = s /\ Before(left', i, j)
      /\ WaitsForOwn(r)' <=> target[r] = Own /\ waitForLock[r] /\ In(pendingLock', r)
      /\ WaitsForOwn(s)' <=> target[s] = Own /\ waitForLock[s] /\ In(pendingLock', s)
  <2>1. /\ Ahead(r, s)' <=> \E i, j \in 1..Len(pendingLock') :
              pendingLock'[i] = r /\ pendingLock'[j] = s /\ Before(left', i, j)
        /\ WaitsForOwn(r)' <=> target'[r] = Own /\ waitForLock'[r] /\ In(pendingLock', r)
        /\ WaitsForOwn(s)' <=> target'[s] = Own /\ waitForLock'[s] /\ In(pendingLock', s)
    BY <1>0, AheadIsNext
  <2> QED  BY <1>1, <2>1
<1>6. \A q \in Requesters : In(pendingLock', q) <=> In(pendingLock, q)
  BY <1>0, Rotates DEF PlaceInv, PlaceOf
<1>7. ASSUME Ahead(r, s) PROVE Ahead(r, s)'
  <2>1. PICK i, j \in 1..n : pendingLock[i] = r /\ pendingLock[j] = s /\ Before(left, i, j)
    BY <1>4, <1>7
  <2> HIDE DEF n
  <2>2. CASE i = 1
    <3>1. j \in 2..n /\ j <= left
      BY <1>0, <1>1, <2>1, <2>2 DEF Before
    <3>2. j - 1 \in 1..n /\ pendingLock'[j - 1] = s /\ Before(left', n, j - 1)
      BY <1>0, <1>1, <1>3, <2>1, <3>1 DEF Before, n
    <3> QED  BY <1>2, <1>5, <2>1, <2>2, <3>2
  <2>3. CASE j = 1
    <3>1. i \in 2..n /\ i > left
      BY <1>0, <1>1, <2>1, <2>3 DEF Before
    <3>2. i - 1 \in 1..n /\ pendingLock'[i - 1] = r /\ Before(left', i - 1, n)
      BY <1>0, <1>1, <1>3, <2>1, <3>1 DEF Before, n
    <3> QED  BY <1>2, <1>5, <2>1, <2>3, <3>2
  <2>4. CASE i # 1 /\ j # 1
    <3>1. i \in 2..n /\ j \in 2..n
      BY <1>1, <2>4
    <3> QED  BY <1>3, <1>5, <2>1, <3>1
  <2> QED  BY <2>2, <2>3, <2>4
<1> QED  BY <1>4, <1>5, <1>6, <1>7 DEF Order

\* One that takes it out keeps the order of the others, if nobody waits for Own in
\* front of it or it does not itself.
LEMMA OrderShrinks ==
    ASSUME Types, Types', PlaceInv, pendingLock # <<>>, left > 0, left' = left - 1,
           pendingLock' = Tail(pendingLock), UNCHANGED <<target, waitForLock>>,
           WaitsForOwn(Head(pendingLock)) =>
              \A i \in 1..Len(pendingLock) :
                 i > left => ~(target[pendingLock[i]] = Own /\ waitForLock[pendingLock[i]])
    PROVE  \A r, s \in Requesters : Order(r, s)
<1> SUFFICES ASSUME NEW r \in Requesters, NEW s \in Requesters PROVE Order(r, s)
  OBVIOUS
<1>0. pendingLock \in Seq(Requesters) /\ pendingLock' \in Seq(Requesters) /\ left \in 1..Len(pendingLock)
  BY DEF Types
<1> DEFINE n == Len(pendingLock)
<1>1. /\ n \in Nat /\ n >= 1 /\ Len(pendingLock') = n - 1
      /\ Head(pendingLock) = pendingLock[1] /\ Head(pendingLock) \in Requesters /\ 1 \in 1..n
  BY <1>0, HeadOf
<1>2. \A i, j \in 2..n : /\ i - 1 \in 1..(n - 1) /\ pendingLock'[i - 1] = pendingLock[i]
                         /\ Before(left, i, j) <=> Before(left', i - 1, j - 1)
  BY <1>0, <1>1, Shifts
<1>3. /\ Ahead(r, s) <=> \E i, j \in 1..n :
            pendingLock[i] = r /\ pendingLock[j] = s /\ Before(left, i, j)
      /\ WaitsForOwn(r) <=> target[r] = Own /\ waitForLock[r] /\ In(pendingLock, r)
      /\ WaitsForOwn(s) <=> target[s] = Own /\ waitForLock[s] /\ In(pendingLock, s)
  BY <1>0, AheadIs
<1>4. /\ Ahead(r, s)' <=> \E i, j \in 1..(n - 1) :
            pendingLock'[i] = r /\ pendingLock'[j] = s /\ Before(left', i, j)
      /\ WaitsForOwn(r)' <=> target[r] = Own /\ waitForLock[r] /\ In(pendingLock', r)
      /\ WaitsForOwn(s)' <=> target[s] = Own /\ waitForLock[s] /\ In(pendingLock', s)
  <2>1. /\ Ahead(r, s)' <=> \E i, j \in 1..Len(pendingLock') :
              pendingLock'[i] = r /\ pendingLock'[j] = s /\ Before(left', i, j)
        /\ WaitsForOwn(r)' <=> target'[r] = Own /\ waitForLock'[r] /\ In(pendingLock', r)
        /\ WaitsForOwn(s)' <=> target'[s] = Own /\ waitForLock'[s] /\ In(pendingLock', s)
    BY <1>0, AheadIsNext
  <2> QED  BY <1>1, <2>1
<1>5. \A q \in Requesters : /\ Once(pendingLock, q)
                            /\ In(pendingLock', q) <=> In(pendingLock, q) /\ q # Head(pendingLock)
  BY <1>0, Shrinks DEF PlaceInv, PlaceOf
<1>6. ASSUME WaitsForOwn(r), WaitsForOwn(s), Ahead(r, s)
      PROVE  WaitsForOwn(s)' /\ (WaitsForOwn(r)' => Ahead(r, s)')
  <2>1. PICK i, j \in 1..n : pendingLock[i] = r /\ pendingLock[j] = s /\ Before(left, i, j)
    BY <1>3, <1>6
  <2> HIDE DEF n
  <2>2. s # Head(pendingLock)
    <3> SUFFICES ASSUME s = Head(pendingLock) PROVE FALSE
      OBVIOUS
    <3>1. j = 1
      BY <1>1, <1>5, <2>1 DEF Once, n
    <3>2. i > left
      BY <1>0, <1>1, <2>1, <3>1 DEF Before
    <3> QED  BY <1>3, <1>6, <2>1, <3>2 DEF n
  <2>3. WaitsForOwn(s)'
    BY <1>3, <1>4, <1>5, <1>6, <2>2
  <2>4. ASSUME WaitsForOwn(r)' PROVE Ahead(r, s)'
    <3>1. r # Head(pendingLock)
      BY <1>4, <1>5, <2>4
    <3>2. i \in 2..n /\ j \in 2..n
      BY <1>1, <2>1, <2>2, <3>1
    <3> QED  BY <1>2, <1>4, <2>1, <3>2
  <2> QED  BY <2>3, <2>4
<1> QED  BY <1>3, <1>4, <1>5, <1>6 DEF Order

\* A step that leaves the list and the turns, and Own locked if it is.
LEMMA TurnFrame ==
    ASSUME Types, Types', TurnInv, pendingLock' = pendingLock, left' = left,
           Scanning' => Scanning, Scanning \/ left = 0,
           ~Scanning' => left = 0, mutex[Own] # None => mutex'[Own] # None,
           \A r \in Requesters : In(pendingLock, r) => target'[r] = target[r] /\ waitForLock'[r] = waitForLock[r]
    PROVE  TurnInv' /\ \A r, s \in Requesters : Order(r, s)
<1>1. ASSUME Scanning', NEW i \in 1..Len(pendingLock),
             i > left, target'[pendingLock[i]] = Own, waitForLock'[pendingLock[i]]
      PROVE  mutex'[Own] # None
  <2>1. pendingLock[i] \in Requesters /\ In(pendingLock, pendingLock[i])
    BY DEF Types, In
  <2> QED  BY <1>1, <2>1 DEF TurnInv
<1>2. TurnInv'
  BY <1>1 DEF TurnInv
<1> QED  BY <1>2, OrderFrame

LEMMA TypesAfter == IInv' => Types'
<1>1. IInv => Types
  BY TypesHold DEF IInv
<1> QED  BY <1>1, PTL

LEMMA TurnOfDirect ==
    ASSUME IInv, IInv', TurnInv, NEW d \in Direct, DirectStep(d)
    PROVE  TurnInv' /\ \A r, s \in Requesters : Order(r, s)
<1>1. Types /\ Types' /\ UNCHANGED <<requestVars, queueVars>>
  BY TypesHold, TypesAfter DEF IInv, DirectStep
<1>2. mutex'[Own] = mutex[Own]
  BY <1>1, Names DEF DirectStep, DirectLock, DirectTryLock, DirectTimedLock, DirectMark, DirectUnmark,
                     DirectUnlock, DirectResume, Take, Types
<1>3. Scanning' <=> Scanning
  BY <1>1 DEF Scanning, requestVars, queueVars
<1> QED  BY <1>1, <1>2, <1>3, TurnFrame DEF TurnInv, requestVars, queueVars

LEMMA TurnOfRequester ==
    ASSUME IInv, IInv', TurnInv, NEW u \in Requesters, Requester(u)
    PROVE  TurnInv' /\ \A r, s \in Requesters : Order(r, s)
<1>0. Types /\ Types' /\ PlaceInv /\ HandInv /\ mutex' = mutex
  BY TypesHold, TypesAfter DEF IInv, Requester, syncVars
<1>1. QueueFree /\ qpc' = QueueNotified => ~Scanning /\ ~Scanning' /\ left = 0
  BY DEF QueueFree, QueueNotified, Scanning, TurnInv
<1>2. CASE Acquire(u)
  <2>1. /\ left = 0 /\ left' = left /\ ~Scanning' /\ pendingLock' = Append(pendingLock, u) /\ rpc[u] = "out"
        /\ \A r \in Requesters \ {u} : target'[r] = target[r] /\ waitForLock'[r] = waitForLock[r]
    BY <1>0, <1>1, <1>2 DEF Acquire, Enqueue, Types
  <2>2. ~In(pendingLock, u)
    BY <1>0, <2>1 DEF PlaceInv, PlaceOf
  <2>3. \A r, s \in Requesters : Order(r, s)
    BY <1>0, <2>1, <2>2, OrderAppend
  <2> QED  BY <2>1, <2>3 DEF TurnInv
<1>3. CASE Release(u)
  <2>1. UNCHANGED <<pendingLock, left, target, waitForLock>> /\ left = 0 /\ ~Scanning' /\ ~Scanning
    BY <1>1, <1>3 DEF Release
  <2> QED  BY <1>0, <2>1, TurnFrame
<1>4. CASE RequesterWait(u)
  <2>1. UNCHANGED <<pendingLock, left, target, waitForLock, qpc, hand>>
    BY <1>4 DEF RequesterWait, queueVars
  <2>2. \A r \in Requesters : rpc[r] \in {"asked", "wait"} <=> rpc'[r] \in {"asked", "wait"}
    BY <1>0, <1>4 DEF RequesterWait, Types
  <2>3. qpc \in {"marking", "telling"} => hand \in Requesters
    BY <1>0 DEF HandInv, Types
  <2>4. Scanning' <=> Scanning
    BY <2>1, <2>2, <2>3 DEF Scanning
  <2> QED  BY <1>0, <2>1, <2>4, TurnFrame DEF TurnInv
<1> QED  BY <1>2, <1>3, <1>4 DEF Requester

\* One turn of the loop.
LEMMA TurnOfScan ==
    ASSUME IInv, IInv', TurnInv, QueueScan
    PROVE  TurnInv' /\ \A r, s \in Requesters : Order(r, s)
<1> DEFINE n == Len(pendingLock)
           h == Head(pendingLock)
<1>0. Types /\ Types' /\ PlaceInv /\ HandInv
  BY TypesHold, TypesAfter DEF IInv
<1>1. /\ qpc = "scan" /\ left > 0 /\ left' = left - 1 /\ UNCHANGED <<rpc, target, waitForLock>>
      /\ hand = None /\ pendingLock \in Seq(Requesters) /\ pendingLock' \in Seq(Requesters)
      /\ pendingLock # <<>> /\ left \in 1..n
  BY <1>0 DEF QueueScan, HandInv, Types
<1>2. /\ h \in Requesters /\ h = pendingLock[1] /\ In(pendingLock, h) /\ n \in Nat /\ n >= 1
      /\ Tail(pendingLock) \in Seq(Requesters) /\ Len(Tail(pendingLock)) = n - 1
      /\ \A i \in 1..(n - 1) : Tail(pendingLock)[i] = pendingLock[i + 1]
  BY <1>1, HeadOf
<1>3. rpc[h] \in {"asked", "wait"} /\ target[h] \in Targets
  BY <1>0, <1>2 DEF PlaceInv, PlaceOf, Types
<1>4. \A i \in 1..n : i > left /\ target[pendingLock[i]] = Own /\ waitForLock[pendingLock[i]] => mutex[Own] # None
  BY <1>1 DEF TurnInv, Scanning
<1>5. \/ /\ mutex[target[h]] = None /\ mutex' = [mutex EXCEPT ![target[h]] = Queue]
         /\ qpc' = "marking" /\ hand' = h /\ pendingLock' = Tail(pendingLock)
      \/ /\ ~waitForLock[h] /\ mutex' = mutex
         /\ qpc' = "telling" /\ hand' = h /\ pendingLock' = Tail(pendingLock)
      \/ /\ mutex[target[h]] # None /\ mutex' = mutex /\ qpc' = qpc
         /\ pendingLock' = Append(Tail(pendingLock), h)
  BY DEF QueueScan, Grantable, Retried
<1>6. mutex[Own] # None => mutex'[Own] # None
  BY <1>0, <1>3, <1>5, Names DEF Types
<1>7. CASE /\ qpc' \in {"marking", "telling"} /\ hand' = h /\ pendingLock' = Tail(pendingLock)
           /\ \/ mutex[target[h]] = None /\ mutex' = [mutex EXCEPT ![target[h]] = Queue]
              \/ ~waitForLock[h] /\ mutex' = mutex
  <2>1. WaitsForOwn(h) => mutex[Own] = None
    BY <1>7 DEF WaitsForOwn
  <2>2. \A r, s \in Requesters : Order(r, s)
    <3> HIDE DEF h, n
    <3>1. WaitsForOwn(h) => \A i \in 1..n : i > left => ~(target[pendingLock[i]] = Own /\ waitForLock[pendingLock[i]])
      BY <1>4, <2>1
    <3> QED  BY <1>0, <1>1, <1>7, <3>1, OrderShrinks DEF h, n
  <2>3. Scanning'
    <3>1. rpc'[hand'] \in {"asked", "wait"}
      BY <1>1, <1>3, <1>7
    <3> QED  BY <1>7, <3>1 DEF Scanning
  <2>4. ASSUME NEW i \in 1..Len(pendingLock'), i > left',
               target[pendingLock'[i]] = Own, waitForLock[pendingLock'[i]]
        PROVE  mutex'[Own] # None
    <3>1. i \in 1..(n - 1) /\ i + 1 \in 1..n /\ i + 1 > left /\ pendingLock'[i] = pendingLock[i + 1]
      BY <1>1, <1>2, <1>7, <2>4
    <3> QED  BY <1>4, <1>6, <2>4, <3>1
  <2> QED  BY <1>1, <2>2, <2>3, <2>4 DEF TurnInv
<1>8. CASE /\ mutex[target[h]] # None /\ mutex' = mutex /\ qpc' = qpc
           /\ pendingLock' = Append(Tail(pendingLock), h)
  <2>1. \A r, s \in Requesters : Order(r, s)
    BY <1>0, <1>1, <1>8, OrderRotates
  <2>2. Scanning'
    BY <1>1, <1>8 DEF Scanning
  <2>3. ASSUME NEW i \in 1..Len(pendingLock'), i > left',
               target[pendingLock'[i]] = Own, waitForLock[pendingLock'[i]]
        PROVE  mutex'[Own] # None
    <3>1. /\ Len(pendingLock') = n /\ pendingLock'[n] = h
          /\ \A k \in 1..(n - 1) : pendingLock'[k] = Tail(pendingLock)[k]
      BY <1>2, <1>8
    <3>2. CASE i = n
      BY <1>8, <2>3, <3>1, <3>2
    <3>3. CASE i # n
      <4>1. i \in 1..(n - 1) /\ i + 1 \in 1..n /\ i + 1 > left
        <5> HIDE DEF n
        <5> QED  BY <1>1, <1>2, <2>3, <3>1, <3>3
      <4>2. pendingLock'[i] = pendingLock[i + 1]
        BY <1>2, <3>1, <4>1
      <4> QED  BY <1>4, <1>6, <2>3, <4>1, <4>2
    <3> QED  BY <3>2, <3>3
  <2> QED  BY <1>1, <2>1, <2>2, <2>3 DEF TurnInv
<1> QED  BY <1>5, <1>7, <1>8

LEMMA TurnOfQueue ==
    ASSUME IInv, IInv', TurnInv, QueueStep
    PROVE  TurnInv' /\ \A r, s \in Requesters : Order(r, s)
<1>0. Types /\ Types' /\ PlaceInv /\ HandInv
  BY TypesHold, TypesAfter DEF IInv
<1>1. CASE QueueEnter \/ QueueTimeOut \/ QueueWait
  <2>1. UNCHANGED <<mutex, target, waitForLock, pendingLock, left>> /\ left = 0 /\ ~Scanning'
    BY <1>1 DEF QueueEnter, QueueTimeOut, QueueWait, TimedOut, Scanning, TurnInv, syncVars, requestVars
  <2> QED  BY <1>0, <2>1, TurnFrame
<1>2. CASE QueueDrain
  <2>1. ~Scanning /\ left = 0 /\ UNCHANGED <<mutex, target, waitForLock, pendingLock>>
    BY <1>2 DEF QueueDrain, Scanning, TurnInv, requestVars
  <2>2. CASE pendingRelease = <<>>
    <3>1. qpc' = "scan" /\ left' = Len(pendingLock)
      BY <1>2, <2>2 DEF QueueDrain, Turns
    <3>2. TurnInv'
      BY <1>0, <2>1, <3>1 DEF TurnInv, Scanning, Types
    <3> QED  BY <1>0, <2>1, <3>1, <3>2, OrderFrame
  <2>3. CASE pendingRelease # <<>>
    <3>1. qpc' = "unlocking" /\ left' = left
      BY <1>2, <2>3 DEF QueueDrain
    <3>2. ~Scanning'
      BY <3>1 DEF Scanning
    <3> QED  BY <1>0, <2>1, <3>1, <3>2, TurnFrame
  <2> QED  BY <2>2, <2>3
<1>3. CASE QueueUnlock
  <2>1. /\ qpc = "unlocking" /\ qpc' = "telling" /\ rpc[hand] \in {"told", "rwait"}
        /\ UNCHANGED <<rpc, target, waitForLock, pendingLock, left, hand>>
    BY <1>0, <1>3 DEF QueueUnlock, HandInv, requestVars
  <2>2. ~Scanning /\ ~Scanning' /\ left = 0
    BY <2>1 DEF Scanning, TurnInv
  <2>3. \A r, s \in Requesters : Order(r, s)
    BY <1>0, <2>1, OrderFrame
  <2> QED  BY <2>1, <2>2, <2>3 DEF TurnInv
<1>4. CASE QueueMark
  <2>1. /\ qpc = "marking" /\ qpc' = "telling" /\ rpc[hand] \in {"asked", "wait"}
        /\ UNCHANGED <<mutex, rpc, target, waitForLock, pendingLock, left, hand>>
    BY <1>0, <1>4 DEF QueueMark, HandInv, requestVars
  <2>2. Scanning /\ Scanning'
    BY <2>1 DEF Scanning
  <2> QED  BY <1>0, <2>1, <2>2, TurnFrame
<1>5. CASE QueueTell
  <2>1. /\ qpc = "telling" /\ UNCHANGED <<mutex, pendingLock, left>>
        /\ \/ rpc[hand] = "rwait" /\ qpc' = "drain"
           \/ rpc[hand] = "wait" /\ qpc' = "scan"
        /\ \A r \in Requesters \ {hand} : target'[r] = target[r] /\ waitForLock'[r] = waitForLock[r]
    BY <1>0, <1>5 DEF QueueTell, Tell, Types, syncVars
  <2>2. \A r \in Requesters : In(pendingLock, r) => r # hand
    BY <1>0 DEF PlaceInv, PlaceOf
  <2>3. (Scanning' <=> Scanning) /\ (~Scanning => left = 0)
    BY <2>1 DEF Scanning, TurnInv
  <2> QED  BY <1>0, <2>1, <2>2, <2>3, TurnFrame
<1> QED  BY <1>1, <1>2, <1>3, <1>4, <1>5, TurnOfScan DEF QueueStep

LEMMA TurnStep == IInv /\ IInv' /\ TurnInv /\ [Next]_vars => TurnInv' /\ \A r, s \in Requesters : Order(r, s)
<1> SUFFICES ASSUME IInv, IInv', TurnInv, [Next]_vars
             PROVE  TurnInv' /\ \A r, s \in Requesters : Order(r, s)
  OBVIOUS
<1>0. Types /\ Types'
  BY TypesHold, TypesAfter DEF IInv
<1>1. CASE Destructor
  <2>1. /\ UNCHANGED <<mutex, rpc, target, waitForLock, pendingLock, hand, left>>
        /\ qpc' = qpc \/ (QueueFree /\ qpc' = QueueNotified)
    BY <1>1 DEF Destructor, Close, CloseNotify, CloseJoin, syncVars, requestVars, queueVars
  <2>2. Scanning' <=> Scanning
    BY <2>1 DEF Scanning, QueueFree, QueueNotified
  <2> QED  BY <1>0, <2>1, <2>2, TurnFrame DEF TurnInv
<1>2. CASE UNCHANGED vars
  <2>1. UNCHANGED <<mutex, rpc, target, waitForLock, pendingLock, hand, left, qpc>>
    BY <1>2 DEF vars, syncVars, requestVars, queueVars
  <2>2. Scanning' <=> Scanning
    BY <2>1 DEF Scanning
  <2> QED  BY <1>0, <2>1, <2>2, TurnFrame DEF TurnInv
<1> QED  BY <1>1, <1>2, TurnOfDirect, TurnOfRequester, TurnOfQueue DEF Next, Quiescent

\* Requests for Own are granted in the order in which they were made, although every
\* round of run() moves the pending ones through the list (1026-1061).
THEOREM GrantsAreInOrder == Spec => GrantOrder
<1>1. Init => TurnInv
  BY DEF Init, TurnInv, Scanning
<1>2. IInv /\ IInv' /\ TurnInv /\ [Next]_vars => TurnInv'
  BY TurnStep
<1>3. IInv /\ IInv' /\ TurnInv /\ [Next]_vars =>
         [\A r, s \in Requesters :
             /\ WaitsForOwn(r) /\ WaitsForOwn(s) /\ Ahead(r, s) =>
                   WaitsForOwn(s)' /\ (WaitsForOwn(r)' => Ahead(r, s)')
             /\ WaitsForOwn(r) /\ ~WaitsForOwn(s) /\ WaitsForOwn(s)' =>
                   WaitsForOwn(r)' /\ Ahead(r, s)']_vars
  BY TurnStep DEF Order
<1> QED  BY <1>1, <1>2, <1>3, Invariance, PTL DEF Spec, GrantOrder
=============================================================================
