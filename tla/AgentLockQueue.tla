--------------------------- MODULE AgentLockQueue ---------------------------
(***************************************************************************)
(* LockQueue, LockRequest and Synchronized of AGENT++ (src/threads.cpp,    *)
(* 140-502 and 970-1103).  Requesters let the queue's thread lock and       *)
(* unlock targets for them; other threads lock the target Shared directly. *)
(*                                                                         *)
(* A requester holds the lock of its LockRequest from the constructor on,  *)
(* except in wait(), so the queue can answer it only there.  isLocked is   *)
(* written before or after the mutex operation, in a step of its own.      *)
(***************************************************************************)
EXTENDS Naturals, Sequences, FiniteSets

CONSTANTS
    MaxRequests, \* bound: the LockRequests that are made
    Direct,      \* the threads that use the Synchronized Shared itself
    Shared, Own, \* two targets; Own is locked through the queue only
    Queue,       \* the queue's thread, as owner of a mutex
    MaxCalls,    \* bound: the calls of the direct threads together
    None

ASSUME LockQueueAssumption ==
    /\ MaxRequests \in Nat /\ MaxCalls \in Nat
    /\ Shared # Own /\ Queue \notin Direct /\ None \notin Nat \cup Direct \cup {Queue}

Targets == {Shared, Own}
Requesters == 1..MaxRequests \* each thread with its LockRequest, in the order they are made

VARIABLES
    mutex,          \* [Targets -> Direct \cup {Queue, None}]: who holds the mutex
    isLocked,       \* [Targets -> BOOLEAN]: Synchronized::isLocked
    asserts,        \* every assert() of trylock() held so far
    dpc,            \* [Direct -> DirectStates]
    calls,          \* calls of direct threads (counts the bound)
    rpc,            \* [Requesters -> RequesterStates]
    target,         \* [Requesters -> Targets]: LockRequest::target
    waitForLock,    \* [Requesters -> BOOLEAN]
    tryLockResult,  \* [Requesters -> BOOLEAN]: is it LOCKED
    pendingLock, pendingRelease, \* Seq(Requesters)
    go,             \* LockQueue::go
    qpc,            \* where the queue's thread is; it has the queue's lock
                    \* except in "enter", "waiting" and "ended"
    hand,           \* the request it works at, or None
    left,           \* the turns left in the loop over pendingLock
    closing         \* how far ~LockQueue() is

syncVars == <<mutex, isLocked, asserts>>
directVars == <<dpc, calls>>
requestVars == <<rpc, target, waitForLock, tryLockResult>>
queueVars == <<pendingLock, pendingRelease, go, qpc, hand, left>>
vars == <<syncVars, directVars, requestVars, queueVars, closing>>

DirectStates == {"out", "polling", "marking", "in", "unlocking", "parting", "sleeping"}
RequesterStates == {"out", "asked", "wait", "held", "told", "rwait", "done"}
QueueStates == {"enter", "drain", "unlocking", "scan", "marking", "telling", "waiting", "ended"}

QueueFree == qpc \in {"enter", "waiting", "ended"}

-----------------------------------------------------------------------------
Init ==
    /\ mutex = [x \in Targets |-> None] /\ isLocked = [x \in Targets |-> FALSE]
    /\ asserts = TRUE
    /\ dpc = [d \in Direct |-> "out"] /\ calls = 0
    /\ rpc = [r \in Requesters |-> "out"]
    /\ target = [r \in Requesters |-> Own] /\ waitForLock = [r \in Requesters |-> TRUE]
    /\ tryLockResult = [r \in Requesters |-> FALSE]
    /\ pendingLock = <<>> /\ pendingRelease = <<>> /\ go = TRUE
    /\ qpc = "enter" /\ hand = None /\ left = 0 /\ closing = "no"

-----------------------------------------------------------------------------
(* Synchronized, used directly by d.                                       *)

\* lock(), lock(timeout), trylock() and the end of wait() take the mutex if it
\* is free; isLocked is set in the next step.
Take(d) ==
    /\ mutex[Shared] = None
    /\ mutex' = [mutex EXCEPT ![Shared] = d]
    /\ dpc' = [dpc EXCEPT ![d] = "marking"]

Call == calls < MaxCalls /\ calls' = calls + 1

DirectLock(d) ==
    /\ dpc[d] = "out" /\ Call /\ Take(d)
    /\ UNCHANGED <<isLocked, asserts>>

\* trylock(): LOCKED asserts ~isLocked, BUSY asserts isLocked.
DirectTryLock(d) ==
    /\ dpc[d] = "out" /\ Call
    /\ asserts' = (asserts /\ isLocked[Shared] = (mutex[Shared] # None))
    /\ IF mutex[Shared] = None THEN Take(d) ELSE UNCHANGED <<mutex, dpc>>
    /\ UNCHANGED isLocked

\* lock(timeout): trylock every 10 ms, until it has the mutex or gives up.
DirectTimedLock(d) ==
    /\ \/ dpc[d] = "out" /\ Call /\ dpc' = [dpc EXCEPT ![d] = "polling"] /\ UNCHANGED mutex
       \/ dpc[d] = "polling" /\ Take(d) /\ UNCHANGED calls
       \/ /\ dpc[d] = "polling" /\ mutex[Shared] # None
          /\ dpc' = [dpc EXCEPT ![d] = "out"] /\ UNCHANGED <<mutex, calls>>
    /\ UNCHANGED <<isLocked, asserts>>

Marked_never == isLocked \* mutant: lock() forgets the flag
Marked == [isLocked EXCEPT ![Shared] = TRUE]

DirectMark(d) ==
    /\ dpc[d] = "marking"
    /\ isLocked' = Marked
    /\ dpc' = [dpc EXCEPT ![d] = "in"]
    /\ UNCHANGED <<mutex, asserts, calls>>

\* unlock() and wait() clear isLocked while they still have the mutex.
DirectUnmark(d) ==
    /\ dpc[d] = "in"
    /\ isLocked' = [isLocked EXCEPT ![Shared] = FALSE]
    /\ \/ dpc' = [dpc EXCEPT ![d] = "unlocking"] /\ UNCHANGED calls
       \/ dpc' = [dpc EXCEPT ![d] = "parting"] /\ Call
    /\ UNCHANGED <<mutex, asserts>>

DirectUnlock(d) ==
    /\ dpc[d] \in {"unlocking", "parting"}
    /\ mutex' = [mutex EXCEPT ![Shared] = None]
    /\ dpc' = [dpc EXCEPT ![d] = IF @ = "parting" THEN "sleeping" ELSE "out"]
    /\ UNCHANGED <<isLocked, asserts, calls>>

\* The wait ends, by its timeout at the latest, when the mutex is free.
DirectResume(d) ==
    /\ dpc[d] = "sleeping" /\ Take(d)
    /\ UNCHANGED <<isLocked, asserts, calls>>

DirectStep(d) ==
    /\ DirectLock(d) \/ DirectTryLock(d) \/ DirectTimedLock(d) \/ DirectMark(d) \/ DirectUnmark(d)
          \/ DirectUnlock(d) \/ DirectResume(d)
    /\ UNCHANGED <<requestVars, queueVars, closing>>

-----------------------------------------------------------------------------
(* The requesters                                                          *)

\* notify() of the queue, by acquire(), release() and the destructor.
QueueNotified == IF qpc = "waiting" THEN "enter" ELSE qpc

Enqueue_lifo(s, r) == <<r>> \o s \* mutant: addFirst()
Enqueue(s, r) == Append(s, r)

\* A new LockRequest, for lock or trylock, and acquire(); no one comes to a dying
\* queue.
Acquire(r) ==
    /\ rpc[r] = "out" /\ \A q \in 1..(r - 1) : rpc[q] # "out"
    /\ closing = "no" /\ QueueFree
    /\ \E x \in Targets, w \in BOOLEAN :
          target' = [target EXCEPT ![r] = x] /\ waitForLock' = [waitForLock EXCEPT ![r] = w]
    /\ pendingLock' = Enqueue(pendingLock, r)
    /\ qpc' = QueueNotified
    /\ rpc' = [rpc EXCEPT ![r] = "asked"]
    /\ UNCHANGED <<tryLockResult, pendingRelease, go, hand, left>>

\* release(), by a requester that was told LOCKED.
Release(r) ==
    /\ rpc[r] = "held" /\ QueueFree
    /\ pendingRelease' = Append(pendingRelease, r)
    /\ qpc' = QueueNotified
    /\ rpc' = [rpc EXCEPT ![r] = "told"]
    /\ UNCHANGED <<target, waitForLock, tryLockResult, pendingLock, go, hand, left>>

\* wait() of the LockRequest, which gives up its lock.
RequesterWait(r) ==
    /\ \/ rpc[r] = "asked" /\ rpc' = [rpc EXCEPT ![r] = "wait"]
       \/ rpc[r] = "told" /\ rpc' = [rpc EXCEPT ![r] = "rwait"]
    /\ UNCHANGED <<target, waitForLock, tryLockResult, queueVars>>

Requester(r) ==
    /\ Acquire(r) \/ Release(r) \/ RequesterWait(r)
    /\ UNCHANGED <<syncVars, directVars, closing>>

-----------------------------------------------------------------------------
(* LockQueue::run()                                                        *)

Ending_early == ~go \* mutant: the loop looks at go only
Ending == pendingLock = <<>> /\ pendingRelease = <<>> /\ ~go

\* lock(), or the end of wait(), and the condition of the loop.
QueueEnter ==
    /\ qpc = "enter"
    /\ qpc' = IF Ending THEN "ended" ELSE "drain"
    /\ UNCHANGED <<syncVars, requestVars, pendingLock, pendingRelease, hand, left>>

Turns == Len(pendingLock)

\* All releases first: target->unlock() clears the flag, then unlocks.
QueueDrain ==
    /\ qpc = "drain"
    /\ IF pendingRelease = <<>>
         THEN /\ qpc' = "scan" /\ left' = Turns
              /\ UNCHANGED <<pendingRelease, hand, isLocked>>
         ELSE /\ hand' = Head(pendingRelease)
              /\ pendingRelease' = Tail(pendingRelease)
              /\ isLocked' = [isLocked EXCEPT ![target[Head(pendingRelease)]] = FALSE]
              /\ qpc' = "unlocking" /\ UNCHANGED left
    /\ UNCHANGED <<mutex, asserts, requestVars, pendingLock>>

QueueUnlock ==
    /\ qpc = "unlocking"
    /\ mutex' = [mutex EXCEPT ![target[hand]] = None]
    /\ qpc' = "telling"
    /\ UNCHANGED <<isLocked, asserts, requestVars, pendingLock, pendingRelease, hand, left>>

\* What is left of pendingLock when the first request was tried in vain.
Retried_dropped == Tail(pendingLock) \* mutant: the request is not put back
Retried == Append(Tail(pendingLock), Head(pendingLock))

\* pthread_mutex_trylock() of the queue's thread; EBUSY for its own mutex too.
Grantable_owned(x) == mutex[x] \in {None, Queue} \* mutant: OWNED taken for LOCKED
Grantable(x) == mutex[x] = None

\* One turn of the loop: trylock() the target of the first pending request.
QueueScan ==
    /\ qpc = "scan" /\ left > 0
    /\ LET r == Head(pendingLock)
           x == target[r]
       IN  /\ asserts' = (asserts /\ isLocked[x] = (mutex[x] # None))
           /\ \/ /\ Grantable(x)
                 /\ mutex' = [mutex EXCEPT ![x] = Queue]
                 /\ tryLockResult' = [tryLockResult EXCEPT ![r] = TRUE]
                 /\ qpc' = "marking" /\ hand' = r
                 /\ pendingLock' = Tail(pendingLock)
              \/ /\ ~Grantable(x) /\ ~waitForLock[r]
                 /\ qpc' = "telling" /\ hand' = r
                 /\ pendingLock' = Tail(pendingLock) /\ UNCHANGED <<mutex, tryLockResult>>
              \/ /\ ~Grantable(x) /\ waitForLock[r]
                 /\ pendingLock' = Retried
                 /\ UNCHANGED <<mutex, tryLockResult, qpc, hand>>
    /\ left' = left - 1
    /\ UNCHANGED <<isLocked, rpc, target, waitForLock, pendingRelease>>

QueueMark ==
    /\ qpc = "marking"
    /\ isLocked' = [isLocked EXCEPT ![target[hand]] = TRUE]
    /\ qpc' = "telling"
    /\ UNCHANGED <<mutex, asserts, requestVars, pendingLock, pendingRelease, hand, left>>

\* r->lock(), notify(), unlock(): r->lock() waits until the requester waits.  A
\* LockRequest that was answered for good is deleted, its fields do not matter.
Tell(r, answer) ==
    /\ rpc' = [rpc EXCEPT ![r] = answer]
    /\ IF answer = "done"
         THEN /\ target' = [target EXCEPT ![r] = Own]
              /\ waitForLock' = [waitForLock EXCEPT ![r] = TRUE]
              /\ tryLockResult' = [tryLockResult EXCEPT ![r] = FALSE]
         ELSE UNCHANGED <<target, waitForLock, tryLockResult>>

QueueTell ==
    /\ qpc = "telling"
    /\ \/ rpc[hand] = "rwait" /\ Tell(hand, "done") /\ qpc' = "drain"
       \/ /\ rpc[hand] = "wait" /\ qpc' = "scan"
          /\ Tell(hand, IF tryLockResult[hand] THEN "held" ELSE "done")
    /\ hand' = None
    /\ UNCHANGED <<syncVars, pendingLock, pendingRelease, left>>

\* wait(5000) behind the loop.
QueueWait ==
    /\ qpc = "scan" /\ left = 0 /\ qpc' = "waiting"
    /\ UNCHANGED <<syncVars, requestVars, pendingLock, pendingRelease, hand, left>>

\* A notified queue is back at "enter" already; this is the end of the 5 s.
TimedOut_never(q) == q \* mutant: wait() without a timeout
TimedOut(q) == "enter"

QueueTimeOut ==
    /\ qpc = "waiting" /\ qpc' = TimedOut(qpc)
    /\ UNCHANGED <<syncVars, requestVars, pendingLock, pendingRelease, hand, left>>

QueueStep ==
    /\ \/ QueueEnter \/ QueueDrain \/ QueueUnlock \/ QueueScan
       \/ QueueMark \/ QueueTell \/ QueueWait \/ QueueTimeOut
    /\ UNCHANGED <<directVars, go, closing>>

-----------------------------------------------------------------------------
(* ~LockQueue(): by the owner of the queue, who lets nobody come any more; *)
(* a release that was submitted may still be pending.                      *)

Close ==
    /\ closing = "no" /\ \A r \in Requesters : rpc[r] \in {"out", "told", "rwait", "done"}
    /\ go' = FALSE /\ closing' = "notify"
    /\ UNCHANGED <<pendingLock, pendingRelease, qpc, hand, left>>

CloseNotify ==
    /\ closing = "notify" /\ QueueFree
    /\ qpc' = QueueNotified /\ closing' = "join"
    /\ UNCHANGED <<pendingLock, pendingRelease, go, hand, left>>

CloseJoin ==
    /\ closing = "join" /\ qpc = "ended"
    /\ closing' = "gone"
    /\ UNCHANGED queueVars

Destructor ==
    /\ Close \/ CloseNotify \/ CloseJoin
    /\ UNCHANGED <<syncVars, directVars, requestVars>>

-----------------------------------------------------------------------------
\* What is left when nothing can happen any more.
Quiescent ==
    /\ closing = "gone" /\ dpc = [d \in Direct |-> "out"]
    /\ UNCHANGED vars

Next ==
    \/ \E d \in Direct : DirectStep(d)
    \/ \E r \in Requesters : Requester(r)
    \/ QueueStep \/ Destructor \/ Quiescent

\* The kernel runs every thread and ends every timed wait; a direct thread
\* leaves the monitor, a requester releases what it holds, and the queue's lock
\* and the mutex of a polled target are got if they are free again and again.
Fairness ==
    /\ WF_vars(QueueStep)
    /\ SF_vars((CloseNotify \/ CloseJoin) /\ Destructor)
    /\ WF_vars(\E d \in Direct : (DirectMark(d) \/ DirectUnmark(d) \/ DirectUnlock(d)) /\ DirectStep(d))
    /\ SF_vars(\E d \in Direct : DirectResume(d) /\ DirectStep(d))
    /\ WF_vars(\E r \in Requesters : RequesterWait(r) /\ Requester(r))
    /\ SF_vars(\E r \in Requesters : Release(r) /\ Requester(r))

Spec == Init /\ [][Next]_vars /\ Fairness

-----------------------------------------------------------------------------
(* Properties                                                              *)

\* Every variable has its type.
TypeOK ==
    /\ mutex \in [Targets -> Direct \cup {Queue, None}] /\ isLocked \in [Targets -> BOOLEAN]
    /\ asserts \in BOOLEAN
    /\ dpc \in [Direct -> DirectStates] /\ calls \in 0..MaxCalls
    /\ rpc \in [Requesters -> RequesterStates] /\ target \in [Requesters -> Targets]
    /\ waitForLock \in [Requesters -> BOOLEAN] /\ tryLockResult \in [Requesters -> BOOLEAN]
    /\ pendingLock \in Seq(Requesters) /\ pendingRelease \in Seq(Requesters)
    /\ go \in BOOLEAN /\ qpc \in QueueStates /\ hand \in Requesters \cup {None}
    /\ left \in 0..Len(pendingLock) /\ closing \in {"no", "notify", "join", "gone"}

\* A mutex that the queue's thread holds was granted to exactly one request that
\* has not been released yet: requests of many threads share one owner thread, so
\* the mutex itself cannot tell them apart.
HeldForOne ==
    \A x \in Targets :
       LET holders == {r \in Requesters :
                          /\ target[r] = x /\ tryLockResult[r]
                          /\ ~(rpc[r] \in {"told", "rwait"} /\ hand = r /\ qpc = "telling")}
       IN  Cardinality(holders) = IF mutex[x] = Queue THEN 1 ELSE 0

\* A request that waits for an answer is in exactly one of the two lists or in
\* the hand of the queue's thread, so that an answer will come, and the lists
\* name nobody whose LockRequest may be gone.
NoRequestLost ==
    \A r \in Requesters :
       LET places(s) == Cardinality({i \in DOMAIN s : s[i] = r})
       IN  /\ places(pendingLock) + (IF hand = r /\ rpc[r] \in {"asked", "wait"} THEN 1 ELSE 0)
                 = IF rpc[r] \in {"asked", "wait"} THEN 1 ELSE 0
           /\ places(pendingRelease) + (IF hand = r /\ rpc[r] \in {"told", "rwait"} THEN 1 ELSE 0)
                 = IF rpc[r] \in {"told", "rwait"} THEN 1 ELSE 0

\* When no thread is between the mutex operation and its flag, isLocked says
\* whether the mutex is held: lock(), wait(), unlock() and the queue keep the
\* two in step although no lock covers both.
FlagSettles ==
    \A x \in Targets :
       \/ \E d \in Direct : x = Shared /\ dpc[d] \in {"marking", "unlocking", "parting"}
       \/ qpc \in {"marking", "unlocking"} /\ target[hand] = x
       \/ isLocked[x] = (mutex[x] # None)

\* The types, and the three records of one lock in accord: the mutex, isLocked,
\* and what the requesters were told.
Consistent == TypeOK /\ HeldForOne /\ FlagSettles

\* trylock() finds isLocked as its assertions say (threads.cpp:441, 500).
AssertionsHold == asserts

\* A request is pending that waits for Own, which only the queue locks.
WaitsForOwn(r) ==
    target[r] = Own /\ waitForLock[r] /\ \E i \in DOMAIN pendingLock : pendingLock[i] = r

\* r is before s in pendingLock, if the requests that run() has put back in this
\* round are counted where they were: in front of the `left` others.
Ahead(r, s) ==
    \E i, j \in DOMAIN pendingLock :
        /\ pendingLock[i] = r /\ pendingLock[j] = s
        /\ (i > left /\ j <= left) \/ (i < j /\ (i > left <=> j > left))

\* Requests that wait for Own leave pendingLock in the order of acquire(), although
\* run() puts a request that it has tried in vain behind the others (1026-1061):
\* none leaves while one is ahead of it, none gets ahead of another, and a new one
\* comes behind all of them.
GrantOrder ==
    [][\A r, s \in Requesters :
          /\ WaitsForOwn(r) /\ WaitsForOwn(s) /\ Ahead(r, s) =>
                WaitsForOwn(s)' /\ (WaitsForOwn(r)' => Ahead(r, s)')
          /\ WaitsForOwn(r) /\ ~WaitsForOwn(s) /\ WaitsForOwn(s)' =>
                WaitsForOwn(r)' /\ Ahead(r, s)']_vars

\* Every request is answered, with its release if it got the lock: the holders of
\* Own release it through the queue, and the queue finds out by itself that a
\* direct thread has left Shared, which nobody tells it.
\* (As MaxRequests are made, that is: from some time on none is open.)
Answered == <>[](\A r \in Requesters : rpc[r] \in {"out", "done"})

\* ~LockQueue() ends, with the releases answered that were submitted before it.
DestroyReturns ==
    (closing = "notify") ~> (closing = "gone" /\ \A r \in Requesters : rpc[r] \in {"out", "done"})

\* Neither a requester nor the destructor waits for ever (986-1103).
WorkEnds == Answered /\ DestroyReturns
=============================================================================
