------------------------- MODULE PosixSynchronized --------------------------
(***************************************************************************)
(* Synchronized of the POSIX variant (src/posix/threadpool.cpp, 64-384):   *)
(* an error checking mutex and a condition variable used by several        *)
(* threads, and the destructor that one of them may run meanwhile.         *)
(*                                                                         *)
(* A call that cannot block is one step.  A call that may block has the    *)
(* step that enters it and the step that returns.  Time is not modelled:   *)
(* a timed call that blocks may expire at any moment (the arithmetic of    *)
(* its deadline is in PosixDeadline).  The functions pthread_* behave as   *)
(* glibc's do for an error checking mutex: they are the external part.     *)
(*                                                                         *)
(* Definitions marked "Mutant" are wrong variants of the definition that   *)
(* follows them; no specification uses them (see README.md).               *)
(***************************************************************************)
EXTENDS Naturals, FiniteSets

CONSTANTS
    Threads,     \* the threads that use the object
    None,        \* no thread
    Retries,     \* AGENTPP_SYNCHRONIZED_UNLOCK_RETRIES, 10 in the code
    MayDestroy,  \* whether a thread may run the destructor
    MaxCalls     \* bound: calls other than unlock(), all threads together

ASSUME MonitorAssumption ==
    /\ None \notin Threads
    /\ Retries \in Nat
    /\ MayDestroy \in BOOLEAN
    /\ MaxCalls \in Nat

VARIABLES
    owner,      \* Threads \cup {None}: who holds the mutex
    destroyed,  \* BOOLEAN: pthread_mutex_destroy() has succeeded
    pc,         \* [Threads -> ThreadStates]
    holds,      \* [Threads -> BOOLEAN]: the thread's own calls told it that it is inside
    result,     \* [Threads -> Results]: what its last call returned
    errors,     \* Nat: the destructor's counter of failures
    quiet,      \* BOOLEAN: nobody used the object when the destructor began
    calls       \* 0..MaxCalls: the calls made

vars == <<owner, destroyed, pc, holds, result, errors, quiet, calls>>

dtorVars == <<destroyed, errors, quiet>>

(***************************************************************************)
(* "out"          in no call                                               *)
(* "locking"      blocked in pthread_mutex_lock                            *)
(* "timedlocking" blocked in pthread_mutex_timedlock                       *)
(* "waiting"      in pthread_cond_wait, the mutex given up                 *)
(* "timedwaiting" in pthread_cond_timedwait, the mutex given up            *)
(* "signalled"    awake, about to take the mutex again                     *)
(* "expired"      the same after a timeout                                 *)
(* the rest       the places of the destructor, and its two outcomes       *)
(***************************************************************************)
Blocked == {"locking", "timedlocking"}
Asleep  == {"waiting", "timedwaiting"}
Resuming == {"signalled", "expired"}
DtorStates == {"d_try", "d_timed", "d_unlock", "d_destroy", "d_cond"}
ThreadStates == {"out", "gone", "aborted"} \cup Blocked \cup Asleep
                \cup Resuming \cup DtorStates

Results == {"none", "true", "false", "threw", "LOCKED", "BUSY",
            "timeout", "notimeout"}

\* The destructor has begun: it is the last call anybody may make.
Dying == \E t \in Threads : pc[t] \in DtorStates

\* Its outcome: the memory is freed, or an exception left the destructor.
Over == \E t \in Threads : pc[t] \in {"gone", "aborted"}

\* A thread between two calls, as long as the object exists.
Ready(t) == pc[t] = "out" /\ ~Over

\* It may make a call other than unlock() of a locked mutex; these are counted.
MayCall(t) ==
    /\ Ready(t) /\ ~Dying
    /\ calls < MaxCalls
    /\ calls' = calls + 1

Init ==
    /\ owner = None
    /\ destroyed = FALSE
    /\ pc = [t \in Threads |-> "out"]
    /\ holds = [t \in Threads |-> FALSE]
    /\ result = [t \in Threads |-> "none"]
    /\ errors = 0
    /\ quiet = FALSE
    /\ calls = 0

\* A call of t returns r.
Return(t, r) ==
    /\ pc' = [pc EXCEPT ![t] = "out"]
    /\ result' = [result EXCEPT ![t] = r]

\* The mutex is taken by t, and the call that asked for it returns r.
Take(t, r) ==
    /\ owner = None /\ ~destroyed
    /\ owner' = t
    /\ holds' = [holds EXCEPT ![t] = TRUE]
    /\ Return(t, r)

-----------------------------------------------------------------------------
(* lock(), lock(timeout) and trylock().  The owner's second lock() throws,  *)
(* whichever of the two it is; its trylock() is told EBUSY like another's.  *)

CallLock(t, blocked) ==
    /\ MayCall(t)
    /\ UNCHANGED dtorVars
    /\ \/ Take(t, "true")
       \/ /\ owner = t
          /\ Return(t, "threw")
          /\ UNCHANGED <<owner, holds>>
       \/ /\ owner \notin {None, t}
          /\ pc' = [pc EXCEPT ![t] = blocked]
          /\ UNCHANGED <<owner, holds, result>>

Lock(t) == CallLock(t, "locking")

TimedLock(t) == CallLock(t, "timedlocking")

\* A blocked lock() gets the mutex.
Locked(t) ==
    /\ pc[t] \in Blocked /\ ~Over
    /\ Take(t, "true")
    /\ UNCHANGED <<dtorVars, calls>>

\* Mutant: the result of pthread_mutex_timedlock is not looked at.
LockExpires_ignored(t) ==
    /\ pc[t] = "timedlocking" /\ ~Over
    /\ Return(t, "true")
    /\ holds' = [holds EXCEPT ![t] = TRUE]
    /\ UNCHANGED <<owner, dtorVars, calls>>

\* ETIMEDOUT: lock(timeout) returns false.
LockExpires(t) ==
    /\ pc[t] = "timedlocking" /\ ~Over
    /\ Return(t, "false")
    /\ UNCHANGED <<owner, holds, dtorVars, calls>>

TryLock(t) ==
    /\ MayCall(t)
    /\ UNCHANGED dtorVars
    /\ \/ Take(t, "LOCKED")
       \/ /\ owner # None
          /\ Return(t, "BUSY")
          /\ UNCHANGED <<owner, holds>>

\* Mutant: the mutex stays locked.
Unlock_keeping(t) ==
    /\ Ready(t) /\ owner = t
    /\ Return(t, "true")
    /\ holds' = [holds EXCEPT ![t] = FALSE]
    /\ UNCHANGED <<owner, dtorVars, calls>>

\* unlock() of the thread inside.  It may still come when another thread runs
\* the destructor.
Unlock(t) ==
    /\ Ready(t) /\ owner = t
    /\ owner' = None
    /\ Return(t, "true")
    /\ holds' = [holds EXCEPT ![t] = FALSE]
    /\ UNCHANGED <<dtorVars, calls>>

\* unlock() of a thread that is not inside: EPERM, nothing changes.
UnlockOutside(t) ==
    /\ MayCall(t) /\ owner # t
    /\ Return(t, "false")
    /\ UNCHANGED <<owner, holds, dtorVars>>

-----------------------------------------------------------------------------
(* wait() and wait(timeout).                                               *)

\* The mutex is given up and the thread sleeps, in one atomic step.
Wait(t, asleep) ==
    /\ MayCall(t) /\ owner = t
    /\ owner' = None
    /\ pc' = [pc EXCEPT ![t] = asleep]
    /\ UNCHANGED <<holds, result, dtorVars>>

\* Without the mutex: EPERM, which both ignore; they return at once.
WaitOutside(t) ==
    /\ MayCall(t) /\ owner # t
    /\ Return(t, "notimeout")
    /\ UNCHANGED <<owner, holds, dtorVars>>

\* A signal or nothing at all (a spurious wakeup) ends the sleep.
Awake(woken) == [t \in Threads |-> IF t \in woken THEN "signalled" ELSE pc[t]]

Sleepers == {t \in Threads : pc[t] \in Asleep}

\* notify() wakes one sleeper, if there is one; it does not need the mutex.
Notify(t) ==
    /\ MayCall(t)
    /\ \/ \E u \in Sleepers : pc' = Awake({u})
       \/ Sleepers = {} /\ UNCHANGED pc
    /\ result' = [result EXCEPT ![t] = "none"]
    /\ UNCHANGED <<owner, holds, dtorVars>>

NotifyAll(t) ==
    /\ MayCall(t)
    /\ pc' = Awake(Sleepers)
    /\ result' = [result EXCEPT ![t] = "none"]
    /\ UNCHANGED <<owner, holds, dtorVars>>

SpuriousWakeup(t) ==
    /\ pc[t] \in Asleep /\ ~Over
    /\ pc' = Awake({t})
    /\ UNCHANGED <<owner, holds, result, dtorVars, calls>>

\* Mutant: a timeout returns without the mutex.
WaitExpires_unlocked(t) ==
    /\ pc[t] = "timedwaiting" /\ ~Over
    /\ Return(t, "timeout")
    /\ UNCHANGED <<owner, holds, dtorVars, calls>>

WaitExpires(t) ==
    /\ pc[t] = "timedwaiting" /\ ~Over
    /\ pc' = [pc EXCEPT ![t] = "expired"]
    /\ UNCHANGED <<owner, holds, result, dtorVars, calls>>

\* The mutex is taken again and the wait returns.
Resume(t) ==
    /\ pc[t] \in Resuming /\ ~Over
    /\ Take(t, IF pc[t] = "expired" THEN "timeout" ELSE "notimeout")
    /\ UNCHANGED <<dtorVars, calls>>

-----------------------------------------------------------------------------
(* ~Synchronized(), with NO_FAST_MUTEXES.                                  *)

\* A thread that was in a wait, or holds the mutex, is one of its users: it
\* makes pthread_mutex_destroy() fail.  A thread blocked in lock() is not.
Users == {t \in Threads : pc[t] \in Asleep \cup Resuming} \cup ({owner} \ {None})

CallDestroy(t) ==
    /\ MayDestroy /\ Ready(t) /\ ~Dying
    /\ pc' = [pc EXCEPT ![t] = "d_try"]
    /\ quiet' = (owner = None /\ \A u \in Threads : pc[u] = "out")
    /\ UNCHANGED <<owner, destroyed, holds, result, errors, calls>>

\* Mutant: the lock trylock took is kept, so the timed lock throws.
DestroyTry_locked(t) ==
    /\ pc[t] = "d_try"
    /\ owner = None
    /\ owner' = t
    /\ pc' = [pc EXCEPT ![t] = "aborted"]
    /\ UNCHANGED <<destroyed, errors, holds, result, quiet, calls>>

(***************************************************************************)
(* trylock, and unlock at once when it succeeds.  When it does not, unlock *)
(* tells the owner from the others: the owner leaves the loop with the     *)
(* mutex unlocked; another thread, after EPERM, wakes all and leaves it,   *)
(* too, as the loop goes on for EBUSY only.                                *)
(***************************************************************************)
DestroyTry(t) ==
    /\ pc[t] = "d_try"
    /\ \/ /\ owner = None
          /\ pc' = [pc EXCEPT ![t] = "d_timed"]
          /\ UNCHANGED <<owner, holds, errors>>
       \/ /\ owner = t
          /\ owner' = None
          /\ holds' = [holds EXCEPT ![t] = FALSE]
          /\ pc' = [pc EXCEPT ![t] = "d_cond"]
          /\ UNCHANGED errors
       \/ /\ owner \notin {None, t}
          /\ pc' = [Awake(Sleepers) EXCEPT ![t] = "d_cond"]
          /\ errors' = errors + 1
          /\ UNCHANGED <<owner, holds>>
    /\ UNCHANGED <<destroyed, result, quiet, calls>>

\* lock(10): it gets the mutex, or leaves the loop after the timeout.
DestroyLock(t) ==
    /\ pc[t] = "d_timed"
    /\ \/ /\ owner = None
          /\ owner' = t
          /\ pc' = [pc EXCEPT ![t] = "d_unlock"]
       \/ /\ owner # None
          /\ pc' = [pc EXCEPT ![t] = "d_cond"]
          /\ UNCHANGED owner
    /\ UNCHANGED <<dtorVars, holds, result, calls>>

DestroyUnlock(t) ==
    /\ pc[t] = "d_unlock"
    /\ owner' = None
    /\ pc' = [pc EXCEPT ![t] = "d_destroy"]
    /\ UNCHANGED <<dtorVars, holds, result, calls>>

\* Mutant: the loop gives up at its first failure.
DestroyMutex_impatient(t) ==
    /\ pc[t] = "d_destroy"
    /\ destroyed' = (Users = {})
    /\ errors' = IF Users = {} THEN errors ELSE errors + 1
    /\ pc' = [pc EXCEPT ![t] = IF Users = {} THEN "d_cond" ELSE "aborted"]
    /\ UNCHANGED <<owner, holds, result, quiet, calls>>

\* Mutant: the loop has no bound.
DestroyMutex_endless(t) ==
    /\ pc[t] = "d_destroy"
    /\ destroyed' = (Users = {})
    /\ pc' = [pc EXCEPT ![t] = IF Users = {} THEN "d_cond" ELSE "d_try"]
    /\ UNCHANGED <<owner, errors, holds, result, quiet, calls>>

\* pthread_mutex_destroy(): EBUSY is tried again, and thrown after the last try.
DestroyMutex(t) ==
    /\ pc[t] = "d_destroy"
    /\ \/ /\ Users = {}
          /\ destroyed' = TRUE
          /\ pc' = [pc EXCEPT ![t] = "d_cond"]
          /\ UNCHANGED errors
       \/ /\ Users # {}
          /\ errors' = errors + 1
          /\ pc' = [pc EXCEPT ![t] = IF errors' > Retries THEN "aborted" ELSE "d_try"]
          /\ UNCHANGED destroyed
    /\ UNCHANGED <<owner, holds, result, quiet, calls>>

\* pthread_cond_destroy() returns when nobody sleeps any more.
DestroyCond(t) ==
    /\ pc[t] = "d_cond"
    /\ Sleepers = {}
    /\ pc' = [pc EXCEPT ![t] = "gone"]
    /\ UNCHANGED <<owner, dtorVars, holds, result, calls>>

-----------------------------------------------------------------------------

Call(t) ==
    \/ Lock(t) \/ TimedLock(t) \/ TryLock(t) \/ UnlockOutside(t)
    \/ \E asleep \in Asleep : Wait(t, asleep)
    \/ WaitOutside(t) \/ Notify(t) \/ NotifyAll(t)

Destroy(t) ==
    \/ DestroyTry(t) \/ DestroyLock(t) \/ DestroyUnlock(t)
    \/ DestroyMutex(t) \/ DestroyCond(t)

Next ==
    \E t \in Threads :
        \/ Call(t) \/ Locked(t) \/ LockExpires(t) \/ Unlock(t)
        \/ SpuriousWakeup(t) \/ WaitExpires(t) \/ Resume(t)
        \/ CallDestroy(t) \/ Destroy(t)

Spec == Init /\ [][Next]_vars

(***************************************************************************)
(* A thread inside leaves in the end; the mutex goes to somebody who waits *)
(* for it when it is free; timeouts expire; the destructor goes on.        *)
(* Nobody has to call anything, and no sleeper has to be notified.         *)
(***************************************************************************)
Fairness ==
    \A t \in Threads :
        /\ WF_vars(Unlock(t))
        /\ WF_vars(Locked(t))
        /\ WF_vars(LockExpires(t))
        /\ WF_vars(WaitExpires(t))
        /\ WF_vars(Resume(t))
        /\ WF_vars(Destroy(t))

FairSpec == Spec /\ Fairness

-----------------------------------------------------------------------------

TypeOK ==
    /\ owner \in Threads \cup {None}
    /\ destroyed \in BOOLEAN
    /\ pc \in [Threads -> ThreadStates]
    /\ holds \in [Threads -> BOOLEAN]
    /\ result \in [Threads -> Results]
    /\ errors \in 0..(Retries + 1)
    /\ quiet \in BOOLEAN
    /\ calls \in 0..MaxCalls

\* A thread that was told that it is inside, by whatever sequence of lock(),
\* lock(timeout), trylock(), wait(), wait(timeout) and unlock(), owns the mutex
\* while it is in no call; so there is one at most, also after timeouts and
\* spurious wakeups.
MutualExclusion ==
    \A t \in Threads : pc[t] = "out" /\ holds[t] => owner = t

\* Nobody owns the mutex without knowing: an owner is a thread that was told so,
\* or the destructor between its two calls.  Otherwise nobody would unlock it.
NoForgottenLock ==
    owner # None => \/ holds[owner] /\ pc[owner] \in {"out", "d_try"}
                    \/ pc[owner] = "d_unlock"

\* The destructor of an object that nobody was using destroys the mutex: it
\* neither throws nor leaves the loop early.
QuietIsDestroyed ==
    quiet => \A t \in Threads :
                 /\ pc[t] = "gone" => destroyed
                 /\ pc[t] # "aborted"

\* An exception leaves the destructor only after Retries further tries, while a
\* thread is still inside or on its way out of a wait.
AbortsLate ==
    (\E t \in Threads : pc[t] = "aborted") => errors = Retries + 1 /\ Users # {}

\* The types, and how the destructor may end (90-161): its loop tells an unused
\* object from a used one by error codes alone.
Consistent == TypeOK /\ QuietIsDestroyed /\ AbortsLate

\* The abstract monitor: who is inside, and who sleeps.
Contract == INSTANCE Monitor WITH
    inside <- IF owner # None /\ pc[owner] = "out" THEN owner ELSE None,
    asleep <- {t \in Threads : pc[t] \in Asleep \cup Resuming}

ImplementsMonitor == Contract!Spec

\* A call that waits for the mutex or for a time returns, unless the object is
\* destroyed meanwhile.
CallsReturn ==
    \A t \in Threads :
        pc[t] \in Blocked \cup Resuming \cup {"timedwaiting"} ~> pc[t] = "out" \/ Over

\* The destructor leaves its loop, however long others stay inside or asleep, and
\* then ends, unless a thread sleeps in an untimed wait(): nobody notifies that
\* thread, and pthread_cond_destroy() waits for it.
DestructorEnds ==
    \A t \in Threads :
        /\ pc[t] = "d_try" ~> pc[t] \in {"d_cond", "aborted"}
        /\ pc[t] = "d_cond" /\ (\A u \in Threads : pc[u] # "waiting") ~> pc[t] = "gone"

\* No operation and no destructor stays where it is (90-385).
WorkEnds == CallsReturn /\ DestructorEnds
=============================================================================
