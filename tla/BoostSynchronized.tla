------------------------- MODULE BoostSynchronized --------------------------
(***************************************************************************)
(* The monitor of the boost variant (Synchronized, src/threadpool.cpp,     *)
(* 83-250): a boost::mutex with the thread that has locked it beside it in *)
(* tid_, and one flag `signal` for all threads that wait.                  *)
(*                                                                         *)
(* tid_ and the mutex are two variables, written in separate steps; tid_   *)
(* is t only if t wrote it, so the checks at the top of the calls read     *)
(* nothing that other threads can change.                                  *)
(***************************************************************************)
EXTENDS Naturals

CONSTANTS
    Threads,
    None,    \* no thread: boost::thread::id()
    MaxCalls \* bound: the calls that are made

VARIABLES
    mutex,    \* Threads \cup {None}: who has it
    tid,      \* tid_
    signal,
    at,       \* [Threads -> Places]
    timed,    \* SUBSET Threads: those whose wait has a timeout
    calls,    \* 0..MaxCalls
    notified, \* SUBSET Threads: woken by a notify and not back yet (of no code)
    asked     \* SUBSET Threads: a notify came during their wait (of no code)

vars == <<mutex, tid, signal, at, timed, calls, notified, asked>>
history == <<notified, asked>>

\* Between calls, without and with the lock: out, in.  lock(), lock(timeout): lock,
\* trying; the mutex is there and tid_ is not set: taken; tid_ is reset: leaving.
\* In cond.wait(), out of it but for the mutex, the same by timeout: sleep, woken,
\* expired.  The destructor: destroy, destroyed.
Places == {"out", "in", "lock", "trying", "taken", "leaving", "sleep", "woken", "expired",
           "destroy", "destroyed"}
Waiting(t) == at[t] \in {"sleep", "woken", "expired"}

Init ==
    /\ mutex = None /\ tid = None /\ signal = FALSE
    /\ at = [t \in Threads |-> "out"] /\ timed = {} /\ calls = 0
    /\ notified = {} /\ asked = {}

GoTo(t, p) == at' = [at EXCEPT ![t] = p]

\* A call is begun; nobody begins one behind the destructor.
Destroying == \E t \in Threads : at[t] \in {"destroy", "destroyed"}
Call == calls < MaxCalls /\ calls' = calls + 1 /\ ~Destroying

-----------------------------------------------------------------------------
\* lock(), lock(timeout) and trylock() by a thread that does not have it.  (With
\* the lock they change nothing: an exception, FALSE and OWNED, in this order.)
CallLock(t) ==
    /\ at[t] = "out" /\ Call
    /\ GoTo(t, "lock") \/ GoTo(t, "trying")
    /\ UNCHANGED <<mutex, tid, signal, timed, history>>

TryLock(t) ==
    /\ at[t] = "out" /\ Call
    /\ \/ mutex = None /\ mutex' = t /\ GoTo(t, "taken")
       \/ mutex # None /\ UNCHANGED <<mutex, at>>
    /\ UNCHANGED <<tid, signal, timed, history>>

Take(t) ==
    /\ at[t] \in {"lock", "trying"} /\ mutex = None
    /\ mutex' = t /\ GoTo(t, "taken")
    /\ UNCHANGED <<tid, signal, timed, calls, history>>

\* try_lock() has failed until the time was up.
GiveUp(t) ==
    /\ at[t] = "trying" /\ mutex # None
    /\ GoTo(t, "out") /\ UNCHANGED <<mutex, tid, signal, timed, calls, history>>

Claim(t) ==
    /\ at[t] = "taken"
    /\ tid' = t /\ GoTo(t, "in")
    /\ UNCHANGED <<mutex, signal, timed, calls, history>>

\* unlock(): tid_ first, then the mutex.
Unlock(t) ==
    /\ at[t] = "in"
    /\ tid' = None /\ GoTo(t, "leaving")
    /\ UNCHANGED <<mutex, signal, timed, calls, history>>

Leave(t) ==
    /\ at[t] = "leaving"
    /\ mutex' = None /\ GoTo(t, "out")
    /\ UNCHANGED <<tid, signal, timed, calls, history>>

-----------------------------------------------------------------------------
\* notify() wakes one of the sleeping threads, notify_all() all of them.
Sleeping == {t \in Threads : at[t] = "sleep"}
Woken(p, W) == [t \in Threads |-> IF t \in W THEN "woken" ELSE p[t]]

Raised_lost == signal \* mutant: `signal = true` is missing
Raised == TRUE

Notify(t) ==
    /\ at[t] = "in" /\ Call
    /\ signal' = Raised
    /\ \E W \in {{}} \cup {{u} : u \in Sleeping} \cup {Sleeping} :
          /\ W = {} => Sleeping = {}
          /\ at' = Woken(at, W) /\ notified' = notified \cup W
    /\ asked' = asked \cup {u \in Threads : Waiting(u)}
    /\ UNCHANGED <<mutex, tid, timed>>

\* wait() and wait_for(): the flag is reset, tid_ as well, and the mutex is given
\* up with the start of the sleep.
Owner_kept(t) == t \* mutant: `tid_ = boost::thread::id()` is missing
Owner(t) == None

Wait(t) ==
    /\ at[t] = "in" /\ Call
    /\ signal' = FALSE
    /\ tid' = Owner(t) /\ mutex' = None /\ GoTo(t, "sleep")
    /\ timed' \in {timed, timed \cup {t}}
    /\ UNCHANGED history

SpuriousWakeup(t) ==
    /\ at[t] = "sleep"
    /\ GoTo(t, "woken") /\ UNCHANGED <<mutex, tid, signal, timed, calls, history>>

TimeOut(t) ==
    /\ at[t] = "sleep" /\ t \in timed
    /\ GoTo(t, "expired") /\ UNCHANGED <<mutex, tid, signal, timed, calls, history>>

\* With the mutex again: the wait returns, or the flag is not set and it goes on.
Free_any == TRUE \* mutant: a wait that is over does not take the mutex again
Free == mutex = None
Over_once == TRUE \* mutant: an `if` in the place of the loop
Over == signal

Resume(t) ==
    /\ at[t] \in {"woken", "expired"} /\ Free
    /\ IF at[t] = "expired" \/ Over
         THEN /\ mutex' = t /\ tid' = t /\ GoTo(t, "in") /\ timed' = timed \ {t}
              /\ notified' = notified \ {t} /\ asked' = asked \ {t}
         ELSE GoTo(t, "sleep") /\ UNCHANGED <<mutex, tid, timed, history>>
    /\ UNCHANGED <<signal, calls>>

-----------------------------------------------------------------------------
\* The destructor, by a thread that has the lock: notify_all() and unlock(); by
\* another one: the same with a lock(50) before it, until the flag is set.
CallDestroy(t) ==
    /\ at[t] \in {"in", "out"} /\ Call
    /\ IF at[t] = "in"
         THEN /\ signal' = TRUE /\ mutex' = None /\ tid' = None
              /\ at' = [Woken(at, Sleeping) EXCEPT ![t] = "destroyed"]
         ELSE GoTo(t, "destroy") /\ UNCHANGED <<mutex, tid, signal>>
    /\ UNCHANGED <<timed, history>>

Destroy(t) ==
    /\ at[t] = "destroy"
    /\ \/ signal /\ GoTo(t, "destroyed") /\ UNCHANGED <<signal, history>>
       \/ /\ ~signal /\ mutex = None
          /\ signal' = Raised /\ at' = Woken(at, Sleeping)
          /\ notified' = notified \cup Sleeping /\ asked' = asked \cup {u \in Threads : Waiting(u)}
    /\ UNCHANGED <<mutex, tid, timed, calls>>

-----------------------------------------------------------------------------
Calls(t) == CallLock(t) \/ TryLock(t) \/ Notify(t) \/ Wait(t) \/ CallDestroy(t)
Goes(t) == Take(t) \/ GiveUp(t) \/ Claim(t) \/ Unlock(t) \/ Leave(t) \/ Resume(t) \/ TimeOut(t) \/ Destroy(t)

\* What is done with the object behind its destructor is undefined: nothing.
Alive == \A t \in Threads : at[t] # "destroyed"

Next == Alive /\ \E t \in Threads : Calls(t) \/ Goes(t) \/ SpuriousWakeup(t)

\* Threads go on, unlock what they have locked and get a mutex that is free again
\* and again (there are finitely many calls).
Fairness == \A t \in Threads : WF_vars(Alive /\ Goes(t))

Spec == Init /\ [][Next]_vars /\ Fairness

-----------------------------------------------------------------------------
\* Every variable has its type.
TypeOK ==
    /\ mutex \in Threads \cup {None} /\ tid \in Threads \cup {None} /\ signal \in BOOLEAN
    /\ at \in [Threads -> Places] /\ timed \in SUBSET Threads /\ calls \in 0..MaxCalls
    /\ notified \in SUBSET Threads /\ asked \in SUBSET Threads

\* is_locked_by_this_thread() is true of a thread exactly while it is between its
\* lock() and its unlock() and not in a wait, and whoever it is true of has the
\* mutex (160, 185, 225): no unlock() frees the lock of somebody else.
OwnerIsKnown ==
    \A t \in Threads : (tid = t <=> at[t] = "in") /\ (at[t] \in {"in", "taken", "leaving"} <=> mutex = t)

\* A wait that has no timeout returns only if a notify came while it lasted,
\* however often it wakes up for nothing (120-121).
ReturnsNotified == \A t \in Threads : Waiting(t) /\ at'[t] = "in" /\ at[t] # "expired" => t \in asked
NoSpuriousReturn == [][ReturnsNotified]_vars

\* The boost monitor is a monitor as its header describes it.
M == INSTANCE Monitor WITH
        inside <- IF \E t \in Threads : at[t] = "in" THEN CHOOSE t \in Threads : at[t] = "in" ELSE None,
        asleep <- {t \in Threads : Waiting(t)}
ImplementsMonitor == M!Spec

\* The destructor ends, whatever the other threads were doing (99-106).
Undisturbed == \A t \in Threads : at[t] # "destroy"
DestructorEnds == <>[]Undisturbed

\* "Wakes up a single thread that is waiting" (threadpool.hpp, 224): who was woken by
\* a notify does not go to sleep again.
NotifiedReturns == [][\A t \in notified : at[t] = "woken" => at'[t] # "sleep"]_vars

\* The inductive invariant: beside the owner, `signal` is the notify of every thread
\* that still waits.
SignalIsForAll == Alive /\ signal => \A t \in Threads : Waiting(t) => t \in asked
IInv == TypeOK /\ OwnerIsKnown /\ SignalIsForAll
=============================================================================
