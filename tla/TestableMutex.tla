--------------------------- MODULE TestableMutex ----------------------------
(***************************************************************************)
(* boost::testable_mutex (src/boost/testable_mutex.hpp, 39-110): a mutex   *)
(* and, in an atomic beside it, the thread that has locked it.             *)
(***************************************************************************)
CONSTANTS Threads, None

VARIABLES
    mtx_,  \* Threads \cup {None}: who has the mutex
    id_,   \* Threads \cup {None}
    at     \* [Threads -> Places]

vars == <<mtx_, id_, at>>

\* "taken": the mutex is there, id_ is not set; "leaving": id_ is reset.
Places == {"out", "lock", "taken", "in", "leaving"}

Init ==
    /\ mtx_ = None /\ id_ = None
    /\ at = [t \in Threads |-> "out"]

GoTo(t, p) == at' = [at EXCEPT ![t] = p]

\* lock(), try_lock(), try_lock_for() and try_lock_until(): the last three may fail.
Call(t) ==
    /\ at[t] = "out" /\ GoTo(t, "lock")
    /\ UNCHANGED <<mtx_, id_>>

Take(t) ==
    /\ at[t] = "lock" /\ mtx_ = None
    /\ mtx_' = t /\ GoTo(t, "taken")
    /\ UNCHANGED id_

Fail(t) ==
    /\ at[t] = "lock" /\ mtx_ # None
    /\ GoTo(t, "out")
    /\ UNCHANGED <<mtx_, id_>>

SetId(t) ==
    /\ at[t] = "taken"
    /\ id_' = t /\ GoTo(t, "in")
    /\ UNCHANGED mtx_

\* unlock(): id_ first, then the mutex.
NoId_kept == id_ \* mutant: id_ is not reset
NoId == None

ResetId(t) ==
    /\ at[t] = "in"
    /\ id_' = NoId /\ GoTo(t, "leaving")
    /\ UNCHANGED mtx_

Unlock(t) ==
    /\ at[t] = "leaving"
    /\ mtx_' = None /\ GoTo(t, "out")
    /\ UNCHANGED id_

\* is_locked(), which any thread may ask at any time.
IsLocked == id_ # None

Next == \E t \in Threads :
    Call(t) \/ Take(t) \/ Fail(t) \/ SetId(t) \/ ResetId(t) \/ Unlock(t)

Spec == Init /\ [][Next]_vars

-----------------------------------------------------------------------------
\* Every variable has its type.
TypeOK ==
    /\ mtx_ \in Threads \cup {None} /\ id_ \in Threads \cup {None}
    /\ at \in [Threads -> Places]

\* The BOOST_ASSERTs hold of callers that pair their calls: is_locked_by_this_thread()
\* is true from lock() to unlock() (56, 63, 70), and is_locked() is never true of a
\* mutex that nobody has: id_ is set behind mtx_.lock() and reset before mtx_.unlock().
IdIsOwner ==
    /\ \A t \in Threads : id_ = t <=> at[t] = "in"
    /\ IsLocked => mtx_ = id_

\* The inductive invariant: who has the mutex is known by its place, and id_ is set
\* in between.
IInv ==
    /\ TypeOK
    /\ \A t \in Threads : mtx_ = t <=> at[t] \in {"taken", "in", "leaving"}
    /\ \A t \in Threads : id_ = t <=> at[t] = "in"
=============================================================================
