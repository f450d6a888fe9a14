--------------------------- MODULE TaskExecution ----------------------------
(***************************************************************************)
(* What a thread pool promises about the tasks it is given, whatever its   *)
(* threads and locks (src/posix/threadpool.hpp, 483-591): a task is run at *)
(* most once and by at most Capacity threads at a time, it is deleted once *)
(* and after its run, and only a pool that is being terminated deletes a   *)
(* task it has not run.                                                    *)
(***************************************************************************)
EXTENDS Naturals, FiniteSets

CONSTANTS
    Tasks,     \* the tasks
    Capacity   \* the number of threads

VARIABLES
    state,     \* [Tasks -> States]: the life of each task
    closing    \* terminate() has taken effect, or there never was a thread

vars == <<state, closing>>

States == {"new", "accepted", "running", "finished", "discarded"}

With(s) == {t \in Tasks : state[t] = s}

Init ==
    /\ state = [t \in Tasks |-> "new"]
    /\ closing = (Capacity = 0)

Become(t, old, new) ==
    /\ state[t] = old
    /\ state' = [state EXCEPT ![t] = new]
    /\ UNCHANGED closing

Accept(t) == Become(t, "new", "accepted")

Start(t) == Become(t, "accepted", "running") /\ Cardinality(With("running")) < Capacity

Finish(t) == Become(t, "running", "finished")

Discard(t) == closing /\ Become(t, "accepted", "discarded")

Close == closing' = TRUE /\ UNCHANGED state

Next ==
    \/ \E t \in Tasks : Accept(t) \/ Start(t) \/ Finish(t) \/ Discard(t)
    \/ Close

Spec == Init /\ [][Next]_vars
=============================================================================
