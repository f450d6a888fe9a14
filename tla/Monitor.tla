------------------------------- MODULE Monitor -------------------------------
(***************************************************************************)
(* What the header of the POSIX variant promises of a Synchronized object  *)
(* (src/posix/threadpool.hpp, 135-232): at most one thread is inside the   *)
(* critical section, wait() leaves it and is inside again when it returns. *)
(***************************************************************************)
EXTENDS Naturals

CONSTANTS Threads, None

VARIABLES
    inside,  \* the thread inside the critical section, or None
    asleep   \* the threads inside wait()

vars == <<inside, asleep>>

Init ==
    /\ inside = None
    /\ asleep = {}

\* lock(), lock(timeout) or trylock() succeeds.
Enter(t) ==
    /\ inside = None /\ t \notin asleep
    /\ inside' = t
    /\ UNCHANGED asleep

\* unlock().
Leave(t) ==
    /\ inside = t
    /\ inside' = None
    /\ UNCHANGED asleep

\* wait() or wait(timeout) is called by the thread inside.
Sleep(t) ==
    /\ inside = t
    /\ inside' = None
    /\ asleep' = asleep \cup {t}

\* wait() or wait(timeout) returns.
Resume(t) ==
    /\ inside = None /\ t \in asleep
    /\ inside' = t
    /\ asleep' = asleep \ {t}

Next == \E t \in Threads : Enter(t) \/ Leave(t) \/ Sleep(t) \/ Resume(t)

Spec == Init /\ [][Next]_vars
=============================================================================
