----------------------------- MODULE CountDown ------------------------------
(***************************************************************************)
(* The two programs that count a global down to 0 in three threads: with   *)
(* an atomic (src/test_atomic_counter.cpp) and under a boost::shared_mutex *)
(* (src/test_shared_mutex.cpp).  The mutex is external: who waits to write *)
(* keeps new readers out.                                                  *)
(***************************************************************************)
EXTENDS Integers

CONSTANT Start \* bound: the first value of g_cnt, 5000000 and 500000 there

Threads == {"t0", "t1", "t2"} \* t1 is the reader; t2 is unique_locker() or a writer
None == "none"

VARIABLES
    atomic,  \* which of the two programs
    g_cnt,
    at,      \* [Threads -> Places]
    upgrade, writer, \* Threads \cup {None}: who has the mutex so
    sharing  \* the reader has it shared

vars == <<atomic, g_cnt, at, upgrade, writer, sharing>>
mutex == <<upgrade, writer, sharing>>

Places == {"loop", "decrement", "upgrade", "body", "done"}

Init ==
    /\ atomic \in BOOLEAN
    /\ g_cnt = Start
    /\ at = [t \in Threads |-> "loop"]
    /\ upgrade = None /\ writer = None /\ sharing = FALSE

GoTo(t, p) == at' = [at EXCEPT ![t] = p]

-----------------------------------------------------------------------------
\* With the atomic: `g_cnt > 0` and `--g_cnt` are two operations.
AtomicTest(t) ==
    /\ atomic /\ at[t] = "loop"
    /\ IF t = "t1" THEN g_cnt <= 0 /\ GoTo(t, "done")
                   ELSE GoTo(t, IF g_cnt > 0 THEN "decrement" ELSE "done")
    /\ UNCHANGED <<atomic, g_cnt, mutex>>

AtomicDecrement(t) ==
    /\ atomic /\ at[t] = "decrement"
    /\ g_cnt' = g_cnt - 1 /\ GoTo(t, "loop")
    /\ UNCHANGED <<atomic, mutex>>

-----------------------------------------------------------------------------
\* With the mutex: upgrade_lock (t0), shared_lock (t1), unique_lock (t2).
Lock(t) ==
    /\ ~atomic /\ at[t] = "loop" /\ writer = None
    /\ \/ /\ t = "t0" /\ upgrade = None
          /\ upgrade' = t /\ GoTo(t, "upgrade") /\ UNCHANGED <<writer, sharing>>
       \/ /\ t = "t1" /\ at["t0"] # "upgrade"
          /\ sharing' = TRUE /\ GoTo(t, "body") /\ UNCHANGED <<upgrade, writer>>
       \/ /\ t = "t2" /\ upgrade = None /\ ~sharing
          /\ writer' = t /\ GoTo(t, "body") /\ UNCHANGED <<upgrade, sharing>>
    /\ UNCHANGED <<atomic, g_cnt>>

\* upgrade_to_unique_lock waits for the reader.
Upgrade(t) ==
    /\ at[t] = "upgrade" /\ ~sharing
    /\ writer' = t /\ GoTo(t, "body")
    /\ UNCHANGED <<atomic, g_cnt, upgrade, sharing>>

\* The body of the loop; its end unlocks.
Stops_late == g_cnt < 0 \* mutant: `if (g_cnt >= 0)`
Stops == g_cnt <= 0

Body(t) ==
    /\ at[t] = "body"
    /\ GoTo(t, IF Stops THEN "done" ELSE "loop")
    /\ g_cnt' = IF Stops \/ t = "t1" THEN g_cnt ELSE g_cnt - 1
    /\ IF t = "t1" THEN sharing' = FALSE /\ UNCHANGED <<upgrade, writer>>
                   ELSE writer' = None /\ upgrade' = (IF t = "t0" THEN None ELSE upgrade) /\ UNCHANGED sharing
    /\ UNCHANGED atomic

Step(t) == AtomicTest(t) \/ AtomicDecrement(t) \/ Lock(t) \/ Upgrade(t) \/ Body(t)

Next == \E t \in Threads : Step(t)

Spec == Init /\ [][Next]_vars

-----------------------------------------------------------------------------
\* Every variable has its type.
TypeOK ==
    /\ atomic \in BOOLEAN /\ g_cnt \in -1..Start /\ at \in [Threads -> Places]
    /\ upgrade \in Threads \cup {None} /\ writer \in Threads \cup {None} /\ sharing \in BOOLEAN

\* Under the mutex the counter stops at 0 (21-24, 47-50); with the atomic each of
\* the two writers may pass the test before the other one decrements, so that it
\* stops at 0 or at -1 (test_atomic_counter.cpp, 18-19).
NotBelow ==
    /\ g_cnt >= IF atomic THEN -1 ELSE 0
    /\ \A t \in Threads : at[t] = "done" => g_cnt <= 0

\* The inductive invariant: a writer that has passed its test of the atomic leaves
\* room for its decrement, unless the other one has passed it, too.
IInv ==
    /\ TypeOK /\ NotBelow
    /\ at["t1"] # "decrement"
    /\ atomic => \A t \in Threads : at[t] \in {"loop", "decrement", "done"}
    /\ ~atomic => \A t \in Threads : at[t] # "decrement"
    /\ at["t0"] = "decrement" \/ at["t2"] = "decrement" => g_cnt >= 0
    /\ at["t0"] = "decrement" /\ at["t2"] = "decrement" => g_cnt >= 1
=============================================================================
