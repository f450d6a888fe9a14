---------------------------- MODULE UpgradeMutex ----------------------------
(***************************************************************************)
(* The test program of boost::shared_mutex and boost::upgrade_mutex        *)
(* (src/shared_mutex.cpp, 66-594): threads read, write, upgrade and        *)
(* downgrade one mutex in circles for a second.  The mutex itself is of    *)
(* the library; here it is what the functions need of it.                  *)
(***************************************************************************)
EXTENDS Naturals, FiniteSets

CONSTANTS
    MaxRounds  \* bound: how often the threads of a test get the mutex

Threads == 1..4
None == 0

VARIABLES
    role,      \* [Threads -> Roles \cup {"none"}]: the functions that run
    trying,    \* they use the try_ functions
    sharers,   \* who has the mutex shared, ...
    upgrader,  \* ... who has it for upgrade, ...
    writer,    \* ... who has it exclusively
    state,     \* the global that the assertions look at
    pc,        \* [Threads -> States]
    rounds     \* 0..MaxRounds

vars == <<role, trying, sharers, upgrader, writer, state, pc, rounds>>
mutexVars == <<sharers, upgrader, writer>>

Roles == {"reader", "writer", "upgradable", "clockwise", "counter_clockwise"}
States == {"out", "shared", "second", "upgrade", "exclusive", "writing", "written",
           "down", "last", "done"}

\* The tests in which the circles are of try_ functions; for the other functions it
\* makes no difference.
TryTests == {<<"clockwise", "counter_clockwise", "none", "none">>}

\* The threads of each test, S::test_shared_mutex() and U::test_upgrade_mutex().
Tests ==
    {<<"reader", "writer", "reader", "none">>, <<"reader", "writer", "upgradable", "none">>,
     <<"clockwise", "counter_clockwise", "clockwise", "counter_clockwise">>} \cup TryTests

Init ==
    /\ role \in Tests /\ trying = (role \in TryTests)
    /\ sharers = {} /\ upgrader = None /\ writer = None
    /\ state = "reading"
    /\ pc = [t \in Threads |-> IF role[t] = "none" THEN "done" ELSE "out"]
    /\ rounds = 0

-----------------------------------------------------------------------------
(* The mutex                                                               *)

CanShare_always == TRUE \* mutant: lock_shared() does not wait for the writer
CanShare == writer = None
CanUpgrade == writer = None /\ upgrader = None
CanLock == writer = None /\ upgrader = None /\ sharers = {}

\* What t must wait for to turn its own share or upgrade into the whole mutex.
AloneIn(t) == sharers \subseteq {t} /\ upgrader \in {t, None}

Held(s, u, w) == sharers' = s /\ upgrader' = u /\ writer' = w
GoTo(t, s) == pc' = [pc EXCEPT ![t] = s]

-----------------------------------------------------------------------------
\* The top of the loop: lock_shared(), lock() or lock_upgrade(), or their try_
\* and try_for_ forms, of which those that fail change nothing.
Lock(t) ==
    /\ pc[t] = "out" /\ rounds < MaxRounds
    /\ \/ /\ role[t] \in {"reader", "clockwise"} /\ CanShare
          /\ Held(sharers \cup {t}, upgrader, writer) /\ GoTo(t, "shared")
       \/ /\ role[t] = "writer" /\ CanLock
          /\ Held(sharers, upgrader, t) /\ GoTo(t, "exclusive")
       \/ /\ role[t] \in {"upgradable", "counter_clockwise"} /\ CanUpgrade
          /\ Held(sharers, t, writer) /\ GoTo(t, "upgrade")
    /\ rounds' = rounds + 1
    /\ UNCHANGED state

\* The second is over.
Finish(t) ==
    /\ pc[t] = "out" /\ GoTo(t, "done")
    /\ UNCHANGED <<mutexVars, state, rounds>>

\* reader() ends its turn; clockwise(): try_unlock_shared_and_lock(), ...
FirstTry_waits(t) == AloneIn(t) \* mutant: unlock_shared_and_lock(), which waits
FirstTry(t) == TRUE

Shared(t) ==
    /\ pc[t] = "shared"
    /\ IF role[t] = "reader" THEN Held(sharers \ {t}, upgrader, writer) /\ GoTo(t, "out")
       ELSE /\ FirstTry(t)
            /\ IF AloneIn(t) THEN Held(sharers \ {t}, upgrader, t) /\ GoTo(t, "exclusive")
                             ELSE GoTo(t, "second") /\ UNCHANGED mutexVars
    /\ UNCHANGED <<state, rounds>>

\* ... then try_unlock_shared_and_lock_upgrade(), then unlock_shared().
GivenUp_kept(t) == sharers \* mutant: `continue` without unlock_shared()
GivenUp(t) == sharers \ {t}

Second(t) ==
    /\ pc[t] = "second"
    /\ IF CanUpgrade THEN Held(sharers \ {t}, t, writer) /\ GoTo(t, "upgrade")
                     ELSE Held(GivenUp(t), upgrader, writer) /\ GoTo(t, "out")
    /\ UNCHANGED <<state, rounds>>

\* upgradable() ends its turn; the others unlock_upgrade_and_lock(), except
\* that try_counter_clockwise() gives up where it would wait.
Upgraded(t) == AloneIn(t)

Upgrade(t) ==
    /\ pc[t] = "upgrade"
    /\ \/ role[t] = "upgradable" /\ Held(sharers, None, writer) /\ GoTo(t, "out")
       \/ role[t] # "upgradable" /\ Upgraded(t) /\ Held(sharers, None, t) /\ GoTo(t, "exclusive")
       \/ /\ role[t] = "counter_clockwise" /\ trying /\ ~Upgraded(t)
          /\ Held(sharers, None, writer) /\ GoTo(t, "out")
    /\ UNCHANGED <<state, rounds>>

\* state = writing, then state = reading.
Write(t) ==
    /\ \/ pc[t] = "exclusive" /\ state' = "writing" /\ GoTo(t, "writing")
       \/ pc[t] = "writing" /\ state' = "reading" /\ GoTo(t, "written")
    /\ UNCHANGED <<mutexVars, rounds>>

\* unlock(), unlock_and_lock_upgrade(), unlock_and_lock_shared().
Written(t) ==
    /\ pc[t] = "written"
    /\ \/ role[t] = "writer" /\ Held(sharers, upgrader, None) /\ GoTo(t, "out")
       \/ role[t] = "clockwise" /\ Held(sharers, t, None) /\ GoTo(t, "down")
       \/ role[t] = "counter_clockwise" /\ Held(sharers \cup {t}, upgrader, None) /\ GoTo(t, "last")
    /\ UNCHANGED <<state, rounds>>

\* unlock_upgrade_and_lock_shared(), then unlock_shared().
Down(t) ==
    /\ \/ pc[t] = "down" /\ Held(sharers \cup {t}, None, writer) /\ GoTo(t, "last")
       \/ pc[t] = "last" /\ Held(sharers \ {t}, upgrader, writer) /\ GoTo(t, "out")
    /\ UNCHANGED <<state, rounds>>

Inside(t) ==
    /\ Shared(t) \/ Second(t) \/ Upgrade(t) \/ Write(t) \/ Written(t) \/ Down(t)
    /\ UNCHANGED <<role, trying>>

Outside(t) == (Lock(t) \/ Finish(t)) /\ UNCHANGED <<role, trying>>

Next == \E t \in Threads : Inside(t) \/ Outside(t)

\* Every thread runs, and its second passes.
Fairness == \A t \in Threads : WF_vars(Inside(t)) /\ WF_vars(Finish(t) /\ Outside(t))

Spec == Init /\ [][Next]_vars /\ Fairness

-----------------------------------------------------------------------------
\* Every variable has its type.
TypeOK ==
    /\ role \in Tests /\ trying \in BOOLEAN
    /\ sharers \in SUBSET Threads /\ upgrader \in Threads \cup {None} /\ writer \in Threads \cup {None}
    /\ state \in {"reading", "writing"}
    /\ pc \in [Threads -> States] /\ rounds \in 0..MaxRounds

\* BOOST_ASSERT(state == reading) and (state == writing) of all functions: who has
\* the mutex shared or for upgrade sees no half-done write, also behind the
\* upgrades and downgrades, and a writer sees its own value.
AssertionsHold ==
    \A t \in Threads :
        /\ pc[t] \in {"shared", "second", "upgrade", "exclusive", "written", "down", "last"} => state = "reading"
        /\ pc[t] = "writing" => state = "writing"

\* Nobody is left with the mutex when all are done.
LeftUnlocked ==
    (\A t \in Threads : pc[t] = "done") => sharers = {} /\ upgrader = None /\ writer = None

\* The threads that go around in opposite directions are joined: whoever waits
\* with its share or its upgrade in hand waits for readers that do not wait.
AllDone == \A t \in Threads : pc[t] = "done"
TestEnds == <>AllDone

\* The inductive invariant: who has the mutex, and how, follows from the place in
\* the function, and the global is "writing" between the two writes only.
IInv ==
    /\ TypeOK
    /\ \A t \in Threads :
          /\ t \in sharers <=> pc[t] \in {"shared", "second", "last"}
          /\ upgrader = t <=> pc[t] \in {"upgrade", "down"}
          /\ writer = t <=> pc[t] \in {"exclusive", "writing", "written"}
    /\ writer # None => sharers = {} /\ upgrader = None
    /\ state = "writing" <=> \E t \in Threads : pc[t] = "writing"
=============================================================================
