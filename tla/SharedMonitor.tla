--------------------------- MODULE SharedMonitor ----------------------------
(***************************************************************************)
(* The two classes A whose operations lock several objects at once:        *)
(* compute() and assignment (src/shared_monitor.cpp, 48-129) and           *)
(* assignment, swap() and average() (src/shared_mutex.cpp, 600-651).       *)
(*                                                                         *)
(* boost::lock() is of the library: it gets all its locks or waits with    *)
(* none of them in hand.  average() waits once more in between: it turns   *)
(* its lock of *this into a share and its upgrade lock of a into a lock.   *)
(* Before it locks anything it asserts that the two objects have the same  *)
(* size.  Here all have (10000000, shared_monitor.cpp, 45), and no         *)
(* operation changes that.                                                 *)
(***************************************************************************)
EXTENDS Naturals, FiniteSets

CONSTANT MaxThreads \* bound: each begins one operation; a second one of the same
                    \* thread is that of a thread that begins when the first is done

Threads == 1..MaxThreads
Objects == 1..3
None == 0

VARIABLES
    operation,  \* [Threads -> Operations \cup {Idle}]
    phase,      \* [Threads -> Phases]
    exclusive, upgrade, \* [Objects -> Threads \cup {None}]: who has mut_ so
    shared,     \* [Objects -> SUBSET Threads]
    begun       \* 0..MaxThreads: they begin in the order of their numbers

vars == <<operation, phase, exclusive, upgrade, shared, begun>>
locks == <<exclusive, upgrade, shared>>

Idle == [kind |-> "none", this |-> None, others |-> {}]

\* A copy has a new object of its own, which nobody else can lock.
Operations ==
    [kind : {"copy"}, this : {None}, others : {{a} : a \in Objects}] \cup
    {o \in [kind : {"assign", "swap", "average"}, this : Objects, others : {{a} : a \in Objects}] :
        o.this \notin o.others} \cup
    {[kind |-> "compute", this |-> a, others |-> Objects \ {a}] : a \in Objects}

\* The objects are alike: the first operation uses them in the order of their numbers.
FirstOperations == {o \in Operations : o.this \in {None, 1} /\ o.others \in {{1}, {2}, {2, 3}}}

\* average() begins with its assertion ("check"), which may stop the program ("aborted").
Phases == {"out", "check", "aborted", "lock", "use", "upgrade", "write"}

Init ==
    /\ operation = [t \in Threads |-> Idle] /\ phase = [t \in Threads |-> "out"]
    /\ exclusive = [a \in Objects |-> None] /\ upgrade = [a \in Objects |-> None]
    /\ shared = [a \in Objects |-> {}]
    /\ begun = 0

Enters(t, p) == phase' = [phase EXCEPT ![t] = p]

\* What the operation of t locks at its beginning, and how.
Locked(t) ==
    LET o == operation[t]
    IN  (IF o.this = None THEN {} ELSE {o.this}) \cup (IF o.kind = "swap" THEN o.others ELSE {})
Upgradable(t) == IF operation[t].kind = "average" THEN operation[t].others ELSE {}
Shared(t) == IF operation[t].kind \in {"copy", "assign", "compute"} THEN operation[t].others ELSE {}

\* What it reads and writes: in its assertion without a lock, while it uses its first
\* locks, and behind the upgrade.
Reads(t) ==
    CASE phase[t] = "check" -> {operation[t].this} \cup operation[t].others
      [] phase[t] = "use" -> operation[t].others
      [] phase[t] = "write" -> {operation[t].this}
      [] OTHER -> {}
Writes(t) ==
    CASE phase[t] = "use" -> Locked(t)
      [] phase[t] = "write" -> operation[t].others
      [] OTHER -> {}

-----------------------------------------------------------------------------
\* No assertion has stopped the program.
Alive == \A t \in Threads : phase[t] # "aborted"

Begin(t) ==
    /\ phase[t] = "out" /\ begun = t - 1
    /\ \E o \in (IF t = 1 THEN FirstOperations ELSE Operations) :
          /\ operation' = [operation EXCEPT ![t] = o]
          /\ Enters(t, IF o.kind = "average" THEN "check" ELSE "lock")
    /\ begun' = t
    /\ UNCHANGED locks

\* vector::swap() exchanges the ends of two vectors one by one: who asks for a size in
\* between gets any number.  (An assignment between vectors of one size writes their
\* elements, and their ends as they were.)
Torn(t) == \E u \in Threads : operation[u].kind = "swap" /\ Reads(t) \cap Writes(u) # {}

\* The sizes are equal, or seem not to be.
Check(t) ==
    /\ phase[t] = "check"
    /\ \/ Enters(t, "lock")
       \/ Torn(t) /\ Enters(t, "aborted")
    /\ UNCHANGED <<operation, locks, begun>>

\* boost::lock() takes all the locks of the operation at one time.
Objects_of(t) == Locked(t) \cup Upgradable(t) \cup Shared(t)
Wanted_one(t) == \* mutant: *this is locked first, and then the others
    IF phase[t] = "lock" /\ operation[t].this # None /\ exclusive[operation[t].this] # t
      THEN {operation[t].this} ELSE Objects_of(t) \ {operation[t].this}
Wanted(t) == Objects_of(t)

Available(t, a) ==
    /\ exclusive[a] = None
    /\ a \notin Shared(t) => upgrade[a] = None
    /\ a \in Locked(t) => shared[a] = {}

Lock(t) ==
    /\ phase[t] = "lock" /\ \A a \in Wanted(t) : Available(t, a)
    /\ exclusive' = [a \in Objects |-> IF a \in Wanted(t) \cap Locked(t) THEN t ELSE exclusive[a]]
    /\ upgrade' = [a \in Objects |-> IF a \in Wanted(t) \cap Upgradable(t) THEN t ELSE upgrade[a]]
    /\ shared' = [a \in Objects |-> IF a \in Wanted(t) \cap Shared(t) THEN shared[a] \cup {t} ELSE shared[a]]
    /\ IF \A a \in Locked(t) : exclusive'[a] = t /\ \A b \in Upgradable(t) : upgrade'[b] = t
         THEN Enters(t, "use") ELSE UNCHANGED phase
    /\ UNCHANGED <<operation, begun>>

Unlock(t) ==
    /\ exclusive' = [a \in Objects |-> IF exclusive[a] = t THEN None ELSE exclusive[a]]
    /\ upgrade' = [a \in Objects |-> IF upgrade[a] = t THEN None ELSE upgrade[a]]
    /\ shared' = [a \in Objects |-> shared[a] \ {t}]
    /\ operation' = [operation EXCEPT ![t] = Idle]
    /\ Enters(t, "out")

\* Done, but for average(): share_this_lock(move(this_lock)).
Downgraded(t) == [exclusive EXCEPT ![operation[t].this] = None]

Use(t) ==
    /\ phase[t] = "use"
    /\ IF operation[t].kind = "average"
         THEN /\ exclusive' = Downgraded(t)
              /\ shared' = [shared EXCEPT ![operation[t].this] = @ \cup {t}]
              /\ Enters(t, "upgrade")
              /\ UNCHANGED <<operation, upgrade>>
         ELSE Unlock(t)
    /\ UNCHANGED begun

\* that_lock(move(share_that_lock)): the upgrade waits for those who share a.
Alone_any(t) == TRUE \* mutant: a.data_ is written under the upgrade lock
Alone(t) == \A a \in Upgradable(t) : shared[a] = {}

Upgrade(t) ==
    /\ phase[t] = "upgrade" /\ Alone(t)
    /\ upgrade' = [a \in Objects |-> IF upgrade[a] = t THEN None ELSE upgrade[a]]
    /\ exclusive' = [a \in Objects |-> IF a \in Upgradable(t) THEN t ELSE exclusive[a]]
    /\ Enters(t, "write")
    /\ UNCHANGED <<operation, shared, begun>>

Write(t) == phase[t] = "write" /\ Unlock(t) /\ UNCHANGED begun

Goes(t) == Alive /\ (Check(t) \/ Lock(t) \/ Use(t) \/ Upgrade(t) \/ Write(t))

Next == \E t \in Threads : (Alive /\ Begin(t)) \/ Goes(t)

\* Every thread that can go on does.
Fairness == \A t \in Threads : WF_vars(Goes(t))

Spec == Init /\ [][Next]_vars /\ Fairness

-----------------------------------------------------------------------------
\* Every variable has its type.
TypeOK ==
    /\ operation \in [Threads -> Operations \cup {Idle}] /\ phase \in [Threads -> Phases]
    /\ exclusive \in [Objects -> Threads \cup {None}] /\ upgrade \in [Objects -> Threads \cup {None}]
    /\ shared \in [Objects -> SUBSET Threads] /\ begun \in 0..MaxThreads

\* Nobody reads or writes the data of an object that another thread writes, whatever
\* they lock and however average() changes its locks (shared_mutex.cpp, 644-649),
\* except in the assertion of average() (637): there the sizes are read without a lock,
\* and the two outcomes of that race are those of `Check`.
NoRaceUnderLocks ==
    \A t, u \in Threads :
        t # u /\ phase[u] # "check" => Writes(t) \cap (Reads(u) \cup Writes(u)) = {}

\* Every operation ends, unless that assertion stops the program: no ring of averages
\* waits for its own shares, although each of them holds one lock while it waits for
\* another (647-648).
AllOut == Alive => \A t \in Threads : phase[t] = "out"
OperationsEnd == <>[]AllOut

\* The inductive invariant: who has which object, and how, follows from its place in
\* its operation, and nobody else has an object that somebody has exclusively.
HasExclusive(t) == CASE phase[t] = "use" -> Locked(t) [] phase[t] = "write" -> Upgradable(t) [] OTHER -> {}
HasUpgrade(t) == IF phase[t] \in {"use", "upgrade"} THEN Upgradable(t) ELSE {}
HasShared(t) ==
    CASE phase[t] = "use" -> Shared(t)
      [] phase[t] \in {"upgrade", "write"} -> {operation[t].this}
      [] OTHER -> {}
IInv ==
    /\ TypeOK
    /\ \A t \in Threads, a \in Objects :
          /\ exclusive[a] = t <=> a \in HasExclusive(t)
          /\ upgrade[a] = t <=> a \in HasUpgrade(t)
          /\ t \in shared[a] <=> a \in HasShared(t)
    /\ \A a \in Objects : exclusive[a] # None => upgrade[a] = None /\ shared[a] = {}
    /\ \A t \in Threads :
          /\ phase[t] # "out" => operation[t] \in Operations
          /\ phase[t] \in {"upgrade", "write"} => operation[t].kind = "average"
=============================================================================
