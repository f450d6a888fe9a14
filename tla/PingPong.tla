------------------------------ MODULE PingPong ------------------------------
(***************************************************************************)
(* One round of the condition variable benchmark (src/perf_condition_      *)
(* variable.cpp, 42-129): a producer and its consumers hand a counter to   *)
(* and fro under one mutex, and call notify_all() without it.              *)
(***************************************************************************)
EXTENDS Naturals, FiniteSets

CONSTANTS
    Iterations,  \* bound: 1000 in the program
    MaxConsumers \* CONSUMER_MAX

Consumers == 1..MaxConsumers
Producer == 0
Players == {Producer} \cup Consumers

VARIABLES
    consumers, \* 1..MaxConsumers: consumer_count
    started,   \* SUBSET Players: the threads that exist
    counter,
    semaphore,
    seen,      \* [Players -> Nat]: a consumer's counter; iterations of the producer
    at,        \* [Players -> Places]
    expected   \* the producer's `consumers`

vars == <<consumers, started, counter, semaphore, seen, at, expected>>

\* "begin": has not read the semaphore; "lock": wants the mutex, or has just been
\* told to look again; "wait": in cnd.wait(); "notify": the mutex is given up.
Places == {"begin", "lock", "wait", "notify", "done"}

Playing == {Producer} \cup 1..consumers

Init ==
    /\ consumers \in 1..MaxConsumers
    /\ started = {}
    /\ counter = 0 /\ semaphore = consumers /\ seen = [p \in Players |-> 0]
    /\ at = [p \in Players |-> IF p = Producer THEN "begin" ELSE "lock"]
    /\ expected = 0

GoTo(p, l) == at' = [at EXCEPT ![p] = l]

\* The consumers are started one by one, and then the producer.
Start(p) ==
    /\ p \in Playing \ started
    /\ p = Producer => Playing \ started = {Producer}
    /\ started' = started \cup {p}
    /\ UNCHANGED <<consumers, counter, semaphore, seen, at, expected>>

\* Read without the mutex, while the consumers are there already.
Begin(p) ==
    /\ at[p] = "begin"
    /\ expected' = semaphore
    /\ GoTo(p, "lock")
    /\ UNCHANGED <<consumers, started, counter, semaphore, seen>>

Reset_not == semaphore \* mutant: the producer does not take the signals back
Reset == 0

\* The producer under the mutex: all consumers have signalled, or it waits.
Produce ==
    /\ at[Producer] = "lock"
    /\ IF semaphore = expected
         THEN /\ semaphore' = Reset /\ counter' = counter + 1
              /\ seen' = [seen EXCEPT ![Producer] = @ + 1]
              /\ GoTo(Producer, "notify")
         ELSE GoTo(Producer, "wait") /\ UNCHANGED <<semaphore, counter, seen>>
    /\ UNCHANGED <<consumers, started, expected>>

\* A consumer under the mutex: the producer has signalled, or it waits.
Consume(c) ==
    /\ at[c] = "lock"
    /\ IF seen[c] # counter
         THEN /\ seen' = [seen EXCEPT ![c] = counter]
              /\ semaphore' = semaphore + 1
              /\ GoTo(c, "notify")
         ELSE GoTo(c, "wait") /\ UNCHANGED <<semaphore, seen>>
    /\ UNCHANGED <<consumers, started, counter, expected>>

\* cnd.notify_all(); then the next turn, if there is one.
Woken_one(l) == \* mutant: notify_one()
    LET Asleep == {p \in Players : l[p] = "wait"}
    IN  IF Asleep = {} THEN {l} ELSE {[l EXCEPT ![p] = "lock"] : p \in Asleep}
Woken(l) == {[p \in Players |-> IF l[p] = "wait" THEN "lock" ELSE l[p]]}

Notify(p) ==
    /\ at[p] = "notify"
    /\ at' \in Woken([at EXCEPT ![p] = IF seen[p] = Iterations THEN "done" ELSE "lock"])
    /\ UNCHANGED <<consumers, started, counter, semaphore, seen, expected>>

\* Both waits are loops: to wake up for nothing does no harm.
Spurious(p) ==
    /\ at[p] = "wait" /\ GoTo(p, "lock")
    /\ UNCHANGED <<consumers, started, counter, semaphore, seen, expected>>

Player(p) ==
    /\ p \in started
    /\ \/ p = Producer /\ (Begin(p) \/ Produce)
       \/ p \in Consumers /\ Consume(p)
       \/ Notify(p)

Next == \E p \in Players : Start(p) \/ Player(p) \/ (p \in started /\ Spurious(p))

Fairness == \A p \in Players : WF_vars(Start(p)) /\ WF_vars(Player(p))

Spec == Init /\ [][Next]_vars /\ Fairness

-----------------------------------------------------------------------------
\* Every variable has its type.
TypeOK ==
    /\ consumers \in 1..MaxConsumers /\ started \in SUBSET Players
    /\ counter \in 0..Iterations /\ semaphore \in 0..MaxConsumers
    /\ seen \in [Players -> 0..Iterations] /\ at \in [Players -> Places] /\ expected \in 0..MaxConsumers

\* No consumer misses a value of the counter, and the semaphore counts those that
\* have seen the last one: the producer never overtakes (68-73, 88-93).
InStep ==
    /\ \A c \in 1..consumers : counter - 1 <= seen[c] /\ seen[c] <= counter
    /\ semaphore = Cardinality({c \in 1..consumers : seen[c] = counter})

\* The round ends and all threads are joined: a notify_all() outside the mutex
\* reaches whoever went to sleep before, and who comes later sees the change.
AllDone == \A p \in Playing : at[p] = "done"
RoundEnds == <>AllDone

\* The inductive invariant: the producer's `consumers` is their number, as it reads
\* the semaphore before its first turn, and it stops after the last one.
IInv ==
    /\ TypeOK /\ InStep
    /\ started \subseteq Playing
    /\ seen[Producer] = counter
    /\ at[Producer] \in {"begin", "lock", "wait"} => counter < Iterations
    /\ IF at[Producer] = "begin" THEN counter = 0 ELSE expected = consumers
    /\ \A c \in Consumers : at[c] # "begin"
=============================================================================
