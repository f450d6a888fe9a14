--------------------------- MODULE SyncQueueTests ---------------------------
(***************************************************************************)
(* The tests of boost::sync_queue (src/multi_thread_pass.cpp, 25-229):     *)
(* tasks of boost::async() meet at a barrier and then push to or pull from *)
(* one queue, while main pushes, closes or just waits.  Queue, barrier and *)
(* futures are of the library; here they are what the tests need of them.  *)
(***************************************************************************)
EXTENDS Naturals, Sequences, FiniteSets

CONSTANT N \* const unsigned int n

Tasks == 1..N
None == 0
Closed == 41 \* a result that no push makes

VARIABLES
    test,     \* which of the five tests runs
    launched, \* 0..N: the tasks that main has started
    arrived,  \* SUBSET Tasks: at or behind the barrier
    taskAt,   \* [Tasks -> {"none", "barrier", "queue", "ready"}]
    result,   \* [Tasks -> Nat]: the value pulled, or Closed
    queue,    \* Seq(Nat)
    closed,
    steps,    \* how many pushes or pulls main has made
    pulled,   \* Seq(Nat): what main has pulled
    mainAt    \* "launch", "act", "get", "pull", "checked"

vars == <<test, launched, arrived, taskAt, result, queue, closed, steps, pulled, mainAt>>

\* push and pull; push and wait_pull; wait_pull and close; push; pull.
Tests == {"push_pull", "push_wait_pull", "wait_pull_close", "push", "pull"}

\* The tasks of the test, and which of them push.
Members == IF test = "push_pull" THEN {1, 2} ELSE Tasks
Pushing == CASE test = "push_pull" -> {1} [] test = "push" -> Tasks [] OTHER -> {}

Init ==
    /\ test \in Tests
    /\ launched = 0 /\ arrived = {} /\ taskAt = [t \in Tasks |-> "none"]
    /\ result = [t \in Tasks |-> None]
    /\ queue = <<>> /\ closed = FALSE /\ steps = 0 /\ pulled = <<>>
    /\ mainAt = IF test = "pull" THEN "act" ELSE "launch"

\* Main pushes 42 + i, before the tasks are launched or after.
MainPushes == test \in {"push_wait_pull", "pull"}

-----------------------------------------------------------------------------
\* boost::async(), one after the other.
Launch ==
    /\ mainAt = "launch"
    /\ IF launched < Cardinality(Members)
         THEN /\ launched' = launched + 1 /\ taskAt' = [taskAt EXCEPT ![launched + 1] = "barrier"]
              /\ UNCHANGED mainAt
         ELSE /\ mainAt' = IF test \in {"push_wait_pull", "wait_pull_close"} THEN "act" ELSE "get"
              /\ UNCHANGED <<launched, taskAt>>
    /\ UNCHANGED <<test, arrived, result, queue, closed, steps, pulled>>

\* main pushes N values, or closes the queue.
Act ==
    /\ mainAt = "act"
    /\ IF MainPushes /\ steps < N
         THEN /\ queue' = Append(queue, 42 + steps) /\ steps' = steps + 1
              /\ UNCHANGED <<closed, mainAt>>
         ELSE /\ closed' = (test = "wait_pull_close") /\ steps' = 0
              /\ mainAt' = IF test = "pull" THEN "launch" ELSE "get"
              /\ UNCHANGED queue
    /\ UNCHANGED <<test, launched, arrived, taskAt, result, pulled>>

\* The futures are ready; the test of the pushing tasks pulls what they pushed.
Ready_launched == TRUE \* mutant: the queue is looked at before the futures
Ready == \A t \in Members : taskAt[t] = "ready"

Get ==
    /\ mainAt = "get" /\ Ready
    /\ mainAt' = IF test = "push" THEN "pull" ELSE "checked"
    /\ UNCHANGED <<test, launched, arrived, taskAt, result, queue, closed, steps, pulled>>

Pull ==
    /\ mainAt = "pull"
    /\ IF steps < N
         THEN /\ queue # <<>>
              /\ pulled' = Append(pulled, Head(queue)) /\ queue' = Tail(queue) /\ steps' = steps + 1
              /\ UNCHANGED mainAt
         ELSE mainAt' = "checked" /\ UNCHANGED <<queue, steps, pulled>>
    /\ UNCHANGED <<test, launched, arrived, taskAt, result, closed>>

-----------------------------------------------------------------------------
\* go.count_down_and_wait(): the first comers wait for the last.
Arrive(t) ==
    /\ taskAt[t] = "barrier" /\ t \notin arrived
    /\ arrived' = arrived \cup {t}
    /\ UNCHANGED <<test, launched, taskAt, result, queue, closed, steps, pulled, mainAt>>

Count_fixed == N \* mutant: `boost::barrier go(n)` also for the two tasks of the first test
Count == Cardinality(Members)

Pass(t) ==
    /\ taskAt[t] = "barrier" /\ t \in arrived /\ Cardinality(arrived) >= Count
    /\ taskAt' = [taskAt EXCEPT ![t] = "queue"]
    /\ UNCHANGED <<test, launched, arrived, result, queue, closed, steps, pulled, mainAt>>

\* push(42), pull() or wait_pull(v), which waits while the queue is empty and open.
Operate(t) ==
    /\ taskAt[t] = "queue"
    /\ \/ /\ t \in Pushing
          /\ queue' = Append(queue, 42) /\ UNCHANGED result
       \/ /\ t \notin Pushing /\ queue # <<>>
          /\ result' = [result EXCEPT ![t] = Head(queue)] /\ queue' = Tail(queue)
       \/ /\ t \notin Pushing /\ queue = <<>> /\ closed
          /\ result' = [result EXCEPT ![t] = Closed] /\ UNCHANGED queue
    /\ taskAt' = [taskAt EXCEPT ![t] = "ready"]
    /\ UNCHANGED <<test, launched, arrived, closed, steps, pulled, mainAt>>

Main == Launch \/ Act \/ Get \/ Pull
Task(t) == Arrive(t) \/ Pass(t) \/ Operate(t)

Next == Main \/ \E t \in Tasks : Task(t)

Fairness == WF_vars(Main) /\ \A t \in Tasks : WF_vars(Task(t))

Spec == Init /\ [][Next]_vars /\ Fairness

-----------------------------------------------------------------------------
\* Every variable has its type.
TypeOK ==
    /\ test \in Tests /\ launched \in 0..N /\ arrived \in SUBSET Tasks
    /\ taskAt \in [Tasks -> {"none", "barrier", "queue", "ready"}]
    /\ result \in [Tasks -> {None, Closed} \cup 42..41 + N]
    /\ queue \in Seq(42..41 + N) /\ closed \in BOOLEAN /\ steps \in 0..N
    /\ pulled \in Seq(42..41 + N) /\ mainAt \in {"launch", "act", "get", "pull", "checked"}

\* What BOOST_TEST asks when a test is over: the queue is empty, every value was
\* pulled by one task (102-123, 221-225) or by main (181-186), and the tasks that
\* waited for a closed queue were told so (144-149).
TestsPass ==
    mainAt = "checked" =>
        /\ queue = <<>>
        /\ CASE test = "push_pull" -> result[2] = 42
             [] MainPushes -> {result[t] : t \in Tasks} = 42..41 + N
             [] test = "wait_pull_close" -> \A t \in Tasks : result[t] = Closed
             [] test = "push" -> pulled = [i \in 1..N |-> 42]

\* Every test comes to its end: nobody stays at the barrier or on an empty queue.
Checked == mainAt = "checked"
TestsEnd == <>Checked

\* The inductive invariant, by test: the queue holds what was pushed and not yet
\* pulled, in order, and the results are what was pulled.
Done == {t \in Members : taskAt[t] = "ready"}
Pushed == \* by main
    CASE mainAt = "act" -> steps
      [] mainAt = "launch" -> IF test = "pull" THEN N ELSE 0
      [] OTHER -> N
IInv ==
    /\ TypeOK
    /\ launched <= Cardinality(Members) /\ \A t \in Tasks : taskAt[t] # "none" => t <= launched
    /\ mainAt = "act" => test \notin {"push_pull", "push"}
    /\ mainAt \notin {"act", "pull"} => steps = 0 \/ test = "push"
    /\ mainAt = "pull" => test = "push"
    /\ mainAt \in {"pull", "checked"} => Done = Members
    /\ closed => test = "wait_pull_close"
    /\ test = "push_pull" =>
          /\ Len(queue) = IF taskAt[1] = "ready" /\ taskAt[2] # "ready" THEN 1 ELSE 0
          /\ \A i \in DOMAIN queue : queue[i] = 42
          /\ taskAt[2] = "ready" => taskAt[1] = "ready" /\ result[2] = 42
    /\ MainPushes =>
          /\ Len(queue) = Pushed - Cardinality(Done)
          /\ \A i \in DOMAIN queue : queue[i] = 41 + Cardinality(Done) + i
          /\ {result[t] : t \in Done} = 42..41 + Cardinality(Done)
    /\ test = "wait_pull_close" => queue = <<>> /\ steps = 0 /\ \A t \in Done : result[t] = Closed
    /\ test = "push" =>
          /\ Len(queue) = Cardinality(Done) - steps /\ \A i \in DOMAIN queue : queue[i] = 42
          /\ steps = Len(pulled) /\ \A i \in DOMAIN pulled : pulled[i] = 42
          /\ mainAt \notin {"pull", "checked"} => steps = 0
          /\ mainAt = "checked" => steps = N
=============================================================================
