----------------------------- MODULE SpscQueue ------------------------------
(***************************************************************************)
(* The program of the lock-free queue (src/lockfree_spsc_queue.cpp): one   *)
(* thread pushes, one pops, main joins the first, sets the flag `done` for *)
(* the second, and compares their counts.  The queue is of the library.    *)
(***************************************************************************)
EXTENDS Naturals

CONSTANTS
    Pushes,  \* bound: `iterations`, 10000000 in the program
    Capacity \* of the queue, 1024 in the program

VARIABLES
    producer_count, consumer_count,
    length,      \* 0..Capacity: the queue
    done,
    producerAt,  \* "count", "push" or "ended"
    consumerAt,  \* "test", "pop", "drain" or "ended"
    mainAt       \* "producer", "flag", "consumer" or "counts"

vars == <<producer_count, consumer_count, length, done, producerAt, consumerAt, mainAt>>

Init ==
    /\ producer_count = 0 /\ consumer_count = 0 /\ length = 0 /\ done = FALSE
    /\ producerAt = "count" /\ consumerAt = "test" /\ mainAt = "producer"

\* producer(): count first, push until it succeeds.
Produce ==
    /\ \/ /\ producerAt = "count"
          /\ IF producer_count = Pushes
               THEN producerAt' = "ended" /\ UNCHANGED producer_count
               ELSE producerAt' = "push" /\ producer_count' = producer_count + 1
          /\ UNCHANGED length
       \/ /\ producerAt = "push" /\ length < Capacity
          /\ length' = length + 1 /\ producerAt' = "count"
          /\ UNCHANGED producer_count
    /\ UNCHANGED <<consumer_count, done, consumerAt, mainAt>>

\* consumer(): pop until empty, as long as the flag is not set, and once more.
Last_none == "ended" \* mutant: without the second loop
Last == "drain"

Consume ==
    /\ \/ /\ consumerAt = "test"
          /\ consumerAt' = IF done THEN Last ELSE "pop"
          /\ UNCHANGED <<length, consumer_count>>
       \/ /\ consumerAt \in {"pop", "drain"} /\ length > 0
          /\ length' = length - 1 /\ consumer_count' = consumer_count + 1
          /\ UNCHANGED consumerAt
       \/ /\ consumerAt \in {"pop", "drain"} /\ length = 0
          /\ consumerAt' = IF consumerAt = "pop" THEN "test" ELSE "ended"
          /\ UNCHANGED <<length, consumer_count>>
    /\ UNCHANGED <<producer_count, done, producerAt, mainAt>>

\* main(): join the producer, set the flag, join the consumer.
Joined_early == TRUE \* mutant: the flag is set before the producer is joined
Joined == producerAt = "ended"

Main ==
    /\ \/ mainAt = "producer" /\ Joined /\ mainAt' = "flag" /\ UNCHANGED done
       \/ mainAt = "flag" /\ done' = TRUE /\ mainAt' = "consumer"
       \/ mainAt = "consumer" /\ consumerAt = "ended" /\ mainAt' = "counts" /\ UNCHANGED done
    /\ UNCHANGED <<producer_count, consumer_count, length, producerAt, consumerAt>>

Next == Produce \/ Consume \/ Main

Fairness == WF_vars(Produce) /\ WF_vars(Consume) /\ WF_vars(Main)

Spec == Init /\ [][Next]_vars /\ Fairness

-----------------------------------------------------------------------------
\* Every variable has its type.
TypeOK ==
    /\ producer_count \in 0..Pushes /\ consumer_count \in 0..Pushes /\ length \in 0..Capacity
    /\ done \in BOOLEAN
    /\ producerAt \in {"count", "push", "ended"} /\ consumerAt \in {"test", "pop", "drain", "ended"}
    /\ mainAt \in {"producer", "flag", "consumer", "counts"}

\* BOOST_ASSERT(producer_count == consumer_count): what is pushed between the
\* last pop of the first loop and the flag is popped by the second one (42-56, 94).
CountsAgree == mainAt = "counts" => producer_count = consumer_count

\* The program comes to its end and both threads do, also over a queue that is
\* full or empty: the consumer does not leave before the last push.
Ended == mainAt = "counts" /\ producerAt = "ended"
ProgramEnds == <>Ended

\* The inductive invariant: what was counted by the producer is counted by the
\* consumer, in the queue or about to be pushed; the flag is behind the last push.
IInv ==
    /\ TypeOK
    /\ producer_count = consumer_count + length + (IF producerAt = "push" THEN 1 ELSE 0)
    /\ mainAt # "producer" => producerAt = "ended"
    /\ done => mainAt \in {"consumer", "counts"}
    /\ consumerAt \in {"drain", "ended"} => done
    /\ consumerAt = "ended" => length = 0
    /\ mainAt = "counts" => consumerAt = "ended"
=============================================================================
