------------------------------ MODULE Programs ------------------------------
(***************************************************************************)
(* The small programs and classes of the repository: one machine that runs *)
(* one of them.  It has twelve cells, which are the variables of the       *)
(* program it runs; those that the program does not use stay empty.        *)
(***************************************************************************)
EXTENDS Integers, Sequences, FiniteSets

\* The constants of the programs, each under the name that it has there but for the
\* first three: Threads, None and Start are definitions of some other programs.
CONSTANTS
    Users, NoUser,                \* Threads and None of TestableMutex, BoostSynchronized
    FirstCount,                   \* Start of CountDown
    MaxCalls,                     \* BoostSynchronized
    MaxThreads,                   \* SharedMonitor
    MaxConnections,               \* DaytimeServer
    Pushes, Capacity,             \* SpscQueue
    Iterations, MaxConsumers,     \* PingPong
    Priorities, Helpers,          \* PriorityScheduler
    MaxRounds,                    \* UpgradeMutex
    N,                            \* SyncQueueTests
    MaxAlarms, MaxTime,           \* AlarmCond
    Callers, MaxSize, MaxTasks, MaxAsks \* BoostQueuedThreadPool

ASSUME ProgramsAssumption ==
    /\ NoUser \notin Users /\ MaxCalls \in Nat
    /\ FirstCount \in Nat /\ MaxThreads \in Nat /\ MaxConnections \in Nat \ {0}
    /\ Pushes \in Nat /\ Capacity \in Nat
    /\ Iterations \in Nat \ {0} /\ MaxConsumers \in Nat
    \* The call of stop() comes last and has the lowest priority.
    /\ Priorities \in Seq(Int) /\ \A i \in 1..(Len(Priorities) - 1) : Priorities[i] > Priorities[Len(Priorities)]
    /\ MaxRounds \in Nat /\ N \in Nat \ {0, 1} /\ MaxAlarms \in Nat /\ MaxTime \in Nat \ {0}
    /\ Callers # {} /\ IsFiniteSet(Callers) /\ MaxSize \in Nat /\ MaxTasks \in Nat /\ MaxAsks \in Nat

VARIABLES
    program, \* which one runs
    c1, c2, c3, c4, c5, c6, c7, c8, c9, c10, c11, c12

vars == <<program, c1, c2, c3, c4, c5, c6, c7, c8, c9, c10, c11, c12>>

Testable == INSTANCE TestableMutex WITH
    Threads <- Users, None <- NoUser,
    mtx_ <- c1, id_ <- c2, at <- c3

Count == INSTANCE CountDown WITH
    Start <- FirstCount,
    atomic <- c1, g_cnt <- c2, at <- c3, upgrade <- c4, writer <- c5, sharing <- c6

SharedM == INSTANCE SharedMonitor WITH
    operation <- c1, phase <- c2, exclusive <- c3, upgrade <- c4, shared <- c5, begun <- c6

Server == INSTANCE DaytimeServer WITH
    created <- c1, accepting <- c2, writing <- c3, owned <- c4, handler <- c5, failed <- c6, answered <- c7

Spsc == INSTANCE SpscQueue WITH
    producer_count <- c1, consumer_count <- c2, length <- c3, done <- c4,
    producerAt <- c5, consumerAt <- c6, mainAt <- c7

Ping == INSTANCE PingPong WITH
    consumers <- c1, started <- c2, counter <- c3, semaphore <- c4, seen <- c5, at <- c6, expected <- c7

Priority == INSTANCE PriorityScheduler WITH
    stopped <- c1, queue <- c2, executors <- c3, posted <- c4, place <- c5, item <- c6, executed <- c7

Upgrades == INSTANCE UpgradeMutex WITH
    role <- c1, trying <- c2, sharers <- c3, upgrader <- c4, writer <- c5, state <- c6, pc <- c7, rounds <- c8

Boost == INSTANCE BoostSynchronized WITH
    Threads <- Users, None <- NoUser,
    mutex <- c1, tid <- c2, signal <- c3, at <- c4, timed <- c5, calls <- c6, notified <- c7, asked <- c8

Sync == INSTANCE SyncQueueTests WITH
    test <- c1, launched <- c2, arrived <- c3, taskAt <- c4, result <- c5, queue <- c6, closed <- c7,
    steps <- c8, pulled <- c9, mainAt <- c10

Alarm == INSTANCE AlarmCond WITH
    now <- c1, time <- c2, alarm_list <- c3, current_alarm <- c4, longest <- c5, enabled <- c6, pc <- c7,
    alarm <- c8, deadline <- c9, timeleft <- c10, handled <- c11

Queued == INSTANCE BoostQueuedThreadPool WITH
    size <- c1, closed <- c2, work <- c3, threadAt <- c4, callAt <- c5, task <- c6, answer <- c7,
    submitted <- c8, asked <- c9, runs <- c10, deletes <- c11, object <- c12

-----------------------------------------------------------------------------
\* The cells behind the last one of a program.
Empty12 == c12 = "empty"
Empty11 == c11 = "empty" /\ Empty12
Empty9 == c9 = "empty" /\ c10 = "empty" /\ Empty11
Empty8 == c8 = "empty" /\ Empty9
Empty7 == c7 = "empty" /\ Empty8
Empty4 == c4 = "empty" /\ c5 = "empty" /\ c6 = "empty" /\ Empty7

Init ==
    \/ program = "testable_mutex" /\ Testable!Init /\ Empty4
    \/ program = "count_down" /\ Count!Init /\ Empty7
    \/ program = "shared_monitor" /\ SharedM!Init /\ Empty7
    \/ program = "server" /\ Server!Init /\ Empty8
    \/ program = "spsc_queue" /\ Spsc!Init /\ Empty8
    \/ program = "ping_pong" /\ Ping!Init /\ Empty8
    \/ program = "priority" /\ Priority!Init /\ Empty8
    \/ program = "upgrade_mutex" /\ Upgrades!Init /\ Empty9
    \/ program = "synchronized" /\ Boost!Init /\ Empty9
    \/ program = "sync_queue" /\ Sync!Init /\ Empty11
    \/ program = "alarm" /\ Alarm!Init /\ Empty12
    \/ program = "queued_pool" /\ Queued!Init

Rest12 == <<program, c12>>
Rest11 == <<program, c11, c12>>
Rest9 == <<c9, c10, Rest11>>
Rest8 == <<c8, Rest9>>
Rest7 == <<c7, Rest8>>
Rest4 == <<c4, c5, c6, Rest7>>

Next ==
    \/ program = "testable_mutex" /\ Testable!Next /\ UNCHANGED Rest4
    \/ program = "count_down" /\ Count!Next /\ UNCHANGED Rest7
    \/ program = "shared_monitor" /\ SharedM!Next /\ UNCHANGED Rest7
    \/ program = "server" /\ Server!Next /\ UNCHANGED Rest8
    \/ program = "spsc_queue" /\ Spsc!Next /\ UNCHANGED Rest8
    \/ program = "ping_pong" /\ Ping!Next /\ UNCHANGED Rest8
    \/ program = "priority" /\ Priority!Next /\ UNCHANGED Rest8
    \/ program = "upgrade_mutex" /\ Upgrades!Next /\ UNCHANGED Rest9
    \/ program = "synchronized" /\ Boost!Next /\ UNCHANGED Rest9
    \/ program = "sync_queue" /\ Sync!Next /\ UNCHANGED Rest11
    \/ program = "alarm" /\ Alarm!Next /\ UNCHANGED Rest12
    \/ program = "queued_pool" /\ Queued!Next /\ UNCHANGED program

\* The fairness of each module, for the program that runs.

Fairness ==
    /\ \A t \in SharedM!Threads : WF_vars(program = "shared_monitor" /\ SharedM!Goes(t) /\ UNCHANGED Rest7)
    /\ WF_vars(program = "spsc_queue" /\ Spsc!Produce /\ UNCHANGED Rest8)
    /\ WF_vars(program = "spsc_queue" /\ Spsc!Consume /\ UNCHANGED Rest8)
    /\ WF_vars(program = "spsc_queue" /\ Spsc!Main /\ UNCHANGED Rest8)
    /\ \A p \in Ping!Players :
          /\ WF_vars(program = "ping_pong" /\ Ping!Start(p) /\ UNCHANGED Rest8)
          /\ WF_vars(program = "ping_pong" /\ Ping!Player(p) /\ UNCHANGED Rest8)
    /\ WF_vars(program = "priority" /\ Priority!Main /\ UNCHANGED Rest8)
    /\ \A r \in Priority!Runners : WF_vars(program = "priority" /\ Priority!Runner(r) /\ UNCHANGED Rest8)
    /\ \A t \in Upgrades!Threads :
          /\ WF_vars(program = "upgrade_mutex" /\ Upgrades!Inside(t) /\ UNCHANGED Rest9)
          /\ WF_vars(program = "upgrade_mutex" /\ Upgrades!Finish(t) /\ Upgrades!Outside(t) /\ UNCHANGED Rest9)
    /\ \A t \in Users :
          WF_vars(program = "synchronized" /\ Boost!Alive /\ Boost!Goes(t) /\ UNCHANGED Rest9)
    /\ WF_vars(program = "sync_queue" /\ Sync!Main /\ UNCHANGED Rest11)
    /\ \A t \in Sync!Tasks : WF_vars(program = "sync_queue" /\ Sync!Task(t) /\ UNCHANGED Rest11)
    /\ WF_vars(program = "alarm" /\ Alarm!AlarmThread /\ UNCHANGED Rest12)
    /\ WF_vars(program = "alarm" /\ Alarm!Tick /\ UNCHANGED Rest12)
    /\ \A c \in Callers : WF_vars(program = "queued_pool" /\ Queued!Goes(c) /\ UNCHANGED program)
    /\ \A w \in Queued!Threads : WF_vars(program = "queued_pool" /\ Queued!Thread(w) /\ UNCHANGED program)

Spec == Init /\ [][Next]_vars /\ Fairness

-----------------------------------------------------------------------------
(* The properties are those of the modules, which say what they are about. *)

\* Every variable of the program that runs has its type.
TypesOK ==
    CASE program = "testable_mutex" -> Testable!TypeOK
      [] program = "count_down" -> Count!TypeOK
      [] program = "shared_monitor" -> SharedM!TypeOK
      [] program = "server" -> Server!TypeOK
      [] program = "spsc_queue" -> Spsc!TypeOK
      [] program = "ping_pong" -> Ping!TypeOK
      [] program = "priority" -> Priority!TypeOK
      [] program = "upgrade_mutex" -> Upgrades!TypeOK
      [] program = "synchronized" -> Boost!TypeOK
      [] program = "sync_queue" -> Sync!TypeOK
      [] program = "alarm" -> Alarm!TypeOK
      [] program = "queued_pool" -> Queued!TypeOK

\* Who has which lock is known, exclusive where it must be, and given up in the
\* end: the id beside a mutex is its owner's (testable_mutex.hpp, 54-108;
\* threadpool.cpp, 160-225), nobody who has its locks uses an object that another
\* thread writes (shared_mutex.cpp, 610-633 and 640-650, but not the sizes read at
\* 637; shared_monitor.cpp, 48-102), and no thread leaves its lock behind
\* (shared_mutex.cpp, 299-507).
OwnersAreKnown ==
    /\ program = "testable_mutex" => Testable!IdIsOwner
    /\ program = "synchronized" => Boost!OwnerIsKnown
    /\ program = "shared_monitor" => SharedM!NoRaceUnderLocks
    /\ program = "upgrade_mutex" => Upgrades!LeftUnlocked

Consistent == TypesOK /\ OwnersAreKnown

\* What the programs themselves assert: the value seen under an upgrade
\* (shared_mutex.cpp, 78-365), the bound of the counters (test_atomic_counter.cpp,
\* 18-19), the counts of the queue (lockfree_spsc_queue.cpp, 54, 94), the results
\* of the tests (multi_thread_pass.cpp, 75-229), and that no player misses a turn
\* (perf_condition_variable.cpp, 64-94).
AssertionsHold ==
    /\ program = "upgrade_mutex" => Upgrades!AssertionsHold
    /\ program = "count_down" => Count!NotBelow
    /\ program = "spsc_queue" => Spsc!CountsAgree
    /\ program = "sync_queue" => Sync!TestsPass
    /\ program = "ping_pong" => Ping!InStep

\* No alarm (alarm_cond.cpp, 96-245), item of the scheduler (priority_scheduler.cpp,
\* 102-133), task of the boost queued pool (threadpool.cpp, 702-737) or connection
\* (async_server.cpp, 54-126) is lost, doubled or out of order.
NothingLost ==
    /\ program = "alarm" => Alarm!NothingLost /\ Alarm!LongestIsLast
    /\ program = "priority" => Priority!NothingDropped
    /\ program = "queued_pool" => Queued!TaskOwnership
    /\ program = "server" => Server!OwnedWhileUsed /\ Server!KeepsAccepting

\* No alarm is handled before its time (alarm_cond.cpp, 217-220) and no wait()
\* returns before a notify (threadpool.cpp, 111-126), also when woken for nothing.
NothingEarly ==
    /\ [][program = "alarm" => Alarm!HandlesDue]_vars
    /\ [][program = "synchronized" => Boost!ReturnsNotified]_vars

\* The boost monitor implements the abstract one (threadpool.cpp, 111-250).
ImplementsMonitor ==
    /\ program = "synchronized" => Boost!M!Init
    /\ [][program = "synchronized" => [Boost!M!Next]_(Boost!M!vars)]_vars

\* The boost queued pool implements TaskExecution (threadpool.cpp, 658-748).
ImplementsTaskExecution ==
    /\ program = "queued_pool" => Queued!TE!Init
    /\ [][program = "queued_pool" => [Queued!TE!Next]_(Queued!TE!vars)]_vars

\* Every program ends what it began: operations over several objects do not wait
\* for each other in a ring (shared_mutex.cpp, 647-648; unless the assertion at 637
\* stops the program), nor upgrades (509-594);
\* the ping pong survives notify_all() without the mutex (perf_condition_variable.cpp,
\* 75-97), run() returns in every thread (priority_scheduler.cpp, 115-131), alarms
\* are handled (alarm_cond.cpp, 167-245), the destructor of the boost monitor ends
\* (threadpool.cpp, 99-106), and so do tasks and calls of its queued pool (686-748),
\* the two threads of the lock-free queue and the tests of sync_queue.
WorkEnds ==
    <>[](/\ program = "shared_monitor" => SharedM!AllOut
         /\ program = "upgrade_mutex" => Upgrades!AllDone
         /\ program = "ping_pong" => Ping!AllDone
         /\ program = "priority" => Priority!AllReturned
         /\ program = "alarm" => Alarm!AllHandled
         /\ program = "synchronized" => Boost!Undisturbed
         /\ program = "queued_pool" => Queued!AllEnded
         /\ program = "spsc_queue" => Spsc!Ended
         /\ program = "sync_queue" => Sync!Checked)
=============================================================================
