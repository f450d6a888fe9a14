# TLA+ models and proofs of QueuedThreadPool

This directory holds a formal model of the thread pools of this repository and
of the concurrent programs beside them: TLA+ modules, configurations for the
model checker TLC, and proofs for the proof system TLAPS. `PROJECT.json` is the
index: components, runs, the source lines each definition stands for, what is
known to go wrong and which theorems are proved.

Check a run with `tlc -config PosixThreadPool.cfg PosixThreadPool` (the table in
section 3 gives module and configuration of each) and the proofs with
`tlapm PosixThreadPool_proofs.tla`, and so on for the other modules whose names
end in `_proofs`.

## 1. The system

The repository has one idea in three implementations: a pool of threads that
execute `Runnable` objects and delete them. Around it stand programs that try
out mutexes, condition variables, queues and executors.

| component | state | operations | talks to |
|---|---|---|---|
| `posix/` `Synchronized`, `Lock` | error checking mutex, condition variable | lock, timed lock, trylock, unlock, wait, timed wait, notify, notify_all, destructor with retries | pthreads |
| `posix/` `Thread`, `ThreadList` | status (IDLE, RUNNING, FINISHED), pthread id | start, join, is_alive, sleep | pthreads, the `Runnable` it runs |
| `posix/` `TaskManager` | `task`, `go`, its own monitor, its worker thread | set_task, is_idle, stop, run, destructor | its `ThreadPool` (idle_notification), the task |
| `posix/` `ThreadPool` | `taskList`, its own monitor | execute, is_idle, is_busy, terminate, idle_notification, destructor | its `TaskManager`s |
| `posix/` `QueuedThreadPool` | `queue`, `go`, the queue thread and its monitor | execute, is_idle, is_busy, queue_length, terminate, run, destructor | the `ThreadPool` it extends |
| AGENT++ pools (`threads.cpp`, `agent_pp/threads.h`) | the same, and `oneTimeExecution` | the same with one second timeouts, `join`, `stop` | as above |
| AGENT++ `LockQueue`, `LockRequest` | two lists of requests, `go`, a thread | acquire, release, run with polling, destructor | the `Synchronized` objects it locks for others |
| boost `Synchronized` (`threadpool.cpp`) | `boost::mutex`, owner `tid_`, one flag `signal` | lock, timed lock, trylock, unlock, wait, timed wait, notify, destructor | boost.thread |
| boost `ThreadPool`, `TaskManager` | `taskList`, per manager `task`, `go`, status | execute with a random timeout, is_idle, is_busy, terminate, destructor; `set_task` that only tries | its managers |
| boost `QueuedThreadPool` | a `boost::basic_thread_pool` | execute, is_idle and is_busy (which may run a task), terminate, destructor | the executor |
| `alarm_cond.cpp` | a sorted list of alarms, `current_alarm`, `longest`, one thread | insert, wait until the first alarm, handle, stop | `std::condition_variable` |
| `priority_scheduler.cpp` | a priority queue, `stopped_` | get_executor, post, run, stop | boost.thread |
| `shared_mutex.cpp`, `shared_monitor.cpp` | one or several shared or upgrade mutexes | read, write, upgrade, downgrade; swap, average, assignment, compute | boost.thread |
| `perf_condition_variable.cpp`, `lockfree_spsc_queue.cpp`, `multi_thread_pass.cpp`, `test_atomic_counter.cpp`, `test_shared_mutex.cpp` | a counter or queue, a flag | hand it to and fro, push and pop, meet at a barrier, count down | the library |
| `boost/testable_mutex.hpp` | a mutex, the id of its owner | lock, try_lock, unlock, the three questions | `std::mutex` |
| `async_server.cpp` | connections that live by the handlers that wait | accept, serve | an `io_context` |

The rest are straight-line examples, tests, a vendored timing library and build
files (`PROJECT.json` lists them with the reason they are left out).

What interacts with what in the pools:

* A caller of the posix `ThreadPool` holds the pool's lock for its whole call,
  apart from `wait()`, and takes one manager's lock at a time under it.
* A worker holds its manager's lock all the time, apart from `wait()`: also
  while a task runs. Whoever asks a busy posix or AGENT++ manager anything waits
  for the task. The boost pool asks without that lock, and `set_task()` gives up
  when it cannot have it.
* A worker calls back into the pool (`idle_notification`) with its own lock
  held. In the posix and AGENT++ pools it does so *without* the pool's lock: this
  keeps the two lock orders from meeting, and loses wakeups. The AGENT++ pools
  wait for a second at most and look again, the posix pools wait for ever. The
  boost worker takes the pool's lock, in the order opposite to that of
  `execute()`; only the `try_lock` in `set_task()` keeps the two apart.
* `QueuedThreadPool::thread` (posix, AGENT++) is a thread and a monitor in one
  object; the queue thread and `execute()` hold its lock, and call methods of
  the base class under it.
* `LockQueue` locks objects in its own thread for other threads, by `trylock`
  in turn, while further threads lock the same objects themselves.

What makes each component correct:

* `TaskManager`: a task that was set is run once or, when the manager is
  stopped first, deleted unrun; the slot is empty afterwards; no signal to the
  worker is lost.
* `ThreadPool`: a task has one owner at all times; `set_task` after `is_idle`
  succeeds; the answers of `is_idle` and `is_busy` are exact although they are
  found by a scan; `terminate` stops and joins every worker, and nobody uses a
  manager it has freed; calls return.
* `Synchronized`: one thread at most is inside, also after timeouts and spurious
  wakeups; whoever is inside knows it; calls return; deadlines are right; the
  destructor destroys an unused object, and gives up late on a used one.
* `QueuedThreadPool`: the same as `ThreadPool`, and tasks are assigned in the
  order they were queued (posix), or at least not overtaken by a later
  `execute()` (AGENT++); nothing is assigned once the pool is stopped; the
  destructor deletes what is left; the queue thread ends.
* `LockQueue`: a request is answered, once; grants and requests are in step; the
  flag beside the mutex settles; the destructor ends with nobody left waiting.
* The programs: no alarm, item, task or connection is lost or doubled; nobody
  uses what another thread writes; their assertions hold; they end.

The hard behaviour is the interleaving of callers, workers and the queue thread
at every point where a lock is not held, threads that could not be created, time
that runs out while the answer is on its way, and termination while all of that
goes on. Nothing is persisted, so there are no crashes to recover from.
`PROJECT.json` lists the hazards line by line.

## 2. Modules

| module | models |
|---|---|
| `TaskExecution` | the abstract life of a task: new, accepted, running, finished or discarded |
| `Monitor` | what the headers promise of `Synchronized`: who is inside, who sleeps |
| `PosixTaskManager` | `TaskManager`, `Thread` and the monitor of a manager; completed by a pool |
| `PosixThreadPool` | `ThreadPool` with any number of concurrent callers; EXTENDS `PosixTaskManager` |
| `PosixQueuedThreadPool` | `QueuedThreadPool`: queue, queue thread, callers; EXTENDS `PosixTaskManager` |
| `PosixSynchronized` | `Synchronized`: every operation, and the destructor with its retries |
| `PosixDeadline` | the arithmetic of deadlines and of `Thread::sleep()`, on one clock |
| `AgentThreadPool` | both AGENT++ pools, with and without one time execution |
| `AgentLockQueue` | `LockQueue`, `LockRequest`, and `Synchronized` with its flag |
| `BoostThreadPool` | the boost `ThreadPool` and `TaskManager` |
| `BoostSynchronized` | the boost monitor with `tid_` and `signal` |
| `BoostQueuedThreadPool` | the boost queued pool over an external executor |
| `AlarmCond`, `PriorityScheduler` | the two schedulers |
| `SharedMonitor`, `UpgradeMutex` | operations that lock several objects; upgrade and downgrade of one mutex |
| `PingPong`, `SpscQueue`, `SyncQueueTests`, `CountDown` | the benchmark, the queues and the counters |
| `TestableMutex`, `DaytimeServer` | the mutex with an owner; the asynchronous server |
| `PosixThreadPool_proofs`, `PosixQueuedThreadPool_proofs`, `AgentThreadPool_proofs`, `BoostThreadPool_proofs` | inductive invariants and theorems of the pools, and that they implement `TaskExecution` |
| `PosixSynchronized_proofs` | the same of the posix monitor, and that it implements `Monitor` |
| `AgentLockQueue_proofs`, `PosixDeadline_proofs` | invariants and theorems of the lock queue and of the deadlines |
| `Programs` | one machine that runs one of the twelve modules from `BoostSynchronized` to `DaytimeServer` in this table |
| `Programs_proofs` | inductive invariants and theorems of these twelve, that the boost monitor implements `Monitor` and the boost queued pool `TaskExecution` |
| `MCPosixDeadline`, `MCPrograms` | the clock samples of one instance; the items of the priority scheduler of one instance |

### How state and actions correspond to the code

`PosixTaskManager`. The manager at index `m - 1` of `taskList` is the number
`m`. `wpc[m]` says where its worker is in `TaskManager::run()` (and, for
`"unborn"` and `"joined"`, what `Thread::status` is); `slot[m]` is `task`,
`tmGo[m]` is `go`. `runs` and `deletes` count, per task, the calls of `run()`
and of `delete`. The mutex of a manager is not a variable: its worker holds it
exactly in the states `loop`, `running` and `notify`, and everybody else holds
it for one straight-line block (`is_idle`, `set_task`, `stop`, the locked block
of the destructor), which is one step guarded by `TmFree(m)`. The steps of a
worker are `WorkerLock`, `WorkerRun`, `WorkerFinish` (run() returned or threw,
`delete task; task = NULL`), `WorkerNotify`, `WorkerWait`, `WorkerExit` (with
the deletion of a task that was set and never run), and `WorkerSpurious`.

`PosixThreadPool`. `pc[c]` says where caller `c` is in its call, `op[c]` which
call it is, `cur[c]` is the loop's iterator, `hand[c]` the argument of
`execute()`, `answer[c]` a result under construction. The pool's lock is
`poolOwner`, the vector is `size` (the managers `1..size`). One action per point
at which a call takes a lock or releases one: a scan is one step per manager,
so workers may go on between two steps of it; `terminate()` is one step per
`stop()`, and per manager one step for the locked block of its destructor and
one for `thread.join()`. `notify()` wakes one caller of `Waiters` chosen freely,
and nobody if there is none; a woken caller has to take the lock again.
`CallDestroy` is made when no other call is in progress and no call follows it.

`PosixQueuedThreadPool`. The same callers; `qpc`, `qcur` are the queue thread,
`queue`, `go` the members, `owner` the lock of `thread`. `execute()` is a single
step. The lock and the condition variable of the base class are left out: they
are taken only under the lock of `thread`, and nobody waits there. `pushed`
remembers the order in which tasks were queued.

`PosixSynchronized`. The object underneath the pools, on its own: the pools use
its operations as parts of their steps, so nothing is composed. `owner` is the
pthread mutex, `pc[t]` says in which call thread `t` blocks, and `holds[t]` what
the results of its calls have told it. A call that cannot block is one step; one
that may block has a step that enters and one that returns, and `wait()` gives
the mutex up in the step in which it falls asleep, as `pthread_cond_wait` does.
Time is left out: a timed call may expire at any moment while it blocks. The
destructor has one step per call of pthreads (trylock with its unlock, the timed
lock, unlock, mutex_destroy, cond_destroy) and its counter `errors`; no call may
begin after it, but the calls in progress go on, and the thread inside may
leave. What pthreads answers is external: glibc on Linux, where trylock of an
error checking mutex gives EBUSY to its owner too, mutex_destroy gives EBUSY
while somebody holds the mutex or is in a wait, and cond_destroy waits for
sleepers. A sleep of the destructor between two tries is just the distance
between two steps.

`PosixDeadline`. One thread, and a clock that only moves forward. `CallWait` and
`CallLock` compute the deadline as the code does (C++ division and remainder,
`Quot` and `Rem`), `TimesOut` ends them, `CallSleep`, `Interrupted`,
`SleepAgain` are `sleep()` and the loop of `nsleep()`. That clock is
CLOCK_REALTIME and could be set back; this is not modelled, nor is the overflow
of `time_t`.

`AgentThreadPool`. One machine for both classes: `queued` says which one the
object is, and `LockOf(a)` which of the two locks a call takes, that of the pool
or that of `thread`; `QueueThread` is one more actor that runs the same `Probe`
and `Assign` as `execute()`. Tasks are numbered in the order of submission and
callers are any threads, so the calls they make together are bounded, not those
of each. `object` says how far the destructors are; `~QueuedThreadPool()` and
the destructor of its base run one after the other (`DestroyQuit`, `DestroyHalt`,
`DestroyMembers`, `DestroyManagers`, with the joins of each). A timed wait ends
by `TimeOut` at any moment, but is not obliged to end at once. `alive` is
`is_alive()`, which `join()` alone clears: a worker that left after one task
still counts as idle.

`AgentLockQueue`. A requester is a thread with its `LockRequest`: `rpc` says
where it is between `acquire()` and the answer to its `release()`;
`pendingLock`, `pendingRelease`, `go` are the members of the queue, `hand` the
request its thread works at and `left` what remains of the loop over the
requests. `mutex` and `isLocked` are two variables because the code changes them
in two steps, and `asserts` records whether the assertions of `trylock()` held.

`BoostThreadPool`. As the posix pool, with `status` (the worker sets FINISHED
after `run()`, in the step `WorkerLeave`), `signal` (the flag of the pool's
condition), and questions that take no manager's lock. `SetTaskEnds` and
`Accepts` are the `try_lock`. A caller that waits may time out at any moment
("late") and asks again.

`BoostSynchronized`. The mutex and `tid_` change in two steps ("taken",
"leaving"). `wait()` clears `signal`, and goes on sleeping as long as it is
false. `notified` and `asked` are history: who was woken, and for whom a notify
came.

`BoostQueuedThreadPool`. `work` is the queue inside the executor, `threadAt` what
its threads run, `callAt` the place of a caller between `closed()` and
`submit()`, or in the task that `is_idle()` or `is_busy()` has taken.

`AlarmCond`. `now` is the steady clock, `alarm_list` the list, `alarm` the alarm
in the hand of the thread, `longest` the static variable of `alarm_insert()`. A
timed wait that was woken may still report a timeout when it gets the mutex back
behind its deadline (`TimeOut`).
`PriorityScheduler`: `queue` is the set of items, `place` and `item` say what
each thread in `run()` does; constructing an executor clears `stopped`.
`SharedMonitor`: `exclusive`, `upgrade`, `shared` are the locks of each object;
`boost::lock()` gets all its locks in one step or waits with none, and
`average()` waits once more with its locks in hand. Before it locks anything it
asserts that two sizes are equal: that is its phase "check", and if another
thread is swapping one of the two the outcome is free, because it is a data race
(`Check`, `Torn`). A failed assertion ends the program (`Alive`); in a build
without assertions "check" does nothing. `UpgradeMutex`: `role` says
which function each thread of a test runs, `state` is the global that the
functions assert about. `PingPong`: `counter`, `semaphore`, and per player what
it has seen. `SyncQueueTests`, `SpscQueue`, `CountDown`, `TestableMutex`,
`DaytimeServer` have the variables of the programs and a program counter each.

`Programs` runs one of these programs per initial state: `program` says which
one, and twelve cells are its variables (each module is an `INSTANCE` with cells
for its variables, the cells it does not use stay empty), so that one run checks
all of them and no two are ever mixed. Its properties are conjunctions over the
programs of properties that the modules state. `MCPrograms` adds the one
constant that a configuration cannot write, a sequence with a negative number.

`TaskExecution` knows only the life of each task and whether the pool is
closing. All five pools implement it; the mapping (`LifeOf`) is from the two
counters, so that a task that is run twice, deleted twice, run after its delete
or dropped without a delete before `terminate()` has no image. `Monitor` is
implemented by both monitors.

Definitions marked *mutant* are deliberately wrong variants of the definition
that follows them (a forgotten notify, a missing lock, a skipped pop). No
specification uses them. They document how sensitive the properties are: with
the variant in place of the original, TLC finds the property named beside it in
`PROJECT.json` violated under the same configuration. A property that is a
conjunction has a variant for most of its conjuncts.

### What is abstracted

* Tasks are atoms; `run()` of a task is an interval between two steps that
  takes any finite time and may end by an exception. Each task is submitted
  once, as the code requires (it deletes its argument).
* A task does not call the pool that runs it, and is not NULL.
* `Thread::status` of the posix pools is read and written under locks or before
  the threads exist; it is folded into `wpc` and `qpc`. In the other pools it is
  a variable.
* Time: a timed wait may end at any moment, except in `PosixDeadline` and
  `AlarmCond`, which have a clock.
* Stack sizes, thread names, scheduling attributes, logging, parsing.
* The program may stop making calls at any time (`Quiescent`), so that a state
  where every thread waits for work is not a deadlock, and a state where a
  caller waits forever is one only if the code cannot leave it. Deadlock is
  checked in every run of the posix, AGENT++ and boost pools and of the lock
  queue. In `PosixSynchronized`, `PosixDeadline`, `BoostSynchronized` and
  `Programs` the program really stops (the object is destroyed, the calls are
  used up with a thread in an untimed `wait()`, the clock is at its last time,
  main returns), so those runs do not check it; that calls return is a liveness
  property there.

## 3. Runs

Bounds: two workers are the least number for which a scan can pass one manager
while another changes; two callers the least for which calls overlap, and three
tasks give more tasks than workers, so that `execute()` waits. `MaxCalls` is per
caller in the posix pools: two let one caller execute or ask and then terminate
or destroy while the other is inside; in the other pools it bounds all calls
together. `MayFailToStart` adds initial states where threads were not created.
Nothing else is bounded.

For `PosixSynchronized` three threads let one be inside, one wait and one
destroy, time out or notify at once. There `MaxCalls` bounds all calls together
(unlocking and destroying are free): four are enough for two threads in a wait,
one inside and one more call, and for a thread that returns to the object.
`Retries` is 1 instead of 10: the loop of the destructor has one repetition, so
its first, middle and last round all differ, and nothing in it depends on the
number. `MCClockTimes` has nanoseconds at both sides of 0, of one millisecond
and of one second in three consecutive seconds; the timeouts are at both sides
of a second, and negative ones below and above a second. That is every
combination of carries the arithmetic knows.

For `AgentLockQueue` three requesters make one request wait behind another while
a third is polled, and the one direct thread makes two calls on one of two
targets, so that a poll fails for a reason the queue is not told about. For the
small programs: three threads per mutex or monitor (one inside, one that wants
it, one that asks or destroys), a queue of two for five values, three rounds of
the ping pong, three alarms within five seconds, four rounds of the tests of
`upgrade_mutex`, counters that start at 8, four connections, two executor
threads with three tasks and two questions.

| run | module, cfg | instance | shows |
|---|---|---|---|
| `posix_pool` | `PosixThreadPool` | 2 workers, 2 callers, 2 calls each, 3 tasks, workers may fail to start | `TaskOwnership`, `QueryAnswer`, `SetTaskSucceeds`, `NoUseAfterFree`, `TerminatedIsStopped`, `WorkEnds` (terminate returns, no task stays in a slot) hold; the pool implements `TaskExecution` |
| `posix_queued` | `PosixQueuedThreadPool` | 2 workers, 2 callers, 2 calls each, 2 tasks, threads may fail to start | `Consistent` (types, ownership, assignments succeed, the destructor leaves nothing), `FirstInFirstOut`, `QueryAnswer`, `StoppedAssignsNothing`, `WorkEnds` (calls return, the queue thread stops) hold; it implements `TaskExecution` |
| `synchronized` | `PosixSynchronized` | 3 threads, 4 calls | `Consistent` (types, an unused object is destroyed, a used one given up late), `MutualExclusion`, `NoForgottenLock`, `WorkEnds` hold; it implements `Monitor` |
| `deadline` | `MCPosixDeadline`, `PosixDeadline.cfg` | 18 clock times, 10 timeouts | `DeadlineIsRight` (due, never late, refused only if negative), `SleepsLongEnough` hold |
| `agent_pool` | `AgentThreadPool` | 2 workers, 2 callers, 3 calls, 3 tasks, one worker may fail to start, both classes, with and without one time execution | `Consistent` (types, ownership, `IdleAnswer`), `NoOvertaking`, `DestroyedIsClean`, `WorkEnds` (tasks end, destructors return) hold; it implements `TaskExecution` |
| `agent_lockqueue` | `AgentLockQueue` | 3 requesters, 1 direct thread | `Consistent` (types, one grant per lock, the flag settles), `NoRequestLost`, `GrantOrder`, `WorkEnds` (requests are answered, the destructor ends) hold |
| `boost_pool` | `BoostThreadPool` | 2 workers, 2 callers, 5 calls, 3 tasks | `Consistent` (types, ownership, `IdleAnswer`), `DestroyedIsClean`, `WorkEnds` hold; it implements `TaskExecution` |
| `programs` | `MCPrograms`, `Programs.cfg` | the twelve programs | `Consistent` (types, owners known, no race between threads that have their locks, no lock left behind), `AssertionsHold`, `NothingLost`, `NothingEarly`, `WorkEnds` hold; the boost monitor implements `Monitor`, the boost queued pool `TaskExecution` |
| `pool_lost_wakeup` | `PosixThreadPool`, `PosixThreadPool_lost_wakeup.cfg` | 1 worker, 1 caller | `ExecutedTaskEnds` fails |
| `lockqueue_asserts` | `AgentLockQueue`, `AgentLockQueue_asserts.cfg` | 1 requester, 2 direct threads | `AssertionsHold` fails |
| `boost_leak` | `BoostThreadPool`, `BoostThreadPool_leak.cfg` | 1 worker, 2 callers | `NoTaskLeaks` fails |
| `boost_notified` | `BoostSynchronized`, `BoostSynchronized_notified.cfg` | 2 threads | `NotifiedReturns` fails |

No run uses symmetry: every passing run of a pool checks liveness.

### Fairness

Every worker, the queue thread and every caller inside a call is weakly fair: a
thread that can go on does. That covers mutexes too, because nobody holds one
for ever (a run of a task ends). Nothing is assumed about which waiter a signal
wakes or who gets a lock first. Callers need not make calls. Spurious wakeups of
the posix pools are possible at any time, but `<>[][~Spurious]_vars` says that
they end some day: without it the lost wakeup below would be "repaired" by
`pthread_cond_wait` returning for no reason, which no program may count on.

Where a lock is taken and released for ever by a thread that polls (the queue
thread of the AGENT++ pool, that of `LockQueue`, a boost caller whose wait times
out), weak fairness would let the other side starve between two polls. There the
step that takes the lock is strongly fair: `Locks` in `AgentThreadPool`, `Enter`
and `WorkerNotify` in `BoostThreadPool`, `DirectResume`, `Release` and the steps
of the destructor in `AgentLockQueue`. The poll sleeps in between, for a second,
five seconds or tens of milliseconds, and a thread that wants a mutex all that
time gets it. A timed wait ends in the end (`TimeOut` is a part of the weakly fair
step of its thread): this, and no lost signal, is what `WorkEnds` of the AGENT++
and boost pools rests on.

Calls are bounded, so several liveness properties have the form `<>[]`: from some
time on no call is open, no task is left, everybody is out. It is what "every
call returns" amounts to when finitely many are made, and it is stronger than a
leads-to for each.

`PosixSynchronized` assumes that a thread inside unlocks some day, that a free
mutex goes to somebody who waits for it, that timeouts expire and that the
destructor goes on. Nobody is obliged to call notify, so nothing is said about
the untimed `wait()`: a thread may sleep there for ever, and the destructor, once
out of its loop, with it (`pthread_cond_destroy` waits for sleepers). Three
threads are needed to see that when the destructor is not run by the owner: one
asleep, one that takes the mutex during the destructor's timed lock, and the
destructor, which then leaves the loop without `notify_all()`. A weakly fair
`Locked(t)` is enough because the calls are bounded: a mutex promises no order to
those who wait for it, and without end of other calls one of them could starve.
`BoostSynchronized` and the programs assume the same of their threads: a thread
that can go on does, and time passes in `AlarmCond`. `CountDown`,
`TestableMutex` and `DaytimeServer` claim safety only.

### What the failing runs show

1. *Lost wakeup* (`pool_lost_wakeup`). The comment above `idle_notification()`
   asks for the lock (posix/threadpool.cpp 700); its only caller,
   `TaskManager::run()`, does not have it. The signal may fall between the end of
   the scan and `wait()`. If no other signal follows, the caller of `execute()`
   hangs. Taking the pool's lock there would not do: `execute()` holds that lock
   while it waits for the worker's lock. The AGENT++ pool has the same gap and
   its timed wait closes it within a second: `WorkEnds` holds there.
2. *A flag beside a mutex* (`lockqueue_asserts`). `lock()` sets `isLocked` after
   the mutex is taken, `unlock()` and `wait()` clear it before the mutex is free.
   `trylock()` asserts that the flag agrees with its result (threads.cpp 441, 500)
   and may look in between. Without assertions nothing follows: the flag settles
   (`FlagSettles`, part of `Consistent`).
3. *A task for a thread that has gone* (`boost_leak`). `set_task()` looks at the
   slot only. An `execute()` that is still scanning when `terminate()` clears `go`
   hands its task to a worker that has left `run()` and not yet set its status.
   Nobody runs or deletes it (threadpool.hpp 614-615 promises the delete).
4. *One flag for all waiters* (`boost_notified`). `wait()` begins by clearing
   `signal`. A waiter that a notify has woken and that has not got the mutex yet
   goes to sleep again when another thread waits first, although `notify()` "wakes
   up a single thread" (threadpool.hpp 224-225). The timed waits of the pool make
   up for it: `WorkEnds` of `boost_pool` holds.

Further differences between comments and code show in the definitions and have
no run of their own.

Posix: `terminate()` signals once, so of several callers that wait in
`execute()` all but one stay (`TerminateReturn`; posix/threadpool.cpp 763).
`is_busy()` is true when one manager is not idle, documented as all
(`QueryProbe`; 722-723, hpp 531-534). The queued pool has the same lost wakeup
between `assign()` and `thread.wait()` (`QueueWait`; 893), so a queued task may
wait for the next `execute()`. Its `execute()` waits while the queue thread waits
for a busy manager with the lock held (`QueueProbe`; 839), although hpp 572-573
says that it never blocks. The destructor of `Synchronized` prepares a retry when
another thread holds the object, and leaves the loop because the last error is
EPERM and not EBUSY: the object goes away under the other thread, silently
(`DestroyUnlock`; 130). `QueuedThreadPool::terminate()` returns before the queue
thread has stopped (hpp 654 says all threads): `TerminateReturn` has no guard on
`qpc`. `lock()` of the owner throws (hpp 186-188 says that it succeeds):
`CallLock`. `trylock()` of the owner says BUSY (hpp 216-217 says OWNED):
`TryLock`. A timeout may be reported up to a millisecond early, as the current
time is rounded down to milliseconds before the timeout is added
(threads_test.cpp 677 notes it): `TimeoutIsDue` says that this is all.

AGENT++: the queue thread appends a task that it could not assign behind the
others, so the queue is not first in first out (`NobodyIdle`; threads.cpp 922).
With one time execution a worker ends after its first task and its manager goes
on answering idle, so later tasks may be given to nobody (`WorkerFinish`; 712).
`~QueuedThreadPool()` lets its members go before the base destructor has joined
the workers, and a worker may still call `idle_notification()`, which notifies
`thread` (`DestroyMembers`; 893): the model notifies nobody then, the program
uses a destroyed object.

Boost: `is_idle()` and `is_busy()` of the queued pool run a queued task when there
is one, answer "not idle" after running it, and `is_busy()` is also true of a
closed one (`TriedOne`; threadpool.cpp 731, 736). The destructor of the monitor
notifies nobody when `signal` happens to be true (`Destroy`; 99).
`average()` compares the sizes of two objects before it locks them
(shared_mutex.cpp 637), while `swap()` of another thread, with both objects
locked, exchanges the ends of their vectors: the assertion may fail although all
objects have one size (`Check`, `Torn`). `compute()` of shared_monitor.cpp asserts
behind its locks (97-98). No thread of the program meets another one in
`average()`. So `NoRaceUnderLocks`, part of `Consistent`, speaks of everything but
this read, and `OperationsEnd`, part of `WorkEnds`, of programs that this
assertion has not stopped. `ba_externallly_locked.cpp`
92-94 locks a `unique_lock` that owns its mutex already, which throws; the
program is not modelled. In `alarm_cond.cpp` the return value of `alarm_insert()`,
by which main knows how long to wait in the end, is the last alarm of the list and
ignores one in the hand of the thread.

## 4. Proofs

`PosixThreadPool_proofs` proves, for every number of managers, callers and
tasks, every bound on the calls, and with threads that may fail to start:

| theorem | states |
|---|---|
| `Invariance` | `Spec => []IInv` |
| `TypeCorrect` | `Spec => []TypeOK` |
| `TasksAreOwned` | `Spec => []TaskOwnership` |
| `AnswersAreExact` | `Spec => []QueryAnswer` |
| `AssignmentSucceeds` | `Spec => []SetTaskSucceeds` |
| `NoFreedManager` | `Spec => []NoUseAfterFree` |
| `TerminationIsComplete` | `Spec => []TerminatedIsStopped` |
| `Implementation` | `Spec => ImplementsTaskExecution` |

They rest on `PoolAssumption` and `CallerAssumption` only: the pool size and the
bound are natural numbers, and the null pointer is neither a task nor a caller.
Sets of callers and tasks may be infinite.

None of the properties is inductive. `SetTaskSucceeds` says nothing about how
the caller came to "assign"; that the manager is still idle there depends on
nobody else being inside the monitor, and that its worker was not stopped on how
`terminate()` leaves the pool. `IInv` is the conjunction of

* `LockInv`: a caller is in a state inside the monitor iff it owns the lock;
* `CallInv`: the state of a call fits the call, and `execute()` has its argument
  until it passes it on;
* `ScanInv`: what a scan has seen so far is still true;
* `StopInv`: which managers are stopped and freed, given where the caller in
  `terminate()` is;
* `TmShape`: when a slot is empty, by the state of its worker;
* `OwnInv`: `TaskOwnership` without the sets, with the counters of a task that
  somebody holds;
* `TypeOK` and `QueryAnswer`.

Each conjunct has a lemma `...Step`: `IInv` and a step imply it afterwards, with
one step of the proof per action. Two facts carry the argument. `Exclusive`: the
lock holder is alone inside, so what it knows about slots can only change by
workers, who empty slots and never fill them. `ExecuteAssignEffect`: the step at
`set_task()` always takes its first branch. `StopFrame` and `OwnFrame` dispose
of the many steps that neither stop nor free a manager and move no task.
`IInv` was also checked with TLC on the instance of `posix_pool`.

`PosixQueuedThreadPool_proofs` does the same for the queued pool, from the same
two assumptions:

| theorem | states |
|---|---|
| `Invariance` | `Spec => []IInv` |
| `StaysConsistent` | `Spec => []Consistent`: types, ownership, assignments succeed, clean destruction |
| `OrderIsKept` | `Spec => []FirstInFirstOut` |
| `AnswersAreExact` | `Spec => []QueryAnswer` |
| `StopAssignsNothing` | `Spec => StoppedAssignsNothing` |
| `Implementation` | `Spec => ImplementsTaskExecution` |

Its `IInv` has the parts of the other pool, for one lock that callers and the
queue thread share, and three more:

* `ScanInv` speaks of the queue thread too: between `front()` and `pop()` it
  holds the lock with `go` set and the queue not empty, and in "assign" the manager
  it chose is idle. Without this `SetTaskSucceeds` and `StoppedAssignsNothing`
  are not inductive: nothing else connects the choice with the assignment.
* `StopInv` orders termination: `go` is cleared before the first manager is
  stopped, so a queue thread that still assigns meets no stopped manager.
* `GoneInv`: the destructor is the last call and alone, and by each of its
  places what it has cleared and joined.
* `PushedInv`: the queue is the end of the sequence of all tasks ever queued, and
  no task is in that sequence twice. `FirstInFirstOut` compares positions in the
  whole history, and only this relates them to positions in the queue.
* `OwnInv`: a task has one of three kinds of owner (a caller, a slot, the queue).
  Between `assign()` and `pop()` the first task is in both slot and queue;
  `Queued` (the queue but for a first task already handed over) keeps the two
  apart. `QueuedTail` and `QueuedAppend` say how it changes.

Its parts were checked with TLC on the instance of `posix_queued` before they
were proved.

The theorem `Implementation` of every pool follows from its inductive invariant
in the same way. `LifeTable` lists the four pairs of counters that
occur, so that `LifeOf` is never "corrupt"; `OwnInv` excludes the others. A step
that changes no counter is a stutter or `Close` (`QuietStep`: closing is never
undone); each of the others is matched with one abstract action (`RunMaps`,
`DeleteMaps`, `AcceptMaps`). The abstract `Start` allows fewer running tasks than
there are workers, which needs a count: `RunningIsInSlot` finds for each running
task the slot of a worker inside `run()`, and `FewerThanManagers` concludes that
a worker not inside `run()` leaves room for one more, because a slot holds one
task. For this `OwnInv` says that the task in a slot has been run exactly when
the worker is inside `run()`.

`AgentThreadPool_proofs`, for both classes of pool, with and without one time
execution, every number of managers, whichever of their threads fail to start,
and every bound on tasks, threads and calls (`AgentAssumption`: one manager at
least, and the null pointer is no task and no thread):

| theorem | states |
|---|---|
| `Invariance` | `Spec => []IInv` |
| `StaysConsistent` | `Spec => []Consistent`: types, `TaskOwnership`, `IdleAnswer` |
| `NothingOvertakes` | `Spec => []NoOvertaking` |
| `DestructionIsClean` | `Spec => []DestroyedIsClean` |
| `Implementation` | `Spec => ImplementsTaskExecution` |

There are two monitors and one kind of actor, callers and the queue thread alike:
`LockInv` says for both locks that an actor is inside exactly when it has the
lock `LockOf` names, and `Exclusive` that it is alone there. The steps of an
actor have many outcomes (the same `Assign` belongs to `execute()` and to the
queue thread, and ends in five ways), so each is first reduced to its effect
(`AssignCases`, `NobodyIdleCases`, `FrontCases`, `JoinThreadCases`, `CallCases`;
`ActorCases` collects them), and the lemmas of the conjuncts work on effects.
What this invariant has beyond those of the posix pools:

* `QueueInv`: the queue thread is in `run()` with a task in its hand exactly while
  it looks for a manager, and a pool without a queue has neither.
* `StopInv`: a thread that is not alive has ended or was never started. `alive` is
  cleared by the join only, and `IsIdle` reads it.
* `DestroyInv` orders two destructors and their joins: the queue thread ends before
  the first manager is stopped, the queue is empty before the base class
  begins, the managers are joined in their order. Nothing weaker gives
  `DestroyedIsClean`, because each of these facts is established by another
  function and none of them is checked again at the end.
* `NoOvertaking` is inductive given the locks: a caller that hands a task to a
  manager found the queue empty under the lock under which it grows.

`BoostThreadPool_proofs`, for every number of managers, tasks, threads and calls
(`BoostAssumption`, as above):

| theorem | states |
|---|---|
| `Invariance` | `Spec => []IInv` |
| `StaysConsistent` | `Spec => []Consistent`: types, `TaskOwnership`, `IdleAnswer` |
| `DestructionIsClean` | `Spec => []DestroyedIsClean` |
| `Implementation` | `Spec => ImplementsTaskExecution` |

Here managers are asked without their lock, and a stopped manager may still take
a task. So nothing connects a slot with the state of its worker except the
counters and `RunInv`, the invariant cannot say that a task in a slot will be
run, and the theorem about destruction is about threads, and about tasks only
that one that was not deleted is with a manager whose worker had left:
`boost_leak` shows that this does happen. `ScanInv` is what makes `IdleAnswer`
true in spite of it: only the holder of the pool's lock fills a slot.

`AgentLockQueue_proofs`, for any number of requests and calls and any set of
direct threads (`LockQueueAssumption`: the targets differ, the queue's thread is
no direct thread, and `None` is none of the names):

| theorem | states |
|---|---|
| `Invariance` | `Spec => []IInv` |
| `StaysConsistent` | `Spec => []Consistent`: types, `HeldForOne`, `FlagSettles` |
| `NoneIsLost` | `Spec => []NoRequestLost` |
| `GrantsAreInOrder` | `Spec => GrantOrder` |

The difficulty is that one thread owns the mutexes of many, and that flag and
mutex are written apart. `PlaceInv` puts every open request on the list it
belongs on, once, or in the hand of the queue's thread; `Shrinks`, `Grows` and
`Rotates` say what `removeFirst()`, `add()` and both together do to a list without
repetitions. `HandInv` and `ResultInv` say what the thread may have in its hand
and when `tryLockResult` is set; with them `MutexInv`, which says `HeldForOne`
without counting, is inductive. `FlagInv` is stronger than `FlagSettles`: it gives
`isLocked` exactly, in every state (set between the two writes of whoever has
the mutex), and `DirectInv` tells whether a direct thread is between them. The
refuted `AssertionsHold` differs from it by the states in which somebody is.

`GrantOrder` compares positions in a list that rotates while it is scanned.
`TurnInv` is the second invariant: outside of the loop no turns are left, and in
it a request for `Own` that was put back in this round was put back because `Own`
is held, which only the next round can change. So when a request for `Own` is granted
no other one has been put back before it. `OrderRotates`, `OrderShrinks` and
`OrderAppend` follow the positions through the steps.

The inductive invariants of the AGENT++ and boost components were checked with TLC
on the instances of `agent_pool`, `boost_pool` and `agent_lockqueue`, too.

`PosixSynchronized_proofs`, for any set of threads, any number of retries and
calls, from `MonitorAssumption` (`None` is no thread, the bounds are numbers):

| theorem | states |
|---|---|
| `PlacesInvariant` | `Spec => []Places` |
| `OneInside` | `Spec => []MutualExclusion` |
| `LockIsKnown` | `Spec => []NoForgottenLock` |
| `Implementation` | `Spec => ImplementsMonitor` |
| `DestructorIsRight` | `Spec => []Consistent`: types, an unused object is destroyed, exceptions come late |

`MutualExclusion` says nothing about threads that block or destroy, so it is not
inductive: `Places` adds where an owner can be and who may not believe that it is
inside. `TakeFacts` is the one lemma for all five ways to get the mutex,
`AwakeFacts` the one for all ways to be woken. The refinement maps the owner who
is in no call to the thread inside; the destructor's own lock is a stutter.

`QuietIsDestroyed` and `AbortsLate` need to know what the destructor knows, place
by place: that is `Ending`. There is one destructor, no thread moves after an
exception, the counter of errors leaves room for the try in progress, and an
object that was unused stays so, because no call begins while the destructor
runs (`QuietIsAlone`: any other step of a user contradicts it). `UserFrame` and
`DestructorFrame` say what a step of either kind has to respect.

`PosixDeadline_proofs`, for every clock and all timeouts, from `TimeAssumption`
(times are normalised, lock timeouts and sleeps are not negative):

| theorem | states |
|---|---|
| `TimeoutsAreDue` | `Spec => []TimeoutIsDue` |
| `NoLateDeadline` | `Spec => []NeverTooLong` |
| `ValidDeadlines` | `Spec => []OnlyNegativeThrows` |
| `DeadlinesAreRight` | `Spec => []DeadlineIsRight`, the three together |
| `SleepsAreFull` | `Spec => []SleepsLongEnough` |

`DeadlineFacts` bounds the computed deadline from both sides by the exact sum
(`AfterFacts`); the invariant says that `until` is that deadline while a call
waits, and that a sleep and what is left of it never end before the time asked
for. `deadline` checks the same on numbers.

`Programs_proofs`, about the boost monitor, the boost queued pool and the ten
programs beside the pools:

| theorem | states |
|---|---|
| `Invariance` | `Spec => []IInv` |
| `StaysConsistent` | `Spec => []Consistent`: types, known owners, no race between threads that have their locks, no lock left behind |
| `AssertionsAlwaysHold` | `Spec => []AssertionsHold` |
| `NothingIsLost` | `Spec => []NothingLost` |
| `NothingIsEarly` | `Spec => NothingEarly` |
| `MonitorImplementation` | `Spec => ImplementsMonitor` |
| `PoolImplementation` | `Spec => ImplementsTaskExecution` |

What is a number or a set in the programs is a constant in the modules, and the
theorems hold for every value: any threads at the two mutexes and the boost
monitor, any number of threads, connections, pushes, consumers, rounds, alarms
and seconds, every queue capacity, any sequence of priorities and any helpers of
the scheduler, any size of the executor and any finite set of its callers.
`ProgramsAssumption` names what is taken from the code: `None` is no thread;
`stop()` is posted last and with the lowest priority (priority_scheduler.cpp
193-205); the benchmark has a turn, the server a connection and the clock a second,
and the tests of the queue have at least the two tasks of push and pull; and somebody
uses the pool (`Callers` is finite and not empty, because the abstract pool
allows as many running tasks as there are threads and callers, and asks for room
for one). Threads that the program names one by one (`CountDown`,
`UpgradeMutex`) stay as they are.

Each module states an inductive invariant `IInv`. The section of a program in
`Programs_proofs` proves that it holds at first, that every step keeps it, and
that it implies the properties (`...Init`, `...Step`, `...Safe`). `IInv` of
`Programs_proofs` is their conjunction, each under `program = "..."`; `StepsOfProgram` says
that a step of the machine is a step of the program that runs and that
`program` does not change, so `InitInv` and `StepInv` are one case per program.
What the invariants add to the properties:

* Owners follow from places. In `TestableMutex`, `SharedMonitor` and
  `UpgradeMutex` each lock variable is given exactly by where its owner is;
  `NoRaceUnderLocks` and the assertions of `upgrade_mutex` compare places of several
  threads and say nothing of the locks that keep them apart. In `CountDown` the
  bound -1 needs to know who is between test and decrement: with two there is a
  count left for both.
* Counts follow from places too. `CountsAgree` is about the end of the lock-free
  queue only: the invariant gives the difference of the counters at every place
  of the producer. `Ping!InStep` counts the players that have seen this turn, so
  the proof needs how that number changes with one player (`PingCardinality`).
  `SyncQueueTests` has an invariant per test: for `pull`, which values are still
  in the queue, and which have been taken by how many.
* `AlarmCond`: an alarm is in one place, without repetition, so that inserting
  before the later ones and putting the one in the hand back lose none. The list stays
  sorted: `Before`, the number of alarms that are not later, is a position, and
  `AlarmBefore` and `AlarmListWith` say what the list is around it; the count
  of a set makes this a matter of intervals, where the loop of the code would
  need induction. `NothingEarly` needs what each place of the thread knows of
  the time: `timeleft` is measured before the wait, so the sum of clock and
  `timeleft` bounds the alarm from above.
* `PriorityScheduler`: `stop()` is in a thread's hand or executed only when the
  queue is empty, as it has the lowest priority and is the last; this is why
  nothing is dropped with any number of threads in `run()`.
* The boost monitor: `OwnerIsKnown` is inductive, given the types. That no wait
  returns before a notify needs `SignalIsForAll`: while the flag is set, a notify
  has come during every wait in progress, as each wait begins by clearing the
  flag. That is the same line that makes `NotifiedReturns` fail. The refinement maps
  the owner in no call to the thread inside, as for the posix monitor.
* The boost queued pool: `Once` says that a task is with one caller, with one
  thread or at one place of the queue, `CountsInv` what its counters are there. The
  refinement is the one of the other pools but for the count: `is_idle()` and
  `is_busy()` run tasks too, so callers count as workers, and `QueuedFewer`
  bounds the images of two functions, one of threads and one of callers.

The invariants were checked with TLC on the instance of `programs` as well.

Every invariant, action property and refinement that a passing run checks is
proved. Only model-checked is liveness (`WorkEnds` of each run): the prover has
no support for fairness and ENABLED. No proof needs induction over data or
recursion.

## 5. Not modelled

See `components` in `PROJECT.json`. Left out are `ThreadList` (a set that nothing
reads), `ThreadManager`, `SingleThreadObject` and `MibTask::run()` (declared for a
library that is not here), the demonstrations of boost executors and futures and
of scoped locks (straight-line programs whose concurrency is inside the library),
the blocking client, the vendored stopwatches, and the tests, which were read as
statements of what the code should do. Of what is modelled, not covered are tasks
that call the pool that runs them, NULL tasks, a clock that is set back, and
overflow of `time_t`. boost.thread, boost.asio, pthreads and the lock-free and
synchronised queues are external: they do what the code in `src/` needs of them.

## 6. Plan

Done: the three variants of the pools and of the monitor, the lock queue, the two
schedulers and the concurrent programs; the theorems about all of them. What could
follow:

1. Tasks that call the pool that runs them, and NULL tasks.
2. A clock that is set back under a timed wait.
3. The queue inside the executor of the boost queued pool, which is external now.
