---------------------------- MODULE PosixDeadline ----------------------------
(***************************************************************************)
(* The time arithmetic of the POSIX variant (src/posix/threadpool.cpp):    *)
(* the absolute deadline that wait(timeout) and lock(timeout) compute from *)
(* CLOCK_REALTIME, and the interval that Thread::sleep() sleeps, across    *)
(* interrupting signals.  One thread, one clock.                           *)
(*                                                                         *)
(* A time is a timespec [s |-> seconds, n |-> nanoseconds], a timeout is   *)
(* in milliseconds.  C++ division truncates, and % has the sign of the     *)
(* dividend.  The clock is not set back while a call waits.                *)
(*                                                                         *)
(* Definitions marked "Mutant" are wrong variants of the definition that   *)
(* follows them; no specification uses them (see README.md).               *)
(***************************************************************************)
EXTENDS Integers

CONSTANTS
    ClockTimes,    \* bound: the times the clock may show
    WaitTimeouts,  \* the arguments of wait(long), which may be negative
    LockTimeouts,  \* the arguments of lock(unsigned long)
    SleepTimes     \* the arguments of Thread::sleep(long)

NanosPerMilli == 1000000
NanosPerSec   == 1000000000

Times == {t \in [s : Nat, n : Nat] : t.n < NanosPerSec}

ASSUME TimeAssumption ==
    /\ ClockTimes \subseteq Times
    /\ WaitTimeouts \subseteq Int
    /\ LockTimeouts \subseteq Nat
    /\ SleepTimes \subseteq Nat

VARIABLES
    clock,     \* what clock_gettime(CLOCK_REALTIME) shows
    phase,     \* "idle", "waiting", "locking", "sleeping" or "interrupted"
    outcome,   \* how the last call ended
    start,     \* when the call began
    request,   \* its argument
    until,     \* when the system call in progress ends by itself
    remainder  \* what nanosleep() says is left after a signal

vars == <<clock, phase, outcome, start, request, until, remainder>>

-----------------------------------------------------------------------------
(* Arithmetic.                                                             *)

\* a / b and a % b of C++, for b > 0.
Quot(a, b) == IF a >= 0 THEN a \div b ELSE -((-a) \div b)
Rem(a, b) == a - b * Quot(a, b)

Earlier(x, y) == x.s < y.s \/ (x.s = y.s /\ x.n < y.n)

NotAfter(x, y) == x.s < y.s \/ (x.s = y.s /\ x.n <= y.n)

Zero == [s |-> 0, n |-> 0]

\* The sum of two times, and the difference of x and an earlier y.
Plus(x, y) ==
    [s |-> x.s + y.s + (x.n + y.n) \div NanosPerSec, n |-> (x.n + y.n) % NanosPerSec]

Minus(x, y) ==
    IF x.n >= y.n THEN [s |-> x.s - y.s, n |-> x.n - y.n]
    ELSE [s |-> x.s - y.s - 1, n |-> x.n + NanosPerSec - y.n]

\* The exact sum of a time and ms >= 0 milliseconds.
After(x, ms) == Plus(x, [s |-> ms \div 1000, n |-> (ms % 1000) * NanosPerMilli])

\* Mutant: the carry into the seconds is forgotten.
Deadline_carryless(now, timeout) ==
    LET millis == Quot(now.n, NanosPerMilli) + Rem(timeout, 1000)
    IN  [s |-> now.s + Quot(timeout, 1000), n |-> Rem(millis, 1000) * NanosPerMilli]

\* Mutant: the carry comes one millisecond too soon.
Deadline_hasty(now, timeout) ==
    LET millis == Quot(now.n, NanosPerMilli) + Rem(timeout, 1000)
    IN  [s |-> now.s + Quot(timeout, 1000) + (IF millis >= 999 THEN 1 ELSE 0),
         n |-> Rem(millis, 1000) * NanosPerMilli]

\* Mutant: the nanoseconds are not reduced.
Deadline_large(now, timeout) ==
    [s |-> now.s + Quot(timeout, 1000),
     n |-> (Quot(now.n, NanosPerMilli) + Rem(timeout, 1000)) * NanosPerMilli]

\* What wait(timeout) and lock(timeout) compute from the time now.
Deadline(now, timeout) ==
    LET millis == Quot(now.n, NanosPerMilli) + Rem(timeout, 1000)
    IN  [s |-> now.s + Quot(timeout, 1000) + (IF millis >= 1000 THEN 1 ELSE 0),
         n |-> Rem(millis, 1000) * NanosPerMilli]

\* A timespec that pthread_cond_timedwait() takes: it has a nanosecond part.
Valid(t) == t.n >= 0 /\ t.n < NanosPerSec

-----------------------------------------------------------------------------

Init ==
    /\ clock \in ClockTimes
    /\ phase = "idle" /\ outcome = "none"
    /\ start = clock /\ request = 0 /\ until = clock
    /\ remainder = Zero

\* The time passes.
Tick ==
    /\ \E c \in ClockTimes : Earlier(clock, c) /\ clock' = c
    /\ UNCHANGED <<phase, outcome, start, request, until, remainder>>

\* A call begins, at the time the clock shows.
Begin(p, ms, end) ==
    /\ phase = "idle"
    /\ phase' = p /\ outcome' = "none"
    /\ start' = clock /\ request' = ms /\ until' = end
    /\ UNCHANGED <<clock, remainder>>

\* wait(timeout): EINVAL is thrown when the deadline has no valid nanosecond part.
CallWait(ms) ==
    LET deadline == Deadline(clock, ms)
    IN  IF Valid(deadline) THEN Begin("waiting", ms, deadline)
        ELSE /\ phase = "idle" /\ outcome' = "threw"
             /\ start' = clock /\ request' = ms
             /\ UNCHANGED <<clock, phase, until, remainder>>

CallLock(ms) == Begin("locking", ms, Deadline(clock, ms))

\* sleep(millis) calls nsleep(secs, nanos), which carries and calls nanosleep().
CallSleep(ms) ==
    LET secs  == Quot(ms, 1000)
        nanos == Rem(ms, 1000) * NanosPerMilli
        interval == [s |-> secs + Quot(nanos, NanosPerSec), n |-> Rem(nanos, NanosPerSec)]
    IN  Begin("sleeping", ms, Plus(clock, interval))

\* The call returns; its local variables are gone.
End(o) ==
    /\ phase' = "idle" /\ outcome' = o
    /\ until' = clock /\ remainder' = Zero
    /\ UNCHANGED <<clock, start, request>>

\* A signal, or the mutex, comes first.
Answered ==
    /\ phase \in {"waiting", "locking"}
    /\ End("answered")

\* ETIMEDOUT: the system call ends when the clock has reached the deadline.
TimesOut ==
    /\ phase \in {"waiting", "locking"}
    /\ NotAfter(until, clock)
    /\ End("timeout")

\* Mutant: EINTR ends the sleep like any other error.
Interrupted_ended ==
    /\ phase = "sleeping" /\ Earlier(clock, until)
    /\ End("slept")

\* EINTR: nanosleep() reports what is left.
Interrupted ==
    /\ phase = "sleeping" /\ Earlier(clock, until)
    /\ phase' = "interrupted"
    /\ remainder' = Minus(until, clock)
    /\ UNCHANGED <<clock, outcome, start, request, until>>

\* nsleep() sleeps again for the remainder, however late it gets to do so.
SleepAgain ==
    /\ phase = "interrupted"
    /\ phase' = "sleeping"
    /\ until' = Plus(clock, remainder)
    /\ UNCHANGED <<clock, outcome, start, request, remainder>>

SleepEnds ==
    /\ phase = "sleeping" /\ NotAfter(until, clock)
    /\ End("slept")

Next ==
    \/ Tick \/ Answered \/ TimesOut \/ Interrupted \/ SleepAgain \/ SleepEnds
    \/ \E ms \in WaitTimeouts : CallWait(ms)
    \/ \E ms \in LockTimeouts : CallLock(ms)
    \/ \E ms \in SleepTimes : CallSleep(ms)

Spec == Init /\ [][Next]_vars

-----------------------------------------------------------------------------

TypeOK ==
    /\ clock \in Times
    /\ phase \in {"idle", "waiting", "locking", "sleeping", "interrupted"}
    /\ outcome \in {"none", "threw", "answered", "timeout", "slept"}
    /\ start \in Times
    /\ request \in Int
    /\ until \in [s : Int, n : Nat]
    /\ remainder \in Times

\* wait(timeout) and lock(timeout) with a timeout that is not negative report a
\* timeout less than a millisecond early at worst: the nanoseconds below a
\* millisecond of the clock are cut off, and nothing else, also across seconds.
TimeoutIsDue ==
    outcome = "timeout" /\ request >= 0 => Earlier(After(start, request), After(clock, 1))

\* No call waits beyond its timeout, and a negative one does not wait at all.
NeverTooLong ==
    phase \in {"waiting", "locking"} =>
        NotAfter(until, IF request < 0 THEN start ELSE After(start, request))

\* Only a negative timeout makes wait() throw: otherwise the deadline is valid.
OnlyNegativeThrows == outcome = "threw" => request < 0

\* Neither early by a millisecond, nor late, nor refused: the deadline of a timed
\* call is right at both sides of every carry (188-241, 295-344).
DeadlineIsRight == TimeoutIsDue /\ NeverTooLong /\ OnlyNegativeThrows

\* sleep() lasts at least as long as asked, however often it is interrupted.
SleepsLongEnough ==
    outcome = "slept" => NotAfter(After(start, request), clock)
=============================================================================
