------------------------ MODULE PosixDeadline_proofs ------------------------
(***************************************************************************)
(* The deadlines are right for every clock, every timeout and every sleep, *)
(* not only at the boundaries that TLC tries.  Leaves whose numbers have   *)
(* nine zeros go to the SMT solver only.                                   *)
(***************************************************************************)
EXTENDS PosixDeadline, TLAPS

Pairs == [s : Int, n : Int]

\* Times are ordered: the relations are reflexive and transitive.
LEMMA Order ==
    ASSUME NEW x \in Pairs, NEW y \in Pairs, NEW z \in Pairs
    PROVE  /\ NotAfter(x, x)
           /\ Earlier(x, y) => NotAfter(x, y)
           /\ NotAfter(x, y) /\ NotAfter(y, z) => NotAfter(x, z)
           /\ Earlier(x, y) /\ NotAfter(y, z) => Earlier(x, z)
  BY DEF NotAfter, Earlier, Pairs

\* A time is a pair of integers.
LEMMA TimesArePairs == Times \subseteq Pairs
  BY SMT DEF Times, Pairs

\* Sums are times, and grow with their first argument.
LEMMA PlusFacts ==
    ASSUME NEW x \in Times, NEW y \in Times, NEW z \in Times, NotAfter(x, y)
    PROVE  /\ Plus(x, z) \in Times
           /\ NotAfter(Plus(x, z), Plus(y, z))
<1>1. /\ x.s \in Nat /\ x.n \in Nat /\ x.n < 1000000000
      /\ y.s \in Nat /\ y.n \in Nat /\ y.n < 1000000000
      /\ z.s \in Nat /\ z.n \in Nat /\ z.n < 1000000000
  BY SMT DEF Times, NanosPerSec
<1>2. x.s < y.s \/ (x.s = y.s /\ x.n <= y.n)
  BY SMT DEF NotAfter
<1>3. Plus(x,z) = [s |-> x.s + z.s + (x.n + z.n) \div 1000000000, n |-> (x.n + z.n) % 1000000000]
  BY SMT DEF Plus, NanosPerSec
<1>4. Plus(y,z) = [s |-> y.s + z.s + (y.n + z.n) \div 1000000000, n |-> (y.n + z.n) % 1000000000]
  BY SMT DEF Plus, NanosPerSec
<1>5. x.s + z.s + (x.n + z.n) \div 1000000000 \in Nat /\ (x.n + z.n) % 1000000000 \in Nat /\ (x.n + z.n) % 1000000000 < 1000000000
  BY SMT, <1>1
<1>6. LET a == x.s + z.s + (x.n+z.n) \div 1000000000 
            b == y.s + z.s + (y.n+z.n) \div 1000000000
       IN a < b \/ (a=b /\ (x.n+z.n) % 1000000000 <= (y.n+z.n)% 1000000000)
  BY SMT, <1>1, <1>2
<1>7. Plus(x,z) \in Times
  BY SMT, <1>3, <1>5 DEF Times, NanosPerSec
<1>8. NotAfter(Plus(x, z), Plus(y, z))
  BY SMT, <1>3, <1>4, <1>6 DEF NotAfter
<1> QED BY SMT, <1>7, <1>8

\* The same for a time and a number of milliseconds.
LEMMA AfterFacts ==
    ASSUME NEW x \in Times, NEW y \in Times, NEW ms \in Nat, NotAfter(x, y)
    PROVE  /\ After(x, ms) \in Times
           /\ NotAfter(After(x, ms), After(y, ms))
<1> DEFINE z == [s |-> ms \div 1000, n |-> (ms % 1000) * 1000000]
<1>1. ms \div 1000 \in Nat /\ (ms % 1000) * 1000000 \in Nat /\ (ms % 1000) * 1000000 < 1000000000
  BY SMT
<1>2. z \in Times
  BY SMT, <1>1 DEF Times, NanosPerSec
<1>3. After(x, ms) = Plus(x, z) /\ After(y, ms) = Plus(y, z)
  BY SMT DEF After, NanosPerMilli
<1> HIDE DEF z
<1> QED  BY <1>2, <1>3, PlusFacts

\* The deadline for a timeout that is not negative: valid, not after the exact
\* sum, and less than a millisecond before it.
LEMMA DeadlineFacts ==
    ASSUME NEW now \in Times, NEW ms \in Nat
    PROVE  /\ Deadline(now, ms) \in Times
           /\ NotAfter(Deadline(now, ms), After(now, ms))
           /\ Earlier(After(now, ms), After(Deadline(now, ms), 1))
<1> DEFINE q == ms \div 1000
           m == ms % 1000
           a == now.n \div 1000000
           D == Deadline(now, ms)
           A == After(now, ms)
<1>1. /\ now.s \in Nat /\ now.n \in Nat /\ now.n < 1000000000
      /\ q \in Nat /\ m \in Nat /\ m < 1000
      /\ a \in Nat /\ a < 1000 /\ 1000000 * a <= now.n /\ now.n < 1000000 * a + 1000000
  BY SMT DEF Times, NanosPerSec
<1> HIDE DEF q, m, a
<1>2. /\ Quot(ms, 1000) = q /\ Rem(ms, 1000) = m
      /\ Quot(now.n, NanosPerMilli) = a
  BY SMT, <1>1 DEF Quot, Rem, NanosPerMilli, q, m, a
<1>3. Rem(a + m, 1000) = IF a + m >= 1000 THEN a + m - 1000 ELSE a + m
  BY SMT, <1>1 DEF Quot, Rem
<1>4. D = IF a + m >= 1000 THEN [s |-> now.s + q + 1, n |-> (a + m - 1000) * 1000000]
          ELSE [s |-> now.s + q + 0, n |-> (a + m) * 1000000]
  BY SMT, <1>2, <1>3 DEF Deadline, NanosPerMilli
<1>5. A = [s |-> now.s + q + (now.n + m * 1000000) \div 1000000000,
           n |-> (now.n + m * 1000000) % 1000000000]
  BY SMT DEF After, Plus, NanosPerMilli, NanosPerSec, q, m
<1>6. A = IF a + m >= 1000 THEN [s |-> now.s + q + 1, n |-> now.n + m * 1000000 - 1000000000]
          ELSE [s |-> now.s + q + 0, n |-> now.n + m * 1000000]
  BY SMT, <1>1, <1>5
<1>7. After(D, 1) = [s |-> D.s + 0 + (D.n + 1000000) \div 1000000000,
                     n |-> (D.n + 1000000) % 1000000000]
  BY SMT DEF After, Plus, NanosPerMilli, NanosPerSec
<1> HIDE DEF D, A
<1>8. CASE a + m >= 1000
  <2>1. D.s = now.s + q + 1 /\ D.n = (a + m - 1000) * 1000000
    BY SMT, <1>4, <1>8
  <2>2. A.s = now.s + q + 1 /\ A.n = now.n + m * 1000000 - 1000000000
    BY SMT, <1>6, <1>8
  <2>3. D \in Times
    BY SMT, <1>1, <1>4, <1>8 DEF Times, NanosPerSec
  <2>4. NotAfter(D, A)
    BY SMT, <1>1, <2>1, <2>2 DEF NotAfter
  <2>5. Earlier(A, After(D, 1))
    BY SMT, <1>1, <1>7, <1>8, <2>1, <2>2 DEF Earlier
  <2> QED BY <2>3, <2>4, <2>5 DEF D, A
<1>9. CASE ~(a + m >= 1000)
  <2>1. D.s = now.s + q /\ D.n = (a + m) * 1000000
    BY SMT, <1>1, <1>4, <1>9
  <2>2. A.s = now.s + q /\ A.n = now.n + m * 1000000
    BY SMT, <1>1, <1>6, <1>9
  <2>3. D \in Times
    BY SMT, <1>1, <1>4, <1>9 DEF Times, NanosPerSec
  <2>4. NotAfter(D, A)
    BY SMT, <1>1, <2>1, <2>2 DEF NotAfter
  <2>5. Earlier(A, After(D, 1))
    BY SMT, <1>1, <1>7, <1>9, <2>1, <2>2 DEF Earlier
  <2> QED BY <2>3, <2>4, <2>5 DEF D, A
<1> QED BY <1>8, <1>9

\* The deadline for a negative timeout, when it is valid, has passed already.
LEMMA NegativeDeadline ==
    ASSUME NEW now \in Times, NEW ms \in Int, ms < 0, Valid(Deadline(now, ms))
    PROVE  NotAfter(Deadline(now, ms), now)
  BY SMT DEF Deadline, Quot, Rem, Times, NanosPerMilli, NanosPerSec, NotAfter, Valid

\* A valid deadline is a pair of an integer and a natural number.
LEMMA DeadlineType ==
    ASSUME NEW now \in Times, NEW ms \in Int, Valid(Deadline(now, ms))
    PROVE  Deadline(now, ms) \in [s : Int, n : Nat]
  BY SMT DEF Deadline, Quot, Rem, Times, NanosPerMilli, Valid

\* The interval that nsleep() computes is the one asked for.
LEMMA IntervalFacts ==
    ASSUME NEW now \in Times, NEW ms \in Nat,
           NEW nanos, nanos = Rem(ms, 1000) * NanosPerMilli
    PROVE  Plus(now, [s |-> Quot(ms, 1000) + Quot(nanos, NanosPerSec),
                      n |-> Rem(nanos, NanosPerSec)]) = After(now, ms)
<1>1. Quot(ms, 1000) = ms \div 1000 /\ Rem(ms, 1000) = ms % 1000
  BY SMT DEF Quot, Rem
<1>2. nanos = (ms % 1000) * 1000000 /\ nanos \in Nat /\ nanos < 1000000000
  BY SMT, <1>1 DEF NanosPerMilli
<1>3. Quot(nanos, NanosPerSec) = 0 /\ Rem(nanos, NanosPerSec) = nanos
  BY SMT, <1>2 DEF Quot, Rem, NanosPerSec
<1>4. Quot(ms, 1000) + Quot(nanos, NanosPerSec) = ms \div 1000
  BY SMT, <1>1, <1>3
<1> QED BY SMT, <1>2, <1>3, <1>4 DEF After, NanosPerMilli

\* What is left of a sleep, added to the time it was interrupted, is its end.
LEMMA RemainderFacts ==
    ASSUME NEW x \in Times, NEW y \in Times, Earlier(y, x)
    PROVE  Minus(x, y) \in Times /\ Plus(y, Minus(x, y)) = x
  BY SMT DEF Minus, Plus, Times, NanosPerSec, Earlier

-----------------------------------------------------------------------------

\* What the call in progress knows about its end.
IInv ==
    /\ TypeOK
    /\ phase \in {"waiting", "locking"} => until = Deadline(start, request) /\ Valid(until)
    /\ phase \in {"locking", "sleeping", "interrupted"} \/ outcome = "slept" => request \in Nat
    /\ phase = "sleeping" => until \in Times /\ NotAfter(After(start, request), until)
    /\ phase = "interrupted" => NotAfter(After(start, request), Plus(clock, remainder))
    /\ TimeoutIsDue
    /\ OnlyNegativeThrows
    /\ SleepsLongEnough

\* A clock at rest: no call has ended yet.
LEMMA InitInv == Init => IInv
<1> SUFFICES ASSUME Init PROVE IInv
  OBVIOUS
<1>1. Zero \in Times
  BY SMT DEF Zero, Times, NanosPerSec
<1>2. clock \in [s : Int, n : Nat]
  BY TimeAssumption DEF Init, Times
<1> QED  BY <1>1, <1>2, TimeAssumption
     DEF Init, IInv, TypeOK, TimeoutIsDue, OnlyNegativeThrows, SleepsLongEnough

\* The invariant is kept by every step.
LEMMA StepInv == IInv /\ [Next]_vars => IInv'
<1> SUFFICES ASSUME IInv, [Next]_vars PROVE IInv'
  OBVIOUS
<1>1. /\ clock \in Times /\ start \in Times /\ remainder \in Times /\ request \in Int
      /\ Times \subseteq Pairs /\ Times \subseteq [s : Int, n : Nat]
      /\ Zero \in Times
  BY SMT, TimesArePairs DEF IInv, TypeOK, Times, Zero, NanosPerSec
<1>2. CASE Tick
  <2>1. PICK c \in ClockTimes : Earlier(clock, c) /\ clock' = c
    BY <1>2 DEF Tick
  <2>2. clock' \in Times /\ NotAfter(clock, clock')
    BY <1>1, <2>1, TimeAssumption, Order
  <2>3. TimeoutIsDue'
    <3>1. SUFFICES ASSUME outcome = "timeout", request >= 0
                   PROVE  Earlier(After(start, request), After(clock', 1))
      BY <1>2 DEF Tick, TimeoutIsDue
    <3>2. Earlier(After(start, request), After(clock, 1))
      BY <3>1 DEF IInv, TimeoutIsDue
    <3>3. request \in Nat /\ NotAfter(start, start) /\ NotAfter(clock', clock')
      BY <1>1, <2>2, <3>1, Order
    <3>4. After(start, request) \in Times /\ After(clock', 1) \in Times
      BY <1>1, <2>2, <3>3, AfterFacts
    <3>5. After(clock, 1) \in Times /\ NotAfter(After(clock, 1), After(clock', 1))
      BY <1>1, <2>2, AfterFacts
    <3> QED  BY <1>1, <3>2, <3>4, <3>5, Order
  <2>4. SleepsLongEnough'
    <3>1. SUFFICES ASSUME outcome = "slept", NotAfter(After(start, request), clock)
                   PROVE  NotAfter(After(start, request), clock')
      BY <1>2 DEF Tick, IInv, SleepsLongEnough
    <3>2. request \in Nat
      BY <3>1 DEF IInv
    <3>3. After(start, request) \in Times
      BY <1>1, <3>2, AfterFacts, Order
    <3> QED  BY <1>1, <2>2, <3>1, <3>3, Order
  <2>5. /\ phase = "interrupted" => NotAfter(Plus(clock, remainder), Plus(clock', remainder))
        /\ phase = "interrupted" => Plus(clock, remainder) \in Times /\ Plus(clock', remainder) \in Times
    BY <1>1, <2>2, PlusFacts, Order
  <2>6. phase = "interrupted" => NotAfter(After(start, request), Plus(clock', remainder))
    <3>1. SUFFICES ASSUME phase = "interrupted"
                   PROVE  NotAfter(After(start, request), Plus(clock', remainder))
      OBVIOUS
    <3>2. request \in Nat /\ NotAfter(After(start, request), Plus(clock, remainder))
      BY <3>1 DEF IInv
    <3>3. After(start, request) \in Times
      BY <1>1, <3>2, AfterFacts, Order
    <3> QED  BY <1>1, <2>5, <3>1, <3>2, <3>3, Order
  <2> QED  BY <1>2, <2>2, <2>3, <2>4, <2>6 DEF Tick, IInv, TypeOK, OnlyNegativeThrows
<1>3. ASSUME NEW p \in {"waiting", "locking"}, NEW ms \in Int, ms \in Nat \/ p = "waiting",
             Begin(p, ms, Deadline(clock, ms)), Valid(Deadline(clock, ms))
      PROVE  IInv'
  <2>1. Deadline(clock, ms) \in [s : Int, n : Nat]
    BY <1>1, <1>3, DeadlineType
  <2> QED  BY <1>1, <1>3, <2>1
     DEF Begin, IInv, TypeOK, TimeoutIsDue, OnlyNegativeThrows, SleepsLongEnough
<1>4. ASSUME NEW ms \in WaitTimeouts, CallWait(ms) PROVE IInv'
  <2>1. ms \in Int
    BY TimeAssumption
  <2>2. CASE Valid(Deadline(clock, ms))
    BY <1>3, <1>4, <2>1, <2>2 DEF CallWait
  <2>3. CASE ~Valid(Deadline(clock, ms))
    <3>1. ms < 0
      <4>1. ASSUME ms \in Nat PROVE FALSE
        <5>1. Deadline(clock, ms) \in Times
          BY <1>1, <4>1, DeadlineFacts
        <5> QED  BY SMT, <2>3, <5>1 DEF Times, Valid
      <4> QED  BY <2>1, <4>1
    <3>2. /\ phase = "idle" /\ outcome' = "threw" /\ start' = clock /\ request' = ms
          /\ UNCHANGED <<clock, phase, until, remainder>>
      BY <1>4, <2>3 DEF CallWait
    <3> QED  BY <1>1, <2>1, <3>1, <3>2
       DEF IInv, TypeOK, TimeoutIsDue, OnlyNegativeThrows, SleepsLongEnough
  <2> QED  BY <2>2, <2>3
<1>5. ASSUME NEW ms \in LockTimeouts, CallLock(ms) PROVE IInv'
  <2>1. ms \in Nat
    BY TimeAssumption
  <2>2. Deadline(clock, ms) \in Times
    BY <1>1, <2>1, DeadlineFacts
  <2>3. Valid(Deadline(clock, ms))
    BY SMT, <2>2 DEF Times, Valid
  <2> QED  BY <1>3, <1>5, <2>1, <2>3 DEF CallLock
<1>6. ASSUME NEW ms \in SleepTimes, CallSleep(ms) PROVE IInv'
  <2>1. ms \in Nat
    BY TimeAssumption
  <2>2. Begin("sleeping", ms, After(clock, ms))
    BY <1>1, <1>6, <2>1, IntervalFacts DEF CallSleep
  <2>3. After(clock, ms) \in Times /\ NotAfter(After(clock, ms), After(clock, ms))
    BY <1>1, <2>1, AfterFacts, Order
  <2> QED  BY <1>1, <2>1, <2>2, <2>3
     DEF Begin, IInv, TypeOK, TimeoutIsDue, OnlyNegativeThrows, SleepsLongEnough
<1>7. CASE Answered
  BY <1>1, <1>7
     DEF Answered, End, IInv, TypeOK, TimeoutIsDue, OnlyNegativeThrows, SleepsLongEnough
<1>8. CASE TimesOut
  <2>1. request >= 0 => Earlier(After(start, request), After(clock, 1))
    <3>1. SUFFICES ASSUME request >= 0 PROVE Earlier(After(start, request), After(clock, 1))
      OBVIOUS
    <3>2. request \in Nat /\ until = Deadline(start, request) /\ NotAfter(until, clock)
      BY <1>1, <1>8, <3>1 DEF TimesOut, IInv
    <3>3. until \in Times /\ Earlier(After(start, request), After(until, 1))
      BY <1>1, <3>2, DeadlineFacts
    <3>4. /\ After(start, request) \in Times /\ After(until, 1) \in Times
          /\ After(clock, 1) \in Times
          /\ NotAfter(After(until, 1), After(clock, 1))
      BY <1>1, <3>2, <3>3, AfterFacts, Order
    <3> QED  BY <1>1, <3>3, <3>4, Order
  <2> QED  BY <1>1, <1>8, <2>1
     DEF TimesOut, End, IInv, TypeOK, TimeoutIsDue, OnlyNegativeThrows, SleepsLongEnough
<1>9. CASE Interrupted
  <2>1. /\ phase = "sleeping" /\ until \in Times /\ Earlier(clock, until)
        /\ NotAfter(After(start, request), until)
    BY <1>9 DEF Interrupted, IInv
  <2>2. remainder' \in Times /\ Plus(clock', remainder') = until
    BY <1>1, <1>9, <2>1, RemainderFacts DEF Interrupted
  <2> QED  BY <1>9, <2>1, <2>2
     DEF Interrupted, IInv, TypeOK, TimeoutIsDue, OnlyNegativeThrows, SleepsLongEnough
<1>10. CASE SleepAgain
  <2>1. phase = "interrupted" /\ NotAfter(After(start, request), Plus(clock, remainder))
    BY <1>10 DEF SleepAgain, IInv
  <2>2. Plus(clock, remainder) \in Times
    BY <1>1, PlusFacts, Order
  <2> QED  BY <1>1, <1>10, <2>1, <2>2
     DEF SleepAgain, IInv, TypeOK, TimeoutIsDue, OnlyNegativeThrows, SleepsLongEnough
<1>11. CASE SleepEnds
  <2>1. request \in Nat /\ until \in Times /\ NotAfter(until, clock)
        /\ NotAfter(After(start, request), until)
    BY <1>11 DEF SleepEnds, IInv
  <2>2. After(start, request) \in Times
    BY <1>1, <2>1, AfterFacts, Order
  <2>3. NotAfter(After(start, request), clock)
    BY <1>1, <2>1, <2>2, Order
  <2> QED  BY <1>1, <1>11, <2>1, <2>3
     DEF SleepEnds, End, IInv, TypeOK, TimeoutIsDue, OnlyNegativeThrows, SleepsLongEnough
<1>12. CASE UNCHANGED vars
  BY <1>12 DEF vars, IInv, TypeOK, TimeoutIsDue, OnlyNegativeThrows, SleepsLongEnough
<1> QED  BY <1>2, <1>4, <1>5, <1>6, <1>7, <1>8, <1>9, <1>10, <1>11, <1>12 DEF Next

\* The invariant holds in every behaviour.
THEOREM Invariance == Spec => []IInv
  BY InitInv, StepInv, PTL DEF Spec

\* wait(timeout) and lock(timeout) report a timeout less than a millisecond
\* early, whatever the clock shows and however large the timeout is.
THEOREM TimeoutsAreDue == Spec => []TimeoutIsDue
<1>1. IInv => TimeoutIsDue
  BY DEF IInv
<1> QED  BY <1>1, Invariance, PTL

\* No deadline is later than asked for; a negative timeout does not wait.
THEOREM NoLateDeadline == Spec => []NeverTooLong
<1>1. IInv => NeverTooLong
  <2>1. SUFFICES ASSUME IInv, phase \in {"waiting", "locking"}
                 PROVE  NotAfter(until, IF request < 0 THEN start ELSE After(start, request))
    BY DEF NeverTooLong
  <2>2. start \in Times /\ request \in Int /\ until = Deadline(start, request)
        /\ Valid(until)
    BY <2>1 DEF IInv, TypeOK
  <2>3. CASE request < 0
    BY <2>2, <2>3, NegativeDeadline
  <2>4. CASE ~(request < 0)
    BY <2>2, <2>4, DeadlineFacts
  <2> QED  BY <2>3, <2>4
<1> QED  BY <1>1, Invariance, PTL

\* Only a negative timeout makes wait() throw.
THEOREM ValidDeadlines == Spec => []OnlyNegativeThrows
<1>1. IInv => OnlyNegativeThrows
  BY DEF IInv
<1> QED  BY <1>1, Invariance, PTL

\* Interrupted or not, sleep() lasts as long as asked.
THEOREM SleepsAreFull == Spec => []SleepsLongEnough
<1>1. IInv => SleepsLongEnough
  BY DEF IInv
<1> QED  BY <1>1, Invariance, PTL

\* All three at once: the deadline of a timed call is right.
THEOREM DeadlinesAreRight == Spec => []DeadlineIsRight
<1>1. TimeoutIsDue /\ NeverTooLong /\ OnlyNegativeThrows => DeadlineIsRight
  BY DEF DeadlineIsRight
<1> QED  BY <1>1, TimeoutsAreDue, NoLateDeadline, ValidDeadlines, PTL
=============================================================================
