-------------------------- MODULE Programs_proofs ---------------------------
(***************************************************************************)
(* Proofs about the programs of Programs, for every value of its           *)
(* constants.  Each program has a section: its inductive invariant (IInv   *)
(* of its module) holds at first (...Init), is kept by every step          *)
(* (...Step), and gives what the runs check of that program (...Safe); the *)
(* monitor and the boost queued pool are also mapped, step by step, to     *)
(* Monitor and TaskExecution.  The last section joins the sections: the    *)
(* state of the program that runs satisfies that program's invariant.      *)
(***************************************************************************)
EXTENDS Programs, FiniteSetTheorems, SequenceTheorems, TLAPS

-----------------------------------------------------------------------------
(* TestableMutex: c1 is mtx_, c2 is id_, c3 is at.                         *)

LEMMA TestableInit == Testable!Init => Testable!IInv
  BY ProgramsAssumption DEF Testable!Init, Testable!IInv, Testable!TypeOK, Testable!Places

LEMMA TestableStep ==
    ASSUME Testable!IInv, [Testable!Next]_(Testable!vars)
    PROVE  Testable!IInv'
<1>1. ASSUME NEW t \in Users,
             \/ Testable!Call(t) \/ Testable!Take(t) \/ Testable!Fail(t)
             \/ Testable!SetId(t) \/ Testable!ResetId(t) \/ Testable!Unlock(t)
      PROVE  Testable!IInv'
  BY <1>1, ProgramsAssumption
     DEF Testable!IInv, Testable!TypeOK, Testable!Places, Testable!GoTo, Testable!Call, Testable!Take,
         Testable!Fail, Testable!SetId, Testable!ResetId, Testable!NoId, Testable!Unlock
<1>2. CASE UNCHANGED Testable!vars
  BY <1>2 DEF Testable!IInv, Testable!TypeOK, Testable!vars
<1> QED  BY <1>1, <1>2 DEF Testable!Next

LEMMA TestableSafe == Testable!IInv => Testable!TypeOK /\ Testable!IdIsOwner
  BY ProgramsAssumption DEF Testable!IInv, Testable!TypeOK, Testable!IdIsOwner, Testable!IsLocked

-----------------------------------------------------------------------------
(* CountDown: c1 is atomic, c2 is g_cnt, c3 is at, c4 is upgrade, c5 is    *)
(* writer, c6 is sharing.                                                  *)

LEMMA CountInit == Count!Init => Count!IInv
<1> SUFFICES ASSUME Count!Init PROVE Count!IInv
  OBVIOUS
<1>1. FirstCount \in Nat
  BY ProgramsAssumption
<1>2. Count!TypeOK
  <2>1. c1 \in BOOLEAN /\ c6 \in BOOLEAN
    BY DEF Count!Init
  <2>2. /\ c2 \in -1..FirstCount /\ c3 \in [Count!Threads -> Count!Places]
        /\ c4 \in Count!Threads \cup {Count!None} /\ c5 \in Count!Threads \cup {Count!None}
    BY <1>1 DEF Count!Init, Count!Places
  <2> QED  BY <2>1, <2>2 DEF Count!TypeOK
<1>3. c2 \in Nat /\ \A t \in Count!Threads : c3[t] = "loop"
  BY <1>1 DEF Count!Init
<1> QED
  BY <1>2, <1>3 DEF Count!IInv, Count!NotBelow, Count!Threads

LEMMA CountStep ==
    ASSUME Count!IInv, [Count!Next]_(Count!vars)
    PROVE  Count!IInv'
<1>1. FirstCount \in Nat
  BY ProgramsAssumption
<1>2. ASSUME NEW t \in Count!Threads, Count!Step(t)
      PROVE  /\ c1' = c1 /\ c1' \in BOOLEAN /\ c6' \in BOOLEAN
             /\ c3' \in [Count!Threads -> Count!Places]
             /\ c4' \in Count!Threads \cup {Count!None} /\ c5' \in Count!Threads \cup {Count!None}
  <2> USE DEF Count!IInv, Count!TypeOK, Count!GoTo, Count!mutex
  <2>1. CASE Count!AtomicTest(t) \/ Count!AtomicDecrement(t)
    BY <2>1 DEF Count!AtomicTest, Count!AtomicDecrement, Count!Places
  <2>2. CASE Count!Lock(t)
    BY <2>2 DEF Count!Lock, Count!Places
  <2>3. CASE Count!Upgrade(t) \/ Count!Body(t)
    BY <2>3 DEF Count!Upgrade, Count!Body, Count!Places
  <2> QED  BY <1>2, <2>1, <2>2, <2>3 DEF Count!Step
\* What a step does to the counter and to the place of its thread.
<1>3. ASSUME NEW t \in Count!Threads, Count!Step(t)
      PROVE  /\ \A u \in Count!Threads : u # t => c3'[u] = c3[u]
             /\ \/ c1 /\ c3[t] = "loop" /\ t = "t1" /\ c2 <= 0 /\ c2' = c2 /\ c3'[t] = "done"
                \/ c1 /\ c3[t] = "loop" /\ t # "t1" /\ c2 > 0 /\ c2' = c2 /\ c3'[t] = "decrement"
                \/ c1 /\ c3[t] = "loop" /\ t # "t1" /\ ~(c2 > 0) /\ c2' = c2 /\ c3'[t] = "done"
                \/ c1 /\ c3[t] = "decrement" /\ c2' = c2 - 1 /\ c3'[t] = "loop"
                \/ ~c1 /\ c2' = c2 /\ c3'[t] \in {"upgrade", "body"}
                \/ ~c1 /\ c2 <= 0 /\ c2' = c2 /\ c3'[t] = "done"
                \/ ~c1 /\ c2' \in {c2, c2 - 1} /\ ~(c2 <= 0) /\ c3'[t] = "loop"
  <2> USE DEF Count!IInv, Count!TypeOK, Count!GoTo
  <2>1. CASE Count!AtomicTest(t) \/ Count!AtomicDecrement(t)
    BY <2>1 DEF Count!AtomicTest, Count!AtomicDecrement
  <2>2. CASE Count!Lock(t) \/ Count!Upgrade(t) \/ Count!Body(t)
    <3>1. ~c1
      BY <2>2 DEF Count!Lock, Count!Upgrade, Count!Body
    <3>2. CASE Count!Lock(t) \/ Count!Upgrade(t)
      BY <3>1, <3>2 DEF Count!Lock, Count!Upgrade
    <3>3. CASE Count!Body(t)
      BY <3>1, <3>3 DEF Count!Body, Count!Stops
    <3> QED  BY <2>2, <3>2, <3>3
  <2> QED  BY <1>3, <2>1, <2>2 DEF Count!Step
<1>4. ASSUME NEW t \in Count!Threads, Count!Step(t) PROVE Count!IInv'
  <2>1. c2 \in -1..FirstCount
    BY DEF Count!IInv, Count!TypeOK
  <2>2. c2' \in -1..FirstCount /\ Count!NotBelow'
    BY <1>1, <1>2, <1>3, <1>4, <2>1 DEF Count!IInv, Count!NotBelow, Count!Threads
  <2>3. Count!TypeOK'
    BY <1>2, <1>4, <2>2 DEF Count!TypeOK
  <2> QED
    BY <1>1, <1>2, <1>3, <1>4, <2>1, <2>2, <2>3 DEF Count!IInv, Count!Threads
<1>5. CASE UNCHANGED Count!vars
  BY <1>5 DEF Count!vars, Count!IInv, Count!TypeOK, Count!NotBelow
<1> QED  BY <1>4, <1>5 DEF Count!Next

LEMMA CountSafe == Count!IInv => Count!TypeOK /\ Count!NotBelow
  BY DEF Count!IInv

-----------------------------------------------------------------------------
(* SpscQueue: c1 is producer_count, c2 is consumer_count, c3 is length,    *)
(* c4 is done, c5, c6 and c7 are producerAt, consumerAt and mainAt.        *)

LEMMA SpscInit == Spsc!Init => Spsc!IInv
<1> SUFFICES ASSUME Spsc!Init PROVE Spsc!IInv
  OBVIOUS
<1>1. c4 \in BOOLEAN /\ ~c4
  BY DEF Spsc!Init
<1>2. Spsc!TypeOK
  BY <1>1, ProgramsAssumption DEF Spsc!Init, Spsc!TypeOK
<1> QED
  BY <1>1, <1>2 DEF Spsc!Init, Spsc!IInv

LEMMA SpscStep ==
    ASSUME Spsc!IInv, [Spsc!Next]_(Spsc!vars)
    PROVE  Spsc!IInv'
<1>1. Pushes \in Nat /\ Capacity \in Nat
  BY ProgramsAssumption
<1> USE DEF Spsc!IInv, Spsc!TypeOK
<1>2. CASE Spsc!Produce
  BY <1>1, <1>2 DEF Spsc!Produce
<1>3. CASE Spsc!Consume
  BY <1>1, <1>3 DEF Spsc!Consume, Spsc!Last
<1>4. CASE Spsc!Main
  <2>1. c4' \in BOOLEAN
    BY <1>4 DEF Spsc!Main
  <2>2. Spsc!TypeOK'
    BY <1>4, <2>1 DEF Spsc!Main
  <2> QED  BY <1>1, <1>4, <2>2 DEF Spsc!Main, Spsc!Joined
<1>5. CASE UNCHANGED Spsc!vars
  BY <1>5 DEF Spsc!vars
<1> QED  BY <1>2, <1>3, <1>4, <1>5 DEF Spsc!Next

LEMMA SpscSafe == Spsc!IInv => Spsc!TypeOK /\ Spsc!CountsAgree
  BY ProgramsAssumption DEF Spsc!IInv, Spsc!TypeOK, Spsc!CountsAgree

-----------------------------------------------------------------------------
(* DaytimeServer: c1 is created, c2 and c3 are accepting and writing, c4   *)
(* is owned, c5 is handler, c6 is failed, c7 is answered.                  *)

LEMMA ServerInit == Server!Init => Server!IInv
<1> SUFFICES ASSUME Server!Init PROVE Server!IInv
  OBVIOUS
<1> USE DEF Server!Connections, Server!None
<1>1. MaxConnections \in Nat \ {0}
  BY ProgramsAssumption
<1>2. Server!TypeOK
  <2>1. c6 \in BOOLEAN
    BY DEF Server!Init
  <2>2. c4 \in [Server!Connections -> 0..1]
    BY DEF Server!Init
  <2> QED  BY <1>1, <2>1, <2>2 DEF Server!Init, Server!TypeOK
<1>3. Server!OwnedWhileUsed
  BY <1>1 DEF Server!Init, Server!OwnedWhileUsed
<1> QED
  BY <1>1, <1>2, <1>3 DEF Server!Init, Server!IInv

LEMMA ServerStep ==
    ASSUME Server!IInv, [Server!Next]_(Server!vars)
    PROVE  Server!IInv'
<1>1. MaxConnections \in Nat \ {0}
  BY ProgramsAssumption
<1> USE DEF Server!IInv, Server!TypeOK, Server!OwnedWhileUsed, Server!Connections, Server!None
<1>2. CASE Server!Complete
  BY <1>1, <1>2 DEF Server!Complete
<1>3. CASE Server!HandleAccept
  <2> DEFINE d == c1 + 1
  <2>1. /\ c5 \in 1..c1 /\ d \in 1..MaxConnections /\ c5 # d
        /\ c3' = IF c6 THEN c3 ELSE c3 \cup {c5}
        /\ c4' = [c4 EXCEPT ![c5] = @ - 1 + (IF c6 THEN 0 ELSE 1), ![d] = 1]
        /\ c1' = d /\ c2' = c2 \cup {d} /\ c5' = 0 /\ c6' = FALSE /\ c7' = c7
    BY <1>1, <1>3 DEF Server!HandleAccept, Server!Bound, Server!Again, Server!Accepts
  <2>2. c4[c5] = 1 /\ c4[d] = 0
    <3>1. c5 \in 1..MaxConnections /\ d \in 1..MaxConnections /\ d \notin c2 \cup c3 \cup {c5}
      BY <1>1, <2>1
    <3>2. c4[c5] \in 0..1 /\ c4[d] \in 0..1
      BY <3>1
    <3> QED  BY <3>1, <3>2
  <2>3. /\ c4' \in [1..MaxConnections -> 0..1]
        /\ c4'[d] = 1 /\ c4'[c5] = (IF c6 THEN 0 ELSE 1)
        /\ \A c \in 1..MaxConnections : c # d /\ c # c5 => c4'[c] = c4[c]
    <3>1. c5 \in 1..MaxConnections /\ d \in 1..MaxConnections /\ c5 # d
      BY <1>1, <2>1
    <3> HIDE DEF d
    <3>2. c4 \in [1..MaxConnections -> 0..1]
      OBVIOUS
    <3>3. CASE c6
      <4>1. c4' = [c4 EXCEPT ![c5] = 0, ![d] = 1]
        BY <2>1, <2>2, <3>3
      <4> QED  BY <3>1, <3>2, <3>3, <4>1
    <3>4. CASE ~c6
      <4>1. c4' = [c4 EXCEPT ![c5] = 1, ![d] = 1]
        BY <2>1, <2>2, <3>4
      <4> QED  BY <3>1, <3>2, <3>4, <4>1
    <3> QED  BY <3>3, <3>4
  <2>4. Server!TypeOK'
    <3>1. c6' \in BOOLEAN
      BY <2>1
    <3>2. c4' \in [Server!Connections -> 0..1]
      BY <2>3
    <3>3. c3' \in SUBSET Server!Connections /\ c2' \in SUBSET Server!Connections /\ c1' \in 1..MaxConnections
      <4>1. c5 \in 1..MaxConnections /\ c1' \in 1..MaxConnections /\ d \in 1..MaxConnections
        BY <1>1, <2>1
      <4> HIDE DEF d
      <4> QED  BY <2>1, <4>1
    <3> QED  BY <2>1, <3>1, <3>2, <3>3
  <2>5. Server!OwnedWhileUsed'
    <3>1. c2' = {d} /\ c5' = 0 /\ d \notin c3
      <4>1. c5 # 0 /\ c2 = {} /\ c3 \subseteq 1..c1 /\ c1 \in Nat
        BY <1>1, <2>1
      <4> QED  BY <2>1, <4>1
    <3>2. ASSUME NEW c \in Server!Connections
          PROVE c4'[c] > 0 <=> c \in c2' \cup c3' \cup {c5'}
      <4>1. CASE c = d
        BY <2>3, <3>1, <4>1
      <4>2. CASE c = c5 /\ c # d
        BY <2>1, <2>2, <2>3, <3>1, <4>2
      <4>3. CASE c # c5 /\ c # d
        BY <2>1, <2>3, <3>1, <4>3
      <4> QED  BY <4>1, <4>2, <4>3
    <3> QED  BY <3>2
  <2>6. c2 = {}
    BY <2>1
  <2> QED  BY <1>1, <2>1, <2>4, <2>5, <2>6
<1>4. CASE Server!HandleWrite
  BY <1>1, <1>4 DEF Server!HandleWrite
<1>5. CASE UNCHANGED Server!vars
  BY <1>5 DEF Server!vars
<1> QED  BY <1>2, <1>3, <1>4, <1>5 DEF Server!Next, Server!Server

LEMMA ServerCardinality == \A S : Server!Cardinality(S) = Cardinality(S)
  BY DEF Server!Cardinality, Cardinality

LEMMA ServerSafe == Server!IInv => Server!TypeOK /\ Server!OwnedWhileUsed /\ Server!KeepsAccepting
<1> SUFFICES ASSUME Server!IInv PROVE Server!KeepsAccepting
  BY DEF Server!IInv
<1>1. CASE c5 = 0
  <2>1. PICK c \in Server!Connections : c2 = {c}
    BY <1>1 DEF Server!IInv, Server!None
  <2>2. Cardinality(c2) = 1
    BY <2>1, FS_Singleton
  <2> QED  BY <1>1, <2>2, ServerCardinality DEF Server!KeepsAccepting, Server!None
<1>2. CASE c5 # 0
  BY <1>2, FS_EmptySet, ServerCardinality DEF Server!IInv, Server!KeepsAccepting, Server!None
<1> QED  BY <1>1, <1>2

-----------------------------------------------------------------------------
(* PriorityScheduler: c1 is stopped, c2 is queue, c3 is executors, c4 is   *)
(* posted, c5 is place, c6 is item, c7 is executed.                        *)

LEMMA PriorityItems ==
    /\ Priority!Stop \in Nat /\ Priority!Items = 1..Priority!Stop /\ Priority!None = 0
    /\ \A i \in Priority!Items : Priority!First(Priority!Stop, i) => i = Priority!Stop
<1>1. /\ Priorities \in Seq(Int)
      /\ \A i \in 1..(Len(Priorities) - 1) : Priorities[i] > Priorities[Len(Priorities)]
  BY ProgramsAssumption
<1>2. Len(Priorities) \in Nat /\ \A i \in 1..Len(Priorities) : Priorities[i] \in Int
  BY <1>1
<1>3. ASSUME NEW i \in 1..Len(Priorities), Priorities[Len(Priorities)] >= Priorities[i]
      PROVE  i = Len(Priorities)
  <2>1. SUFFICES ASSUME i # Len(Priorities) PROVE FALSE
    OBVIOUS
  <2>2. i \in 1..(Len(Priorities) - 1) /\ Len(Priorities) \in 1..Len(Priorities)
    BY <1>2, <2>1
  <2> QED  BY <1>1, <1>2, <1>3, <2>2
<1> QED  BY <1>2, <1>3 DEF Priority!Stop, Priority!Items, Priority!None, Priority!First

\* Whom a notification wakes up.
LEMMA PriorityWoken ==
    ASSUME NEW p \in [Priority!Runners -> Priority!Places],
           NEW q \in Priority!NotifyOne(p) \cup Priority!NotifyAll(p)
    PROVE  /\ q \in [Priority!Runners -> Priority!Places]
           /\ \A r \in Priority!Runners : q[r] = p[r] \/ (p[r] = "wait" /\ q[r] = "run")
<1>1. CASE q \in Priority!NotifyAll(p)
  BY <1>1 DEF Priority!NotifyAll, Priority!Places
<1>2. CASE q \in Priority!NotifyOne(p) /\ q # p
  <2>1. PICK s \in Priority!Runners : p[s] = "wait" /\ q = [p EXCEPT ![s] = "run"]
    BY <1>2 DEF Priority!NotifyOne
  <2> QED  BY <2>1 DEF Priority!Places
<1> QED  BY <1>1, <1>2

LEMMA PriorityInit == Priority!Init => Priority!IInv
<1> SUFFICES ASSUME Priority!Init PROVE Priority!IInv
  OBVIOUS
<1>1. c1 \in BOOLEAN /\ c7 \in Seq(Priority!Items) /\ DOMAIN c7 = {}
  BY DEF Priority!Init
<1>2. Priority!TypeOK
  BY <1>1, PriorityItems DEF Priority!Init, Priority!TypeOK, Priority!Places
<1> QED
  BY <1>1, <1>2, PriorityItems DEF Priority!Init, Priority!IInv, Priority!IsExecuted

LEMMA PriorityStep ==
    ASSUME Priority!IInv, [Priority!Next]_(Priority!vars)
    PROVE  Priority!IInv'
<1>1. Priority!TypeOK
  BY DEF Priority!IInv
<1>2. \A k \in DOMAIN c7 : c7[k] \in Nat /\ c7[k] # 0
  BY <1>1, PriorityItems DEF Priority!TypeOK
<1>3. CASE Priority!GetExecutor
  <2>1. c3' \in 0..2
    BY <1>1, <1>3 DEF Priority!GetExecutor, Priority!TypeOK
  <2>2. Priority!TypeOK'
    <3>1. c1' \in BOOLEAN
      BY <1>3 DEF Priority!GetExecutor
    <3> QED  BY <1>1, <1>3, <2>1, <3>1 DEF Priority!GetExecutor, Priority!TypeOK
  <2> QED  BY <1>3, <2>2 DEF Priority!GetExecutor, Priority!IInv, Priority!IsExecuted
<1>4. CASE Priority!Post
  <2>1. /\ c5' \in [Priority!Runners -> Priority!Places]
        /\ \A r \in Priority!Runners : c5'[r] = "item" <=> c5[r] = "item"
    BY <1>1, <1>4, PriorityWoken DEF Priority!Post, Priority!TypeOK
  <2>2. /\ c4' = c4 + 1 /\ c4 \in Nat /\ c4 < Priority!Stop
        /\ c2' = c2 \cup {c4'} /\ UNCHANGED <<c1, c3, c6, c7>>
    BY <1>1, <1>4, PriorityItems DEF Priority!Post, Priority!TypeOK
  <2>3. Priority!TypeOK'
    <3>1. c4' \in 0..Priority!Stop /\ c4' \in Priority!Items
      BY <2>2, PriorityItems
    <3>2. c1' \in BOOLEAN
      BY <1>1, <2>2 DEF Priority!TypeOK
    <3> QED  BY <1>1, <2>1, <2>2, <3>1, <3>2 DEF Priority!TypeOK
  <2>4. \A r \in Priority!Runners : c6[r] = 0 \/ c6[r] \in 1..c4
    BY PriorityItems DEF Priority!IInv
  <2>5. ~Priority!IsExecuted(Priority!Stop)
    BY <1>2, <2>2, PriorityItems DEF Priority!IInv, Priority!IsExecuted
  <2>6. ~Priority!IsExecuted(c4 + 1)
    BY <1>2, <2>2, PriorityItems DEF Priority!IInv, Priority!IsExecuted
  <2>7. \A r \in Priority!Runners : c6[r] # c4 + 1 /\ (c5[r] = "item" => c6[r] # Priority!Stop)
    BY <2>2, <2>4, PriorityItems DEF Priority!IInv
  <2>8. \A i \in c2' : i <= c4' /\ ~Priority!IsExecuted(i)' /\ \A r \in Priority!Runners : c6'[r] # i
    <3>1. \A i \in c2 : i \in Nat
      BY <1>1, PriorityItems DEF Priority!TypeOK
    <3> QED  BY <2>2, <2>6, <2>7, <3>1 DEF Priority!IInv, Priority!IsExecuted
  <2>9. \A r \in Priority!Runners : c5'[r] = "item" => c6'[r] \in 1..c4' /\ ~Priority!IsExecuted(c6[r])'
    BY <2>1, <2>2 DEF Priority!IInv, Priority!IsExecuted
  <2>10. \A k \in DOMAIN c7' : c7'[k] <= c4'
    BY <1>2, <2>2 DEF Priority!IInv
  <2> QED  BY <2>1, <2>2, <2>3, <2>5, <2>7, <2>8, <2>9, <2>10 DEF Priority!IInv, Priority!IsExecuted
<1>5. ASSUME NEW r \in Priority!Runners, Priority!Call(r) \/ Priority!Spurious(r)
      PROVE  Priority!IInv'
  <2>1. /\ c5[r] # "item" /\ c5' = [c5 EXCEPT ![r] = "run"]
        /\ UNCHANGED <<c1, c2, c3, c4, c6, c7>>
    BY <1>5 DEF Priority!Call, Priority!Spurious, Priority!GoTo
  <2>2. c1' \in BOOLEAN
    BY <1>1, <2>1 DEF Priority!TypeOK
  <2>3. Priority!TypeOK'
    BY <1>1, <2>1, <2>2 DEF Priority!TypeOK, Priority!Places
  <2>4. \A q \in Priority!Runners : c5'[q] = "item" <=> c5[q] = "item"
    BY <1>1, <2>1 DEF Priority!TypeOK
  <2> QED  BY <2>1, <2>3, <2>4 DEF Priority!IInv, Priority!IsExecuted
<1>6. ASSUME NEW r \in Priority!Runners, Priority!Run(r)
      PROVE  Priority!IInv'
  <2>1. c5[r] = "run" /\ UNCHANGED <<c1, c3, c4, c7>> /\ c1' \in BOOLEAN
    BY <1>1, <1>6 DEF Priority!Run, Priority!TypeOK
  <2>2. CASE c5' = [c5 EXCEPT ![r] = "returned"] \/ c5' = [c5 EXCEPT ![r] = "wait"]
    <3>1. \A q \in Priority!Runners : c5'[q] = "item" <=> c5[q] = "item"
      BY <1>1, <2>1, <2>2 DEF Priority!TypeOK
    <3>2. c5' \in [Priority!Runners -> Priority!Places]
      BY <1>1, <2>2 DEF Priority!TypeOK, Priority!Places
    <3>3. c5'[r] \in {"returned", "wait"}
      BY <1>1, <2>2 DEF Priority!TypeOK
    <3>4. UNCHANGED <<c2, c6>>
      BY <1>1, <1>6, <3>3 DEF Priority!Run, Priority!GoTo, Priority!TypeOK
    <3>5. Priority!TypeOK'
      BY <1>1, <2>1, <3>2, <3>4 DEF Priority!TypeOK
    <3> QED  BY <2>1, <3>1, <3>4, <3>5 DEF Priority!IInv, Priority!IsExecuted
  <2>3. CASE \E i \in Priority!Top :
                c2' = c2 \ {i} /\ c6' = [c6 EXCEPT ![r] = i] /\ c5' = [c5 EXCEPT ![r] = "item"]
    <3>1. PICK i \in c2 :
             /\ c2' = c2 \ {i} /\ c6' = [c6 EXCEPT ![r] = i] /\ c5' = [c5 EXCEPT ![r] = "item"]
             /\ \A j \in c2 : Priority!First(i, j)
      BY <2>3 DEF Priority!Top
    <3>2. /\ i \in Priority!Items /\ i \in Nat /\ i # 0 /\ i <= c4 /\ ~Priority!IsExecuted(i)
          /\ \A q \in Priority!Runners : c6[q] # i
      BY <1>1, <3>1, PriorityItems DEF Priority!IInv, Priority!TypeOK
    <3>3. Priority!TypeOK'
      BY <1>1, <2>1, <3>1, <3>2 DEF Priority!TypeOK, Priority!Places
    <3>4. /\ c5'[r] = "item" /\ c6'[r] = i
          /\ \A q \in Priority!Runners : q # r => c5'[q] = c5[q] /\ c6'[q] = c6[q]
      BY <1>1, <3>1 DEF Priority!TypeOK
    <3>5. i = Priority!Stop => c2' = {}
      <4>1. \A j \in c2 : j \in Priority!Items
        BY <1>1 DEF Priority!TypeOK
      <4> QED  BY <3>1, <4>1, PriorityItems
    <3>6. c2' # {} =>
             ~Priority!IsExecuted(Priority!Stop)'
             /\ \A q \in Priority!Runners : ~(c5'[q] = "item" /\ c6'[q] = Priority!Stop)
      BY <2>1, <3>1, <3>4, <3>5 DEF Priority!IInv, Priority!IsExecuted
    <3>7. c4 \in Nat
      BY <1>1, PriorityItems DEF Priority!TypeOK
    <3>8. \A q \in Priority!Runners : c5'[q] = "item" => c6'[q] \in 1..c4' /\ ~Priority!IsExecuted(c6[q])'
      <4> SUFFICES ASSUME NEW q \in Priority!Runners, c5'[q] = "item"
                   PROVE  c6'[q] \in 1..c4' /\ ~Priority!IsExecuted(c6[q])'
        OBVIOUS
      <4>1. CASE q = r
        BY <2>1, <3>2, <3>4, <3>7, <4>1 DEF Priority!IsExecuted
      <4>2. CASE q # r
        BY <2>1, <3>4, <4>2 DEF Priority!IInv, Priority!IsExecuted
      <4> QED  BY <4>1, <4>2
    <3>9. /\ \A q \in Priority!Runners : c5'[q] # "item" => c6'[q] = Priority!None
          /\ \A p, q \in Priority!Runners : c6'[p] = c6'[q] /\ c6'[p] # Priority!None => p = q
      BY <3>2, <3>4 DEF Priority!IInv
    <3>10. \A j \in c2' : j <= c4' /\ ~Priority!IsExecuted(j)' /\ \A q \in Priority!Runners : c6'[q] # j
      BY <2>1, <3>1, <3>4 DEF Priority!IInv, Priority!IsExecuted
    <3> QED  BY <2>1, <3>3, <3>6, <3>8, <3>9, <3>10 DEF Priority!IInv, Priority!IsExecuted
  <2> QED  BY <1>6, <2>2, <2>3 DEF Priority!Run, Priority!GoTo
<1>7. ASSUME NEW r \in Priority!Runners, Priority!Execute(r)
      PROVE  Priority!IInv'
  <2> DEFINE i == c6[r]
  <2>1. /\ c5[r] = "item" /\ c7' = Append(c7, i) /\ c6' = [c6 EXCEPT ![r] = Priority!None]
        /\ UNCHANGED <<c2, c3, c4>>
    BY <1>7 DEF Priority!Execute
  <2>2. /\ i \in Priority!Items /\ i \in Nat /\ i # 0 /\ i <= c4 /\ ~Priority!IsExecuted(i) /\ i \notin c2
        /\ \A q \in Priority!Runners : q # r => c6[q] # i
        /\ c4 \in Nat
    <3>1. i \in 1..c4 /\ c4 \in 0..Priority!Stop
      BY <1>1, <2>1 DEF Priority!IInv, Priority!TypeOK
    <3> QED  BY <2>1, <3>1, PriorityItems DEF Priority!IInv
  <2>3. /\ c5' \in [Priority!Runners -> Priority!Places] /\ c1' \in BOOLEAN
        /\ c5'[r] # "item"
        /\ \A q \in Priority!Runners : q # r => (c5'[q] = "item" <=> c5[q] = "item")
    <3> DEFINE p == [c5 EXCEPT ![r] = "run"]
    <3>1. p \in [Priority!Runners -> Priority!Places] /\ p[r] = "run"
          /\ \A q \in Priority!Runners : q # r => p[q] = c5[q]
      BY <1>1 DEF Priority!TypeOK, Priority!Places
    <3>2. c5' = p \/ c5' \in Priority!NotifyAll(p)
      BY <1>7 DEF Priority!Execute, Priority!GoTo
    <3>3. c1' \in BOOLEAN
      BY <1>1, <1>7 DEF Priority!Execute, Priority!TypeOK
    <3> HIDE DEF p
    <3> QED  BY <3>1, <3>2, <3>3, PriorityWoken
  <2>4. /\ c7' \in Seq(Priority!Items) /\ Len(c7') = Len(c7) + 1 /\ c7'[Len(c7) + 1] = i
        /\ \A k \in 1..Len(c7) : c7'[k] = c7[k]
        /\ DOMAIN c7 = 1..Len(c7) /\ DOMAIN c7' = 1..(Len(c7) + 1) /\ Len(c7) \in Nat
    <3> HIDE DEF i
    <3> QED  BY <1>1, <2>1, <2>2 DEF Priority!TypeOK
  <2>5. \A j : Priority!IsExecuted(j)' <=> Priority!IsExecuted(j) \/ j = i
    <3> HIDE DEF i
    <3> SUFFICES ASSUME NEW j PROVE Priority!IsExecuted(j)' <=> Priority!IsExecuted(j) \/ j = i
      OBVIOUS
    <3>1. ASSUME NEW k \in 1..(Len(c7) + 1) PROVE k \in 1..Len(c7) \/ k = Len(c7) + 1
      BY <2>4
    <3>2. \A k \in 1..Len(c7) : k \in 1..(Len(c7) + 1)
      BY <2>4
    <3>3. Len(c7) + 1 \in 1..(Len(c7) + 1)
      BY <2>4
    <3> QED  BY <2>4, <3>1, <3>2, <3>3 DEF Priority!IsExecuted
  <2>6. /\ c6'[r] = Priority!None /\ \A q \in Priority!Runners : q # r => c6'[q] = c6[q]
        /\ c6' \in [Priority!Runners -> Priority!Items \cup {Priority!None}]
    BY <1>1, <2>1 DEF Priority!TypeOK
  <2>7. Priority!TypeOK'
    BY <1>1, <2>1, <2>3, <2>4, <2>6 DEF Priority!TypeOK
  <2>8. \A k, l \in DOMAIN c7' : c7'[k] = c7'[l] => k = l
    <3> HIDE DEF i
    <3>1. ASSUME NEW k \in 1..(Len(c7) + 1) PROVE k \in 1..Len(c7) \/ k = Len(c7) + 1
      BY <2>4
    <3>2. \A k \in 1..Len(c7) : c7'[k] # i
      BY <2>2, <2>4 DEF Priority!IsExecuted
    <3>3. \A k, l \in 1..Len(c7) : c7[k] = c7[l] => k = l
      BY <2>4 DEF Priority!IInv
    <3> QED  BY <2>4, <3>1, <3>2, <3>3
  <2>9. \A k \in DOMAIN c7' : c7'[k] <= c4'
    BY <2>1, <2>2, <2>4 DEF Priority!IInv
  <2>10. \A j \in c2' : j <= c4' /\ ~Priority!IsExecuted(j)' /\ \A q \in Priority!Runners : c6'[q] # j
    <3>1. \A j \in c2 : j # Priority!None /\ j # i
      BY <1>1, <2>2, PriorityItems DEF Priority!TypeOK
    <3> HIDE DEF i
    <3> QED  BY <2>1, <2>5, <2>6, <3>1 DEF Priority!IInv
  <2>11. /\ \A q \in Priority!Runners : c5'[q] = "item" => c6'[q] \in 1..c4' /\ ~Priority!IsExecuted(c6[q])'
         /\ \A q \in Priority!Runners : c5'[q] # "item" => c6'[q] = Priority!None
         /\ \A p, q \in Priority!Runners : c6'[p] = c6'[q] /\ c6'[p] # Priority!None => p = q
    <3>1. ASSUME NEW q \in Priority!Runners, c5'[q] = "item"
          PROVE c6'[q] \in 1..c4' /\ ~Priority!IsExecuted(c6[q])'
      BY <2>1, <2>2, <2>3, <2>5, <2>6, <3>1 DEF Priority!IInv
    <3>2. ASSUME NEW q \in Priority!Runners, c5'[q] # "item"
          PROVE c6'[q] = Priority!None
      BY <2>3, <2>6, <3>2 DEF Priority!IInv
    <3>3. ASSUME NEW p \in Priority!Runners, NEW q \in Priority!Runners, c6'[p] = c6'[q], c6'[p] # Priority!None
          PROVE p = q
      BY <2>6, <3>3 DEF Priority!IInv
    <3> QED  BY <3>1, <3>2, <3>3
  <2>12. Priority!IsExecuted(Priority!Stop)' \/ (\E q \in Priority!Runners : c5'[q] = "item" /\ c6'[q] = Priority!Stop)
         => c2' = {}
    BY <2>1, <2>3, <2>5, <2>6 DEF Priority!IInv
  <2> QED  BY <2>7, <2>8, <2>9, <2>10, <2>11, <2>12 DEF Priority!IInv
<1>8. CASE UNCHANGED Priority!vars
  BY <1>8 DEF Priority!vars, Priority!IInv, Priority!TypeOK, Priority!IsExecuted
<1> QED  BY <1>3, <1>4, <1>5, <1>6, <1>7, <1>8 DEF Priority!Next, Priority!Main, Priority!Runner

LEMMA PrioritySafe == Priority!IInv => Priority!TypeOK /\ Priority!NothingDropped
  BY DEF Priority!IInv, Priority!NothingDropped, Priority!IsExecuted

-----------------------------------------------------------------------------
(* PingPong: c1 is consumers, c2 is started, c3 is counter, c4 is          *)
(* semaphore, c5 is seen, c6 is at, c7 is expected.                        *)

LEMMA PingCardinality == \A S : Ping!Cardinality(S) = Cardinality(S)
  BY DEF Ping!Cardinality, Cardinality

\* A set of the consumers that play has at most their number of members, and all
\* of them when it has that number.
LEMMA PingConsumers ==
    ASSUME NEW n \in Nat, NEW S \in SUBSET (1..n)
    PROVE  /\ IsFiniteSet(S) /\ Cardinality(S) \in 0..n
           /\ Cardinality(S) = n => S = 1..n
<1>1. IsFiniteSet(1..n) /\ Cardinality(1..n) = n
  BY FS_Interval
<1>2. IsFiniteSet(S) /\ Cardinality(S) <= n /\ (Cardinality(S) = n => S = 1..n)
  BY <1>1, FS_Subset
<1>3. Cardinality(S) \in Nat
  BY <1>2, FS_CardinalityType
<1> QED  BY <1>2, <1>3

LEMMA PingAll == ASSUME NEW n \in Nat PROVE Cardinality(1..n) = n
  BY FS_Interval

LEMMA PingInit == Ping!Init => Ping!IInv
<1> SUFFICES ASSUME Ping!Init PROVE Ping!IInv
  OBVIOUS
<1> USE DEF Ping!Players, Ping!Producer, Ping!Consumers
<1>1. Iterations \in Nat \ {0} /\ MaxConsumers \in Nat
  BY ProgramsAssumption
<1>2. c1 \in 1..MaxConsumers /\ c2 = {} /\ c3 = 0 /\ c4 = c1 /\ c5 = [p \in Ping!Players |-> 0]
  BY DEF Ping!Init
<1>3. Ping!TypeOK
  BY <1>1, <1>2 DEF Ping!Init, Ping!TypeOK, Ping!Places
<1>4. {c \in 1..c1 : c5[c] = c3} = 1..c1
  BY <1>1, <1>2
<1>5. Cardinality({c \in 1..c1 : c5[c] = c3}) = c4
  <2>1. c1 \in Nat
    BY <1>1, <1>2
  <2>2. Cardinality(1..c1) = c1
    BY <2>1, PingAll
  <2> QED  BY <1>2, <1>4, <2>2
<1>6. Ping!InStep
  BY <1>1, <1>2, <1>5, PingCardinality DEF Ping!InStep
<1> QED
  BY <1>1, <1>2, <1>3, <1>6 DEF Ping!Init, Ping!IInv

LEMMA PingStep ==
    ASSUME Ping!IInv, [Ping!Next]_(Ping!vars)
    PROVE  Ping!IInv'
<1> USE DEF Ping!Players, Ping!Producer, Ping!Consumers
<1>1. Iterations \in Nat \ {0} /\ MaxConsumers \in Nat
  BY ProgramsAssumption
<1>2. Ping!TypeOK /\ Ping!InStep /\ c1 \in Nat /\ c3 \in Nat /\ c4 \in Nat
  BY <1>1 DEF Ping!IInv, Ping!TypeOK
<1>3. c4 = Cardinality({c \in 1..c1 : c5[c] = c3})
  BY <1>2, PingCardinality DEF Ping!InStep
<1>4. \A c \in 1..c1 : c \in Ping!Players /\ c # 0 /\ c5[c] \in 0..Iterations
  BY <1>1, <1>2 DEF Ping!TypeOK
\* The steps that only move a thread or start one.
<1>5. ASSUME UNCHANGED <<c1, c3, c4, c5, c7>>, Ping!TypeOK', c2' \subseteq {0} \cup 1..c1,
             c6'[0] \in {"begin", "lock", "wait"} => c6[0] \in {"begin", "lock", "wait"} \/ c3 # Iterations,
             c6'[0] = "begin" <=> c6[0] = "begin",
             \A c \in Ping!Consumers : c6'[c] # "begin"
      PROVE  Ping!IInv'
  <2>1. Ping!InStep'
    BY <1>2, <1>5 DEF Ping!InStep
  <2>2. c3 \in 0..Iterations
    BY <1>2 DEF Ping!TypeOK
  <2> QED  BY <1>1, <1>5, <2>1, <2>2 DEF Ping!IInv, Ping!Playing
<1>6. ASSUME NEW p \in Ping!Players, Ping!Start(p)
      PROVE  Ping!IInv'
  <2>1. p \in {0} \cup 1..c1 /\ c2' = c2 \cup {p} /\ UNCHANGED <<c1, c3, c4, c5, c6, c7>>
    BY <1>6 DEF Ping!Start, Ping!Playing
  <2>2. Ping!TypeOK'
    BY <1>2, <2>1 DEF Ping!TypeOK
  <2> QED  BY <1>5, <2>1, <2>2 DEF Ping!IInv, Ping!Playing
<1>7. ASSUME NEW p \in Ping!Players, Ping!Spurious(p)
      PROVE  Ping!IInv'
  <2>1. c6[p] = "wait" /\ c6' = [c6 EXCEPT ![p] = "lock"] /\ UNCHANGED <<c1, c2, c3, c4, c5, c7>>
    BY <1>7 DEF Ping!Spurious, Ping!GoTo
  <2>2. Ping!TypeOK' /\ c6'[p] = "lock" /\ \A q \in Ping!Players : q # p => c6'[q] = c6[q]
    BY <1>2, <2>1 DEF Ping!TypeOK, Ping!Places
  <2> QED  BY <1>5, <2>1, <2>2 DEF Ping!IInv, Ping!Playing
<1>8. ASSUME NEW p \in Ping!Players, p \in c2, Ping!Notify(p)
      PROVE  Ping!IInv'
  <2> DEFINE l == [c6 EXCEPT ![p] = IF c5[p] = Iterations THEN "done" ELSE "lock"]
  <2>1. /\ c6[p] = "notify" /\ UNCHANGED <<c1, c2, c3, c4, c5, c7>>
        /\ c6' = [q \in Ping!Players |-> IF l[q] = "wait" THEN "lock" ELSE l[q]]
    BY <1>8 DEF Ping!Notify, Ping!Woken
  <2>2. /\ l \in [Ping!Players -> Ping!Places] /\ l[p] = (IF c5[p] = Iterations THEN "done" ELSE "lock")
        /\ \A q \in Ping!Players : q # p => l[q] = c6[q]
    BY <1>2 DEF Ping!TypeOK, Ping!Places
  <2> HIDE DEF l
  <2>3. Ping!TypeOK'
    BY <1>2, <2>1, <2>2 DEF Ping!TypeOK, Ping!Places
  <2> QED  BY <1>5, <2>1, <2>2, <2>3 DEF Ping!IInv, Ping!Playing
<1>9. ASSUME Ping!Begin(0)
      PROVE  Ping!IInv'
  <2>1. c6[0] = "begin" /\ c7' = c4 /\ c6' = [c6 EXCEPT ![0] = "lock"] /\ UNCHANGED <<c1, c2, c3, c4, c5>>
    BY <1>9 DEF Ping!Begin, Ping!GoTo
  <2>2. c3 = 0 /\ {c \in 1..c1 : c5[c] = c3} = 1..c1
    <3>1. c3 = 0
      BY <2>1 DEF Ping!IInv
    <3>2. \A c \in 1..c1 : c5[c] <= 0
      BY <1>2, <3>1 DEF Ping!InStep
    <3> QED  BY <1>1, <1>4, <3>1, <3>2
  <2>3. c4 = c1
    BY <1>2, <1>3, <2>2, PingAll
  <2>4. Ping!TypeOK' /\ c6'[0] = "lock" /\ \A c \in Ping!Consumers : c6'[c] = c6[c]
    BY <1>1, <1>2, <2>1, <2>3 DEF Ping!TypeOK, Ping!Places
  <2>5. Ping!InStep'
    BY <1>2, <2>1 DEF Ping!InStep
  <2> QED  BY <2>1, <2>3, <2>4, <2>5 DEF Ping!IInv, Ping!Playing
<1>10. ASSUME Ping!Produce
       PROVE  Ping!IInv'
  <2>1. c6[0] = "lock" /\ c3 < Iterations /\ c7 = c1 /\ UNCHANGED <<c1, c2, c7>>
    BY <1>10 DEF Ping!Produce, Ping!IInv
  <2>2. CASE c4 # c7
    <3>1. c6' = [c6 EXCEPT ![0] = "wait"] /\ UNCHANGED <<c3, c4, c5>>
      BY <1>10, <2>2 DEF Ping!Produce, Ping!GoTo
    <3>2. Ping!TypeOK' /\ c6'[0] = "wait" /\ \A c \in Ping!Consumers : c6'[c] = c6[c]
      BY <1>1, <1>2, <2>1, <3>1 DEF Ping!TypeOK, Ping!Places
    <3>3. Ping!InStep'
      BY <1>2, <2>1, <3>1 DEF Ping!InStep
    <3> QED  BY <2>1, <3>1, <3>2, <3>3 DEF Ping!IInv, Ping!Playing
  <2>3. CASE c4 = c7
    <3>1. /\ c4' = 0 /\ c3' = c3 + 1 /\ c5' = [c5 EXCEPT ![0] = @ + 1]
          /\ c6' = [c6 EXCEPT ![0] = "notify"]
      BY <1>10, <2>3 DEF Ping!Produce, Ping!GoTo, Ping!Reset
    <3>2. \A c \in 1..c1 : c5[c] = c3
      BY <1>2, <1>3, <2>1, <2>3, PingConsumers
    <3>3. /\ c5'[0] = c3' /\ c3' \in 0..Iterations /\ c5' \in [Ping!Players -> 0..Iterations]
          /\ \A c \in Ping!Consumers : c5'[c] = c5[c]
      BY <1>1, <1>2, <2>1, <3>1 DEF Ping!TypeOK, Ping!IInv
    <3>4. Ping!TypeOK' /\ c6'[0] = "notify" /\ \A c \in Ping!Consumers : c6'[c] = c6[c]
      BY <1>1, <1>2, <2>1, <3>1, <3>3 DEF Ping!TypeOK, Ping!Places
    <3>5. \A c \in 1..c1 : c5'[c] = c3 /\ c5'[c] # c3'
      BY <1>1, <1>2, <3>1, <3>2, <3>3 DEF Ping!TypeOK
    <3>6. {c \in 1..c1' : c5'[c] = c3'} = {}
      BY <2>1, <3>5
    <3>7. c4' = Ping!Cardinality({c \in 1..c1' : c5'[c] = c3'})
      BY <3>1, <3>6, FS_EmptySet, PingCardinality
    <3>8. Ping!InStep'
      BY <1>2, <2>1, <3>1, <3>5, <3>7 DEF Ping!InStep
    <3> QED  BY <2>1, <3>3, <3>4, <3>8 DEF Ping!IInv, Ping!Playing
  <2> QED  BY <2>2, <2>3
<1>11. ASSUME NEW p \in Ping!Consumers, p \in c2, Ping!Consume(p)
       PROVE  Ping!IInv'
  <2>1. c6[p] = "lock" /\ p \in 1..c1 /\ UNCHANGED <<c1, c2, c3, c7>>
    BY <1>1, <1>11 DEF Ping!Consume, Ping!IInv, Ping!Playing
  <2>2. CASE c5[p] = c3
    <3>1. c6' = [c6 EXCEPT ![p] = "wait"] /\ UNCHANGED <<c4, c5>>
      BY <1>11, <2>2 DEF Ping!Consume, Ping!GoTo
    <3>2. Ping!TypeOK' /\ c6'[0] = c6[0] /\ \A c \in Ping!Consumers : c6'[c] = "wait" \/ c6'[c] = c6[c]
      BY <1>1, <1>2, <2>1, <3>1 DEF Ping!TypeOK, Ping!Places
    <3> QED  BY <1>5, <2>1, <3>1, <3>2 DEF Ping!IInv, Ping!Playing
  <2>3. CASE c5[p] # c3
    <3>1. c6' = [c6 EXCEPT ![p] = "notify"] /\ c5' = [c5 EXCEPT ![p] = c3] /\ c4' = c4 + 1
      BY <1>11, <2>3 DEF Ping!Consume, Ping!GoTo
    <3>2. /\ c5' \in [Ping!Players -> 0..Iterations] /\ c5'[0] = c5[0] /\ c5'[p] = c3
          /\ \A c \in Ping!Consumers : c # p => c5'[c] = c5[c]
          /\ c6' \in [Ping!Players -> Ping!Places] /\ c6'[0] = c6[0] /\ c6'[p] = "notify"
          /\ \A c \in Ping!Consumers : c # p => c6'[c] = c6[c]
      BY <1>1, <1>2, <3>1 DEF Ping!TypeOK, Ping!Places
    <3> DEFINE S == {c \in 1..c1 : c5[c] = c3}
               T == {c \in 1..c1 : c5'[c] = c3}
    <3>3. T = S \cup {p} /\ p \notin S /\ S \in SUBSET (1..c1) /\ T \in SUBSET (1..c1)
      BY <1>1, <1>2, <2>1, <2>3, <3>2 DEF Ping!TypeOK
    <3>4. c4 = Cardinality(S)
      BY <1>3
    <3>5. T = {c \in 1..c1' : c5'[c] = c3'}
      BY <2>1
    <3> HIDE DEF S, T
    <3>6. IsFiniteSet(S) /\ Cardinality(T) \in 0..c1
      BY <1>2, <3>3, PingConsumers
    <3>7. c4' = Cardinality(T)
      BY <3>1, <3>3, <3>4, <3>6, FS_AddElement
    <3>8. c4' = Ping!Cardinality({c \in 1..c1' : c5'[c] = c3'})
      BY <3>5, <3>7, PingCardinality
    <3>9. Ping!InStep'
      <4>1. \A c \in 1..c1 : c3 - 1 <= c5'[c] /\ c5'[c] <= c3
        BY <1>2, <1>4, <3>2 DEF Ping!InStep
      <4> QED  BY <2>1, <3>8, <4>1 DEF Ping!InStep
    <3>10. Ping!TypeOK'
      BY <1>1, <1>2, <2>1, <3>2, <3>6, <3>7 DEF Ping!TypeOK
    <3> QED  BY <2>1, <3>2, <3>9, <3>10 DEF Ping!IInv, Ping!Playing
  <2> QED  BY <2>2, <2>3
<1>12. CASE UNCHANGED Ping!vars
  BY <1>12 DEF Ping!vars, Ping!IInv, Ping!TypeOK, Ping!InStep, Ping!Playing
<1> QED  BY <1>6, <1>7, <1>8, <1>9, <1>10, <1>11, <1>12 DEF Ping!Next, Ping!Player

LEMMA PingSafe == Ping!IInv => Ping!TypeOK /\ Ping!InStep
  BY DEF Ping!IInv

-----------------------------------------------------------------------------
(* SharedMonitor: c1 is operation, c2 is phase, c3, c4 and c5 are          *)
(* exclusive, upgrade and shared, c6 is begun.                             *)

\* What the operations are, and what they lock at their beginning.
LEMMA SharedOperations ==
    ASSUME NEW o \in SharedM!Operations
    PROVE  /\ o.kind \in {"copy", "assign", "swap", "average", "compute"}
           /\ o.others \subseteq SharedM!Objects
           /\ IF o.kind = "copy" THEN o.this = SharedM!None ELSE o.this \in SharedM!Objects
           /\ o.this \notin o.others
  BY DEF SharedM!Operations, SharedM!Objects, SharedM!None

LEMMA SharedLocks ==
    ASSUME NEW t \in SharedM!Threads, c1[t] \in SharedM!Operations
    PROVE  /\ SharedM!Locked(t) \subseteq SharedM!Objects /\ SharedM!Upgradable(t) \subseteq SharedM!Objects
           /\ SharedM!Shared(t) \subseteq SharedM!Objects
           /\ SharedM!Locked(t) \cap SharedM!Upgradable(t) = {}
           /\ SharedM!Locked(t) \cap SharedM!Shared(t) = {}
           /\ SharedM!Upgradable(t) \cap SharedM!Shared(t) = {}
           /\ c1[t].others \subseteq SharedM!Locked(t) \cup SharedM!Upgradable(t) \cup SharedM!Shared(t)
           /\ c1[t].kind = "average" =>
                 /\ c1[t].this \in SharedM!Objects /\ SharedM!Locked(t) = {c1[t].this}
                 /\ SharedM!Upgradable(t) = c1[t].others /\ SharedM!Shared(t) = {}
<1> DEFINE o == c1[t]
<1>1. /\ o.kind \in {"copy", "assign", "swap", "average", "compute"}
      /\ o.others \subseteq SharedM!Objects
      /\ IF o.kind = "copy" THEN o.this = SharedM!None ELSE o.this \in SharedM!Objects
      /\ o.this \notin o.others
  BY SharedOperations
<1>2. SharedM!None \notin SharedM!Objects
  BY DEF SharedM!None, SharedM!Objects
<1> QED  BY <1>1, <1>2 DEF SharedM!Locked, SharedM!Upgradable, SharedM!Shared

LEMMA SharedInit == SharedM!Init => SharedM!IInv
<1> SUFFICES ASSUME SharedM!Init PROVE SharedM!IInv
  OBVIOUS
<1>1. MaxThreads \in Nat
  BY ProgramsAssumption
<1>2. SharedM!TypeOK
  BY <1>1 DEF SharedM!Init, SharedM!TypeOK, SharedM!Phases
<1> QED
  BY <1>2 DEF SharedM!Init, SharedM!IInv, SharedM!HasExclusive, SharedM!HasUpgrade, SharedM!HasShared,
              SharedM!None, SharedM!Threads

LEMMA SharedStep ==
    ASSUME SharedM!IInv, [SharedM!Next]_(SharedM!vars)
    PROVE  SharedM!IInv'
<1>1. MaxThreads \in Nat /\ SharedM!TypeOK /\ SharedM!None \notin SharedM!Threads
  BY ProgramsAssumption DEF SharedM!IInv, SharedM!None, SharedM!Threads
\* What a thread has follows from its operation and its place in it.
<1>2. ASSUME NEW u \in SharedM!Threads, c1'[u] = c1[u], c2'[u] = c2[u]
      PROVE  /\ SharedM!HasExclusive(u)' = SharedM!HasExclusive(u)
             /\ SharedM!HasUpgrade(u)' = SharedM!HasUpgrade(u)
             /\ SharedM!HasShared(u)' = SharedM!HasShared(u)
  BY <1>2 DEF SharedM!HasExclusive, SharedM!HasUpgrade, SharedM!HasShared,
              SharedM!Locked, SharedM!Upgradable, SharedM!Shared
\* A step of t: the others keep what they have.
<1>3. ASSUME NEW t \in SharedM!Threads, SharedM!TypeOK',
             \A u \in SharedM!Threads : u # t => c1'[u] = c1[u] /\ c2'[u] = c2[u],
             \A u \in SharedM!Threads, a \in SharedM!Objects : u # t =>
                /\ c3'[a] = u <=> c3[a] = u
                /\ c4'[a] = u <=> c4[a] = u
                /\ u \in c5'[a] <=> u \in c5[a],
             \A a \in SharedM!Objects :
                /\ c3'[a] = t <=> a \in SharedM!HasExclusive(t)'
                /\ c4'[a] = t <=> a \in SharedM!HasUpgrade(t)'
                /\ t \in c5'[a] <=> a \in SharedM!HasShared(t)',
             \A a \in SharedM!Objects : c3'[a] # SharedM!None => c4'[a] = SharedM!None /\ c5'[a] = {},
             c2'[t] # "out" => c1'[t] \in SharedM!Operations,
             c2'[t] \in {"upgrade", "write"} => c1'[t].kind = "average"
      PROVE  SharedM!IInv'
  <2>1. ASSUME NEW u \in SharedM!Threads, NEW a \in SharedM!Objects
        PROVE  /\ c3'[a] = u <=> a \in SharedM!HasExclusive(u)'
               /\ c4'[a] = u <=> a \in SharedM!HasUpgrade(u)'
               /\ u \in c5'[a] <=> a \in SharedM!HasShared(u)'
    <3>1. CASE u = t
      BY <1>3, <3>1
    <3>2. CASE u # t
      BY <1>2, <1>3, <3>2 DEF SharedM!IInv
    <3> QED  BY <3>1, <3>2
  <2>2. \A u \in SharedM!Threads :
          /\ c2'[u] # "out" => c1'[u] \in SharedM!Operations
          /\ c2'[u] \in {"upgrade", "write"} => c1'[u].kind = "average"
    BY <1>3 DEF SharedM!IInv
  <2> QED  BY <1>3, <2>1, <2>2 DEF SharedM!IInv
<1>4. ASSUME NEW t \in SharedM!Threads, SharedM!Begin(t)
      PROVE  SharedM!IInv'
  <2>1. PICK o \in SharedM!Operations :
          /\ c1' = [c1 EXCEPT ![t] = o]
          /\ c2' = [c2 EXCEPT ![t] = IF o.kind = "average" THEN "check" ELSE "lock"]
    BY <1>4 DEF SharedM!Begin, SharedM!Enters, SharedM!FirstOperations
  <2>2. c2[t] = "out" /\ c6' = t /\ UNCHANGED <<c3, c4, c5>>
    BY <1>4 DEF SharedM!Begin, SharedM!locks
  <2>3. SharedM!TypeOK' /\ c1'[t] = o /\ c2'[t] \in {"check", "lock"}
        /\ \A u \in SharedM!Threads : u # t => c1'[u] = c1[u] /\ c2'[u] = c2[u]
    BY <1>1, <2>1, <2>2 DEF SharedM!TypeOK, SharedM!Phases, SharedM!Threads
  <2>4. /\ SharedM!HasExclusive(t) = {} /\ SharedM!HasUpgrade(t) = {} /\ SharedM!HasShared(t) = {}
        /\ SharedM!HasExclusive(t)' = {} /\ SharedM!HasUpgrade(t)' = {} /\ SharedM!HasShared(t)' = {}
    BY <2>2, <2>3 DEF SharedM!HasExclusive, SharedM!HasUpgrade, SharedM!HasShared
  <2> QED  BY <1>3, <2>1, <2>2, <2>3, <2>4 DEF SharedM!IInv
<1>5. ASSUME NEW t \in SharedM!Threads, SharedM!Lock(t)
      PROVE  SharedM!IInv'
  <2> DEFINE L == SharedM!Locked(t)
             U == SharedM!Upgradable(t)
             S == SharedM!Shared(t)
  <2>1. c2[t] = "lock" /\ c1[t] \in SharedM!Operations /\ UNCHANGED <<c1, c6>>
    BY <1>5 DEF SharedM!Lock, SharedM!IInv
  <2>2. /\ L \subseteq SharedM!Objects /\ U \subseteq SharedM!Objects /\ S \subseteq SharedM!Objects
        /\ L \cap U = {} /\ L \cap S = {} /\ U \cap S = {}
    BY <2>1, SharedLocks
  <2>3. \A a \in L \cup U \cup S :
          /\ c3[a] = SharedM!None
          /\ a \notin S => c4[a] = SharedM!None
          /\ a \in L => c5[a] = {}
    BY <1>5 DEF SharedM!Lock, SharedM!Wanted, SharedM!Objects_of, SharedM!Available
  <2>4. /\ c3' = [a \in SharedM!Objects |-> IF a \in L THEN t ELSE c3[a]]
        /\ c4' = [a \in SharedM!Objects |-> IF a \in U THEN t ELSE c4[a]]
        /\ c5' = [a \in SharedM!Objects |-> IF a \in S THEN c5[a] \cup {t} ELSE c5[a]]
    BY <1>5 DEF SharedM!Lock, SharedM!Wanted, SharedM!Objects_of
  <2>5. c2' = [c2 EXCEPT ![t] = "use"]
    <3>1. \A a \in L : c3'[a] = t
      BY <2>2, <2>4
    <3>2. \A b \in U : c4'[b] = t
      BY <2>2, <2>4
    <3> QED  BY <1>5, <3>1, <3>2 DEF SharedM!Lock, SharedM!Enters
  <2>6. SharedM!HasExclusive(t) = {} /\ SharedM!HasUpgrade(t) = {} /\ SharedM!HasShared(t) = {}
    BY <2>1 DEF SharedM!HasExclusive, SharedM!HasUpgrade, SharedM!HasShared
  <2>7. c2'[t] = "use" /\ c2' \in [SharedM!Threads -> SharedM!Phases]
        /\ \A u \in SharedM!Threads : u # t => c2'[u] = c2[u]
    BY <1>1, <2>5 DEF SharedM!TypeOK, SharedM!Phases
  <2>8. SharedM!HasExclusive(t)' = L /\ SharedM!HasUpgrade(t)' = U /\ SharedM!HasShared(t)' = S
    BY <2>1, <2>7 DEF SharedM!HasExclusive, SharedM!HasUpgrade, SharedM!HasShared,
              SharedM!Locked, SharedM!Upgradable, SharedM!Shared
  <2> HIDE DEF L, U, S
  <2>9. SharedM!TypeOK'
    BY <1>1, <2>1, <2>4, <2>7 DEF SharedM!TypeOK
  <2>10. ASSUME NEW u \in SharedM!Threads, u # t, NEW a \in SharedM!Objects
         PROVE  /\ c3'[a] = u <=> c3[a] = u
                /\ c4'[a] = u <=> c4[a] = u
                /\ u \in c5'[a] <=> u \in c5[a]
    <3>1. a \in U => a \notin S
      BY <2>2
    <3>2. a \in L => c3[a] # u
      BY <1>1, <2>3
    <3>3. a \in U => c4[a] # u
      BY <1>1, <2>3, <3>1
    <3> QED  BY <2>4, <2>10, <3>2, <3>3
  <2>11. ASSUME NEW a \in SharedM!Objects
         PROVE  /\ c3'[a] = t <=> a \in SharedM!HasExclusive(t)'
                /\ c4'[a] = t <=> a \in SharedM!HasUpgrade(t)'
                /\ t \in c5'[a] <=> a \in SharedM!HasShared(t)'
    <3>1. c3[a] # t /\ c4[a] # t /\ t \notin c5[a]
      BY <2>6 DEF SharedM!IInv
    <3> QED  BY <2>4, <2>8, <3>1
  <2>12. ASSUME NEW a \in SharedM!Objects, c3'[a] # SharedM!None
         PROVE  c4'[a] = SharedM!None /\ c5'[a] = {}
    <3>1. CASE a \in L
      <4>1. a \notin U /\ a \notin S
        BY <2>2, <3>1
      <4> QED  BY <2>3, <2>4, <3>1, <4>1
    <3>2. CASE a \notin L
      <4>1. c3[a] # SharedM!None
        BY <2>4, <2>12, <3>2
      <4>2. a \notin U /\ a \notin S /\ c4[a] = SharedM!None /\ c5[a] = {}
        BY <2>3, <4>1 DEF SharedM!IInv
      <4> QED  BY <2>4, <4>2
    <3> QED  BY <3>1, <3>2
  <2> QED  BY <1>3, <2>1, <2>7, <2>9, <2>10, <2>11, <2>12
<1>6. ASSUME NEW t \in SharedM!Threads, SharedM!Unlock(t), UNCHANGED c6
      PROVE  SharedM!IInv'
  <2>1. /\ c3' = [a \in SharedM!Objects |-> IF c3[a] = t THEN SharedM!None ELSE c3[a]]
        /\ c4' = [a \in SharedM!Objects |-> IF c4[a] = t THEN SharedM!None ELSE c4[a]]
        /\ c5' = [a \in SharedM!Objects |-> c5[a] \ {t}]
        /\ c1' = [c1 EXCEPT ![t] = SharedM!Idle] /\ c2' = [c2 EXCEPT ![t] = "out"]
    BY <1>6 DEF SharedM!Unlock, SharedM!Enters
  <2>2. SharedM!TypeOK' /\ c2'[t] = "out"
        /\ \A u \in SharedM!Threads : u # t => c1'[u] = c1[u] /\ c2'[u] = c2[u]
    BY <1>1, <1>6, <2>1 DEF SharedM!TypeOK, SharedM!Phases
  <2>3. SharedM!HasExclusive(t)' = {} /\ SharedM!HasUpgrade(t)' = {} /\ SharedM!HasShared(t)' = {}
    BY <2>2 DEF SharedM!HasExclusive, SharedM!HasUpgrade, SharedM!HasShared
  <2>4. ASSUME NEW u \in SharedM!Threads, u # t, NEW a \in SharedM!Objects
         PROVE  /\ c3'[a] = u <=> c3[a] = u
                /\ c4'[a] = u <=> c4[a] = u
                /\ u \in c5'[a] <=> u \in c5[a]
    BY <1>1, <2>1, <2>4
  <2>5. ASSUME NEW a \in SharedM!Objects
         PROVE  c3'[a] # t /\ c4'[a] # t /\ t \notin c5'[a]
    BY <1>1, <2>1
  <2>6. ASSUME NEW a \in SharedM!Objects, c3'[a] # SharedM!None
        PROVE  c4'[a] = SharedM!None /\ c5'[a] = {}
    BY <2>1, <2>6 DEF SharedM!IInv
  <2> QED  BY <1>3, <2>2, <2>3, <2>4, <2>5, <2>6
<1>7. ASSUME NEW t \in SharedM!Threads, SharedM!Use(t), c1[t].kind = "average"
      PROVE  SharedM!IInv'
  <2> DEFINE b == c1[t].this
  <2>1. c2[t] = "use" /\ c1[t] \in SharedM!Operations /\ UNCHANGED <<c1, c4, c6>>
        /\ c3' = [c3 EXCEPT ![b] = SharedM!None] /\ c5' = [c5 EXCEPT ![b] = @ \cup {t}]
        /\ c2' = [c2 EXCEPT ![t] = "upgrade"]
    BY <1>7 DEF SharedM!Use, SharedM!IInv, SharedM!Downgraded, SharedM!Enters
  <2>2. b \in SharedM!Objects /\ SharedM!Locked(t) = {b} /\ SharedM!Shared(t) = {}
    BY <1>7, <2>1, SharedLocks
  <2>3. SharedM!HasExclusive(t) = {b} /\ SharedM!HasShared(t) = {}
    BY <2>1, <2>2 DEF SharedM!HasExclusive, SharedM!HasShared
  <2>4. c2'[t] = "upgrade" /\ c2' \in [SharedM!Threads -> SharedM!Phases]
        /\ \A u \in SharedM!Threads : u # t => c2'[u] = c2[u]
    BY <1>1, <2>1 DEF SharedM!TypeOK, SharedM!Phases
  <2>5. SharedM!HasExclusive(t)' = {} /\ SharedM!HasUpgrade(t)' = SharedM!HasUpgrade(t)
        /\ SharedM!HasShared(t)' = {b}
    BY <2>1, <2>4 DEF SharedM!HasExclusive, SharedM!HasUpgrade, SharedM!HasShared, SharedM!Upgradable
  <2> HIDE DEF b
  <2>6. /\ c3[b] = t /\ c3'[b] = SharedM!None /\ c5'[b] = c5[b] \cup {t}
        /\ \A a \in SharedM!Objects : a # b => c3'[a] = c3[a] /\ c5'[a] = c5[a]
        /\ \A a \in SharedM!Objects : a # b => c3[a] # t /\ t \notin c5[a]
    <3>1. c3[b] = t /\ \A a \in SharedM!Objects : a # b => c3[a] # t /\ t \notin c5[a]
      BY <2>2, <2>3 DEF SharedM!IInv
    <3> QED  BY <1>1, <2>1, <2>2, <3>1 DEF SharedM!TypeOK
  <2>7. SharedM!TypeOK'
    BY <1>1, <2>1, <2>2, <2>4 DEF SharedM!TypeOK
  <2>8. ASSUME NEW u \in SharedM!Threads, u # t, NEW a \in SharedM!Objects
         PROVE  /\ c3'[a] = u <=> c3[a] = u
                /\ c4'[a] = u <=> c4[a] = u
                /\ u \in c5'[a] <=> u \in c5[a]
    BY <1>1, <2>1, <2>6, <2>8
  <2>9. ASSUME NEW a \in SharedM!Objects
         PROVE  /\ c3'[a] = t <=> a \in SharedM!HasExclusive(t)'
                /\ c4'[a] = t <=> a \in SharedM!HasUpgrade(t)'
                /\ t \in c5'[a] <=> a \in SharedM!HasShared(t)'
    BY <1>1, <2>1, <2>5, <2>6 DEF SharedM!IInv
  <2>10. ASSUME NEW a \in SharedM!Objects, c3'[a] # SharedM!None
        PROVE  c4'[a] = SharedM!None /\ c5'[a] = {}
    BY <2>1, <2>6, <2>10 DEF SharedM!IInv
  <2> QED  BY <1>3, <1>7, <2>1, <2>4, <2>7, <2>8, <2>9, <2>10
<1>8. ASSUME NEW t \in SharedM!Threads, SharedM!Upgrade(t)
      PROVE  SharedM!IInv'
  <2> DEFINE U == SharedM!Upgradable(t)
  <2>1. /\ c2[t] = "upgrade" /\ c1[t] \in SharedM!Operations /\ c1[t].kind = "average" /\ UNCHANGED <<c1, c5, c6>>
        /\ c3' = [a \in SharedM!Objects |-> IF a \in U THEN t ELSE c3[a]]
        /\ c4' = [a \in SharedM!Objects |-> IF c4[a] = t THEN SharedM!None ELSE c4[a]]
        /\ c2' = [c2 EXCEPT ![t] = "write"] /\ \A a \in U : c5[a] = {}
    BY <1>8 DEF SharedM!Upgrade, SharedM!IInv, SharedM!Enters, SharedM!Alone
  <2>2. SharedM!HasExclusive(t) = {} /\ SharedM!HasUpgrade(t) = U /\ SharedM!HasShared(t) = {c1[t].this}
    BY <2>1 DEF SharedM!HasExclusive, SharedM!HasUpgrade, SharedM!HasShared
  <2>3. c2'[t] = "write" /\ c2' \in [SharedM!Threads -> SharedM!Phases]
        /\ \A u \in SharedM!Threads : u # t => c2'[u] = c2[u]
    BY <1>1, <2>1 DEF SharedM!TypeOK, SharedM!Phases
  <2>4. SharedM!HasExclusive(t)' = U /\ SharedM!HasUpgrade(t)' = {} /\ SharedM!HasShared(t)' = {c1[t].this}
    BY <2>1, <2>3 DEF SharedM!HasExclusive, SharedM!HasUpgrade, SharedM!HasShared, SharedM!Upgradable
  <2> HIDE DEF U
  <2>5. \A a \in SharedM!Objects :
          /\ c4[a] = t <=> a \in U
          /\ c3[a] # t
          /\ t \in c5[a] <=> a = c1[t].this
          /\ a \in U => c3[a] = SharedM!None
    BY <1>1, <2>2 DEF SharedM!IInv
  <2>6. SharedM!TypeOK'
    BY <1>1, <2>1, <2>3 DEF SharedM!TypeOK
  <2>7. ASSUME NEW u \in SharedM!Threads, u # t, NEW a \in SharedM!Objects
         PROVE  /\ c3'[a] = u <=> c3[a] = u
                /\ c4'[a] = u <=> c4[a] = u
                /\ u \in c5'[a] <=> u \in c5[a]
    BY <1>1, <2>1, <2>5, <2>7
  <2>8. ASSUME NEW a \in SharedM!Objects
         PROVE  /\ c3'[a] = t <=> a \in SharedM!HasExclusive(t)'
                /\ c4'[a] = t <=> a \in SharedM!HasUpgrade(t)'
                /\ t \in c5'[a] <=> a \in SharedM!HasShared(t)'
    BY <1>1, <2>1, <2>4, <2>5
  <2>9. ASSUME NEW a \in SharedM!Objects, c3'[a] # SharedM!None
        PROVE  c4'[a] = SharedM!None /\ c5'[a] = {}
    BY <1>1, <2>1, <2>5, <2>9 DEF SharedM!IInv
  <2> QED  BY <1>3, <2>1, <2>3, <2>6, <2>7, <2>8, <2>9
<1>9. ASSUME NEW t \in SharedM!Threads, SharedM!Check(t)
      PROVE  SharedM!IInv'
  <2>1. /\ c2[t] = "check" /\ c1[t] \in SharedM!Operations /\ UNCHANGED <<c1, c3, c4, c5, c6>>
        /\ \/ c2' = [c2 EXCEPT ![t] = "lock"]
           \/ c2' = [c2 EXCEPT ![t] = "aborted"]
    BY <1>9 DEF SharedM!Check, SharedM!Enters, SharedM!locks, SharedM!IInv
  <2>2. SharedM!TypeOK' /\ c2'[t] \in {"lock", "aborted"}
        /\ \A u \in SharedM!Threads : u # t => c1'[u] = c1[u] /\ c2'[u] = c2[u]
    BY <1>1, <2>1 DEF SharedM!TypeOK, SharedM!Phases
  <2>3. /\ SharedM!HasExclusive(t) = {} /\ SharedM!HasUpgrade(t) = {} /\ SharedM!HasShared(t) = {}
        /\ SharedM!HasExclusive(t)' = {} /\ SharedM!HasUpgrade(t)' = {} /\ SharedM!HasShared(t)' = {}
    BY <2>1, <2>2 DEF SharedM!HasExclusive, SharedM!HasUpgrade, SharedM!HasShared
  <2> QED  BY <1>3, <2>1, <2>2, <2>3 DEF SharedM!IInv
<1>10. CASE UNCHANGED SharedM!vars
  BY <1>10 DEF SharedM!vars, SharedM!IInv, SharedM!TypeOK, SharedM!HasExclusive, SharedM!HasUpgrade,
              SharedM!HasShared, SharedM!Locked, SharedM!Upgradable, SharedM!Shared
<1> QED
  BY <1>4, <1>5, <1>6, <1>7, <1>8, <1>9, <1>10 DEF SharedM!Next, SharedM!Goes, SharedM!Use, SharedM!Write

\* Who writes an object has it exclusively, and who reads it behind the assertion of
\* average() has it somehow.
LEMMA SharedSafe == SharedM!IInv => SharedM!TypeOK /\ SharedM!NoRaceUnderLocks
<1> SUFFICES ASSUME SharedM!IInv,
                    NEW t \in SharedM!Threads, NEW u \in SharedM!Threads, t # u, c2[u] # "check",
                    NEW a \in SharedM!Writes(t), a \in SharedM!Reads(u) \cup SharedM!Writes(u)
             PROVE  FALSE
  BY DEF SharedM!IInv, SharedM!NoRaceUnderLocks
<1>1. ASSUME NEW s \in SharedM!Threads
      PROVE  /\ SharedM!Writes(s) = SharedM!HasExclusive(s) /\ SharedM!Writes(s) \subseteq SharedM!Objects
             /\ c2[s] # "check" =>
                  SharedM!Reads(s) \subseteq SharedM!HasExclusive(s) \cup SharedM!HasUpgrade(s) \cup SharedM!HasShared(s)
  <2>1. CASE c2[s] = "use"
    <3>1. c1[s] \in SharedM!Operations
      BY <2>1 DEF SharedM!IInv
    <3> QED  BY <2>1, <3>1, SharedLocks
             DEF SharedM!Writes, SharedM!Reads, SharedM!HasExclusive, SharedM!HasUpgrade, SharedM!HasShared
  <2>2. CASE c2[s] = "write"
    <3>1. c1[s] \in SharedM!Operations /\ c1[s].kind = "average"
      BY <2>2 DEF SharedM!IInv
    <3> QED  BY <2>2, <3>1, SharedLocks
             DEF SharedM!Writes, SharedM!Reads, SharedM!HasExclusive, SharedM!HasUpgrade, SharedM!HasShared
  <2>3. CASE c2[s] # "use" /\ c2[s] # "write"
    BY <2>3 DEF SharedM!Writes, SharedM!Reads, SharedM!HasExclusive
  <2> QED  BY <2>1, <2>2, <2>3
<1>2. a \in SharedM!Objects /\ c3[a] = t /\ t # SharedM!None
  BY <1>1 DEF SharedM!IInv, SharedM!Threads, SharedM!None
<1>3. c4[a] = SharedM!None /\ c5[a] = {} /\ u # SharedM!None
  BY <1>2 DEF SharedM!IInv, SharedM!Threads, SharedM!None
<1>4. a \notin SharedM!HasExclusive(u) \cup SharedM!HasUpgrade(u) \cup SharedM!HasShared(u)
  BY <1>2, <1>3 DEF SharedM!IInv
<1> QED  BY <1>1, <1>4

-----------------------------------------------------------------------------
(* UpgradeMutex: c1 is role, c2 is trying, c3, c4 and c5 are sharers,      *)
(* upgrader and writer, c6 is state, c7 is pc, c8 is rounds.               *)

LEMMA UpgradesInit == Upgrades!Init => Upgrades!IInv
<1> SUFFICES ASSUME Upgrades!Init PROVE Upgrades!IInv
  OBVIOUS
<1>1. c2 \in BOOLEAN /\ MaxRounds \in Nat
  BY ProgramsAssumption DEF Upgrades!Init
<1>2. Upgrades!TypeOK
  BY <1>1 DEF Upgrades!Init, Upgrades!TypeOK, Upgrades!States
<1> QED
  BY <1>2 DEF Upgrades!Init, Upgrades!IInv, Upgrades!None, Upgrades!Threads

LEMMA UpgradesStep ==
    ASSUME Upgrades!IInv, [Upgrades!Next]_(Upgrades!vars)
    PROVE  Upgrades!IInv'
<1>1. MaxRounds \in Nat /\ Upgrades!TypeOK /\ Upgrades!None \notin Upgrades!Threads
  BY ProgramsAssumption DEF Upgrades!IInv, Upgrades!None, Upgrades!Threads
\* A step of t, by what it does to the mutex and where it goes.
<1>2. ASSUME NEW t \in Upgrades!Threads, NEW p \in Upgrades!States, c7' = [c7 EXCEPT ![t] = p],
             c1' = c1, c2' = c2, c8' \in 0..MaxRounds,
             c3' = (IF p \in {"shared", "second", "last"} THEN c3 \cup {t} ELSE c3 \ {t}),
             c4' = (IF p \in {"upgrade", "down"} THEN t ELSE IF c4 = t THEN Upgrades!None ELSE c4),
             c5' = (IF p \in {"exclusive", "writing", "written"} THEN t ELSE IF c5 = t THEN Upgrades!None ELSE c5),
             p \in {"upgrade", "down"} => c4 \in {t, Upgrades!None},
             p \in {"exclusive", "writing", "written"} => c5 \in {t, Upgrades!None},
             c5' # Upgrades!None => c3' = {} /\ c4' = Upgrades!None,
             c6' = (IF p = "writing" THEN "writing" ELSE IF c7[t] = "writing" THEN "reading" ELSE c6)
      PROVE  Upgrades!IInv'
  <2>1. c7'[t] = p /\ c7' \in [Upgrades!Threads -> Upgrades!States]
        /\ \A u \in Upgrades!Threads : u # t => c7'[u] = c7[u]
    BY <1>1, <1>2 DEF Upgrades!TypeOK
  <2>2. c3' \subseteq Upgrades!Threads /\ c4' \in Upgrades!Threads \cup {Upgrades!None}
        /\ c5' \in Upgrades!Threads \cup {Upgrades!None} /\ c6' \in {"reading", "writing"}
    BY <1>1, <1>2 DEF Upgrades!TypeOK
  <2>3. c2' \in BOOLEAN
    BY <1>1, <1>2 DEF Upgrades!TypeOK
  <2>4. Upgrades!TypeOK'
    BY <1>1, <1>2, <2>1, <2>2, <2>3 DEF Upgrades!TypeOK
  <2>5. ASSUME NEW u \in Upgrades!Threads
        PROVE  /\ u \in c3' <=> c7'[u] \in {"shared", "second", "last"}
               /\ c4' = u <=> c7'[u] \in {"upgrade", "down"}
               /\ c5' = u <=> c7'[u] \in {"exclusive", "writing", "written"}
    <3>1. CASE u = t
      BY <1>1, <1>2, <2>1, <3>1
    <3>2. CASE u # t
      BY <1>1, <1>2, <2>1, <3>2 DEF Upgrades!IInv
    <3> QED  BY <3>1, <3>2
  \* Of two threads that write each would be the writer.
  <2>6. \A u, v \in Upgrades!Threads : c7[u] = "writing" /\ c7[v] = "writing" => u = v
    BY DEF Upgrades!IInv
  <2>7. c6' = "writing" <=> \E u \in Upgrades!Threads : c7'[u] = "writing"
    <3>1. CASE p = "writing"
      BY <1>2, <2>1, <3>1
    <3>2. CASE p # "writing" /\ c7[t] = "writing"
      BY <1>2, <2>1, <2>6, <3>2
    <3>3. CASE p # "writing" /\ c7[t] # "writing"
      BY <1>2, <2>1, <3>3 DEF Upgrades!IInv
    <3> QED  BY <3>1, <3>2, <3>3
  <2> QED  BY <1>2, <2>4, <2>5, <2>7 DEF Upgrades!IInv
<1> USE DEF Upgrades!Held, Upgrades!GoTo, Upgrades!mutexVars
<1>3. ASSUME NEW t \in Upgrades!Threads
      PROVE  /\ t \in c3 <=> c7[t] \in {"shared", "second", "last"}
             /\ c4 = t <=> c7[t] \in {"upgrade", "down"}
             /\ c5 = t <=> c7[t] \in {"exclusive", "writing", "written"}
             /\ c5 # Upgrades!None => c3 = {} /\ c4 = Upgrades!None
             /\ c8 \in 0..MaxRounds
             /\ t \notin c3 => c3 \ {t} = c3
             /\ t \in c3 => c3 \cup {t} = c3
  BY DEF Upgrades!IInv, Upgrades!TypeOK
<1>4. ASSUME NEW t \in Upgrades!Threads, Upgrades!Outside(t)
      PROVE  Upgrades!IInv'
  <2>1. c7[t] = "out" /\ UNCHANGED <<c1, c2, c6>> /\ c8' \in 0..MaxRounds
    BY <1>1, <1>3, <1>4 DEF Upgrades!Outside, Upgrades!Lock, Upgrades!Finish
  <2>2. CASE Upgrades!Finish(t)
    BY <1>1, <1>2, <1>3, <2>1, <2>2 DEF Upgrades!Finish, Upgrades!States
  <2>3. CASE c3' = c3 \cup {t} /\ c4' = c4 /\ c5' = c5 /\ Upgrades!CanShare /\ c7' = [c7 EXCEPT ![t] = "shared"]
    BY <1>1, <1>2, <1>3, <2>1, <2>3 DEF Upgrades!CanShare, Upgrades!States
  <2>4. CASE c3' = c3 /\ c4' = c4 /\ c5' = t /\ Upgrades!CanLock /\ c7' = [c7 EXCEPT ![t] = "exclusive"]
    BY <1>1, <1>2, <1>3, <2>1, <2>4 DEF Upgrades!CanLock, Upgrades!States
  <2>5. CASE c3' = c3 /\ c4' = t /\ c5' = c5 /\ Upgrades!CanUpgrade /\ c7' = [c7 EXCEPT ![t] = "upgrade"]
    BY <1>1, <1>2, <1>3, <2>1, <2>5 DEF Upgrades!CanUpgrade, Upgrades!States
  <2> QED  BY <1>4, <2>2, <2>3, <2>4, <2>5 DEF Upgrades!Outside, Upgrades!Lock
<1>5. ASSUME NEW t \in Upgrades!Threads, Upgrades!Shared(t) \/ Upgrades!Second(t), UNCHANGED <<c1, c2>>
      PROVE  Upgrades!IInv'
  <2>1. c7[t] \in {"shared", "second"} /\ UNCHANGED <<c6, c8>>
    BY <1>5 DEF Upgrades!Shared, Upgrades!Second
  <2>2. c5 = Upgrades!None /\ t \in c3 /\ c4 # t
    BY <1>1, <1>3, <2>1
  <2>3. CASE c3' = c3 \ {t} /\ c4' = c4 /\ c5' = c5 /\ c7' = [c7 EXCEPT ![t] = "out"]
    BY <1>1, <1>2, <1>3, <1>5, <2>1, <2>2, <2>3 DEF Upgrades!States
  <2>4. CASE c3' = c3 \ {t} /\ c4' = c4 /\ c5' = t /\ c7' = [c7 EXCEPT ![t] = "exclusive"] /\ Upgrades!AloneIn(t)
    <3>1. c4 = Upgrades!None /\ c3 \ {t} = {}
      BY <2>2, <2>4 DEF Upgrades!AloneIn
    <3> QED  BY <1>1, <1>2, <1>3, <1>5, <2>1, <2>2, <2>4, <3>1 DEF Upgrades!States
  <2>5. CASE c3' = c3 /\ c4' = c4 /\ c5' = c5 /\ c7' = [c7 EXCEPT ![t] = "second"]
    BY <1>1, <1>2, <1>3, <1>5, <2>1, <2>2, <2>5 DEF Upgrades!States
  <2>6. CASE c3' = c3 \ {t} /\ c4' = t /\ c5' = c5 /\ c7' = [c7 EXCEPT ![t] = "upgrade"] /\ Upgrades!CanUpgrade
    BY <1>1, <1>2, <1>3, <1>5, <2>1, <2>2, <2>6 DEF Upgrades!States, Upgrades!CanUpgrade
  <2> QED  BY <1>5, <2>3, <2>4, <2>5, <2>6
           DEF Upgrades!Shared, Upgrades!Second, Upgrades!FirstTry, Upgrades!GivenUp
<1>6. ASSUME NEW t \in Upgrades!Threads, Upgrades!Upgrade(t), UNCHANGED <<c1, c2>>
      PROVE  Upgrades!IInv'
  <2>1. c7[t] = "upgrade" /\ UNCHANGED <<c6, c8>> /\ c4' = Upgrades!None /\ c3' = c3 /\ c4 = t
    BY <1>3, <1>6 DEF Upgrades!Upgrade
  <2>2. c5 = Upgrades!None /\ t \notin c3
    BY <1>1, <1>3, <2>1
  <2>3. CASE c5' = c5 /\ c7' = [c7 EXCEPT ![t] = "out"]
    BY <1>1, <1>2, <1>3, <1>6, <2>1, <2>2, <2>3 DEF Upgrades!States
  <2>4. CASE c5' = t /\ c7' = [c7 EXCEPT ![t] = "exclusive"] /\ Upgrades!Upgraded(t)
    <3>1. c3 = {}
      BY <2>2, <2>4 DEF Upgrades!AloneIn, Upgrades!Upgraded
    <3> QED  BY <1>1, <1>2, <1>3, <1>6, <2>1, <2>2, <2>4, <3>1 DEF Upgrades!States
  <2> QED  BY <1>6, <2>3, <2>4 DEF Upgrades!Upgrade
<1>7. ASSUME NEW t \in Upgrades!Threads, Upgrades!Write(t) \/ Upgrades!Written(t), UNCHANGED <<c1, c2>>
      PROVE  Upgrades!IInv'
  <2>1. c7[t] \in {"exclusive", "writing", "written"} /\ UNCHANGED c8 /\ c5 = t /\ c3 = {} /\ c4 = Upgrades!None
    BY <1>1, <1>3, <1>7 DEF Upgrades!Write, Upgrades!Written
  <2>2. CASE Upgrades!Write(t) /\ c7[t] = "exclusive"
    <3>1. c7' = [c7 EXCEPT ![t] = "writing"] /\ c6' = "writing" /\ UNCHANGED <<c3, c4, c5>>
      BY <2>2 DEF Upgrades!Write
    <3> QED  BY <1>1, <1>2, <1>3, <1>7, <2>1, <3>1 DEF Upgrades!States
  <2>3. CASE Upgrades!Write(t) /\ c7[t] = "writing"
    <3>1. c7' = [c7 EXCEPT ![t] = "written"] /\ c6' = "reading" /\ UNCHANGED <<c3, c4, c5>>
      BY <2>3 DEF Upgrades!Write
    <3> QED  BY <1>1, <1>2, <1>3, <1>7, <2>1, <2>3, <3>1 DEF Upgrades!States
  <2>4. CASE Upgrades!Written(t)
    <3>1. c7[t] = "written" /\ c5' = Upgrades!None /\ c6' = c6
      BY <2>4 DEF Upgrades!Written
    <3>2. CASE c3' = c3 /\ c4' = c4 /\ c7' = [c7 EXCEPT ![t] = "out"]
      BY <1>1, <1>2, <1>3, <1>7, <2>1, <3>1, <3>2 DEF Upgrades!States
    <3>3. CASE c3' = c3 /\ c4' = t /\ c7' = [c7 EXCEPT ![t] = "down"]
      BY <1>1, <1>2, <1>3, <1>7, <2>1, <3>1, <3>3 DEF Upgrades!States
    <3>4. CASE c3' = c3 \cup {t} /\ c4' = c4 /\ c7' = [c7 EXCEPT ![t] = "last"]
      BY <1>1, <1>2, <1>3, <1>7, <2>1, <3>1, <3>4 DEF Upgrades!States
    <3> QED  BY <2>4, <3>2, <3>3, <3>4 DEF Upgrades!Written
  <2> QED  BY <1>7, <2>2, <2>3, <2>4 DEF Upgrades!Write
<1>8. ASSUME NEW t \in Upgrades!Threads, Upgrades!Down(t), UNCHANGED <<c1, c2>>
      PROVE  Upgrades!IInv'
  <2>1. c7[t] \in {"down", "last"} /\ UNCHANGED <<c6, c8, c5>> /\ c5 = Upgrades!None
    BY <1>1, <1>3, <1>8 DEF Upgrades!Down
  <2>2. CASE c7[t] = "down"
    <3>1. c7' = [c7 EXCEPT ![t] = "last"] /\ c3' = c3 \cup {t} /\ c4' = Upgrades!None /\ c4 = t
      BY <1>3, <1>8, <2>2 DEF Upgrades!Down
    <3> QED  BY <1>1, <1>2, <1>3, <1>8, <2>1, <2>2, <3>1 DEF Upgrades!States
  <2>3. CASE c7[t] = "last"
    <3>1. c7' = [c7 EXCEPT ![t] = "out"] /\ c3' = c3 \ {t} /\ c4' = c4 /\ c4 # t
      BY <1>3, <1>8, <2>3 DEF Upgrades!Down
    <3> QED  BY <1>1, <1>2, <1>3, <1>8, <2>1, <2>3, <3>1 DEF Upgrades!States
  <2> QED  BY <2>1, <2>2, <2>3
<1>9. CASE UNCHANGED Upgrades!vars
  BY <1>9 DEF Upgrades!vars, Upgrades!IInv, Upgrades!TypeOK
<1> QED  BY <1>4, <1>5, <1>6, <1>7, <1>8, <1>9 DEF Upgrades!Next, Upgrades!Inside

LEMMA UpgradesSafe ==
    Upgrades!IInv => Upgrades!TypeOK /\ Upgrades!AssertionsHold /\ Upgrades!LeftUnlocked
<1> SUFFICES ASSUME Upgrades!IInv PROVE Upgrades!AssertionsHold /\ Upgrades!LeftUnlocked
  BY DEF Upgrades!IInv
<1>1. Upgrades!None \notin Upgrades!Threads
  BY DEF Upgrades!None, Upgrades!Threads
<1>2. ASSUME NEW t \in Upgrades!Threads,
             c7[t] \in {"shared", "second", "upgrade", "exclusive", "written", "down", "last"}
      PROVE  c6 = "reading"
  <2>1. ASSUME NEW u \in Upgrades!Threads, c7[u] = "writing" PROVE FALSE
    <3>1. c5 = u /\ c3 = {} /\ c4 = Upgrades!None
      BY <1>1, <2>1 DEF Upgrades!IInv
    <3> QED  BY <1>1, <1>2, <2>1, <3>1 DEF Upgrades!IInv
  <2> QED  BY <2>1 DEF Upgrades!IInv, Upgrades!TypeOK
<1>3. Upgrades!AssertionsHold
  BY <1>2 DEF Upgrades!AssertionsHold, Upgrades!IInv
<1>4. Upgrades!LeftUnlocked
  BY <1>1 DEF Upgrades!LeftUnlocked, Upgrades!IInv, Upgrades!TypeOK
<1> QED  BY <1>3, <1>4

-----------------------------------------------------------------------------
(* SyncQueueTests: c1 is test, c2 is launched, c3 is arrived, c4 is        *)
(* taskAt, c5 is result, c6 is queue, c7 is closed, c8 is steps, c9 is     *)
(* pulled, c10 is mainAt.                                                  *)

LEMMA SyncCardinality == \A S : Sync!Cardinality(S) = Cardinality(S)
  BY DEF Sync!Cardinality, Cardinality

LEMMA SyncMembers ==
    ASSUME c1 \in Sync!Tests
    PROVE  /\ N \in Nat /\ N > 1 /\ Sync!Members \in SUBSET (1..N)
           /\ Sync!Cardinality(Sync!Members) \in 0..N
           /\ \A k \in Nat : k < Sync!Cardinality(Sync!Members) => k + 1 \in 1..N
           /\ IF c1 = "push_pull" THEN Sync!Members = {1, 2} ELSE Sync!Members = 1..N
<1>1. N \in Nat \ {0, 1}
  BY ProgramsAssumption
<1>2. IF c1 = "push_pull" THEN Sync!Members = {1, 2} ELSE Sync!Members = 1..N
  BY DEF Sync!Members, Sync!Tasks
<1>3. Sync!Members \in SUBSET (1..N)
  BY <1>1, <1>2
<1>4. Cardinality(Sync!Members) \in 0..N
  BY <1>1, <1>3, PingConsumers
<1> QED  BY <1>1, <1>2, <1>3, <1>4, SyncCardinality

\* The tasks that are ready, and their number.
LEMMA SyncDone ==
    ASSUME c1 \in Sync!Tests
    PROVE  /\ Sync!Done \in SUBSET (1..N) /\ IsFiniteSet(Sync!Done)
           /\ Sync!Cardinality(Sync!Done) \in 0..N
           /\ Sync!Done = 1..N => Sync!Cardinality(Sync!Done) = N
           /\ Sync!Done = {} => Sync!Cardinality(Sync!Done) = 0
<1>1. Sync!Done \in SUBSET (1..N) /\ N \in Nat
  BY SyncMembers DEF Sync!Done
<1>2. IsFiniteSet(Sync!Done) /\ Cardinality(Sync!Done) \in 0..N
  BY <1>1, PingConsumers
<1>3. Cardinality(1..N) = N /\ Cardinality({}) = 0
  BY <1>1, PingAll, FS_EmptySet
<1> QED  BY <1>1, <1>2, <1>3, SyncCardinality

LEMMA SyncInit == Sync!Init => Sync!IInv
<1> SUFFICES ASSUME Sync!Init PROVE Sync!IInv
  OBVIOUS
<1>1. c1 \in Sync!Tests /\ N \in Nat /\ N > 1
  BY SyncMembers DEF Sync!Init
<1>2. c7 \in BOOLEAN /\ ~c7 /\ c6 = <<>> /\ c9 = <<>> /\ c8 = 0 /\ c2 = 0 /\ c10 \in {"launch", "act"}
      /\ (c10 = "act" <=> c1 = "pull") /\ \A t \in 1..N : c4[t] = "none"
  BY DEF Sync!Init, Sync!Tasks
<1>3. Sync!TypeOK
  <2>1. c3 \in SUBSET Sync!Tasks /\ c4 \in [Sync!Tasks -> {"none", "barrier", "queue", "ready"}]
        /\ c5 \in [Sync!Tasks -> {Sync!None, Sync!Closed} \cup 42..41 + N]
    BY DEF Sync!Init
  <2>2. c6 \in Seq(42..41 + N) /\ c9 \in Seq(42..41 + N)
    BY <1>2
  <2> QED  BY <1>1, <1>2, <2>1, <2>2 DEF Sync!TypeOK
<1>4. Sync!Done = {} /\ Sync!Cardinality(Sync!Done) = 0
  <2>1. Sync!Done = {}
    BY <1>1, <1>2, SyncMembers DEF Sync!Done
  <2> QED  BY <1>1, <2>1, SyncDone
<1>5. Sync!Cardinality(Sync!Members) \in Nat
  BY <1>1, SyncMembers
<1>6. Sync!MainPushes =>
          /\ Len(c6) = Sync!Pushed - Sync!Cardinality(Sync!Done)
          /\ {c5[t] : t \in Sync!Done} = 42..41 + Sync!Cardinality(Sync!Done)
  BY <1>2, <1>4 DEF Sync!MainPushes, Sync!Pushed
<1>7. DOMAIN c6 = {} /\ DOMAIN c9 = {} /\ Len(c6) = 0 /\ Len(c9) = 0
  BY <1>2
<1>8. \A t \in 1..N : c4[t] = "none" /\ t \in Sync!Tasks
  BY <1>2 DEF Sync!Tasks
<1> QED
  BY <1>1, <1>2, <1>3, <1>4, <1>5, <1>6, <1>7, <1>8 DEF Sync!IInv, Sync!Tasks

LEMMA SyncStep ==
    ASSUME Sync!IInv, [Sync!Next]_(Sync!vars)
    PROVE  Sync!IInv'
<1> DEFINE K == Sync!Cardinality(Sync!Done)
<1>1. /\ Sync!TypeOK /\ c1 \in Sync!Tests /\ N \in Nat /\ N > 1 /\ Sync!Tasks = 1..N
      /\ Sync!Members \in SUBSET (1..N) /\ K \in 0..N
  BY SyncMembers, SyncDone DEF Sync!IInv, Sync!TypeOK, Sync!Tasks
<1>2. /\ c8 \in 0..N /\ c2 \in 0..N /\ Len(c6) \in Nat /\ DOMAIN c6 = 1..Len(c6)
      /\ Len(c9) \in Nat /\ DOMAIN c9 = 1..Len(c9)
  BY DEF Sync!IInv, Sync!TypeOK
<1> HIDE DEF K
<1>20. c2 <= Sync!Cardinality(Sync!Members) /\ \A t \in 1..N : c4[t] # "none" => t <= c2
  BY <1>1 DEF Sync!IInv
<1> USE DEF K
\* The steps that leave the values alone, and the set of the tasks that are ready.
<1>3. ASSUME Sync!TypeOK', UNCHANGED <<c1, c5, c6, c9>>,
             \A t \in 1..N : c4'[t] = "ready" <=> c4[t] = "ready",
             Sync!MainPushes => Sync!Pushed' = Sync!Pushed,
             c2' <= Sync!Cardinality(Sync!Members), \A t \in 1..N : c4'[t] # "none" => t <= c2',
             c10' = "act" => c1 \notin {"push_pull", "push"},
             c10' \notin {"act", "pull"} => c8' = 0 \/ c1 = "push",
             c10' = "pull" => c1 = "push",
             c10' \in {"pull", "checked"} => Sync!Done = Sync!Members,
             c7' => c1 = "wait_pull_close",
             c1 = "wait_pull_close" => c8' = 0,
             c1 = "push" => /\ c8' = c8 /\ (c10' \notin {"pull", "checked"} => c8 = 0)
                            /\ (c10' = "checked" => c8 = N)
      PROVE  Sync!IInv'
  <2>1. Sync!Members' = Sync!Members /\ Sync!MainPushes' = Sync!MainPushes
    BY <1>3 DEF Sync!Members, Sync!MainPushes
  <2>2. Sync!Done' = Sync!Done
    BY <1>1, <1>3, <2>1 DEF Sync!Done
  <2>3. 1 \in 1..N /\ 2 \in 1..N
    BY <1>1
  <2>4. c1 = "push_pull" => /\ Len(c6') = IF c4'[1] = "ready" /\ c4'[2] # "ready" THEN 1 ELSE 0
                            /\ \A i \in DOMAIN c6' : c6'[i] = 42
                            /\ c4'[2] = "ready" => c4'[1] = "ready" /\ c5'[2] = 42
    BY <1>3, <2>3 DEF Sync!IInv
  <2>5. Sync!MainPushes =>
          /\ Len(c6') = Sync!Pushed' - Sync!Cardinality(Sync!Done')
          /\ \A i \in DOMAIN c6' : c6'[i] = 41 + Sync!Cardinality(Sync!Done') + i
          /\ {c5'[t] : t \in Sync!Done'} = 42..41 + Sync!Cardinality(Sync!Done')
    BY <1>3, <2>2 DEF Sync!IInv
  <2>6. /\ c1 = "wait_pull_close" => c6' = <<>> /\ \A t \in Sync!Done' : c5'[t] = Sync!Closed
        /\ c1 = "push" =>
          /\ Len(c6') = Sync!Cardinality(Sync!Done') - c8 /\ \A i \in DOMAIN c6' : c6'[i] = 42
          /\ c8 = Len(c9') /\ \A i \in DOMAIN c9' : c9'[i] = 42
    BY <1>3, <2>2 DEF Sync!IInv
  <2> QED  BY <1>1, <1>3, <2>1, <2>2, <2>4, <2>5, <2>6 DEF Sync!IInv
<1>4. CASE Sync!Launch /\ c2 < Sync!Cardinality(Sync!Members)
  <2>1. /\ c10 = "launch" /\ c2' = c2 + 1 /\ c4' = [c4 EXCEPT ![c2 + 1] = "barrier"]
        /\ UNCHANGED <<c1, c3, c5, c6, c7, c8, c9, c10>>
    BY <1>4 DEF Sync!Launch
  <2>2. c2 + 1 \in 1..N /\ c4[c2 + 1] = "none" /\ Sync!Cardinality(Sync!Members) \in 0..N
    <3>1. c2 + 1 \in 1..N /\ Sync!Cardinality(Sync!Members) \in 0..N
      BY <1>1, <1>2, <1>4, SyncMembers
    <3>2. ~(c2 + 1 <= c2)
      BY <1>2
    <3> QED  BY <1>20, <3>1, <3>2
  <2>3. /\ c4' \in [Sync!Tasks -> {"none", "barrier", "queue", "ready"}] /\ c4'[c2 + 1] = "barrier"
        /\ \A t \in 1..N : t # c2 + 1 => c4'[t] = c4[t]
    BY <1>1, <2>1, <2>2 DEF Sync!TypeOK
  <2>4. Sync!TypeOK'
    BY <1>1, <1>2, <2>1, <2>2, <2>3 DEF Sync!TypeOK
  <2>5. \A t \in 1..N : c4'[t] = "ready" <=> c4[t] = "ready"
    BY <2>2, <2>3
  <2>6. Sync!Pushed' = Sync!Pushed
    BY <2>1 DEF Sync!Pushed
  <2>7. c2' <= Sync!Cardinality(Sync!Members) /\ \A t \in 1..N : c4'[t] # "none" => t <= c2'
    <3>1. c2' <= Sync!Cardinality(Sync!Members)
      BY <1>2, <1>4, <2>1, <2>2
    <3>2. ASSUME NEW t \in 1..N, c4'[t] # "none" PROVE t <= c2'
      <4>1. CASE t = c2 + 1
        BY <1>2, <2>1, <4>1
      <4>2. CASE t # c2 + 1
        <5>1. t <= c2 /\ t \in Nat
          BY <1>20, <2>3, <3>2, <4>2
        <5> QED  BY <1>2, <2>1, <5>1
      <4> QED  BY <4>1, <4>2
    <3> QED  BY <3>1, <3>2
  <2> QED  BY <1>3, <2>1, <2>4, <2>5, <2>6, <2>7 DEF Sync!IInv
<1>5. CASE Sync!Launch /\ ~(c2 < Sync!Cardinality(Sync!Members))
  <2>1. /\ c10 = "launch" /\ c10' = (IF c1 \in {"push_wait_pull", "wait_pull_close"} THEN "act" ELSE "get")
        /\ UNCHANGED <<c1, c2, c3, c4, c5, c6, c7, c8, c9>>
    BY <1>5 DEF Sync!Launch
  <2>2. Sync!TypeOK'
    BY <1>1, <2>1 DEF Sync!TypeOK
  <2>3. Sync!MainPushes => Sync!Pushed' = Sync!Pushed
    BY <2>1 DEF Sync!Pushed, Sync!MainPushes, Sync!IInv
  <2> QED  BY <1>1, <1>3, <2>1, <2>2, <2>3 DEF Sync!IInv
<1>6. CASE Sync!Act /\ ~(Sync!MainPushes /\ c8 < N)
  <2>1. /\ c10 = "act" /\ c10' = (IF c1 = "pull" THEN "launch" ELSE "get") /\ c8' = 0
        /\ UNCHANGED <<c1, c2, c3, c4, c5, c6, c9>>
    BY <1>6 DEF Sync!Act
  <2>2. c7' \in BOOLEAN /\ (c7' => c1 = "wait_pull_close")
    BY <1>6 DEF Sync!Act
  <2>3. Sync!TypeOK'
    BY <1>1, <2>1, <2>2 DEF Sync!TypeOK
  <2>4. Sync!MainPushes => Sync!Pushed' = Sync!Pushed
    <3>1. Sync!MainPushes => c8 = N
      BY <1>1, <1>2, <1>6
    <3> QED  BY <2>1, <3>1 DEF Sync!Pushed, Sync!MainPushes
  <2> QED  BY <1>1, <1>3, <2>1, <2>2, <2>3, <2>4 DEF Sync!IInv
<1>7. CASE Sync!Act /\ Sync!MainPushes /\ c8 < N
  <2>1. /\ c10 = "act" /\ c6' = Append(c6, 42 + c8) /\ c8' = c8 + 1
        /\ UNCHANGED <<c1, c2, c3, c4, c5, c7, c9, c10>>
    BY <1>7 DEF Sync!Act
  <2>2. Sync!Pushed = c8 /\ Sync!Pushed' = c8 + 1 /\ c1 \in {"push_wait_pull", "pull"}
    BY <1>7, <2>1 DEF Sync!Pushed, Sync!MainPushes
  <2>3. Sync!MainPushes /\ Sync!MainPushes' /\ Sync!Done' = Sync!Done /\ Sync!Members' = Sync!Members
    BY <1>7, <2>1 DEF Sync!Done, Sync!Members, Sync!MainPushes
  <2>4. 42 + c8 \in 42..41 + N /\ c8 + 1 \in 0..N /\ c6 \in Seq(42..41 + N)
    BY <1>1, <1>2, <1>7 DEF Sync!TypeOK
  <2>5. /\ c6' \in Seq(42..41 + N) /\ Len(c6') = Len(c6) + 1 /\ c6'[Len(c6) + 1] = 42 + c8
        /\ \A i \in 1..Len(c6) : c6'[i] = c6[i]
        /\ DOMAIN c6' = 1..(Len(c6) + 1)
    BY <2>1, <2>4
  <2>6. Sync!TypeOK'
    BY <1>1, <2>1, <2>4, <2>5 DEF Sync!TypeOK
  <2>7. Len(c6) = c8 - K /\ \A i \in 1..Len(c6) : c6[i] = 41 + K + i
    BY <1>2, <2>2, <2>3 DEF Sync!IInv
  <2>8. Len(c6') = c8 + 1 - K /\ \A i \in DOMAIN c6' : c6'[i] = 41 + K + i
    <3> HIDE DEF K
    <3>1. Len(c6') = c8 + 1 - K
      BY <1>1, <1>2, <2>5, <2>7
    <3>2. ASSUME NEW i \in 1..(Len(c6) + 1) PROVE c6'[i] = 41 + K + i
      <4>1. CASE i = Len(c6) + 1
        BY <1>1, <1>2, <2>5, <2>7, <4>1
      <4>2. CASE i # Len(c6) + 1
        BY <1>1, <1>2, <2>5, <2>7, <4>2
      <4> QED  BY <4>1, <4>2
    <3> QED  BY <2>5, <3>1, <3>2
  <2>9. {c5'[t] : t \in Sync!Done'} = 42..41 + K
    <3>1. {c5[t] : t \in Sync!Done} = 42..41 + K
      BY <2>3 DEF Sync!IInv
    <3> QED  BY <2>1, <2>3, <3>1
  <2>10. Sync!Cardinality(Sync!Done') = K
    BY <2>3
  <2> HIDE DEF K
  <2>11. \A t \in Sync!Tasks : c4'[t] # "none" => t <= c2'
    BY <1>1, <1>20, <2>1
  <2>12. c7' => c1 = "wait_pull_close"
    BY <2>1 DEF Sync!IInv
  <2>13. c2' <= Sync!Cardinality(Sync!Members')
    BY <1>20, <2>1, <2>3
  <2>14. c1' \notin {"push_pull", "push", "wait_pull_close"} /\ c10' = "act"
    BY <2>1, <2>2
  <2>15. /\ Len(c6') = Sync!Pushed' - Sync!Cardinality(Sync!Done')
         /\ \A i \in DOMAIN c6' : c6'[i] = 41 + Sync!Cardinality(Sync!Done') + i
         /\ {c5'[t] : t \in Sync!Done'} = 42..41 + Sync!Cardinality(Sync!Done')
    <3>1. Len(c6') = Sync!Pushed' - Sync!Cardinality(Sync!Done')
      BY <1>1, <1>2, <2>2, <2>8, <2>10
    <3>2. \A i \in DOMAIN c6' : c6'[i] = 41 + Sync!Cardinality(Sync!Done') + i
      BY <2>8, <2>10
    <3>3. {c5'[t] : t \in Sync!Done'} = 42..41 + Sync!Cardinality(Sync!Done')
      BY <2>9, <2>10
    <3> QED  BY <3>1, <3>2, <3>3
  <2>16. c7' => c1' = "wait_pull_close"
    BY <2>1, <2>12
  <2> QED  BY <2>6, <2>11, <2>13, <2>14, <2>15, <2>16 DEF Sync!IInv
<1>8. CASE Sync!Get
  <2>1. /\ c10 = "get" /\ c10' = (IF c1 = "push" THEN "pull" ELSE "checked")
        /\ UNCHANGED <<c1, c2, c3, c4, c5, c6, c7, c8, c9>>
    BY <1>8 DEF Sync!Get
  <2>2. Sync!TypeOK'
    BY <1>1, <2>1 DEF Sync!TypeOK
  <2>3. Sync!Done = Sync!Members
    BY <1>8 DEF Sync!Get, Sync!Ready, Sync!Done
  <2>4. Sync!Pushed' = Sync!Pushed
    BY <2>1 DEF Sync!Pushed
  <2> QED  BY <1>1, <1>3, <2>1, <2>2, <2>3, <2>4 DEF Sync!IInv
<1>9. CASE Sync!Pull
  <2>1. c10 = "pull" /\ c1 = "push" /\ Sync!Done = Sync!Members /\ UNCHANGED <<c1, c2, c3, c4, c5, c7>>
    BY <1>9 DEF Sync!Pull, Sync!IInv
  <2>2. CASE c8 < N
    <3>1. c6 # <<>> /\ c9' = Append(c9, Head(c6)) /\ c6' = Tail(c6) /\ c8' = c8 + 1 /\ c10' = c10
      BY <1>9, <2>2 DEF Sync!Pull
    <3>2. c6 \in Seq(42..41 + N) /\ c9 \in Seq(42..41 + N) /\ Len(c9) = c8 /\ Len(c6) = K - c8
          /\ (\A i \in 1..Len(c6) : c6[i] = 42) /\ \A i \in 1..Len(c9) : c9[i] = 42
      BY <1>1, <1>2, <2>1 DEF Sync!IInv, Sync!TypeOK
    <3>3. Len(c6) > 0
      BY <1>2, <3>1, <3>2, EmptySeq
    <3>4. Head(c6) = 42 /\ c6' \in Seq(42..41 + N) /\ Len(c6') = Len(c6) - 1 /\ DOMAIN c6' = 1..Len(c6')
          /\ \A i \in 1..Len(c6') : c6'[i] = c6[i + 1]
      <4>1. Head(c6) = c6[1]
        BY <3>1
      <4> QED  BY <1>2, <3>1, <3>2, <3>3, <4>1, HeadTailProperties, LenProperties
    <3>5. \A i \in DOMAIN c6' : c6'[i] = 42
      BY <1>2, <3>2, <3>3, <3>4
    <3>6. 42 \in 42..41 + N /\ c8 + 1 \in 0..N
      BY <1>1, <1>2, <2>2
    <3>7. c9' \in Seq(42..41 + N) /\ Len(c9') = c8 + 1 /\ DOMAIN c9' = 1..(c8 + 1)
          /\ c9'[c8 + 1] = 42 /\ \A i \in 1..c8 : c9'[i] = c9[i]
      BY <3>1, <3>2, <3>4, <3>6
    <3>8. \A i \in DOMAIN c9' : c9'[i] = 42
      <4> SUFFICES ASSUME NEW i \in 1..(c8 + 1) PROVE c9'[i] = 42
        BY <3>7
      <4> QED  BY <1>2, <3>2, <3>7
    <3>9. Sync!TypeOK'
      BY <1>1, <2>1, <3>1, <3>4, <3>6, <3>7 DEF Sync!TypeOK
    <3>10. Sync!Done' = Sync!Done /\ Sync!Members' = Sync!Members /\ ~Sync!MainPushes'
      BY <2>1 DEF Sync!Done, Sync!Members, Sync!MainPushes
    <3>11. Len(c6') = Sync!Cardinality(Sync!Done') - c8'
      BY <1>1, <1>2, <3>1, <3>2, <3>4, <3>10
    <3> QED  BY <2>1, <3>1, <3>5, <3>7, <3>8, <3>9, <3>10, <3>11 DEF Sync!IInv
  <2>3. CASE ~(c8 < N)
    <3>1. c10' = "checked" /\ UNCHANGED <<c6, c8, c9>> /\ c8 = N
      BY <1>1, <1>2, <1>9, <2>3 DEF Sync!Pull
    <3>2. Sync!TypeOK'
      BY <1>1, <2>1, <3>1 DEF Sync!TypeOK
    <3>3. ~Sync!MainPushes
      BY <2>1 DEF Sync!MainPushes
    <3> QED  BY <1>1, <1>3, <2>1, <3>1, <3>2, <3>3 DEF Sync!IInv
  <2> QED  BY <2>2, <2>3
<1>10. ASSUME NEW t \in 1..N, Sync!Arrive(t) \/ Sync!Pass(t)
       PROVE  Sync!IInv'
  <2>1. /\ UNCHANGED <<c1, c2, c5, c6, c7, c8, c9, c10>> /\ c4[t] = "barrier"
        /\ c3' = c3 \cup {t} \/ c3' = c3
        /\ c4' = c4 \/ c4' = [c4 EXCEPT ![t] = "queue"]
    BY <1>10 DEF Sync!Arrive, Sync!Pass
  <2>2. Sync!TypeOK'
    BY <1>1, <2>1 DEF Sync!TypeOK
  <2>3. \A u \in 1..N : /\ c4'[u] = "ready" <=> c4[u] = "ready"
                        /\ c4'[u] = "none" <=> c4[u] = "none"
    BY <1>1, <2>1 DEF Sync!TypeOK
  <2>4. Sync!Pushed' = Sync!Pushed
    BY <2>1 DEF Sync!Pushed
  <2> QED  BY <1>1, <1>3, <2>1, <2>2, <2>3, <2>4 DEF Sync!IInv
<1>11. ASSUME NEW t \in 1..N, Sync!Operate(t)
       PROVE  Sync!IInv'
  <2>1. /\ c4[t] = "queue" /\ c4' = [c4 EXCEPT ![t] = "ready"]
        /\ UNCHANGED <<c1, c2, c3, c7, c8, c9, c10>>
    BY <1>11 DEF Sync!Operate
  <2>2. t \in Sync!Members /\ t \notin Sync!Done
    <3>1. t <= c2 /\ c2 <= Sync!Cardinality(Sync!Members)
      BY <1>1, <2>1 DEF Sync!IInv
    <3>2. t \in Sync!Members
      <4>1. CASE c1 = "push_pull"
        <5>1. Sync!Members = {1, 2} /\ 1 # 2
          BY <1>1, <4>1, SyncMembers
        <5>2. Cardinality({1, 2}) = 2
          <6>1. Cardinality(1..2) = 2
            BY PingAll
          <6>2. 1..2 = {1, 2}
            OBVIOUS
          <6> QED  BY <6>1, <6>2
        <5> QED  BY <1>2, <3>1, <5>1, <5>2, SyncCardinality
      <4>2. CASE c1 # "push_pull"
        BY <1>1, <4>2, SyncMembers
      <4> QED  BY <4>1, <4>2
    <3> QED  BY <2>1, <3>2 DEF Sync!Done
  <2>3. /\ c4' \in [Sync!Tasks -> {"none", "barrier", "queue", "ready"}] /\ c4'[t] = "ready"
        /\ \A u \in 1..N : u # t => c4'[u] = c4[u]
    BY <1>1, <2>1 DEF Sync!TypeOK
  <2>4. Sync!Members' = Sync!Members /\ Sync!MainPushes' = Sync!MainPushes /\ Sync!Pushed' = Sync!Pushed
    BY <2>1 DEF Sync!Members, Sync!MainPushes, Sync!Pushed
  <2>5. Sync!Done' = Sync!Done \cup {t}
    BY <1>1, <2>2, <2>3, <2>4 DEF Sync!Done
  <2>6. Sync!Cardinality(Sync!Done') = K + 1 /\ K + 1 \in 0..N
    <3>1. IsFiniteSet(Sync!Done)
      BY <1>1, SyncDone
    <3>2. Cardinality(Sync!Done \cup {t}) = Cardinality(Sync!Done) + 1
      BY <2>2, <3>1, FS_AddElement
    <3>3. Sync!Done \cup {t} \in SUBSET (1..N)
      BY <1>1, <2>2, SyncDone
    <3>4. Cardinality(Sync!Done \cup {t}) \in 0..N
      BY <1>1, <3>3, PingConsumers
    <3> QED  BY <2>5, <3>2, <3>4, SyncCardinality
  <2>7. c10 \notin {"pull", "checked"}
    BY <2>2 DEF Sync!IInv
  <2>8. c6 \in Seq(42..41 + N) /\ c5 \in [1..N -> {Sync!None, Sync!Closed} \cup 42..41 + N]
    BY <1>1 DEF Sync!TypeOK
  \* What all values of the queue have in common.
  <2>9. ASSUME Sync!TypeOK',
               c1 = "push_pull" =>
                  /\ Len(c6') = IF c4'[1] = "ready" /\ c4'[2] # "ready" THEN 1 ELSE 0
                  /\ \A i \in DOMAIN c6' : c6'[i] = 42
                  /\ c4'[2] = "ready" => c4'[1] = "ready" /\ c5'[2] = 42,
               Sync!MainPushes =>
                  /\ Len(c6') = Sync!Pushed - (K + 1)
                  /\ \A i \in DOMAIN c6' : c6'[i] = 41 + (K + 1) + i
                  /\ {c5'[u] : u \in Sync!Done'} = 42..41 + (K + 1),
               c1 = "wait_pull_close" => c6' = <<>> /\ \A u \in Sync!Done' : c5'[u] = Sync!Closed,
               c1 = "push" => Len(c6') = K + 1 - c8 /\ \A i \in DOMAIN c6' : c6'[i] = 42
        PROVE  Sync!IInv'
    <3>1. \A u \in Sync!Tasks : c4'[u] # "none" => u <= c2'
      BY <1>1, <2>1, <2>3 DEF Sync!IInv
    <3> QED  BY <1>1, <2>1, <2>4, <2>6, <2>7, <2>9, <3>1 DEF Sync!IInv
  <2>10. CASE t \in Sync!Pushing
    <3>1. c6' = Append(c6, 42) /\ c5' = c5
      BY <1>11, <2>10 DEF Sync!Operate
    <3>2. c1 \in {"push_pull", "push"} /\ (c1 = "push_pull" => t = 1) /\ ~Sync!MainPushes
      BY <2>10 DEF Sync!Pushing, Sync!MainPushes
    <3>3. 42 \in 42..41 + N
      BY <1>1
    <3>4. c6' \in Seq(42..41 + N) /\ Len(c6') = Len(c6) + 1 /\ DOMAIN c6' = 1..(Len(c6) + 1)
          /\ c6'[Len(c6) + 1] = 42 /\ \A i \in 1..Len(c6) : c6'[i] = c6[i]
      BY <2>8, <3>1, <3>3
    <3>5. \A i \in 1..Len(c6) : c6[i] = 42
      BY <1>2, <3>2 DEF Sync!IInv
    <3>6. \A i \in DOMAIN c6' : c6'[i] = 42
      <4> SUFFICES ASSUME NEW i \in 1..(Len(c6) + 1) PROVE c6'[i] = 42
        BY <3>4
      <4> QED  BY <1>2, <3>4, <3>5
    <3>7. Sync!TypeOK'
      BY <1>1, <2>1, <2>3, <3>1, <3>4 DEF Sync!TypeOK
    <3>8. CASE c1 = "push_pull"
      <4>1. c4[1] # "ready" /\ c4[2] # "ready" /\ Len(c6) = 0
        BY <2>1, <3>2, <3>8 DEF Sync!IInv
      <4>2. c4'[1] = "ready" /\ c4'[2] # "ready"
        BY <1>1, <2>3, <3>2, <3>8, <4>1
      <4> QED  BY <2>9, <3>2, <3>4, <3>6, <3>7, <3>8, <4>1, <4>2
    <3>9. CASE c1 = "push"
      <4>1. Len(c6) = K - c8
        BY <3>9 DEF Sync!IInv
      <4>2. Len(c6') = K + 1 - c8
        <5> HIDE DEF K
        <5> QED  BY <1>1, <1>2, <3>4, <4>1
      <4> QED  BY <2>9, <3>2, <3>6, <3>7, <3>9, <4>2
    <3> QED  BY <3>2, <3>8, <3>9
  <2>11. CASE t \notin Sync!Pushing /\ c6 # <<>>
    <3>1. c5' = [c5 EXCEPT ![t] = Head(c6)] /\ c6' = Tail(c6)
      BY <1>11, <2>11 DEF Sync!Operate
    <3>2. c1 # "push" /\ c1 # "wait_pull_close" /\ (c1 = "push_pull" => t = 2)
      <4>1. c1 # "push"
        BY <1>1, <2>11 DEF Sync!Pushing
      <4>2. c1 # "wait_pull_close"
        BY <2>11 DEF Sync!IInv
      <4>3. c1 = "push_pull" => t \in {1, 2} /\ t \notin {1}
        BY <1>1, <2>2, <2>11, SyncMembers DEF Sync!Pushing
      <4> QED  BY <4>1, <4>2, <4>3
    <3>3. Len(c6) > 0
      BY <1>2, <2>8, <2>11, EmptySeq
    <3>4. Head(c6) = c6[1] /\ c6[1] \in 42..41 + N /\ c6' \in Seq(42..41 + N)
          /\ Len(c6') = Len(c6) - 1 /\ DOMAIN c6' = 1..Len(c6') /\ \A i \in 1..Len(c6') : c6'[i] = c6[i + 1]
      <4>1. Head(c6) = c6[1]
        BY <2>11
      <4>2. c6[1] \in 42..41 + N
        <5>1. c6 \in [1..Len(c6) -> 42..41 + N]
          BY <2>8, LenProperties
        <5>2. 1 \in 1..Len(c6)
          BY <1>2, <3>3
        <5> QED  BY <5>1, <5>2
      <4>3. c6' \in Seq(42..41 + N) /\ Len(c6') = Len(c6) - 1 /\ \A i \in 1..Len(c6') : c6'[i] = c6[i + 1]
        BY <2>8, <2>11, <3>1, HeadTailProperties
      <4>4. DOMAIN c6' = 1..Len(c6')
        BY <4>3, LenProperties
      <4> QED  BY <4>1, <4>2, <4>3, <4>4
    <3>5. /\ c5' \in [1..N -> {Sync!None, Sync!Closed} \cup 42..41 + N] /\ c5'[t] = c6[1]
          /\ \A u \in 1..N : u # t => c5'[u] = c5[u]
      BY <2>8, <3>1, <3>4
    <3>6. Sync!TypeOK'
      BY <1>1, <2>1, <2>3, <3>4, <3>5 DEF Sync!TypeOK
    <3>7. CASE c1 = "push_pull"
      <4>1. c4[1] = "ready" /\ Len(c6) = 1 /\ c6[1] = 42 /\ t = 2
        BY <1>2, <3>2, <3>3, <3>7 DEF Sync!IInv
      <4>2. c4'[1] = "ready" /\ c4'[2] = "ready" /\ c5'[2] = 42 /\ Len(c6') = 0 /\ DOMAIN c6' = {}
        BY <1>1, <2>3, <3>4, <3>5, <4>1
      <4>3. ~Sync!MainPushes
        BY <3>7 DEF Sync!MainPushes
      <4> QED  BY <2>9, <3>2, <3>6, <3>7, <4>2, <4>3
    <3>8. CASE Sync!MainPushes
      <4>1. Len(c6) = Sync!Pushed - K /\ (\A i \in 1..Len(c6) : c6[i] = 41 + K + i)
            /\ {c5[u] : u \in Sync!Done} = 42..41 + K
        BY <1>2, <3>8 DEF Sync!IInv
      <4>2. Sync!Pushed \in Int
        BY <1>1, <1>2 DEF Sync!Pushed
      <4>3. c6[1] = 42 + K
        <5> HIDE DEF K
        <5> QED  BY <1>1, <1>2, <3>3, <4>1
      <4>4. Len(c6') = Sync!Pushed - (K + 1) /\ \A i \in DOMAIN c6' : c6'[i] = 41 + (K + 1) + i
        <5> HIDE DEF K
        <5>1. Len(c6') = Sync!Pushed - (K + 1)
          BY <1>1, <1>2, <3>4, <4>1, <4>2
        <5>2. ASSUME NEW i \in 1..Len(c6') PROVE c6'[i] = 41 + (K + 1) + i
          <6>1. i + 1 \in 1..Len(c6) /\ c6'[i] = c6[i + 1]
            BY <1>2, <3>4
          <6> QED  BY <1>1, <4>1, <6>1
        <5> QED  BY <3>4, <5>1, <5>2
      <4>5. {c5'[u] : u \in Sync!Done'} = 42..41 + (K + 1)
        <5>1. {c5'[u] : u \in Sync!Done'} = {c5[u] : u \in Sync!Done} \cup {42 + K}
          <6>1. \A u \in Sync!Done : u # t /\ u \in 1..N
            BY <1>1, <2>2 DEF Sync!Done
          <6> HIDE DEF K
          <6> QED  BY <2>5, <3>5, <4>3, <6>1
        <5> HIDE DEF K
        <5>2. (42..41 + K) \cup {42 + K} = 42..41 + (K + 1)
          BY <1>1
        <5> QED  BY <4>1, <5>1, <5>2
      <4>6. c1 # "push_pull"
        BY <3>8 DEF Sync!MainPushes
      <4> QED  BY <2>9, <3>2, <3>6, <4>4, <4>5, <4>6
    <3> QED  BY <1>1, <3>2, <3>7, <3>8 DEF Sync!Tests, Sync!MainPushes
  <2>12. CASE t \notin Sync!Pushing /\ c6 = <<>>
    <3>1. c5' = [c5 EXCEPT ![t] = Sync!Closed] /\ c6' = c6 /\ c7
      BY <1>11, <2>12 DEF Sync!Operate
    <3>2. c1 = "wait_pull_close" /\ ~Sync!MainPushes
      BY <3>1 DEF Sync!IInv, Sync!MainPushes
    <3>3. /\ c5' \in [1..N -> {Sync!None, Sync!Closed} \cup 42..41 + N] /\ c5'[t] = Sync!Closed
          /\ \A u \in 1..N : u # t => c5'[u] = c5[u]
      BY <2>8, <3>1
    <3>4. Sync!TypeOK'
      BY <1>1, <2>1, <2>3, <3>1, <3>3 DEF Sync!TypeOK
    <3>5. \A u \in Sync!Done' : c5'[u] = Sync!Closed
      <4>1. \A u \in Sync!Done : u # t /\ u \in 1..N /\ c5[u] = Sync!Closed
        BY <1>1, <2>2, <3>2 DEF Sync!Done, Sync!IInv
      <4> QED  BY <2>5, <3>3, <4>1
    <3> QED  BY <2>9, <2>12, <3>1, <3>2, <3>4, <3>5
  <2> QED  BY <2>10, <2>11, <2>12
<1>12. CASE UNCHANGED Sync!vars
  <2>1. UNCHANGED <<c1, c2, c3, c4, c5, c6, c7, c8, c9, c10>>
    BY <1>12 DEF Sync!vars
  <2>2. Sync!Pushed' = Sync!Pushed
    BY <2>1 DEF Sync!Pushed
  <2>3. Sync!TypeOK'
    BY <1>1, <2>1 DEF Sync!TypeOK
  <2> QED  BY <1>1, <1>3, <1>20, <2>1, <2>2, <2>3 DEF Sync!IInv
<1> QED
  BY <1>1, <1>4, <1>5, <1>6, <1>7, <1>8, <1>9, <1>10, <1>11, <1>12
     DEF Sync!Next, Sync!Main, Sync!Task

LEMMA SyncSafe == Sync!IInv => Sync!TypeOK /\ Sync!TestsPass
<1> SUFFICES ASSUME Sync!IInv, c10 = "checked"
             PROVE  /\ c6 = <<>>
                    /\ CASE c1 = "push_pull" -> c5[2] = 42
                         [] Sync!MainPushes -> {c5[t] : t \in Sync!Tasks} = 42..41 + N
                         [] c1 = "wait_pull_close" -> \A t \in Sync!Tasks : c5[t] = Sync!Closed
                         [] c1 = "push" -> c9 = [i \in 1..N |-> 42]
  BY DEF Sync!IInv, Sync!TestsPass
<1>1. /\ c1 \in Sync!Tests /\ N \in Nat /\ Sync!Tasks = 1..N /\ Sync!Done = Sync!Members
      /\ c6 \in Seq(42..41 + N) /\ c9 \in Seq(42..41 + N)
  BY SyncMembers DEF Sync!IInv, Sync!TypeOK, Sync!Tasks
<1>2. Len(c6) = 0 => c6 = <<>>
  BY <1>1, EmptySeq
<1>3. CASE c1 = "push_pull"
  <2>1. 2 \in Sync!Members /\ c4[2] = "ready"
    BY <1>1, <1>3, SyncMembers DEF Sync!Done
  <2>2. Len(c6) = 0 /\ c5[2] = 42
    BY <1>3, <2>1 DEF Sync!IInv
  <2> QED  BY <1>2, <1>3, <2>2 DEF Sync!MainPushes
<1>4. CASE c1 # "push_pull"
  <2>1. Sync!Done = 1..N /\ Sync!Cardinality(Sync!Done) = N
    BY <1>1, <1>4, SyncMembers, SyncDone
  <2>2. CASE Sync!MainPushes
    <3>1. Sync!Pushed = N
      BY DEF Sync!Pushed
    <3>2. Len(c6) = N - N /\ {c5[t] : t \in Sync!Done} = 42..41 + N
      <4>1. Len(c6) = Sync!Pushed - Sync!Cardinality(Sync!Done)
            /\ {c5[t] : t \in Sync!Done} = 42..41 + Sync!Cardinality(Sync!Done)
        BY <2>2 DEF Sync!IInv
      <4> QED  BY <2>1, <3>1, <4>1
    <3>3. {c5[t] : t \in Sync!Tasks} = 42..41 + N
      BY <1>1, <2>1, <3>2
    <3>4. c6 = <<>>
      BY <1>1, <1>2, <3>2
    <3>5. c1 \in {"push_wait_pull", "pull"} /\ Sync!MainPushes
      BY <2>2 DEF Sync!MainPushes
    <3> QED  BY <3>3, <3>4, <3>5
  <2>3. CASE c1 = "wait_pull_close"
    BY <1>1, <2>1, <2>3 DEF Sync!IInv, Sync!MainPushes
  <2>4. CASE c1 = "push"
    <3>1. c8 = N /\ Len(c9) = N /\ Len(c6) = 0 /\ \A i \in DOMAIN c9 : c9[i] = 42
      BY <1>1, <2>1, <2>4 DEF Sync!IInv
    <3>2. c9 = [i \in 1..N |-> 42]
      BY <1>1, <3>1, LenProperties
    <3> QED  BY <1>2, <2>4, <3>1, <3>2 DEF Sync!MainPushes
  <2> QED  BY <1>1, <1>4, <2>2, <2>3, <2>4 DEF Sync!Tests, Sync!MainPushes
<1> QED  BY <1>3, <1>4

-----------------------------------------------------------------------------
(* AlarmCond: c1 is now, c2 is time, c3 is alarm_list, c4 is               *)
(* current_alarm, c5 is longest, c6 is enabled, c7 is pc, c8 is alarm, c9  *)
(* is deadline, c10 is timeleft, c11 is handled.                           *)

LEMMA AlarmCardinality == \A S : Alarm!Cardinality(S) = Cardinality(S)
  BY DEF Alarm!Cardinality, Cardinality

\* The alarms of a sorted list that are not later are the first ones of it.
LEMMA AlarmBefore ==
    ASSUME c3 \in Seq(Alarm!Alarms), NEW a \in Alarm!Alarms, NEW t \in [Alarm!Alarms -> Nat],
           \A i, j \in DOMAIN c3 : i < j => t[c3[i]] <= t[c3[j]]
    PROVE  /\ Alarm!Before(a, t) \in 0..Len(c3)
           /\ \A i \in 1..Len(c3) : t[c3[i]] <= t[a] <=> i <= Alarm!Before(a, t)
<1> DEFINE n == Len(c3)
           B == {i \in DOMAIN c3 : t[c3[i]] <= t[a]}
           p == Cardinality(B)
<1>1. n \in Nat /\ DOMAIN c3 = 1..n /\ \A i \in 1..n : c3[i] \in Alarm!Alarms /\ t[c3[i]] \in Nat
  OBVIOUS
<1>2. Alarm!Before(a, t) = p /\ B \in SUBSET (1..n) /\ t[a] \in Nat
  BY <1>1, AlarmCardinality DEF Alarm!Before
<1>3. IsFiniteSet(B) /\ p \in 0..n
  <2> HIDE DEF B
  <2> QED  BY <1>1, <1>2, PingConsumers
<1>4. ASSUME NEW i \in B PROVE i \in 1..p
  <2>1. i \in 1..n /\ t[c3[i]] <= t[a] /\ i \in Nat
    BY <1>1
  <2>2. ASSUME NEW j \in 1..i PROVE j \in B
    <3>1. j \in 1..n /\ j <= i
      BY <1>1, <2>1
    <3>2. t[c3[j]] <= t[c3[i]]
      <4>1. CASE j = i
        BY <1>1, <2>1, <4>1
      <4>2. CASE j # i
        BY <1>1, <2>1, <3>1, <4>2
      <4> QED  BY <4>1, <4>2
    <3>3. t[c3[j]] \in Nat /\ t[c3[i]] \in Nat
      BY <1>1, <2>1, <3>1
    <3>4. t[c3[j]] <= t[a]
      BY <1>2, <2>1, <3>2, <3>3
    <3> QED  BY <1>1, <3>1, <3>4
  <2> HIDE DEF B
  <2>3. (1..i) \in SUBSET B
    BY <2>2
  <2>4. Cardinality(1..i) <= Cardinality(B)
    BY <1>3, <2>3, FS_Subset
  <2>5. Cardinality(1..i) = i
    BY <2>1, PingAll
  <2> QED  BY <1>1, <1>3, <2>1, <2>4, <2>5
<1>5. B = 1..p
  <2> HIDE DEF B
  <2>1. B \in SUBSET (1..p) /\ p \in Nat
    BY <1>1, <1>3, <1>4
  <2>2. IsFiniteSet(1..p) /\ Cardinality(1..p) = p
    BY <2>1, PingAll, FS_Interval
  <2> QED  BY <2>1, <2>2, FS_Subset
<1>6. ASSUME NEW i \in 1..n PROVE t[c3[i]] <= t[a] <=> i <= p
  <2>1. i \in B <=> i \in 1..p
    BY <1>5
  <2>2. i \in B <=> t[c3[i]] <= t[a]
    BY <1>1
  <2> HIDE DEF B
  <2> QED  BY <1>1, <1>3, <2>1, <2>2
<1> QED  BY <1>2, <1>3, <1>6

\* What alarm_insert() makes of a sorted list that does not have the alarm yet.
LEMMA AlarmListWith ==
    ASSUME c3 \in Seq(Alarm!Alarms), NEW a \in Alarm!Alarms, NEW t \in [Alarm!Alarms -> Nat],
           \A i, j \in DOMAIN c3 : i < j => t[c3[i]] <= t[c3[j]],
           \A i, j \in DOMAIN c3 : c3[i] = c3[j] => i = j,
           ~Alarm!InList(a), c3 # <<>> => c5 = c3[Len(c3)],
           NEW l, l = Alarm!ListWith(a, t)
    PROVE  /\ l \in Seq(Alarm!Alarms) /\ l # <<>>
           /\ \A i, j \in DOMAIN l : i < j => t[l[i]] <= t[l[j]]
           /\ \A i, j \in DOMAIN l : l[i] = l[j] => i = j
           /\ \A b : (\E i \in DOMAIN l : l[i] = b) <=> Alarm!InList(b) \/ b = a
           /\ l[Len(l)] = Alarm!LongestWith(a, t)
<1> DEFINE n == Len(c3)
           p == Alarm!Before(a, t)
           u == SubSeq(c3, 1, p)
           w == SubSeq(c3, p + 1, n)
<1>1. n \in Nat /\ DOMAIN c3 = 1..n /\ \A i \in 1..n : c3[i] \in Alarm!Alarms /\ t[c3[i]] \in Nat
  OBVIOUS
<1>2. p \in 0..n /\ t[a] \in Nat /\ \A i \in 1..n : t[c3[i]] <= t[a] <=> i <= p
  BY AlarmBefore
<1> HIDE DEF p
<1>3. /\ u \in Seq(Alarm!Alarms) /\ Len(u) = p /\ \A i \in 1..p : u[i] = c3[i]
      /\ w \in Seq(Alarm!Alarms) /\ Len(w) = n - p /\ \A i \in 1..(n - p) : w[i] = c3[p + i]
  <2>1. u \in Seq(Alarm!Alarms) /\ Len(u) = (IF 1 <= p THEN p - 1 + 1 ELSE 0)
        /\ \A i \in 1..(p - 1 + 1) : u[i] = c3[1 + i - 1]
    <3>1. \A i \in 1..p : c3[i] \in Alarm!Alarms
      BY <1>1, <1>2
    <3> QED  BY <1>2, <3>1, SubSeqProperties
  <2>2. w \in Seq(Alarm!Alarms) /\ Len(w) = (IF p + 1 <= n THEN n - (p + 1) + 1 ELSE 0)
        /\ \A i \in 1..(n - (p + 1) + 1) : w[i] = c3[p + 1 + i - 1]
    <3>1. \A i \in (p + 1)..n : c3[i] \in Alarm!Alarms
      BY <1>1, <1>2
    <3>2. p + 1 \in Int /\ n \in Int
      BY <1>1, <1>2
    <3> HIDE DEF n
    <3> QED  BY <3>1, <3>2, SubSeqProperties
  <2> HIDE DEF u, w, n
  <2>3. Len(u) = p /\ \A i \in 1..p : u[i] = c3[i]
    BY <1>1, <1>2, <2>1
  <2>4. Len(w) = n - p /\ \A i \in 1..(n - p) : w[i] = c3[p + i]
    BY <1>1, <1>2, <2>2
  <2> QED  BY <2>1, <2>2, <2>3, <2>4
<1> DEFINE v == u \o <<a>>
<1>4. l = v \o w
  BY DEF Alarm!ListWith, p
<1> HIDE DEF n, u, w
<1>5. /\ v \in Seq(Alarm!Alarms) /\ Len(v) = p + 1
      /\ \A i \in 1..p : v[i] = c3[i]
      /\ v[p + 1] = a
  <2>1. <<a>> \in Seq(Alarm!Alarms) /\ Len(<<a>>) = 1 /\ <<a>>[1] = a
    OBVIOUS
  <2>2. /\ v \in Seq(Alarm!Alarms) /\ Len(v) = Len(u) + Len(<<a>>)
        /\ \A i \in 1..(Len(u) + Len(<<a>>)) : v[i] = IF i <= Len(u) THEN u[i] ELSE <<a>>[i - Len(u)]
    BY <1>3, <2>1, ConcatProperties
  <2>3. Len(v) = p + 1 /\ \A i \in 1..(p + 1) : v[i] = IF i <= p THEN u[i] ELSE <<a>>[i - p]
    BY <1>3, <2>1, <2>2
  <2> HIDE DEF v
  <2>4. \A i \in 1..p : i \in 1..(p + 1) /\ i <= p
    BY <1>2
  <2>5. p + 1 \in 1..(p + 1) /\ ~(p + 1 <= p) /\ (p + 1) - p = 1
    BY <1>2
  <2>6. v[p + 1] = a
    BY <2>1, <2>3, <2>5
  <2> QED  BY <1>3, <2>2, <2>3, <2>4, <2>6
<1> HIDE DEF v
<1>6. l \in Seq(Alarm!Alarms) /\ Len(l) = n + 1 /\ DOMAIN l = 1..(n + 1)
      /\ \A i \in 1..(n + 1) : l[i] = IF i <= p + 1 THEN v[i] ELSE w[i - (p + 1)]
  <2>1. /\ v \o w \in Seq(Alarm!Alarms) /\ Len(v \o w) = Len(v) + Len(w)
        /\ \A i \in 1..(Len(v) + Len(w)) : (v \o w)[i] = IF i <= Len(v) THEN v[i] ELSE w[i - Len(v)]
    <3>1. v \in Seq(Alarm!Alarms) /\ w \in Seq(Alarm!Alarms)
      BY <1>3, <1>5
    <3> QED  BY <3>1, ConcatProperties
  <2>2. Len(v) + Len(w) = n + 1 /\ Len(v) = p + 1
    BY <1>1, <1>2, <1>3, <1>5
  <2>3. l \in Seq(Alarm!Alarms) /\ Len(l) = n + 1
        /\ \A i \in 1..(n + 1) : l[i] = IF i <= p + 1 THEN v[i] ELSE w[i - (p + 1)]
    BY <1>4, <2>1, <2>2
  <2> QED  BY <2>3, LenProperties
<1>7. /\ \A i \in 1..p : l[i] = c3[i]
      /\ l[p + 1] = a
      /\ \A i \in (p + 2)..(n + 1) : i - 1 \in (p + 1)..n /\ l[i] = c3[i - 1]
  <2>1. \A i \in 1..p : l[i] = c3[i]
    BY <1>1, <1>2, <1>5, <1>6
  <2>2. l[p + 1] = a
    <3>1. p + 1 \in 1..(n + 1) /\ p + 1 <= p + 1
      BY <1>1, <1>2
    <3> QED  BY <1>5, <1>6, <3>1
  <2>3. ASSUME NEW i \in (p + 2)..(n + 1) PROVE i - 1 \in (p + 1)..n /\ l[i] = c3[i - 1]
    <3>1. i - (p + 1) \in 1..(n - p) /\ p + (i - (p + 1)) = i - 1 /\ i \in 1..(n + 1) /\ ~(i <= p + 1)
          /\ i - 1 \in (p + 1)..n
      BY <1>1, <1>2
    <3>2. w[i - (p + 1)] = c3[i - 1]
      BY <1>3, <3>1
    <3> QED  BY <1>6, <3>1, <3>2
  <2> QED  BY <2>1, <2>2, <2>3
<1>8. \A i \in 1..(n + 1) : i \in 1..p \/ i = p + 1 \/ i \in (p + 2)..(n + 1)
  BY <1>1, <1>2
<1>9. \A i \in 1..p : i \in 1..n /\ t[c3[i]] <= t[a] /\ c3[i] # a
  BY <1>1, <1>2 DEF Alarm!InList
<1>10. \A i \in (p + 1)..n : i \in 1..n /\ ~(t[c3[i]] <= t[a]) /\ c3[i] # a /\ t[c3[i]] \in Nat
  <2> SUFFICES ASSUME NEW i \in (p + 1)..n
               PROVE  i \in 1..n /\ ~(t[c3[i]] <= t[a]) /\ c3[i] # a /\ t[c3[i]] \in Nat
    OBVIOUS
  <2>1. i \in 1..n /\ ~(i <= p)
    BY <1>1, <1>2
  <2> QED  BY <1>1, <1>2, <2>1 DEF Alarm!InList
<1>11. ASSUME NEW i \in 1..(n + 1), NEW j \in 1..(n + 1), i < j PROVE t[l[i]] <= t[l[j]]
  <2>1. CASE i \in 1..p /\ j \in 1..p
    BY <1>1, <1>7, <1>9, <1>11, <2>1
  <2>2. CASE i \in 1..p /\ j = p + 1
    BY <1>7, <1>9, <2>2
  <2>3. CASE i \in 1..p /\ j \in (p + 2)..(n + 1)
    <3>1. l[i] = c3[i] /\ l[j] = c3[j - 1] /\ i \in 1..n /\ j - 1 \in 1..n /\ i < j - 1
      <4>1. l[j] = c3[j - 1] /\ j - 1 \in (p + 1)..n
        BY <1>7, <2>3
      <4>2. i < j - 1
        BY <1>1, <1>2, <2>3, <4>1
      <4> QED  BY <1>7, <1>9, <1>10, <2>3, <4>1, <4>2
    <3> QED  BY <1>1, <3>1
  <2>4. CASE i = p + 1 /\ j \in (p + 2)..(n + 1)
    <3>1. l[i] = a /\ l[j] = c3[j - 1] /\ j - 1 \in (p + 1)..n
      BY <1>7, <2>4
    <3> QED  BY <1>2, <1>10, <3>1
  <2>5. CASE i \in (p + 2)..(n + 1) /\ j \in (p + 2)..(n + 1)
    <3>1. l[i] = c3[i - 1] /\ l[j] = c3[j - 1] /\ i - 1 \in (p + 1)..n /\ j - 1 \in (p + 1)..n
      BY <1>7, <2>5
    <3>2. i - 1 \in 1..n /\ j - 1 \in 1..n /\ i - 1 < j - 1
      BY <1>1, <1>10, <1>11, <3>1
    <3> QED  BY <1>1, <3>1, <3>2
  <2>6. ~(i = p + 1 /\ j \in 1..p) /\ ~(i \in (p + 2)..(n + 1) /\ (j \in 1..p \/ j = p + 1)) /\ ~(i = p + 1 /\ j = p + 1)
    BY <1>1, <1>2, <1>11
  <2> QED  BY <1>8, <2>1, <2>2, <2>3, <2>4, <2>5, <2>6
<1>12. ASSUME NEW i \in 1..(n + 1), NEW j \in 1..(n + 1), l[i] = l[j] PROVE i = j
  <2>0. ASSUME NEW k \in 1..(n + 1), l[k] = a PROVE k = p + 1
    <3>1. CASE k \in 1..p
      <4>1. l[k] = c3[k]
        BY <1>7, <3>1
      <4>2. c3[k] # a
        BY <1>9, <3>1
      <4> QED  BY <2>0, <4>1, <4>2
    <3>2. CASE k \in (p + 2)..(n + 1)
      <4>1. k - 1 \in (p + 1)..n /\ l[k] = c3[k - 1]
        BY <1>7, <3>2
      <4>2. c3[k - 1] # a
        BY <1>10, <4>1
      <4> QED  BY <2>0, <4>1, <4>2
    <3> QED  BY <1>8, <3>1, <3>2
  <2>1. CASE i = p + 1 \/ j = p + 1
    <3>1. l[i] = a /\ l[j] = a
      BY <1>7, <1>12, <2>1
    <3>2. i = p + 1
      BY <2>0, <3>1
    <3>3. j = p + 1
      BY <2>0, <3>1
    <3> QED  BY <3>2, <3>3
  <2>2. CASE i \in 1..p /\ j \in 1..p
    BY <1>1, <1>7, <1>9, <1>12, <2>2
  <2>3. CASE i \in (p + 2)..(n + 1) /\ j \in (p + 2)..(n + 1)
    <3>1. c3[i - 1] = c3[j - 1] /\ i - 1 \in 1..n /\ j - 1 \in 1..n
      BY <1>7, <1>10, <1>12, <2>3
    <3>2. i - 1 = j - 1
      BY <1>1, <3>1
    <3> QED  BY <3>2
  <2>4. CASE i \in 1..p /\ j \in (p + 2)..(n + 1)
    <3>1. c3[i] = c3[j - 1] /\ i \in 1..n /\ j - 1 \in (p + 1)..n
      BY <1>7, <1>9, <1>12, <2>4
    <3> QED  BY <1>9, <1>10, <2>4, <3>1
  <2>5. CASE j \in 1..p /\ i \in (p + 2)..(n + 1)
    <3>1. c3[j] = c3[i - 1] /\ j \in 1..n /\ i - 1 \in (p + 1)..n
      BY <1>7, <1>9, <1>12, <2>5
    <3> QED  BY <1>9, <1>10, <2>5, <3>1
  <2> QED  BY <1>8, <2>1, <2>2, <2>3, <2>4, <2>5
<1>13. ASSUME NEW b PROVE (\E i \in 1..(n + 1) : l[i] = b) <=> Alarm!InList(b) \/ b = a
  <2>1. ASSUME NEW i \in 1..(n + 1), l[i] = b PROVE Alarm!InList(b) \/ b = a
    BY <1>1, <1>7, <1>8, <1>9, <1>10, <2>1 DEF Alarm!InList
  <2>2. ASSUME NEW i \in 1..n, c3[i] = b PROVE \E k \in 1..(n + 1) : l[k] = b
    <3>1. CASE i \in 1..p
      <4>1. i \in 1..(n + 1)
        BY <1>1
      <4>2. l[i] = c3[i]
        BY <1>7, <3>1
      <4> QED  BY <2>2, <4>1, <4>2
    <3>2. CASE i \notin 1..p
      <4>1. i + 1 \in (p + 2)..(n + 1) /\ i + 1 \in 1..(n + 1) /\ (i + 1) - 1 = i
        BY <1>1, <1>2, <3>2
      <4>2. l[i + 1] = c3[i]
        BY <1>7, <4>1
      <4> QED  BY <2>2, <4>1, <4>2
    <3> QED  BY <3>1, <3>2
  <2>3. p + 1 \in 1..(n + 1)
    BY <1>1, <1>2
  <2> QED  BY <1>1, <1>7, <2>1, <2>2, <2>3 DEF Alarm!InList
<1>14. l[n + 1] = Alarm!LongestWith(a, t)
  <2>1. Alarm!LongestWith(a, t) = IF p = n THEN a ELSE c5
    BY DEF Alarm!LongestWith, p, n
  <2>2. CASE p = n
    BY <1>7, <2>1, <2>2
  <2>3. CASE p # n
    <3>1. n + 1 \in (p + 2)..(n + 1) /\ (n + 1) - 1 = n /\ n > 0
      BY <1>1, <1>2, <2>3
    <3>2. l[n + 1] = c3[n]
      BY <1>7, <3>1
    <3>3. c3 # <<>>
      BY <3>1 DEF n
    <3> QED  BY <2>1, <2>3, <3>2, <3>3 DEF n
  <2> QED  BY <2>2, <2>3
<1>15. l # <<>>
  BY <1>1, <1>6
<1> QED  BY <1>6, <1>11, <1>12, <1>13, <1>14, <1>15

LEMMA AlarmInit == Alarm!Init => Alarm!IInv
<1> SUFFICES ASSUME Alarm!Init PROVE Alarm!IInv
  OBVIOUS
<1>1. MaxAlarms \in Nat /\ MaxTime \in Nat \ {0}
  BY ProgramsAssumption
<1>2. c6 \in BOOLEAN /\ c3 = <<>> /\ DOMAIN c3 = {} /\ c3 \in Seq(Alarm!Alarms)
  BY DEF Alarm!Init
<1>3. Alarm!TypeOK
  <2>1. c2 \in [Alarm!Alarms -> 0..MaxTime + 3] /\ c1 \in 1..MaxTime /\ c10 \in 0..MaxTime + 3
        /\ c9 \in 0..2 * MaxTime + 3 /\ c4 \in 0..MaxTime + 3
    BY <1>1 DEF Alarm!Init, Alarm!ZERO
  <2> QED  BY <1>2, <2>1 DEF Alarm!Init, Alarm!TypeOK, Alarm!States
<1>4. \A a \in Alarm!Alarms : a # Alarm!None /\ a \notin Alarm!Inserted
  BY DEF Alarm!Init, Alarm!Inserted, Alarm!Alarms, Alarm!None
<1>5. Alarm!LongestIsLast
  BY <1>2 DEF Alarm!LongestIsLast
<1>6. c10 < MaxTime + 3
  BY <1>1 DEF Alarm!Init
<1> QED
  BY <1>2, <1>3, <1>4, <1>5, <1>6 DEF Alarm!Init, Alarm!IInv, Alarm!InList

LEMMA AlarmStep ==
    ASSUME Alarm!IInv, [Alarm!Next]_(Alarm!vars)
    PROVE  Alarm!IInv' /\ Alarm!HandlesDue
<1>1. /\ MaxAlarms \in Nat /\ MaxTime \in Nat \ {0} /\ Alarm!TypeOK
      /\ Alarm!None = 0 /\ Alarm!ZERO = 0 /\ Alarm!Alarms = 1..MaxAlarms /\ 0 \notin Alarm!Alarms
  BY ProgramsAssumption DEF Alarm!IInv, Alarm!None, Alarm!ZERO, Alarm!Alarms
<1>2. /\ c1 \in 1..MaxTime /\ c9 \in 0..2 * MaxTime + 3 /\ c10 \in 0..MaxTime + 3 /\ c4 \in 0..MaxTime + 3
      /\ c2 \in [Alarm!Alarms -> 0..MaxTime + 3] /\ c3 \in Seq(Alarm!Alarms) /\ c6 \in BOOLEAN
      /\ c10 < MaxTime + 3
  BY DEF Alarm!IInv, Alarm!TypeOK
<1>3. /\ \A i, j \in DOMAIN c3 : i < j => c2[c3[i]] <= c2[c3[j]]
      /\ \A i, j \in DOMAIN c3 : c3[i] = c3[j] => i = j
      /\ c3 # <<>> => c5 = c3[Len(c3)]
  BY DEF Alarm!IInv, Alarm!LongestIsLast
<1>4. \A a \in Alarm!Alarms :
        /\ Alarm!InList(a) \/ c8 = a \/ a \in c11 => c2[a] # 0
        /\ c6 /\ c2[a] # 0 => Alarm!InList(a) \/ c8 = a \/ a \in c11
        /\ ~(Alarm!InList(a) /\ c8 = a) /\ ~(Alarm!InList(a) /\ a \in c11) /\ ~(c8 = a /\ a \in c11)
  BY <1>1 DEF Alarm!IInv, Alarm!Inserted
<1>5. /\ c8 # 0 <=> c7 \in {"timed", "late", "awake"}
      /\ c7 \in {"timed", "awake"} => c1 + c10 >= c2[c8]
      /\ c7 \in {"timed", "awake"} => c9 >= c2[c8]
      /\ c7 = "late" => c1 >= c2[c8]
      /\ c8 \in Alarm!Alarms \cup {0} /\ c7 \in Alarm!States
  BY <1>1 DEF Alarm!IInv, Alarm!TypeOK
\* The step of a thread, with the list in its hand.
<1>6. ASSUME Alarm!TypeOK',
             \A i, j \in DOMAIN c3' : i < j => c2'[c3'[i]] <= c2'[c3'[j]],
             \A i, j \in DOMAIN c3' : c3'[i] = c3'[j] => i = j,
             c3' # <<>> => c5' = c3'[Len(c3')],
             \A a \in Alarm!Alarms :
                /\ Alarm!InList(a)' \/ c8' = a \/ a \in c11' => c2'[a] # 0
                /\ c6' /\ c2'[a] # 0 => Alarm!InList(a)' \/ c8' = a \/ a \in c11'
                /\ ~(Alarm!InList(a)' /\ c8' = a) /\ ~(Alarm!InList(a)' /\ a \in c11') /\ ~(c8' = a /\ a \in c11'),
             c8' # 0 <=> c7' \in {"timed", "late", "awake"},
             c7' \in {"timed", "awake"} => c1' + c10' >= c2'[c8'],
             c7' \in {"timed", "awake"} => c9' >= c2'[c8'],
             c7' = "late" => c1' >= c2'[c8'],
             c10' < MaxTime + 3
      PROVE  Alarm!IInv'
  <2>1. Alarm!LongestIsLast'
    BY <1>6 DEF Alarm!LongestIsLast
  <2> QED  BY <1>1, <1>6, <2>1 DEF Alarm!IInv, Alarm!Inserted
\* The steps that leave the list and the alarms alone.
<1>7. ASSUME UNCHANGED <<c2, c3, c5, c8, c11>>, Alarm!TypeOK', c6' => c6,
             c8 # 0 <=> c7' \in {"timed", "late", "awake"},
             c7' \in {"timed", "awake"} => c1' + c10' >= c2[c8],
             c7' \in {"timed", "awake"} => c9' >= c2[c8],
             c7' = "late" => c1' >= c2[c8],
             c10' < MaxTime + 3
      PROVE  Alarm!IInv' /\ Alarm!HandlesDue
  <2>1. \A a : Alarm!InList(a)' <=> Alarm!InList(a)
    BY <1>7 DEF Alarm!InList
  <2>2. Alarm!IInv'
    BY <1>3, <1>4, <1>6, <1>7, <2>1
  <2> QED  BY <1>7, <2>2 DEF Alarm!HandlesDue
<1>8. CASE Alarm!Top
  <2>1. c7 = "top" /\ c4' = 0 /\ c7' = "check" /\ UNCHANGED <<c1, c2, c3, c5, c6, c8, c9, c10, c11>>
    BY <1>1, <1>8 DEF Alarm!Top
  <2>2. Alarm!TypeOK'
    <3>1. c4' \in 0..MaxTime + 3
      BY <1>1, <2>1
    <3> QED  BY <1>1, <2>1, <3>1 DEF Alarm!TypeOK, Alarm!States
  <2> QED  BY <1>2, <1>5, <1>7, <2>1, <2>2
<1>9. CASE Alarm!TimeOut
  <2>1. c7 \in {"timed", "awake"} /\ c1 >= c9 /\ c7' = "late" /\ UNCHANGED <<c1, c2, c3, c4, c5, c6, c8, c9, c10, c11>>
    BY <1>9 DEF Alarm!TimeOut
  <2>2. Alarm!TypeOK'
    BY <1>1, <2>1 DEF Alarm!TypeOK, Alarm!States
  <2>3. c8 \in Alarm!Alarms /\ c2[c8] \in Nat
    <3>1. c8 \in Alarm!Alarms
      BY <1>5, <2>1
    <3> QED  BY <1>1, <1>2, <3>1
  <2>4. c1 >= c2[c8]
    BY <1>1, <1>2, <1>5, <2>1, <2>3
  <2> QED  BY <1>2, <1>5, <1>7, <2>1, <2>2, <2>4
<1>10. CASE Alarm!SpuriousWakeup
  <2>1. c7 = "timed" /\ c7' = "awake" /\ UNCHANGED <<c1, c2, c3, c4, c5, c6, c8, c9, c10, c11>>
    BY <1>10 DEF Alarm!SpuriousWakeup
  <2>2. Alarm!TypeOK'
    BY <1>1, <2>1 DEF Alarm!TypeOK, Alarm!States
  <2> QED  BY <1>2, <1>5, <1>7, <2>1, <2>2
<1>11. CASE Alarm!Tick
  <2>1. c1' = c1 + 1 /\ c1 < MaxTime /\ UNCHANGED <<c2, c3, c4, c5, c6, c7, c8, c9, c10, c11>>
    BY <1>11 DEF Alarm!Tick
  <2>2. Alarm!TypeOK'
    <3>1. c1' \in 1..MaxTime
      BY <1>1, <1>2, <2>1
    <3> QED  BY <1>1, <2>1, <3>1 DEF Alarm!TypeOK
  <2>3. c7 \in {"timed", "awake", "late"} => c2[c8] \in Nat
    <3>1. c7 \in {"timed", "awake", "late"} => c8 \in Alarm!Alarms
      BY <1>5
    <3> QED  BY <1>1, <1>2, <3>1
  <2>4. /\ c7 \in {"timed", "awake"} => c1' + c10 >= c2[c8]
        /\ c7 = "late" => c1' >= c2[c8]
    BY <1>1, <1>2, <1>5, <2>1, <2>3
  <2> QED  BY <1>2, <1>5, <1>7, <2>1, <2>2, <2>4
<1>12. CASE Alarm!Eof
  <2>1. c6 /\ ~c6' /\ UNCHANGED <<c1, c2, c3, c4, c5, c8, c9, c10, c11>>
        /\ c7' = (CASE c7 = "empty" -> "check" [] c7 = "timed" -> "awake" [] OTHER -> c7)
    BY <1>12 DEF Alarm!Eof, Alarm!Woken
  <2>2. c7' \in Alarm!States /\ (c7 = "timed" => c7' = "awake")
        /\ (c7 \in {"timed", "late", "awake"} <=> c7' \in {"timed", "late", "awake"})
        /\ c7' # "timed" /\ (c7' = "late" => c7 = "late") /\ (c7' = "awake" => c7 \in {"timed", "awake"})
    BY <1>5, <2>1 DEF Alarm!States
  <2>3. c6' \in BOOLEAN
    BY <1>12 DEF Alarm!Eof
  <2>4. Alarm!TypeOK'
    BY <1>1, <2>1, <2>2, <2>3 DEF Alarm!TypeOK
  <2> QED  BY <1>2, <1>5, <1>7, <2>1, <2>2, <2>4
<1>13. CASE Alarm!Check
  <2>1. c7 = "check" /\ c8 = 0 /\ UNCHANGED <<c1, c2, c5, c6>>
    BY <1>5, <1>13 DEF Alarm!Check
  <2>2. CASE UNCHANGED <<c3, c4, c8, c9, c10, c11>> /\ c7' \in {"ended", "empty"}
    <3>1. Alarm!TypeOK'
      BY <1>1, <2>1, <2>2 DEF Alarm!TypeOK, Alarm!States
    <3> QED  BY <1>2, <1>5, <1>7, <2>1, <2>2, <3>1
  <2>3. CASE c6 /\ c3 # <<>> /\ c3' = Tail(c3)
    <3> DEFINE a == Head(c3)
    <3>1. a = c3[1] /\ Len(c3) \in Nat /\ Len(c3) > 0 /\ DOMAIN c3 = 1..Len(c3) /\ a \in Alarm!Alarms
      <4>1. Len(c3) \in Nat \ {0} /\ DOMAIN c3 = 1..Len(c3)
        BY <1>2, <2>3, EmptySeq, LenProperties
      <4> QED  BY <1>2, <2>3, <4>1, HeadTailProperties
    <3>2. c3' \in Seq(Alarm!Alarms) /\ Len(c3') = Len(c3) - 1 /\ DOMAIN c3' = 1..Len(c3')
          /\ \A i \in 1..Len(c3') : c3'[i] = c3[i + 1] /\ i + 1 \in 1..Len(c3)
      <4>1. c3' \in Seq(Alarm!Alarms) /\ Len(c3') = Len(c3) - 1 /\ \A i \in 1..Len(c3') : c3'[i] = c3[i + 1]
        BY <1>2, <2>3, HeadTailProperties
      <4>2. DOMAIN c3' = 1..Len(c3')
        BY <4>1, LenProperties
      <4>3. \A i \in 1..Len(c3') : i + 1 \in 1..Len(c3)
        BY <3>1, <4>1
      <4> QED  BY <4>1, <4>2, <4>3
    <3>3. /\ a \in Alarm!Alarms /\ Alarm!InList(a) /\ c2[a] \in 0..MaxTime + 3
      <4>1. 1 \in DOMAIN c3
        BY <3>1
      <4> QED  BY <1>2, <3>1, <4>1 DEF Alarm!InList
    <3> HIDE DEF a
    <3>4. /\ \A i, j \in DOMAIN c3' : i < j => c2[c3'[i]] <= c2[c3'[j]]
          /\ \A i, j \in DOMAIN c3' : c3'[i] = c3'[j] => i = j
      <4>1. ASSUME NEW i \in 1..Len(c3'), NEW j \in 1..Len(c3'), i < j PROVE c2[c3'[i]] <= c2[c3'[j]]
        <5>1. i + 1 < j + 1 /\ i + 1 \in DOMAIN c3 /\ j + 1 \in DOMAIN c3
          BY <3>1, <3>2, <4>1
        <5> QED  BY <1>3, <3>2, <5>1
      <4>2. ASSUME NEW i \in 1..Len(c3'), NEW j \in 1..Len(c3'), c3'[i] = c3'[j] PROVE i = j
        <5>1. i + 1 \in DOMAIN c3 /\ j + 1 \in DOMAIN c3 /\ c3[i + 1] = c3[j + 1]
          BY <3>1, <3>2, <4>2
        <5>2. i + 1 = j + 1
          BY <1>3, <5>1
        <5> QED  BY <5>2
      <4> QED  BY <3>2, <4>1, <4>2
    <3>5. c3' # <<>> => c5 = c3'[Len(c3')]
      <4> SUFFICES ASSUME c3' # <<>> PROVE c5 = c3'[Len(c3')]
        OBVIOUS
      <4>1. Len(c3') \in 1..Len(c3') /\ Len(c3') + 1 = Len(c3)
        <5>1. Len(c3') \in Nat \ {0}
          BY <3>2, EmptySeq
        <5> QED  BY <3>1, <3>2, <5>1
      <4> QED  BY <1>3, <2>3, <3>2, <4>1
    <3>6. \A b \in Alarm!Alarms : Alarm!InList(b)' <=> Alarm!InList(b) /\ b # a
      <4> SUFFICES ASSUME NEW b \in Alarm!Alarms PROVE Alarm!InList(b)' <=> Alarm!InList(b) /\ b # a
        OBVIOUS
      <4>1. ASSUME NEW i \in 1..Len(c3'), c3'[i] = b PROVE Alarm!InList(b) /\ b # a
        <5>1. i + 1 \in DOMAIN c3 /\ 1 \in DOMAIN c3 /\ c3[i + 1] = b /\ i + 1 # 1
          BY <3>1, <3>2, <4>1
        <5> QED  BY <1>3, <3>1, <5>1 DEF Alarm!InList
      <4>2. ASSUME NEW i \in 1..Len(c3), c3[i] = b, b # a PROVE Alarm!InList(b)'
        <5>1. i # 1
          BY <3>1, <4>2
        <5>2. i - 1 \in 1..Len(c3') /\ (i - 1) + 1 = i
          BY <3>1, <3>2, <5>1
        <5> QED  BY <3>2, <4>2, <5>2 DEF Alarm!InList
      <4> QED  BY <3>1, <3>2, <4>1, <4>2 DEF Alarm!InList
    <3>7. CASE c2[a] <= c1 /\ c11' = c11 \cup {a} /\ c7' = "top" /\ UNCHANGED <<c4, c8, c9, c10>>
      <4>1. Alarm!TypeOK'
        BY <1>1, <2>1, <3>2, <3>3, <3>7 DEF Alarm!TypeOK, Alarm!States
      <4>2. \A b \in Alarm!Alarms :
              /\ Alarm!InList(b)' \/ c8' = b \/ b \in c11' => c2'[b] # 0
              /\ c6' /\ c2'[b] # 0 => Alarm!InList(b)' \/ c8' = b \/ b \in c11'
              /\ ~(Alarm!InList(b)' /\ c8' = b) /\ ~(Alarm!InList(b)' /\ b \in c11') /\ ~(c8' = b /\ b \in c11')
        BY <1>1, <1>4, <2>1, <3>3, <3>6, <3>7
      <4>3. Alarm!IInv'
        BY <1>2, <1>6, <2>1, <3>4, <3>5, <3>7, <4>1, <4>2
      <4> QED  BY <3>7, <4>3 DEF Alarm!HandlesDue
    <3>8. CASE ~(c2[a] <= c1) /\ c8' = a /\ c4' = c2[a] /\ c10' = c2[a] - c1 /\ c9' = c2[a]
               /\ c7' = "timed" /\ c11' = c11
      <4>1. c10' \in 0..MaxTime + 3 /\ c9' \in 0..2 * MaxTime + 3 /\ c10' < MaxTime + 3
            /\ c1 + c10' >= c2[a] /\ c9' >= c2[a]
        BY <1>1, <1>2, <3>3, <3>8
      <4>2. Alarm!TypeOK'
        BY <1>1, <2>1, <3>2, <3>3, <3>8, <4>1 DEF Alarm!TypeOK, Alarm!States
      <4>3. \A b \in Alarm!Alarms :
              /\ Alarm!InList(b)' \/ c8' = b \/ b \in c11' => c2'[b] # 0
              /\ c6' /\ c2'[b] # 0 => Alarm!InList(b)' \/ c8' = b \/ b \in c11'
              /\ ~(Alarm!InList(b)' /\ c8' = b) /\ ~(Alarm!InList(b)' /\ b \in c11') /\ ~(c8' = b /\ b \in c11')
        BY <1>1, <1>4, <2>1, <3>3, <3>6, <3>8
      <4>4. c8' # 0
        BY <1>1, <3>3, <3>8
      <4>5. Alarm!IInv'
        BY <1>6, <2>1, <3>4, <3>5, <3>8, <4>1, <4>2, <4>3, <4>4
      <4> QED  BY <3>8, <4>5 DEF Alarm!HandlesDue
    <3> QED  BY <1>13, <2>1, <2>3, <3>7, <3>8 DEF Alarm!Check, Alarm!Due, a
  <2> QED  BY <1>13, <2>2, <2>3 DEF Alarm!Check
<1>14. CASE Alarm!Late
  <2>1. /\ c7 = "late" /\ c8' = 0 /\ c9' = 0 /\ c10' = 0 /\ UNCHANGED <<c1, c2, c3, c4, c5, c6>>
        /\ \/ c6 /\ c11' = c11 \cup {c8} /\ c7' = "top"
           \/ ~c6 /\ c11' = c11 /\ c7' = "ended"
    BY <1>1, <1>14 DEF Alarm!Late
  <2>2. c8 \in Alarm!Alarms /\ c1 >= c2[c8] /\ c2[c8] \in Nat
    <3>1. c8 \in Alarm!Alarms /\ c1 >= c2[c8]
      BY <1>5, <2>1
    <3> QED  BY <1>1, <1>2, <3>1
  <2>3. Alarm!TypeOK'
    <3>1. c9' \in 0..2 * MaxTime + 3 /\ c10' \in 0..MaxTime + 3
      BY <1>1, <2>1
    <3> QED  BY <1>1, <2>1, <2>2, <3>1 DEF Alarm!TypeOK, Alarm!States
  <2>4. \A a : Alarm!InList(a)' <=> Alarm!InList(a)
    BY <2>1 DEF Alarm!InList
  <2>5. \A b \in Alarm!Alarms :
              /\ Alarm!InList(b)' \/ c8' = b \/ b \in c11' => c2'[b] # 0
              /\ c6' /\ c2'[b] # 0 => Alarm!InList(b)' \/ c8' = b \/ b \in c11'
              /\ ~(Alarm!InList(b)' /\ c8' = b) /\ ~(Alarm!InList(b)' /\ b \in c11') /\ ~(c8' = b /\ b \in c11')
    BY <1>1, <1>4, <2>1, <2>2, <2>4
  <2>6. c10' < MaxTime + 3
    BY <1>1, <2>1
  <2>7. Alarm!IInv'
    BY <1>3, <1>6, <2>1, <2>3, <2>5, <2>6
  <2>8. Alarm!HandlesDue
    BY <1>2, <2>1, <2>2 DEF Alarm!HandlesDue
  <2> QED  BY <2>7, <2>8
\* alarm_insert() with a time that only the new alarm may have changed.
<1>15. ASSUME NEW a \in Alarm!Alarms, NEW t \in [Alarm!Alarms -> 0..MaxTime + 3], NEW s \in Alarm!States,
              ~Alarm!InList(a), \A b \in Alarm!Alarms : b # a => t[b] = c2[b],
              Alarm!AlarmInsert(a, t, s)
       PROVE  /\ c3' \in Seq(Alarm!Alarms)
              /\ \A i, j \in DOMAIN c3' : i < j => t[c3'[i]] <= t[c3'[j]]
              /\ \A i, j \in DOMAIN c3' : c3'[i] = c3'[j] => i = j
              /\ c3' # <<>> => c5' = c3'[Len(c3')]
              /\ \A b : Alarm!InList(b)' <=> Alarm!InList(b) \/ b = a
              /\ c5' \in Alarm!Alarms /\ c4' \in 0..MaxTime + 3
              /\ c7' \in {s, CASE s = "empty" -> "check" [] s = "timed" -> "awake" [] OTHER -> s}
  <2>1. t \in [Alarm!Alarms -> Nat]
    BY <1>1, <1>15
  <2>2. \A i \in DOMAIN c3 : c3[i] \in Alarm!Alarms /\ t[c3[i]] = c2[c3[i]]
    BY <1>2, <1>15 DEF Alarm!InList
  <2>3. \A i, j \in DOMAIN c3 : i < j => t[c3[i]] <= t[c3[j]]
    BY <1>3, <2>2
  <2>4. c3' = Alarm!ListWith(a, t) /\ c5' = Alarm!LongestWith(a, t)
    BY <1>15 DEF Alarm!AlarmInsert
  <2>5. /\ c3' \in Seq(Alarm!Alarms) /\ c3' # <<>>
        /\ \A i, j \in DOMAIN c3' : i < j => t[c3'[i]] <= t[c3'[j]]
        /\ \A i, j \in DOMAIN c3' : c3'[i] = c3'[j] => i = j
        /\ \A b : (\E i \in DOMAIN c3' : c3'[i] = b) <=> Alarm!InList(b) \/ b = a
        /\ c3'[Len(c3')] = Alarm!LongestWith(a, t)
    <3>1. /\ c3 \in Seq(Alarm!Alarms) /\ ~Alarm!InList(a)
          /\ \A i, j \in DOMAIN c3 : c3[i] = c3[j] => i = j
          /\ c3 # <<>> => c5 = c3[Len(c3)]
      BY <1>2, <1>3, <1>15
    <3> QED  BY <2>1, <2>3, <2>4, <3>1, AlarmListWith
  <2>6. \A b : Alarm!InList(b)' <=> Alarm!InList(b) \/ b = a
    BY <2>5 DEF Alarm!InList
  <2>7. c5' \in Alarm!Alarms
    <3>1. Len(c3') \in 1..Len(c3')
      BY <2>5, EmptySeq
    <3> QED  BY <2>4, <2>5, <3>1, ElementOfSeq
  <2>8. c4' \in 0..MaxTime + 3 /\ c7' \in {s, CASE s = "empty" -> "check" [] s = "timed" -> "awake" [] OTHER -> s}
    BY <1>2, <1>15 DEF Alarm!AlarmInsert
  <2> QED  BY <2>4, <2>5, <2>6, <2>7, <2>8
<1>16. CASE Alarm!Awake
  <2>1. c7 = "awake" /\ UNCHANGED <<c1, c2, c6, c11>> /\ c8 \in Alarm!Alarms /\ c8 # 0
        /\ c2[c8] \in Nat /\ c1 + c10 >= c2[c8]
    <3>1. c7 = "awake" /\ UNCHANGED <<c1, c2, c6, c11>> /\ c8 \in Alarm!Alarms /\ c8 # 0
          /\ c1 + c10 >= c2[c8]
      BY <1>5, <1>16 DEF Alarm!Awake
    <3> QED  BY <1>1, <1>2, <3>1
  <2>2. CASE c9' = c1 + c10 /\ c7' = "timed" /\ UNCHANGED <<c3, c4, c5, c8, c10>>
    <3>1. c9' \in 0..2 * MaxTime + 3
      BY <1>1, <1>2, <2>2
    <3>2. Alarm!TypeOK'
      BY <1>1, <2>1, <2>2, <3>1 DEF Alarm!TypeOK, Alarm!States
    <3> QED  BY <1>2, <1>7, <2>1, <2>2, <3>2
  <2>3. CASE c8' = 0 /\ c9' = 0 /\ c10' = 0
    <3>1. c9' \in 0..2 * MaxTime + 3 /\ c10' \in 0..MaxTime + 3 /\ c10' < MaxTime + 3
      BY <1>1, <2>3
    <3>2. ~Alarm!InList(c8)
      BY <1>4, <2>1
    <3>3. CASE c6 /\ Alarm!AlarmInsert(c8, c2, "top")
      <4>1. "top" \in Alarm!States
        BY DEF Alarm!States
      <4>2. /\ c3' \in Seq(Alarm!Alarms)
            /\ \A i, j \in DOMAIN c3' : i < j => c2[c3'[i]] <= c2[c3'[j]]
            /\ \A i, j \in DOMAIN c3' : c3'[i] = c3'[j] => i = j
            /\ c3' # <<>> => c5' = c3'[Len(c3')]
            /\ \A b : Alarm!InList(b)' <=> Alarm!InList(b) \/ b = c8
            /\ c5' \in Alarm!Alarms /\ c4' \in 0..MaxTime + 3
            /\ c7' = "top"
        BY <1>2, <1>15, <2>1, <3>2, <3>3, <4>1
      <4>3. Alarm!TypeOK'
        BY <1>1, <2>1, <2>3, <3>1, <4>1, <4>2 DEF Alarm!TypeOK
      <4>4. \A b \in Alarm!Alarms :
              /\ Alarm!InList(b)' \/ c8' = b \/ b \in c11' => c2'[b] # 0
              /\ c6' /\ c2'[b] # 0 => Alarm!InList(b)' \/ c8' = b \/ b \in c11'
              /\ ~(Alarm!InList(b)' /\ c8' = b) /\ ~(Alarm!InList(b)' /\ b \in c11') /\ ~(c8' = b /\ b \in c11')
        BY <1>1, <1>4, <2>1, <2>3, <4>2
      <4>5. Alarm!IInv'
        BY <1>6, <2>1, <2>3, <3>1, <4>2, <4>3, <4>4
      <4> QED  BY <2>1, <4>5 DEF Alarm!HandlesDue
    <3>4. CASE ~c6 /\ c7' = "ended" /\ UNCHANGED <<c3, c4, c5>>
      <4>1. Alarm!TypeOK'
        BY <1>1, <2>1, <2>3, <3>1, <3>4 DEF Alarm!TypeOK, Alarm!States
      <4>2. \A b : Alarm!InList(b)' <=> Alarm!InList(b)
        BY <3>4 DEF Alarm!InList
      <4>3. \A b \in Alarm!Alarms :
              /\ Alarm!InList(b)' \/ c8' = b \/ b \in c11' => c2'[b] # 0
              /\ c6' /\ c2'[b] # 0 => Alarm!InList(b)' \/ c8' = b \/ b \in c11'
              /\ ~(Alarm!InList(b)' /\ c8' = b) /\ ~(Alarm!InList(b)' /\ b \in c11') /\ ~(c8' = b /\ b \in c11')
        BY <1>1, <1>4, <2>1, <2>3, <3>4, <4>2
      <4>4. Alarm!IInv'
        BY <1>3, <1>6, <2>1, <2>3, <3>1, <3>4, <4>1, <4>3
      <4> QED  BY <2>1, <4>4 DEF Alarm!HandlesDue
    <3> QED  BY <1>16, <2>1, <2>3, <3>3, <3>4 DEF Alarm!Awake, Alarm!PutBack
  <2> QED  BY <1>1, <1>16, <2>2, <2>3 DEF Alarm!Awake
<1>17. ASSUME NEW a \in Alarm!Alarms, Alarm!Insert(a)
       PROVE  Alarm!IInv' /\ Alarm!HandlesDue
  <2>1. PICK d \in {0, 1, 3} : c2' = [c2 EXCEPT ![a] = c1 + d] /\ Alarm!AlarmInsert(a, c2', c7)
    BY <1>17 DEF Alarm!Insert, Alarm!Delays
  <2>2. c6 /\ c2[a] = 0 /\ UNCHANGED <<c1, c6, c8, c9, c10, c11>>
    BY <1>1, <1>17 DEF Alarm!Insert
  <2>3. c1 + d \in 0..MaxTime + 3 /\ c1 + d # 0
    BY <1>1, <1>2
  <2>4. c2' \in [Alarm!Alarms -> 0..MaxTime + 3] /\ c2'[a] # 0 /\ \A b \in Alarm!Alarms : b # a => c2'[b] = c2[b]
    BY <1>2, <2>1, <2>3
  <2>5. ~Alarm!InList(a) /\ c8 # a /\ a \notin c11
    BY <1>4, <2>2
  <2>6. /\ c3' \in Seq(Alarm!Alarms)
        /\ \A i, j \in DOMAIN c3' : i < j => c2'[c3'[i]] <= c2'[c3'[j]]
        /\ \A i, j \in DOMAIN c3' : c3'[i] = c3'[j] => i = j
        /\ c3' # <<>> => c5' = c3'[Len(c3')]
        /\ \A b : Alarm!InList(b)' <=> Alarm!InList(b) \/ b = a
        /\ c5' \in Alarm!Alarms /\ c4' \in 0..MaxTime + 3
        /\ c7' \in {c7, CASE c7 = "empty" -> "check" [] c7 = "timed" -> "awake" [] OTHER -> c7}
    BY <1>5, <1>15, <2>1, <2>4, <2>5
  <2>7. c7' \in Alarm!States /\ (c7 \in {"timed", "late", "awake"} <=> c7' \in {"timed", "late", "awake"})
        /\ (c7' = "timed" => c7 = "timed") /\ (c7' = "late" => c7 = "late")
        /\ (c7' = "awake" => c7 \in {"timed", "awake"})
    BY <1>5, <2>6 DEF Alarm!States
  <2>8. Alarm!TypeOK'
    BY <1>1, <2>2, <2>4, <2>6, <2>7 DEF Alarm!TypeOK
  <2>9. \A b \in Alarm!Alarms :
              /\ Alarm!InList(b)' \/ c8' = b \/ b \in c11' => c2'[b] # 0
              /\ c6' /\ c2'[b] # 0 => Alarm!InList(b)' \/ c8' = b \/ b \in c11'
              /\ ~(Alarm!InList(b)' /\ c8' = b) /\ ~(Alarm!InList(b)' /\ b \in c11') /\ ~(c8' = b /\ b \in c11')
    BY <1>4, <2>2, <2>4, <2>5, <2>6
  <2>10. c7 \in {"timed", "late", "awake"} => c8 \in Alarm!Alarms /\ c2'[c8] = c2[c8]
    BY <1>5, <2>4, <2>5
  <2>11. /\ c8' # 0 <=> c7' \in {"timed", "late", "awake"}
         /\ c7' \in {"timed", "awake"} => c1' + c10' >= c2'[c8']
         /\ c7' \in {"timed", "awake"} => c9' >= c2'[c8']
         /\ c7' = "late" => c1' >= c2'[c8']
    BY <1>5, <2>2, <2>7, <2>10
  <2>12. Alarm!IInv'
    BY <1>2, <1>6, <2>2, <2>6, <2>8, <2>9, <2>11
  <2> QED  BY <2>2, <2>12 DEF Alarm!HandlesDue
<1>18. CASE UNCHANGED Alarm!vars
  <2>1. UNCHANGED <<c1, c2, c3, c4, c5, c6, c7, c8, c9, c10, c11>>
    BY <1>18 DEF Alarm!vars
  <2>2. Alarm!TypeOK'
    BY <1>1, <2>1 DEF Alarm!TypeOK
  <2> QED  BY <1>2, <1>5, <1>7, <2>1, <2>2
<1> QED
  BY <1>8, <1>9, <1>10, <1>11, <1>12, <1>13, <1>14, <1>16, <1>17, <1>18 DEF Alarm!Next, Alarm!AlarmThread

LEMMA AlarmSafe == Alarm!IInv => Alarm!TypeOK /\ Alarm!NothingLost /\ Alarm!LongestIsLast
<1> SUFFICES ASSUME Alarm!IInv, c6, NEW a \in Alarm!Alarms
             PROVE  Alarm!Cardinality({i \in DOMAIN c3 : c3[i] = a})
                      + (IF c8 = a THEN 1 ELSE 0) + (IF a \in c11 THEN 1 ELSE 0)
                        = IF a \in Alarm!Inserted THEN 1 ELSE 0
  BY DEF Alarm!IInv, Alarm!NothingLost
<1> DEFINE S == {i \in DOMAIN c3 : c3[i] = a}
<1>1. Alarm!Cardinality(S) = IF Alarm!InList(a) THEN 1 ELSE 0
  <2>1. CASE Alarm!InList(a)
    <3>1. PICK k \in DOMAIN c3 : c3[k] = a
      BY <2>1 DEF Alarm!InList
    <3>2. S = {k}
      BY <3>1 DEF Alarm!IInv
    <3>3. Cardinality({k}) = 1
      BY FS_Singleton
    <3> QED  BY <2>1, <3>2, <3>3, AlarmCardinality
  <2>2. CASE ~Alarm!InList(a)
    <3>1. S = {}
      BY <2>2 DEF Alarm!InList
    <3> QED  BY <2>2, <3>1, FS_EmptySet, AlarmCardinality
  <2> QED  BY <2>1, <2>2
<1>2. /\ Alarm!InList(a) \/ c8 = a \/ a \in c11 <=> a \in Alarm!Inserted
      /\ ~(Alarm!InList(a) /\ c8 = a) /\ ~(Alarm!InList(a) /\ a \in c11) /\ ~(c8 = a /\ a \in c11)
  BY DEF Alarm!IInv
<1> HIDE DEF S
<1>3. Alarm!Cardinality(S) + (IF c8 = a THEN 1 ELSE 0) + (IF a \in c11 THEN 1 ELSE 0)
        = IF a \in Alarm!Inserted THEN 1 ELSE 0
  BY <1>1, <1>2
<1> QED  BY <1>3 DEF S

-----------------------------------------------------------------------------
(* BoostSynchronized: c1 is mutex, c2 is tid, c3 is signal, c4 is at, c5   *)
(* is timed, c6 is calls, c7 and c8 are the history notified and asked.    *)

\* Waking threads leaves those that wait waiting and moves no other.
LEMMA BoostWokenFacts ==
    ASSUME NEW W \in SUBSET Boost!Sleeping, c4 \in [Users -> Boost!Places]
    PROVE  /\ Boost!Woken(c4, W) \in [Users -> Boost!Places]
           /\ \A t \in Users : \/ Boost!Woken(c4, W)[t] = c4[t]
                               \/ c4[t] = "sleep" /\ Boost!Woken(c4, W)[t] = "woken"
  BY DEF Boost!Woken, Boost!Sleeping, Boost!Places

\* What a notify leaves of the places and of the history.
LEMMA BoostNotifyFacts ==
    ASSUME MaxCalls \in Nat, Boost!TypeOK, NEW t \in Users, Boost!Notify(t)
    PROVE  /\ c4[t] = "in" /\ UNCHANGED <<c1, c2, c5>> /\ c3' = TRUE
           /\ c6' \in 0..MaxCalls
           /\ c4' \in [Users -> Boost!Places]
           /\ \A u \in Users : c4'[u] = c4[u] \/ (c4[u] = "sleep" /\ c4'[u] = "woken")
           /\ c7' \in SUBSET Users /\ c8' \in SUBSET Users
           /\ \A u \in Users : Boost!Waiting(u) => u \in c8'
<1>1. PICK W \in SUBSET Boost!Sleeping : c4' = Boost!Woken(c4, W) /\ c7' = c7 \cup W
  BY DEF Boost!Notify, Boost!Sleeping
<1>2. c8' = c8 \cup {u \in Users : Boost!Waiting(u)}
  BY DEF Boost!Notify
<1>3. c6' \in 0..MaxCalls
  BY DEF Boost!Notify, Boost!Call, Boost!TypeOK
<1>4. W \in SUBSET Users
  BY DEF Boost!Sleeping
<1> QED  BY <1>1, <1>2, <1>3, <1>4, BoostWokenFacts DEF Boost!Notify, Boost!Raised, Boost!TypeOK

\* The types and the owner.
LEMMA BoostOwnerStep ==
    ASSUME NoUser \notin Users, MaxCalls \in Nat, Boost!TypeOK, Boost!OwnerIsKnown, [Boost!Next]_(Boost!vars)
    PROVE  Boost!TypeOK' /\ Boost!OwnerIsKnown'
<1>1. ASSUME NEW t \in Users, Boost!Calls(t) PROVE Boost!TypeOK' /\ Boost!OwnerIsKnown'
  <2>1. CASE Boost!CallLock(t) \/ Boost!TryLock(t)
    BY <2>1 DEF Boost!CallLock, Boost!TryLock, Boost!Call, Boost!GoTo, Boost!history, Boost!TypeOK, Boost!OwnerIsKnown, Boost!Places
  <2>2. CASE Boost!Notify(t)
    BY <2>2, BoostNotifyFacts DEF Boost!TypeOK, Boost!OwnerIsKnown
  <2>3. CASE Boost!Wait(t)
    <3>1. /\ c4[t] = "in" /\ c2' = NoUser /\ c1' = NoUser /\ c4' = [c4 EXCEPT ![t] = "sleep"]
          /\ c3' = FALSE /\ UNCHANGED <<c7, c8>>
          /\ c5' \in {c5, c5 \cup {t}} /\ c6 < MaxCalls /\ c6' = c6 + 1
      BY <2>3 DEF Boost!Wait, Boost!Owner, Boost!Call, Boost!GoTo, Boost!history
    <3>2. Boost!TypeOK'
      <4>1. c4' \in [Users -> Boost!Places] /\ c5' \in SUBSET Users
        BY <3>1 DEF Boost!TypeOK, Boost!Places
      <4>2. c6' \in 0..MaxCalls
        BY <3>1 DEF Boost!TypeOK
      <4> QED  BY <3>1, <4>1, <4>2 DEF Boost!TypeOK
    <3>3. Boost!OwnerIsKnown'
      BY <3>1 DEF Boost!TypeOK, Boost!OwnerIsKnown
    <3> QED  BY <3>2, <3>3
  <2>4. CASE Boost!CallDestroy(t)
    <3>1. CASE c4[t] = "in"
      <4>1. /\ c1' = NoUser /\ c2' = NoUser /\ c3' = TRUE
            /\ c4' = [Boost!Woken(c4, Boost!Sleeping) EXCEPT ![t] = "destroyed"]
            /\ UNCHANGED <<c5, Boost!history>> /\ c6' \in 0..MaxCalls
        BY <2>4, <3>1 DEF Boost!CallDestroy, Boost!Call, Boost!TypeOK
      <4>2. /\ Boost!Woken(c4, Boost!Sleeping) \in [Users -> Boost!Places]
            /\ \A u \in Users : \/ Boost!Woken(c4, Boost!Sleeping)[u] = c4[u]
                                \/ c4[u] = "sleep" /\ Boost!Woken(c4, Boost!Sleeping)[u] = "woken"
        BY BoostWokenFacts DEF Boost!TypeOK
      <4> QED  BY <3>1, <4>1, <4>2 DEF Boost!history, Boost!TypeOK, Boost!OwnerIsKnown, Boost!Places
    <3>2. CASE c4[t] # "in"
      BY <2>4, <3>2 DEF Boost!CallDestroy, Boost!Call, Boost!GoTo, Boost!history, Boost!TypeOK, Boost!OwnerIsKnown, Boost!Places
    <3> QED  BY <3>1, <3>2
  <2> QED  BY <1>1, <2>1, <2>2, <2>3, <2>4 DEF Boost!Calls
<1>2. ASSUME NEW t \in Users, Boost!Goes(t) PROVE Boost!TypeOK' /\ Boost!OwnerIsKnown'
  <2>1. CASE Boost!Take(t) \/ Boost!GiveUp(t)
    BY <2>1 DEF Boost!Take, Boost!GiveUp, Boost!GoTo, Boost!history, Boost!TypeOK, Boost!OwnerIsKnown, Boost!Places
  <2>2. CASE Boost!Claim(t)
    BY <2>2 DEF Boost!Claim, Boost!GoTo, Boost!history, Boost!TypeOK, Boost!OwnerIsKnown, Boost!Places
  <2>3. CASE Boost!Unlock(t) \/ Boost!Leave(t) \/ Boost!TimeOut(t)
    BY <2>3 DEF Boost!Unlock, Boost!Leave, Boost!TimeOut, Boost!GoTo, Boost!history, Boost!TypeOK, Boost!OwnerIsKnown, Boost!Places
  <2>4. CASE Boost!Resume(t)
    BY <2>4 DEF Boost!Resume, Boost!Free, Boost!GoTo, Boost!history, Boost!TypeOK, Boost!OwnerIsKnown, Boost!Places
  <2>5. CASE Boost!Destroy(t)
    <3>1. /\ UNCHANGED <<c1, c2, c5, c6>> /\ c3' \in BOOLEAN
          /\ c4' \in [Users -> Boost!Places]
          /\ \A u \in Users : \/ c4'[u] = c4[u]
                              \/ c4[u] = "sleep" /\ c4'[u] = "woken"
                              \/ c4[u] = "destroy" /\ c4'[u] = "destroyed"
      <4>1. CASE c3
        BY <2>5, <4>1 DEF Boost!Destroy, Boost!GoTo, Boost!TypeOK, Boost!Places
      <4>2. CASE ~c3
        <5>1. c4' = Boost!Woken(c4, Boost!Sleeping) /\ c3' = TRUE
          BY <2>5, <4>2 DEF Boost!Destroy, Boost!Raised
        <5>2. UNCHANGED <<c1, c2, c5, c6>>
          BY <2>5 DEF Boost!Destroy
        <5> QED  BY <5>1, <5>2, BoostWokenFacts DEF Boost!TypeOK
      <4> QED  BY <4>1, <4>2
    <3>2. c7' \in SUBSET Users /\ c8' \in SUBSET Users
      BY <2>5 DEF Boost!Destroy, Boost!history, Boost!Sleeping, Boost!TypeOK
    <3> QED  BY <3>1, <3>2 DEF Boost!TypeOK, Boost!OwnerIsKnown
  <2> QED  BY <1>2, <2>1, <2>2, <2>3, <2>4, <2>5 DEF Boost!Goes
<1>3. ASSUME NEW t \in Users, Boost!SpuriousWakeup(t) PROVE Boost!TypeOK' /\ Boost!OwnerIsKnown'
  BY <1>3 DEF Boost!SpuriousWakeup, Boost!GoTo, Boost!history, Boost!TypeOK, Boost!OwnerIsKnown, Boost!Places
<1>4. CASE UNCHANGED Boost!vars
  BY <1>4 DEF Boost!vars, Boost!history, Boost!TypeOK, Boost!OwnerIsKnown
<1> QED  BY <1>1, <1>2, <1>3, <1>4 DEF Boost!Next

\* A step that neither raises the flag nor begins a wait.
LEMMA BoostSignalFrame ==
    ASSUME Boost!SignalIsForAll, Boost!Alive, c3' => c3,
           \A u \in Users : Boost!Waiting(u)' /\ u \in c8 => u \in c8',
           \A u \in Users : Boost!Waiting(u)' => Boost!Waiting(u)
    PROVE  Boost!SignalIsForAll'
  BY DEF Boost!SignalIsForAll

LEMMA BoostSignalStep ==
    ASSUME NoUser \notin Users, MaxCalls \in Nat, Boost!TypeOK, Boost!OwnerIsKnown, Boost!SignalIsForAll,
           [Boost!Next]_(Boost!vars)
    PROVE  Boost!SignalIsForAll'
<1>1. ASSUME NEW t \in Users, Boost!Alive, Boost!Calls(t) PROVE Boost!SignalIsForAll'
  <2>1. CASE Boost!CallLock(t) \/ Boost!TryLock(t)
    BY <1>1, <2>1, BoostSignalFrame DEF Boost!CallLock, Boost!TryLock, Boost!GoTo, Boost!history, Boost!Waiting, Boost!TypeOK
  <2>2. CASE Boost!Notify(t)
    BY <2>2, BoostNotifyFacts DEF Boost!SignalIsForAll, Boost!Waiting
  <2>3. CASE Boost!Wait(t)
    BY <2>3 DEF Boost!Wait, Boost!SignalIsForAll
  <2>4. CASE Boost!CallDestroy(t)
    <3>1. CASE c4[t] = "in"
      <4>1. c4' = [Boost!Woken(c4, Boost!Sleeping) EXCEPT ![t] = "destroyed"]
        BY <2>4, <3>1 DEF Boost!CallDestroy
      <4>2. c4'[t] = "destroyed"
        BY <4>1, BoostWokenFacts DEF Boost!TypeOK
      <4> QED  BY <4>2 DEF Boost!SignalIsForAll, Boost!Alive
    <3>2. CASE c4[t] # "in"
      BY <1>1, <2>4, <3>2, BoostSignalFrame DEF Boost!CallDestroy, Boost!GoTo, Boost!history, Boost!Waiting, Boost!TypeOK
    <3> QED  BY <3>1, <3>2
  <2> QED  BY <1>1, <2>1, <2>2, <2>3, <2>4 DEF Boost!Calls
<1>2. ASSUME NEW t \in Users, Boost!Alive, Boost!Goes(t) PROVE Boost!SignalIsForAll'
  <2>1. CASE Boost!Take(t) \/ Boost!GiveUp(t) \/ Boost!Claim(t) \/ Boost!Unlock(t) \/ Boost!Leave(t) \/ Boost!TimeOut(t)
    BY <1>2, <2>1, BoostSignalFrame
       DEF Boost!Take, Boost!GiveUp, Boost!Claim, Boost!Unlock, Boost!Leave, Boost!TimeOut, Boost!GoTo, Boost!history, Boost!Waiting, Boost!TypeOK
  <2>2. CASE Boost!Resume(t)
    BY <1>2, <2>2, BoostSignalFrame DEF Boost!Resume, Boost!GoTo, Boost!history, Boost!Waiting, Boost!TypeOK
  <2>3. CASE Boost!Destroy(t)
    <3>1. CASE c3
      <4>1. c4' = [c4 EXCEPT ![t] = "destroyed"]
        BY <2>3, <3>1 DEF Boost!Destroy, Boost!GoTo
      <4> QED  BY <4>1 DEF Boost!SignalIsForAll, Boost!Alive, Boost!TypeOK
    <3>2. CASE ~c3
      <4>1. c4' = Boost!Woken(c4, Boost!Sleeping) /\ c8' = c8 \cup {u \in Users : Boost!Waiting(u)}
        BY <2>3, <3>2 DEF Boost!Destroy
      <4>2. \A u \in Users : c4'[u] = c4[u] \/ (c4[u] = "sleep" /\ c4'[u] = "woken")
        BY <4>1, BoostWokenFacts DEF Boost!TypeOK
      <4> QED  BY <4>1, <4>2 DEF Boost!SignalIsForAll, Boost!Waiting
    <3> QED  BY <3>1, <3>2
  <2> QED  BY <1>2, <2>1, <2>2, <2>3 DEF Boost!Goes
<1>3. ASSUME NEW t \in Users, Boost!Alive, Boost!SpuriousWakeup(t) PROVE Boost!SignalIsForAll'
  BY <1>3, BoostSignalFrame DEF Boost!SpuriousWakeup, Boost!GoTo, Boost!history, Boost!Waiting, Boost!TypeOK
<1>4. CASE UNCHANGED Boost!vars
  BY <1>4 DEF Boost!vars, Boost!history, Boost!SignalIsForAll, Boost!Alive, Boost!Waiting
<1> QED  BY <1>1, <1>2, <1>3, <1>4 DEF Boost!Next

LEMMA BoostInit == Boost!Init => Boost!IInv
<1> SUFFICES ASSUME Boost!Init PROVE Boost!IInv
  OBVIOUS
<1>0. c3 \in BOOLEAN /\ ~c3
  BY DEF Boost!Init
<1>1. c6 \in 0..MaxCalls /\ c4 \in [Users -> Boost!Places]
  BY ProgramsAssumption DEF Boost!Init, Boost!Places
<1>2. \A t \in Users : c4[t] = "out" /\ c1 # t /\ c2 # t
  BY ProgramsAssumption DEF Boost!Init
<1>3. Boost!TypeOK
  BY <1>0, <1>1 DEF Boost!Init, Boost!TypeOK
<1> QED  BY <1>0, <1>1, <1>2, <1>3 DEF Boost!IInv, Boost!OwnerIsKnown, Boost!SignalIsForAll

LEMMA BoostStep ==
    ASSUME Boost!IInv, [Boost!Next]_(Boost!vars)
    PROVE  Boost!IInv'
  BY ProgramsAssumption, BoostOwnerStep, BoostSignalStep DEF Boost!IInv

LEMMA BoostSafe == Boost!IInv => Boost!TypeOK /\ Boost!OwnerIsKnown
  BY DEF Boost!IInv

\* A wait that has no timeout returns only after a notify, in spite of spurious
\* wakeups and of one flag for all who wait.
LEMMA BoostReturns ==
    ASSUME Boost!IInv, [Boost!Next]_(Boost!vars)
    PROVE  Boost!ReturnsNotified
<1>1. CASE Boost!Next
  <2> SUFFICES ASSUME NEW t \in Users, Boost!Waiting(t), c4'[t] = "in", c4[t] # "expired"
               PROVE  t \in c8
    BY DEF Boost!ReturnsNotified
  <2>1. Boost!Alive /\ c3
    <3>1. PICK u \in Users : Boost!Calls(u) \/ Boost!Goes(u) \/ Boost!SpuriousWakeup(u)
      BY <1>1 DEF Boost!Next
    <3>2. CASE Boost!Notify(u)
      BY <3>2, BoostNotifyFacts, ProgramsAssumption DEF Boost!IInv, Boost!Waiting
    <3>3. CASE Boost!CallDestroy(u)
      <4>1. CASE c4[u] = "in"
        <5>1. c4' = [Boost!Woken(c4, Boost!Sleeping) EXCEPT ![u] = "destroyed"]
          BY <3>3, <4>1 DEF Boost!CallDestroy
        <5> QED  BY <5>1, BoostWokenFacts DEF Boost!IInv, Boost!TypeOK, Boost!Waiting
      <4>2. CASE c4[u] # "in"
        BY <3>3, <4>2 DEF Boost!CallDestroy, Boost!GoTo, Boost!IInv, Boost!TypeOK, Boost!Waiting
      <4> QED  BY <4>1, <4>2
    <3>4. CASE Boost!Destroy(u)
      <4>1. c4' = Boost!Woken(c4, Boost!Sleeping) \/ c4' = [c4 EXCEPT ![u] = "destroyed"]
        BY <3>4 DEF Boost!Destroy, Boost!GoTo
      <4> QED  BY <4>1, BoostWokenFacts DEF Boost!IInv, Boost!TypeOK, Boost!Waiting
    <3>5. CASE Boost!Resume(u)
      BY <1>1, <3>5 DEF Boost!Resume, Boost!Over, Boost!GoTo, Boost!IInv, Boost!TypeOK, Boost!Waiting, Boost!Next
    <3>6. CASE Boost!CallLock(u) \/ Boost!TryLock(u) \/ Boost!Wait(u) \/ Boost!SpuriousWakeup(u)
      BY <3>6 DEF Boost!CallLock, Boost!TryLock, Boost!Wait, Boost!SpuriousWakeup, Boost!GoTo, Boost!IInv, Boost!TypeOK, Boost!Waiting
    <3>7. CASE Boost!Take(u) \/ Boost!GiveUp(u) \/ Boost!Claim(u) \/ Boost!Unlock(u) \/ Boost!Leave(u) \/ Boost!TimeOut(u)
      BY <3>7 DEF Boost!Take, Boost!GiveUp, Boost!Claim, Boost!Unlock, Boost!Leave, Boost!TimeOut, Boost!GoTo, Boost!IInv, Boost!TypeOK, Boost!Waiting
    <3> QED  BY <3>1, <3>2, <3>3, <3>4, <3>5, <3>6, <3>7 DEF Boost!Calls, Boost!Goes
  <2> QED  BY <2>1 DEF Boost!IInv, Boost!SignalIsForAll
<1>2. CASE UNCHANGED Boost!vars
  BY <1>2 DEF Boost!vars, Boost!ReturnsNotified, Boost!Waiting
<1> QED  BY <1>1, <1>2

BoostInside == IF \E t \in Users : c4[t] = "in" THEN CHOOSE t \in Users : c4[t] = "in" ELSE NoUser
BoostAsleep == {t \in Users : Boost!Waiting(t)}

\* Who is inside, without CHOOSE.
BoostInsideIs ==
    /\ \A t \in Users : c4[t] = "in" => BoostInside = t
    /\ (\A t \in Users : c4[t] # "in") => BoostInside = NoUser

LEMMA BoostInsideFacts == Boost!OwnerIsKnown => BoostInsideIs
<1>1. Boost!OwnerIsKnown => \A t, u \in Users : c4[t] = "in" /\ c4[u] = "in" => t = u
  BY DEF Boost!OwnerIsKnown
<1> QED  BY <1>1 DEF BoostInside, BoostInsideIs

LEMMA BoostInsideFactsNext == Boost!OwnerIsKnown' => BoostInsideIs'
  BY BoostInsideFacts, PTL

\* The steps of Monitor, in terms of the two.
LEMMA BoostAbstractSteps ==
    ASSUME NEW t
    PROVE  /\ Boost!M!Enter(t) <=> BoostInside = NoUser /\ t \notin BoostAsleep /\ BoostInside' = t /\ BoostAsleep' = BoostAsleep
           /\ Boost!M!Leave(t) <=> BoostInside = t /\ BoostInside' = NoUser /\ BoostAsleep' = BoostAsleep
           /\ Boost!M!Sleep(t) <=> BoostInside = t /\ BoostInside' = NoUser /\ BoostAsleep' = BoostAsleep \cup {t}
           /\ Boost!M!Resume(t) <=>
                 BoostInside = NoUser /\ t \in BoostAsleep /\ BoostInside' = t /\ BoostAsleep' = BoostAsleep \ {t}
  BY DEF Boost!M!Enter, Boost!M!Leave, Boost!M!Sleep, Boost!M!Resume, BoostInside, BoostAsleep

\* A step that moves no thread in, out or into a wait.
LEMMA BoostStutterStep ==
    ASSUME Boost!OwnerIsKnown, Boost!OwnerIsKnown',
           \A u \in Users : (c4'[u] = "in" <=> c4[u] = "in") /\ (Boost!Waiting(u)' <=> Boost!Waiting(u))
    PROVE  UNCHANGED <<BoostInside, BoostAsleep>>
<1>1. BoostAsleep' = BoostAsleep
  BY DEF BoostAsleep
<1>2. BoostInsideIs /\ BoostInsideIs'
  BY BoostInsideFacts, BoostInsideFactsNext
<1>3. BoostInside' = BoostInside
  <2>1. CASE \A u \in Users : c4[u] # "in"
    BY <1>2, <2>1 DEF BoostInsideIs
  <2>2. CASE \E u \in Users : c4[u] = "in"
    BY <1>2, <2>2 DEF BoostInsideIs
  <2> QED  BY <2>1, <2>2
<1> QED  BY <1>1, <1>3

LEMMA BoostStepImplements ==
    ASSUME NoUser \notin Users, MaxCalls \in Nat, Boost!IInv, Boost!IInv', [Boost!Next]_(Boost!vars)
    PROVE  [Boost!M!Next]_(<<BoostInside, BoostAsleep>>)
<1>0. /\ Boost!TypeOK /\ Boost!OwnerIsKnown /\ Boost!OwnerIsKnown'
      /\ \A t \in Users : c4[t] = "in" => BoostInside = t
      /\ (\A t \in Users : c4[t] # "in") => BoostInside = NoUser
      /\ \A t \in Users : c4'[t] = "in" => BoostInside' = t
      /\ (\A t \in Users : c4'[t] # "in") => BoostInside' = NoUser
  BY BoostInsideFacts, BoostInsideFactsNext DEF Boost!IInv, BoostInsideIs
<1>1. ASSUME NEW t \in Users, Boost!Claim(t) PROVE Boost!M!Enter(t)
  <2>1. c4[t] = "taken" /\ c4' = [c4 EXCEPT ![t] = "in"]
    BY <1>1 DEF Boost!Claim, Boost!GoTo
  <2>2. \A u \in Users : c4[u] # "in"
    BY <1>0, <2>1 DEF Boost!OwnerIsKnown
  <2>3. BoostAsleep' = BoostAsleep /\ t \notin BoostAsleep /\ c4'[t] = "in"
    BY <1>0, <2>1 DEF BoostAsleep, Boost!Waiting, Boost!TypeOK
  <2> QED  BY <1>0, <2>2, <2>3, BoostAbstractSteps
<1>2. ASSUME NEW t \in Users, c4[t] = "in", \A u \in Users : c4'[u] # "in",
             \A u \in Users : Boost!Waiting(u)' <=> Boost!Waiting(u)
      PROVE  Boost!M!Leave(t)
  <2>1. BoostAsleep' = BoostAsleep
    BY <1>2 DEF BoostAsleep
  <2> QED  BY <1>0, <1>2, <2>1, BoostAbstractSteps
<1>3. ASSUME NEW t \in Users, Boost!Wait(t) PROVE Boost!M!Sleep(t)
  <2>1. c4[t] = "in" /\ c4' = [c4 EXCEPT ![t] = "sleep"]
    BY <1>3 DEF Boost!Wait, Boost!GoTo
  <2>2. \A u \in Users : c4'[u] # "in"
    BY <1>0, <2>1 DEF Boost!OwnerIsKnown, Boost!TypeOK
  <2>3. BoostAsleep' = BoostAsleep \cup {t}
    BY <1>0, <2>1 DEF BoostAsleep, Boost!Waiting, Boost!TypeOK
  <2> QED  BY <1>0, <2>1, <2>2, <2>3, BoostAbstractSteps
<1>4. ASSUME NEW t \in Users, Boost!Resume(t) PROVE Boost!M!Resume(t) \/ UNCHANGED <<BoostInside, BoostAsleep>>
  <2>1. c4[t] \in {"woken", "expired"} /\ c1 = NoUser
    BY <1>4 DEF Boost!Resume, Boost!Free
  <2>2. \A u \in Users : c4[u] # "in"
    BY <2>1, <1>0 DEF Boost!OwnerIsKnown
  <2>3. CASE c4' = [c4 EXCEPT ![t] = "in"]
    <3>1. t \in BoostAsleep /\ BoostAsleep' = BoostAsleep \ {t} /\ c4'[t] = "in"
      BY <1>0, <2>1, <2>3 DEF BoostAsleep, Boost!Waiting, Boost!TypeOK
    <3> QED  BY <1>0, <2>2, <3>1, BoostAbstractSteps
  <2>4. CASE c4' = [c4 EXCEPT ![t] = "sleep"]
    BY <1>0, <2>1, <2>2, <2>4, BoostStutterStep DEF Boost!Waiting, Boost!TypeOK
  <2> QED  BY <1>4, <2>3, <2>4 DEF Boost!Resume, Boost!GoTo
<1>5. ASSUME NEW t \in Users, Boost!CallDestroy(t)
      PROVE  Boost!M!Leave(t) \/ UNCHANGED <<BoostInside, BoostAsleep>>
  <2>1. CASE c4[t] = "in"
    <3>1. c4' = [Boost!Woken(c4, Boost!Sleeping) EXCEPT ![t] = "destroyed"]
      BY <1>5, <2>1 DEF Boost!CallDestroy
    <3>2. /\ Boost!Woken(c4, Boost!Sleeping) \in [Users -> Boost!Places]
          /\ \A u \in Users : \/ Boost!Woken(c4, Boost!Sleeping)[u] = c4[u]
                              \/ c4[u] = "sleep" /\ Boost!Woken(c4, Boost!Sleeping)[u] = "woken"
      BY <1>0, BoostWokenFacts DEF Boost!TypeOK
    <3>3. \A u \in Users : c4[u] = "in" => u = t
      BY <1>0, <2>1 DEF Boost!OwnerIsKnown
    <3>4. \A u \in Users : c4'[u] # "in" /\ (Boost!Waiting(u)' <=> Boost!Waiting(u))
      BY <2>1, <3>1, <3>2, <3>3 DEF Boost!Waiting
    <3> QED  BY <1>2, <2>1, <3>4
  <2>2. CASE c4[t] # "in"
    BY <1>0, <1>5, <2>2, BoostStutterStep DEF Boost!CallDestroy, Boost!GoTo, Boost!Waiting, Boost!TypeOK
  <2> QED  BY <2>1, <2>2
<1>6. ASSUME NEW t \in Users, Boost!Unlock(t) PROVE Boost!M!Leave(t)
  <2>1. c4[t] = "in" /\ c4' = [c4 EXCEPT ![t] = "leaving"]
    BY <1>6 DEF Boost!Unlock, Boost!GoTo
  <2>2. \A u \in Users : c4'[u] # "in" /\ (Boost!Waiting(u)' <=> Boost!Waiting(u))
    BY <1>0, <2>1 DEF Boost!OwnerIsKnown, Boost!Waiting, Boost!TypeOK
  <2> QED  BY <1>2, <2>1, <2>2
<1>7. ASSUME NEW t \in Users, Boost!CallLock(t) \/ Boost!TryLock(t) \/ Boost!Take(t) \/ Boost!GiveUp(t) \/ Boost!Leave(t)
                             \/ Boost!TimeOut(t) \/ Boost!SpuriousWakeup(t)
      PROVE  UNCHANGED <<BoostInside, BoostAsleep>>
  BY <1>0, <1>7, BoostStutterStep
     DEF Boost!CallLock, Boost!TryLock, Boost!Take, Boost!GiveUp, Boost!Leave, Boost!TimeOut, Boost!SpuriousWakeup, Boost!GoTo, Boost!Waiting, Boost!TypeOK
<1>8. ASSUME NEW t \in Users, Boost!Notify(t) PROVE UNCHANGED <<BoostInside, BoostAsleep>>
  BY <1>0, <1>8, BoostNotifyFacts, BoostStutterStep DEF Boost!Waiting
<1>9. ASSUME NEW t \in Users, Boost!Destroy(t) PROVE UNCHANGED <<BoostInside, BoostAsleep>>
  <2>1. CASE c4' = [c4 EXCEPT ![t] = "destroyed"] /\ c4[t] = "destroy"
    BY <1>0, <2>1, BoostStutterStep DEF Boost!Waiting, Boost!TypeOK
  <2>2. CASE c4' = Boost!Woken(c4, Boost!Sleeping)
    BY <1>0, <2>2, BoostWokenFacts, BoostStutterStep DEF Boost!Waiting, Boost!TypeOK
  <2> QED  BY <1>9, <2>1, <2>2 DEF Boost!Destroy, Boost!GoTo
<1>10. CASE UNCHANGED Boost!vars
  BY <1>0, <1>10, BoostStutterStep DEF Boost!vars, Boost!Waiting
<1> QED  BY <1>1, <1>3, <1>4, <1>5, <1>6, <1>7, <1>8, <1>9, <1>10
     DEF Boost!Next, Boost!Calls, Boost!Goes, Boost!M!Next

LEMMA BoostImplements ==
    ASSUME Boost!IInv, Boost!IInv', [Boost!Next]_(Boost!vars)
    PROVE  [Boost!M!Next]_(Boost!M!vars)
  BY ProgramsAssumption, BoostStepImplements DEF Boost!M!vars, BoostInside, BoostAsleep

LEMMA BoostInitImplements == Boost!Init => Boost!M!Init
  BY DEF Boost!Init, Boost!M!Init, Boost!Waiting

-----------------------------------------------------------------------------
(* BoostQueuedThreadPool: c1 is size, c2 is closed, c3 is work, c4 is      *)
(* threadAt, c5 is callAt, c6 is task, c7 is answer, c8 is submitted, c9   *)
(* is asked, c10 is runs, c11 is deletes, c12 is object.                   *)

\* No task is in two places of one kind.
QueuedUnique ==
    /\ \A i, j \in DOMAIN c3 : c3[i] = c3[j] => i = j
    /\ \A v, w \in Queued!Threads : c4[v] = c4[w] /\ c4[w] \in Queued!Tasks => v = w
    /\ \A c, d \in Callers : c6[c] = c6[d] /\ c6[d] # 0 => c = d

\* What the invariant says of a task and of a caller.
QueuedTask(t) ==
    /\ ~(Queued!InWork(t) /\ Queued!OnThread(t))
    /\ ~(Queued!InWork(t) /\ Queued!WithCaller(t))
    /\ ~(Queued!OnThread(t) /\ Queued!WithCaller(t))
    /\ Queued!InWork(t) => c10[t] = 0
    /\ Queued!OnThread(t) => c10[t] = 1
    /\ Queued!InWork(t) \/ Queued!OnThread(t) \/ Queued!WithCaller(t) => t <= c8 /\ c11[t] = 0
    /\ t > c8 => c10[t] = 0 /\ c11[t] = 0
    /\ t <= c8 /\ ~Queued!InWork(t) /\ ~Queued!OnThread(t) /\ ~Queued!WithCaller(t) =>
          c11[t] = 1 /\ c10[t] \in 0..1 /\ (c10[t] = 0 => c2)

QueuedCaller(c) ==
    /\ c5[c] \in {"execute", "checked"} => c6[c] \in Queued!Tasks /\ c10[c6[c]] = 0
    /\ c5[c] \in {"runsForIdle", "runsForBusy"} => c6[c] \in Queued!Tasks /\ c10[c6[c]] = 1
    /\ c5[c] \in {"out", "idle", "busy", "joining"} => c6[c] = 0

QueuedInv ==
    /\ QueuedUnique
    /\ \A t \in Queued!Tasks : QueuedTask(t)
    /\ \A c \in Callers : QueuedCaller(c)

LEMMA QueuedParts == Queued!IInv <=> Queued!TypeOK /\ QueuedInv /\ Queued!SizeInv
<1>1. (\A w \in Queued!Threads : c4[w] \in Queued!Tasks => c10[c4[w]] = 1)
         <=> \A t \in Queued!Tasks : Queued!OnThread(t) => c10[t] = 1
  BY DEF Queued!OnThread
<1>2. Queued!Once <=>
         /\ QueuedUnique
         /\ \A t \in Queued!Tasks : /\ ~(Queued!InWork(t) /\ Queued!OnThread(t))
                                    /\ ~(Queued!InWork(t) /\ Queued!WithCaller(t))
                                    /\ ~(Queued!OnThread(t) /\ Queued!WithCaller(t))
  BY DEF Queued!Once, QueuedUnique, Queued!None
<1>3. Queued!CountsInv <=>
         /\ \A t \in Queued!Tasks :
               /\ Queued!InWork(t) => c10[t] = 0
               /\ Queued!OnThread(t) => c10[t] = 1
               /\ Queued!InWork(t) \/ Queued!OnThread(t) \/ Queued!WithCaller(t) => t <= c8 /\ c11[t] = 0
               /\ t > c8 => c10[t] = 0 /\ c11[t] = 0
               /\ t <= c8 /\ ~Queued!InWork(t) /\ ~Queued!OnThread(t) /\ ~Queued!WithCaller(t) =>
                     c11[t] = 1 /\ c10[t] \in 0..1 /\ (c10[t] = 0 => c2)
         /\ \A c \in Callers : QueuedCaller(c)
  BY <1>1 DEF Queued!CountsInv, QueuedCaller, Queued!None
<1> QED  BY <1>2, <1>3 DEF Queued!IInv, QueuedInv, QueuedTask

LEMMA QueuedPartsNext == Queued!TypeOK' /\ QueuedInv' /\ Queued!SizeInv' => Queued!IInv'
  BY QueuedParts, PTL

\* The head of the queue is taken.
LEMMA QueuedTakes ==
    ASSUME c3 \in Seq(Queued!Tasks), c3 # <<>>, \A i, j \in DOMAIN c3 : c3[i] = c3[j] => i = j,
           c3' = Tail(c3)
    PROVE  /\ Head(c3) \in Queued!Tasks /\ Queued!InWork(Head(c3)) /\ c3' \in Seq(Queued!Tasks)
           /\ \A i, j \in DOMAIN c3' : c3'[i] = c3'[j] => i = j
           /\ \A t : Queued!InWork(t)' <=> Queued!InWork(t) /\ t # Head(c3)
<1>1. /\ Head(c3) \in Queued!Tasks /\ c3' \in Seq(Queued!Tasks) /\ Head(c3) = c3[1]
      /\ Len(c3') = Len(c3) - 1 /\ Len(c3) \in Nat \ {0}
      /\ \A i \in 1..Len(c3') : c3'[i] = c3[i + 1]
  BY HeadTailProperties, LenProperties, EmptySeq
<1>2. DOMAIN c3 = 1..Len(c3) /\ DOMAIN c3' = 1..Len(c3')
  BY <1>1, LenProperties
<1>3. \A i, j \in DOMAIN c3' : c3'[i] = c3'[j] => i = j
  BY <1>1, <1>2
<1>4. ASSUME NEW t PROVE Queued!InWork(t)' <=> Queued!InWork(t) /\ t # Head(c3)
  <2>1. ASSUME NEW i \in DOMAIN c3', c3'[i] = t PROVE Queued!InWork(t) /\ t # Head(c3)
    BY <1>1, <1>2, <2>1 DEF Queued!InWork
  <2>2. ASSUME NEW i \in DOMAIN c3, c3[i] = t, t # Head(c3) PROVE Queued!InWork(t)'
    <3>1. i - 1 \in DOMAIN c3' /\ c3'[i - 1] = t
      BY <1>1, <1>2, <2>2
    <3> QED  BY <3>1 DEF Queued!InWork
  <2> QED  BY <2>1, <2>2 DEF Queued!InWork
<1>5. Queued!InWork(Head(c3))
  BY <1>1, <1>2 DEF Queued!InWork
<1> QED  BY <1>1, <1>3, <1>4, <1>5

\* A task that is not in the queue is put behind it.
LEMMA QueuedAppends ==
    ASSUME c3 \in Seq(Queued!Tasks), NEW x \in Queued!Tasks, ~Queued!InWork(x),
           \A i, j \in DOMAIN c3 : c3[i] = c3[j] => i = j, c3' = Append(c3, x)
    PROVE  /\ c3' \in Seq(Queued!Tasks)
           /\ \A i, j \in DOMAIN c3' : c3'[i] = c3'[j] => i = j
           /\ \A t : Queued!InWork(t)' <=> Queued!InWork(t) \/ t = x
<1>1. /\ c3' \in Seq(Queued!Tasks) /\ Len(c3') = Len(c3) + 1 /\ Len(c3) \in Nat
      /\ \A i \in 1..Len(c3) : c3'[i] = c3[i]
      /\ c3'[Len(c3) + 1] = x
  BY AppendProperties, LenProperties
<1>2. DOMAIN c3 = 1..Len(c3) /\ DOMAIN c3' = 1..(Len(c3) + 1)
  BY <1>1, LenProperties
<1>3. \A i \in DOMAIN c3 : c3[i] # x
  BY DEF Queued!InWork
<1>4. \A i, j \in DOMAIN c3' : c3'[i] = c3'[j] => i = j
  BY <1>1, <1>2, <1>3
<1>5. ASSUME NEW t PROVE Queued!InWork(t)' <=> Queued!InWork(t) \/ t = x
  BY <1>1, <1>2 DEF Queued!InWork
<1> QED  BY <1>1, <1>4, <1>5

\* A thread of the executor goes on to a task that no thread has, or to none.
LEMMA QueuedThreadGoes ==
    ASSUME Queued!TypeOK, QueuedUnique, NEW w \in Queued!Threads,
           NEW v \in Queued!Tasks \cup {Queued!None, Queued!Ended},
           v \in Queued!Tasks => ~Queued!OnThread(v), c4' = [c4 EXCEPT ![w] = v]
    PROVE  /\ c4' \in [Queued!Threads -> Queued!Tasks \cup {Queued!None, Queued!Ended}]
           /\ \A u, x \in Queued!Threads : c4'[u] = c4'[x] /\ c4'[x] \in Queued!Tasks => u = x
           /\ \A t \in Queued!Tasks : Queued!OnThread(t)' <=> (Queued!OnThread(t) /\ t # c4[w]) \/ t = v
<1>1. /\ c4' \in [Queued!Threads -> Queued!Tasks \cup {Queued!None, Queued!Ended}]
      /\ c4'[w] = v /\ \A u \in Queued!Threads \ {w} : c4'[u] = c4[u]
  BY DEF Queued!TypeOK
<1>2. \A u, x \in Queued!Threads : c4[u] = c4[x] /\ c4[x] \in Queued!Tasks => u = x
  BY DEF QueuedUnique
<1>3. \A u, x \in Queued!Threads : c4'[u] = c4'[x] /\ c4'[x] \in Queued!Tasks => u = x
  BY <1>1, <1>2 DEF Queued!OnThread
<1>4. ASSUME NEW t \in Queued!Tasks
      PROVE  Queued!OnThread(t)' <=> (Queued!OnThread(t) /\ t # c4[w]) \/ t = v
  BY <1>1, <1>2 DEF Queued!OnThread
<1> QED  BY <1>1, <1>3, <1>4

\* A caller gets a task that no caller has, or gives its task away.
LEMMA QueuedCallerGoes ==
    ASSUME Queued!TypeOK, QueuedUnique, NEW c \in Callers, NEW v \in Queued!Tasks \cup {0},
           v \in Queued!Tasks => ~Queued!WithCaller(v), c6' = [c6 EXCEPT ![c] = v]
    PROVE  /\ c6' \in [Callers -> Queued!Tasks \cup {Queued!None}]
           /\ \A d, e \in Callers : c6'[d] = c6'[e] /\ c6'[e] # 0 => d = e
           /\ \A t \in Queued!Tasks : Queued!WithCaller(t)' <=> (Queued!WithCaller(t) /\ t # c6[c]) \/ t = v
<1>1. /\ c6' \in [Callers -> Queued!Tasks \cup {Queued!None}] /\ 0 \notin Queued!Tasks
      /\ c6 \in [Callers -> Queued!Tasks \cup {0}]
      /\ c6'[c] = v /\ \A d \in Callers \ {c} : c6'[d] = c6[d]
  BY DEF Queued!TypeOK, Queued!None, Queued!Tasks
<1>2. \A d, e \in Callers : c6[d] = c6[e] /\ c6[e] # 0 => d = e
  BY DEF QueuedUnique
<1>3. \A d, e \in Callers : c6'[d] = c6'[e] /\ c6'[e] # 0 => d = e
  BY <1>1, <1>2 DEF Queued!WithCaller
<1>4. ASSUME NEW t \in Queued!Tasks
      PROVE  Queued!WithCaller(t)' <=> (Queued!WithCaller(t) /\ t # c6[c]) \/ t = v
  BY <1>1, <1>2 DEF Queued!WithCaller
<1> QED  BY <1>1, <1>3, <1>4

\* What the steps below need of the types.
QueuedData ==
    /\ c10 \in [Queued!Tasks -> Nat] /\ c11 \in [Queued!Tasks -> Nat] /\ c8 \in 0..MaxTasks
    /\ c3 \in Seq(Queued!Tasks) /\ c2 \in BOOLEAN /\ c5 \in [Callers -> Queued!CallStates]
    /\ c4 \in [Queued!Threads -> Queued!Tasks \cup {Queued!None, Queued!Ended}]
    /\ c6 \in [Callers -> Queued!Tasks \cup {0}]
    /\ Queued!Tasks = 1..MaxTasks /\ 0 \notin Queued!Tasks /\ Queued!None = 0
    /\ Queued!Ended \notin Queued!Tasks /\ MaxTasks \in Nat

LEMMA QueuedDataHolds == Queued!TypeOK => QueuedData
  BY ProgramsAssumption DEF Queued!TypeOK, Queued!None, Queued!Ended, Queued!Tasks, QueuedData

LEMMA QueuedInit == Queued!Init => Queued!IInv
<1> SUFFICES ASSUME Queued!Init PROVE Queued!IInv
  OBVIOUS
<1>0. c2 \in BOOLEAN /\ Queued!SizeInv
  BY DEF Queued!Init, Queued!SizeInv
<1>1. c3 = <<>> /\ c8 = 0 /\ c9 = 0 /\ c12 = "whole" /\ c1 \in {0, MaxSize}
  BY DEF Queued!Init
<1>2. /\ c4 \in [Queued!Threads -> {0, Queued!Ended}] /\ c5 = [c \in Callers |-> "out"]
      /\ c6 = [c \in Callers |-> 0] /\ c7 = [c \in Callers |-> FALSE]
      /\ c10 = [t \in Queued!Tasks |-> 0] /\ c11 = [t \in Queued!Tasks |-> 0]
  BY DEF Queued!Init, Queued!None
<1>3. MaxSize \in Nat /\ MaxTasks \in Nat /\ MaxAsks \in Nat
  BY ProgramsAssumption
<1>4. c3 \in Seq(Queued!Tasks) /\ DOMAIN c3 = {}
  BY <1>1, EmptySeq
<1>5. Queued!TypeOK
  <2>1. c1 \in 0..MaxSize /\ c8 \in 0..MaxTasks /\ c9 \in 0..MaxAsks
    BY <1>1, <1>3
  <2>2. c5 \in [Callers -> Queued!CallStates] /\ c7 \in [Callers -> BOOLEAN]
    BY <1>2 DEF Queued!CallStates
  <2>3. c10 \in [Queued!Tasks -> Nat] /\ c11 \in [Queued!Tasks -> Nat]
    BY <1>2
  <2>4. c4 \in [Queued!Threads -> Queued!Tasks \cup {Queued!None, Queued!Ended}]
    BY <1>2 DEF Queued!None
  <2>5. c6 \in [Callers -> Queued!Tasks \cup {Queued!None}]
    BY <1>2 DEF Queued!None
  <2> QED  BY <1>0, <1>1, <1>4, <2>1, <2>2, <2>3, <2>4, <2>5 DEF Queued!TypeOK
<1>6. QueuedData
  BY <1>5, QueuedDataHolds
<1>7. \A t \in Queued!Tasks : ~Queued!InWork(t) /\ ~Queued!OnThread(t) /\ ~Queued!WithCaller(t) /\ t > c8
  BY <1>1, <1>2, <1>4, <1>6 DEF Queued!InWork, Queued!OnThread, Queued!WithCaller, QueuedData
<1>8. QueuedInv
  <2>1. QueuedUnique
    BY <1>2, <1>4, <1>6 DEF QueuedUnique, QueuedData
  <2>2. \A t \in Queued!Tasks : QueuedTask(t)
    BY <1>1, <1>2, <1>6, <1>7 DEF QueuedTask, QueuedData
  <2>3. \A c \in Callers : QueuedCaller(c)
    BY <1>2 DEF QueuedCaller
  <2> QED  BY <2>1, <2>2, <2>3 DEF QueuedInv
<1> QED  BY <1>0, <1>5, <1>8, QueuedParts

\* A thread takes the first task of the queue.
LEMMA QueuedThreadTakes ==
    ASSUME Queued!IInv, NEW w \in Queued!Threads, Queued!ThreadTakes(w)
    PROVE  Queued!IInv'
<1>1. Queued!TypeOK /\ QueuedInv /\ QueuedUnique /\ Queued!SizeInv /\ QueuedData
  BY QueuedParts, QueuedDataHolds DEF QueuedInv
<1> DEFINE h == Head(c3)
<1>2. /\ c4[w] = 0 /\ c3 # <<>> /\ c4' = [c4 EXCEPT ![w] = h] /\ c3' = Tail(c3)
      /\ c10' = [c10 EXCEPT ![h] = @ + 1] /\ UNCHANGED <<c1, c2, c5, c6, c7, c8, c9, c11, c12>>
  BY DEF Queued!ThreadTakes, Queued!Runs, Queued!callVars, Queued!counts, Queued!None
<1>3. /\ h \in Queued!Tasks /\ Queued!InWork(h) /\ c3' \in Seq(Queued!Tasks)
      /\ \A i, j \in DOMAIN c3' : c3'[i] = c3'[j] => i = j
      /\ \A t : Queued!InWork(t)' <=> Queued!InWork(t) /\ t # h
  BY <1>1, <1>2, QueuedTakes DEF QueuedUnique, QueuedData
<1> HIDE DEF h
<1>4. QueuedTask(h) /\ ~Queued!OnThread(h) /\ ~Queued!WithCaller(h) /\ c10[h] = 0
  BY <1>1, <1>3 DEF QueuedInv, QueuedTask
<1>5. /\ c4' \in [Queued!Threads -> Queued!Tasks \cup {Queued!None, Queued!Ended}]
      /\ \A u, x \in Queued!Threads : c4'[u] = c4'[x] /\ c4'[x] \in Queued!Tasks => u = x
      /\ \A t \in Queued!Tasks : Queued!OnThread(t)' <=> Queued!OnThread(t) \/ t = h
  BY <1>1, <1>2, <1>3, <1>4, QueuedThreadGoes DEF QueuedData
<1>6. \A t \in Queued!Tasks : Queued!WithCaller(t)' <=> Queued!WithCaller(t)
  BY <1>2 DEF Queued!WithCaller
<1>7. /\ c10' \in [Queued!Tasks -> Nat] /\ c10'[h] = 1
      /\ \A t \in Queued!Tasks \ {h} : c10'[t] = c10[t]
  BY <1>1, <1>2, <1>3, <1>4 DEF QueuedData
<1>8. Queued!TypeOK'
  BY <1>1, <1>2, <1>3, <1>5, <1>7 DEF Queued!TypeOK
<1>9. QueuedInv'
  <2>1. QueuedUnique'
    BY <1>1, <1>2, <1>3, <1>5 DEF QueuedUnique
  <2>2. ASSUME NEW t \in Queued!Tasks PROVE QueuedTask(t)'
    <3>1. QueuedTask(t) /\ t \in Nat /\ c8 \in Nat
      BY <1>1 DEF QueuedInv, QueuedData
    <3>2. CASE t = h
      BY <1>2, <1>3, <1>4, <1>5, <1>6, <1>7, <3>1, <3>2 DEF QueuedTask
    <3>3. CASE t # h
      BY <1>2, <1>3, <1>5, <1>6, <1>7, <3>1, <3>3 DEF QueuedTask
    <3> QED  BY <3>2, <3>3
  <2>3. ASSUME NEW c \in Callers PROVE QueuedCaller(c)'
    <3>1. QueuedCaller(c) /\ c6[c] # h
      BY <1>1, <1>4 DEF QueuedInv, Queued!WithCaller
    <3> QED  BY <1>2, <1>7, <3>1 DEF QueuedCaller
  <2> QED  BY <2>1, <2>2, <2>3 DEF QueuedInv
<1> QED  BY <1>1, <1>2, <1>8, <1>9, QueuedPartsNext DEF Queued!SizeInv

\* The task of a thread is over.
LEMMA QueuedThreadEnds ==
    ASSUME Queued!IInv, NEW w \in Queued!Threads, Queued!ThreadEnds(w)
    PROVE  Queued!IInv'
<1>1. Queued!TypeOK /\ QueuedInv /\ QueuedUnique /\ Queued!SizeInv /\ QueuedData
  BY QueuedParts, QueuedDataHolds DEF QueuedInv
<1> DEFINE h == c4[w]
<1>2. /\ h \in Queued!Tasks /\ c4' = [c4 EXCEPT ![w] = Queued!None]
      /\ c11' = [c11 EXCEPT ![h] = @ + 1] /\ UNCHANGED <<c1, c2, c3, c5, c6, c7, c8, c9, c10, c12>>
  BY DEF Queued!ThreadEnds, Queued!Deletes, Queued!callVars, Queued!counts
<1>3. Queued!OnThread(h)
  BY DEF Queued!OnThread
<1>4. QueuedTask(h) /\ ~Queued!InWork(h) /\ ~Queued!WithCaller(h) /\ c10[h] = 1 /\ c11[h] = 0 /\ h <= c8
  BY <1>1, <1>2, <1>3 DEF QueuedInv, QueuedTask
<1>5. /\ c4' \in [Queued!Threads -> Queued!Tasks \cup {Queued!None, Queued!Ended}]
      /\ \A u, x \in Queued!Threads : c4'[u] = c4'[x] /\ c4'[x] \in Queued!Tasks => u = x
      /\ \A t \in Queued!Tasks : Queued!OnThread(t)' <=> Queued!OnThread(t) /\ t # h
  <2>1. Queued!None \in Queued!Tasks \cup {Queued!None, Queued!Ended} /\ Queued!None \notin Queued!Tasks
    BY <1>1 DEF QueuedData
  <2> QED  BY <1>1, <1>2, <2>1, QueuedThreadGoes
<1> HIDE DEF h
<1>6. \A t \in Queued!Tasks : /\ Queued!WithCaller(t)' <=> Queued!WithCaller(t)
                              /\ Queued!InWork(t)' <=> Queued!InWork(t)
  BY <1>2 DEF Queued!WithCaller, Queued!InWork
<1>7. /\ c11' \in [Queued!Tasks -> Nat] /\ c11'[h] = 1
      /\ \A t \in Queued!Tasks \ {h} : c11'[t] = c11[t]
  BY <1>1, <1>2, <1>4 DEF QueuedData
<1>8. Queued!TypeOK'
  BY <1>1, <1>2, <1>5, <1>7 DEF Queued!TypeOK
<1>9. QueuedInv'
  <2>1. QueuedUnique'
    BY <1>1, <1>2, <1>5 DEF QueuedUnique
  <2>2. ASSUME NEW t \in Queued!Tasks PROVE QueuedTask(t)'
    <3>1. QueuedTask(t) /\ t \in Nat /\ c8 \in Nat
      BY <1>1 DEF QueuedInv, QueuedData
    <3>2. CASE t = h
      BY <1>2, <1>4, <1>5, <1>6, <1>7, <3>1, <3>2 DEF QueuedTask
    <3>3. CASE t # h
      BY <1>2, <1>5, <1>6, <1>7, <3>1, <3>3 DEF QueuedTask
    <3> QED  BY <3>2, <3>3
  <2>3. ASSUME NEW c \in Callers PROVE QueuedCaller(c)'
    <3>1. QueuedCaller(c)
      BY <1>1 DEF QueuedInv
    <3> QED  BY <1>2, <3>1 DEF QueuedCaller
  <2> QED  BY <2>1, <2>2, <2>3 DEF QueuedInv
<1> QED  BY <1>1, <1>2, <1>8, <1>9, QueuedPartsNext DEF Queued!SizeInv

\* A caller deletes its task: dropped because the executor is closed, or run.
LEMMA QueuedCallerDeletes ==
    ASSUME Queued!IInv, Queued!TypeOK', NEW c \in Callers, c6[c] \in Queued!Tasks, c2 \/ c10[c6[c]] = 1,
           c6' = [c6 EXCEPT ![c] = 0], c5' = [c5 EXCEPT ![c] = "out"],
           c11' = [c11 EXCEPT ![c6[c]] = @ + 1], UNCHANGED <<c1, c2, c3, c4, c8, c10>>
    PROVE  Queued!IInv'
<1>1. Queued!TypeOK /\ QueuedInv /\ QueuedUnique /\ Queued!SizeInv /\ QueuedData
  BY QueuedParts, QueuedDataHolds DEF QueuedInv
<1> DEFINE h == c6[c]
<1>3. Queued!WithCaller(h)
  BY DEF Queued!WithCaller
<1>4. QueuedTask(h) /\ ~Queued!InWork(h) /\ ~Queued!OnThread(h) /\ c11[h] = 0 /\ h <= c8 /\ c10[h] \in 0..1
  <2>1. QueuedTask(h) /\ QueuedCaller(c) /\ c5[c] \in Queued!CallStates
    BY <1>1 DEF QueuedInv, QueuedData
  <2>2. c10[h] \in 0..1
    BY <1>1, <2>1 DEF QueuedCaller, Queued!CallStates, QueuedData
  <2> QED  BY <1>3, <2>1, <2>2 DEF QueuedTask
<1>5. /\ \A d, e \in Callers : c6'[d] = c6'[e] /\ c6'[e] # 0 => d = e
      /\ \A t \in Queued!Tasks : Queued!WithCaller(t)' <=> Queued!WithCaller(t) /\ t # h
  <2>1. 0 \in Queued!Tasks \cup {0} /\ 0 \notin Queued!Tasks
    BY <1>1 DEF QueuedData
  <2> QED  BY <1>1, <2>1, QueuedCallerGoes
<1>6. \A t \in Queued!Tasks : /\ Queued!OnThread(t)' <=> Queued!OnThread(t)
                              /\ Queued!InWork(t)' <=> Queued!InWork(t)
  BY DEF Queued!OnThread, Queued!InWork
<1>7. c11'[h] = 1 /\ \A t \in Queued!Tasks \ {h} : c11'[t] = c11[t]
  BY <1>1, <1>4 DEF QueuedData
<1>8. /\ c5'[c] = "out" /\ c6'[c] = 0
      /\ \A d \in Callers \ {c} : c5'[d] = c5[d] /\ c6'[d] = c6[d]
  BY <1>1 DEF QueuedData
<1>9. QueuedInv'
  <2>1. QueuedUnique'
    BY <1>1, <1>5 DEF QueuedUnique
  <2>2. ASSUME NEW t \in Queued!Tasks PROVE QueuedTask(t)'
    <3>1. QueuedTask(t) /\ t \in Nat /\ c8 \in Nat
      BY <1>1 DEF QueuedInv, QueuedData
    <3>2. CASE t = h
      BY <1>4, <1>5, <1>6, <1>7, <3>1, <3>2 DEF QueuedTask
    <3>3. CASE t # h
      BY <1>5, <1>6, <1>7, <3>1, <3>3 DEF QueuedTask
    <3> QED  BY <3>2, <3>3
  <2>3. ASSUME NEW d \in Callers PROVE QueuedCaller(d)'
    <3>1. QueuedCaller(d)
      BY <1>1 DEF QueuedInv
    <3> QED  BY <1>8, <3>1 DEF QueuedCaller
  <2> QED  BY <2>1, <2>2, <2>3 DEF QueuedInv
<1> QED  BY <1>1, <1>9, QueuedPartsNext DEF Queued!SizeInv

\* A step that moves no task, counts nothing and reopens nothing.
LEMMA QueuedQuiet ==
    ASSUME Queued!IInv, Queued!TypeOK', Queued!SizeInv', UNCHANGED <<c3, c6, c8, c10, c11>>, c2 => c2',
           \A u, x \in Queued!Threads : c4'[u] = c4'[x] /\ c4'[x] \in Queued!Tasks => u = x,
           \A t \in Queued!Tasks : Queued!OnThread(t)' <=> Queued!OnThread(t),
           \A d \in Callers : \/ c5'[d] = c5[d]
                              \/ {c5[d], c5'[d]} \subseteq {"out", "idle", "busy", "joining"}
                              \/ c5[d] = "execute" /\ c5'[d] = "checked"
    PROVE  Queued!IInv'
<1>1. QueuedInv /\ QueuedUnique
  BY QueuedParts DEF QueuedInv
<1>2. QueuedUnique'
  BY <1>1 DEF QueuedUnique
<1>3. ASSUME NEW t \in Queued!Tasks PROVE QueuedTask(t)'
  <2>1. QueuedTask(t)
    BY <1>1 DEF QueuedInv
  <2>2. /\ Queued!WithCaller(t)' <=> Queued!WithCaller(t)
        /\ Queued!InWork(t)' <=> Queued!InWork(t)
    BY DEF Queued!WithCaller, Queued!InWork
  <2> QED  BY <2>1, <2>2 DEF QueuedTask
<1>4. ASSUME NEW d \in Callers PROVE QueuedCaller(d)'
  <2>1. QueuedCaller(d)
    BY <1>1 DEF QueuedInv
  <2> QED  BY <2>1 DEF QueuedCaller
<1>5. QueuedInv'
  BY <1>2, <1>3, <1>4 DEF QueuedInv
<1> QED  BY <1>5, QueuedPartsNext

\* The same when the threads do not move.
LEMMA QueuedCallQuiet ==
    ASSUME Queued!IInv, Queued!TypeOK', Queued!SizeInv', UNCHANGED <<c3, c4, c6, c8, c10, c11>>, c2 => c2',
           \A d \in Callers : \/ c5'[d] = c5[d]
                              \/ {c5[d], c5'[d]} \subseteq {"out", "idle", "busy", "joining"}
                              \/ c5[d] = "execute" /\ c5'[d] = "checked"
    PROVE  Queued!IInv'
<1>1. \A u, x \in Queued!Threads : c4'[u] = c4'[x] /\ c4'[x] \in Queued!Tasks => u = x
  BY QueuedParts DEF QueuedInv, QueuedUnique
<1>2. \A t \in Queued!Tasks : Queued!OnThread(t)' <=> Queued!OnThread(t)
  BY DEF Queued!OnThread
<1> QED  BY <1>1, <1>2, QueuedQuiet

\* A thread of a closed executor is gone.
LEMMA QueuedThreadLeaves ==
    ASSUME Queued!IInv, NEW w \in Queued!Threads, Queued!ThreadLeaves(w)
    PROVE  Queued!IInv'
<1>1. Queued!TypeOK /\ QueuedUnique /\ Queued!SizeInv /\ QueuedData
  BY QueuedParts, QueuedDataHolds DEF QueuedInv
<1>2. /\ c4[w] = Queued!None /\ c4' = [c4 EXCEPT ![w] = Queued!Ended]
      /\ UNCHANGED <<c1, c2, c3, c5, c6, c7, c8, c9, c10, c11, c12>>
  BY DEF Queued!ThreadLeaves, Queued!callVars, Queued!counts
<1>3. /\ Queued!Ended \in Queued!Tasks \cup {Queued!None, Queued!Ended}
      /\ Queued!Ended \notin Queued!Tasks /\ Queued!None \notin Queued!Tasks
  BY <1>1 DEF QueuedData
<1>4. /\ c4' \in [Queued!Threads -> Queued!Tasks \cup {Queued!None, Queued!Ended}]
      /\ \A u, x \in Queued!Threads : c4'[u] = c4'[x] /\ c4'[x] \in Queued!Tasks => u = x
      /\ \A t \in Queued!Tasks : Queued!OnThread(t)' <=> Queued!OnThread(t)
  BY <1>1, <1>2, <1>3, QueuedThreadGoes
<1>5. Queued!TypeOK'
  BY <1>1, <1>2, <1>4 DEF Queued!TypeOK
<1> QED  BY <1>1, <1>2, <1>4, <1>5, QueuedQuiet DEF Queued!SizeInv

\* execute() is called with the next task.
LEMMA QueuedCallExecute ==
    ASSUME Queued!IInv, NEW c \in Callers, Queued!CallExecute(c)
    PROVE  Queued!IInv'
<1>1. Queued!TypeOK /\ QueuedInv /\ QueuedUnique /\ Queued!SizeInv /\ QueuedData
  BY QueuedParts, QueuedDataHolds DEF QueuedInv
<1> DEFINE h == c8 + 1
<1>2. /\ c5[c] = "out" /\ c8 < MaxTasks /\ c8' = h /\ c6' = [c6 EXCEPT ![c] = h]
      /\ c5' = [c5 EXCEPT ![c] = "execute"] /\ UNCHANGED <<c1, c2, c3, c4, c7, c9, c10, c11, c12>>
  BY DEF Queued!CallExecute, Queued!GoTo
<1>3. h \in Queued!Tasks /\ h \in Nat /\ h > c8 /\ h # 0 /\ c8 \in Nat /\ c8' \in 0..MaxTasks
  BY <1>1, <1>2 DEF QueuedData
<1>4. /\ QueuedTask(h) /\ ~Queued!InWork(h) /\ ~Queued!OnThread(h) /\ ~Queued!WithCaller(h)
      /\ c10[h] = 0 /\ c11[h] = 0
  BY <1>1, <1>3 DEF QueuedInv, QueuedTask
<1> HIDE DEF h
<1>5. /\ c6' \in [Callers -> Queued!Tasks \cup {Queued!None}]
      /\ \A d, e \in Callers : c6'[d] = c6'[e] /\ c6'[e] # 0 => d = e
      /\ \A t \in Queued!Tasks : Queued!WithCaller(t)' <=> (Queued!WithCaller(t) /\ t # c6[c]) \/ t = h
  BY <1>1, <1>2, <1>3, <1>4, QueuedCallerGoes
<1>6. c6[c] \notin Queued!Tasks
  BY <1>1, <1>2 DEF QueuedInv, QueuedCaller, QueuedData
<1>7. \A t \in Queued!Tasks : /\ Queued!OnThread(t)' <=> Queued!OnThread(t)
                              /\ Queued!InWork(t)' <=> Queued!InWork(t)
  BY <1>2 DEF Queued!OnThread, Queued!InWork
<1>8. /\ c5'[c] = "execute" /\ c6'[c] = h /\ c5' \in [Callers -> Queued!CallStates]
      /\ \A d \in Callers \ {c} : c5'[d] = c5[d] /\ c6'[d] = c6[d]
  BY <1>1, <1>2 DEF QueuedData, Queued!CallStates
<1>9. Queued!TypeOK'
  BY <1>1, <1>2, <1>3, <1>5, <1>8 DEF Queued!TypeOK
<1>10. QueuedInv'
  <2>1. QueuedUnique'
    BY <1>1, <1>2, <1>5 DEF QueuedUnique
  <2>2. ASSUME NEW t \in Queued!Tasks PROVE QueuedTask(t)'
    <3>1. QueuedTask(t) /\ t \in Nat /\ (t # h => (t <= c8' <=> t <= c8) /\ (t > c8' <=> t > c8))
      BY <1>1, <1>2, <1>3 DEF QueuedInv, QueuedData, h
    <3>2. CASE t = h
      BY <1>2, <1>3, <1>4, <1>5, <1>7, <3>1, <3>2 DEF QueuedTask
    <3>3. CASE t # h
      BY <1>2, <1>5, <1>6, <1>7, <3>1, <3>3 DEF QueuedTask
    <3> QED  BY <3>2, <3>3
  <2>3. ASSUME NEW d \in Callers PROVE QueuedCaller(d)'
    <3>1. QueuedCaller(d)
      BY <1>1 DEF QueuedInv
    <3> QED  BY <1>2, <1>3, <1>4, <1>8, <3>1 DEF QueuedCaller
  <2> QED  BY <2>1, <2>2, <2>3 DEF QueuedInv
<1> QED  BY <1>1, <1>2, <1>9, <1>10, QueuedPartsNext DEF Queued!SizeInv

\* The executor is closed: the task of the call is deleted.
LEMMA QueuedDropped ==
    ASSUME Queued!IInv, NEW c \in Callers, c5[c] \in {"execute", "checked"}, c2, Queued!Dropped(c),
           UNCHANGED <<c1, c2, c3, c4, c7, c8, c9, c10, c12>>
    PROVE  Queued!IInv'
<1>1. Queued!TypeOK /\ QueuedInv /\ QueuedData
  BY QueuedParts, QueuedDataHolds
<1>2. /\ c11' = [c11 EXCEPT ![c6[c]] = @ + 1] /\ c6' = [c6 EXCEPT ![c] = 0] /\ c5' = [c5 EXCEPT ![c] = "out"]
  BY DEF Queued!Dropped, Queued!Deletes, Queued!GoTo, Queued!None
<1>3. c6[c] \in Queued!Tasks
  BY <1>1 DEF QueuedInv, QueuedCaller
<1>4. Queued!TypeOK'
  <2>1. c11' \in [Queued!Tasks -> Nat]
    BY <1>1, <1>2, <1>3 DEF QueuedData
  <2>2. c6' \in [Callers -> Queued!Tasks \cup {Queued!None}] /\ c5' \in [Callers -> Queued!CallStates]
    BY <1>1, <1>2 DEF QueuedData, Queued!CallStates
  <2> QED  BY <1>1, <2>1, <2>2 DEF Queued!TypeOK
<1> QED  BY <1>2, <1>3, <1>4, QueuedCallerDeletes

\* The first check of execute().
LEMMA QueuedExecute ==
    ASSUME Queued!IInv, NEW c \in Callers, Queued!Execute(c)
    PROVE  Queued!IInv'
<1>1. Queued!TypeOK /\ QueuedData /\ Queued!SizeInv
  BY QueuedParts, QueuedDataHolds
<1>2. c5[c] = "execute" /\ UNCHANGED <<c1, c2, c3, c4, c7, c8, c9, c10, c12>>
  BY DEF Queued!Execute, Queued!counts
<1>3. CASE c2
  BY <1>2, <1>3, QueuedDropped DEF Queued!Execute
<1>4. CASE ~c2
  <2>1. c5' = [c5 EXCEPT ![c] = "checked"] /\ UNCHANGED <<c6, c11>>
    BY <1>4 DEF Queued!Execute, Queued!GoTo
  <2>2. /\ c5' \in [Callers -> Queued!CallStates] /\ c5'[c] = "checked"
        /\ \A d \in Callers \ {c} : c5'[d] = c5[d]
    BY <1>1, <2>1 DEF QueuedData, Queued!CallStates
  <2>3. Queued!TypeOK'
    BY <1>1, <1>2, <2>1, <2>2 DEF Queued!TypeOK
  <2> QED  BY <1>1, <1>2, <2>1, <2>2, <2>3, QueuedCallQuiet DEF Queued!SizeInv
<1> QED  BY <1>3, <1>4

\* The task is submitted to the executor.
LEMMA QueuedSubmit ==
    ASSUME Queued!IInv, NEW c \in Callers, Queued!Submit(c)
    PROVE  Queued!IInv'
<1>1. Queued!TypeOK /\ QueuedInv /\ QueuedUnique /\ Queued!SizeInv /\ QueuedData
  BY QueuedParts, QueuedDataHolds DEF QueuedInv
<1>2. c5[c] = "checked" /\ UNCHANGED <<c1, c2, c4, c7, c8, c9, c10, c12>>
  BY DEF Queued!Submit, Queued!counts
<1>3. CASE c2
  <2>1. Queued!Dropped(c) /\ UNCHANGED c3
    BY <1>3 DEF Queued!Submit
  <2> QED  BY <1>2, <1>3, <2>1, QueuedDropped
<1>4. CASE ~c2
  <2> DEFINE h == c6[c]
  <2>1. c3' = Append(c3, h) /\ c6' = [c6 EXCEPT ![c] = 0] /\ c5' = [c5 EXCEPT ![c] = "out"] /\ UNCHANGED c11
    BY <1>4 DEF Queued!Submit, Queued!GoTo, Queued!None
  <2>2. h \in Queued!Tasks /\ c10[h] = 0 /\ Queued!WithCaller(h)
    BY <1>1, <1>2 DEF QueuedInv, QueuedCaller, Queued!WithCaller
  <2>3. QueuedTask(h) /\ ~Queued!InWork(h) /\ ~Queued!OnThread(h) /\ c11[h] = 0 /\ h <= c8
    BY <1>1, <2>2 DEF QueuedInv, QueuedTask
  <2>4. /\ c6' \in [Callers -> Queued!Tasks \cup {Queued!None}]
        /\ \A d, e \in Callers : c6'[d] = c6'[e] /\ c6'[e] # 0 => d = e
        /\ \A t \in Queued!Tasks : Queued!WithCaller(t)' <=> Queued!WithCaller(t) /\ t # h
    <3>1. 0 \in Queued!Tasks \cup {0} /\ 0 \notin Queued!Tasks
      BY <1>1 DEF QueuedData
    <3> QED  BY <1>1, <2>1, <3>1, QueuedCallerGoes
  <2> HIDE DEF h
  <2>5. /\ c3' \in Seq(Queued!Tasks)
        /\ \A i, j \in DOMAIN c3' : c3'[i] = c3'[j] => i = j
        /\ \A t : Queued!InWork(t)' <=> Queued!InWork(t) \/ t = h
    BY <1>1, <2>1, <2>2, <2>3, QueuedAppends DEF QueuedUnique, QueuedData
  <2>6. \A t \in Queued!Tasks : Queued!OnThread(t)' <=> Queued!OnThread(t)
    BY <1>2 DEF Queued!OnThread
  <2>7. /\ c5'[c] = "out" /\ c6'[c] = 0 /\ c5' \in [Callers -> Queued!CallStates]
        /\ \A d \in Callers \ {c} : c5'[d] = c5[d] /\ c6'[d] = c6[d]
    BY <1>1, <2>1 DEF QueuedData, Queued!CallStates
  <2>8. Queued!TypeOK'
    BY <1>1, <1>2, <2>1, <2>4, <2>5, <2>7 DEF Queued!TypeOK
  <2>9. QueuedInv'
    <3>1. QueuedUnique'
      BY <1>1, <1>2, <2>4, <2>5 DEF QueuedUnique
    <3>2. ASSUME NEW t \in Queued!Tasks PROVE QueuedTask(t)'
      <4>1. QueuedTask(t) /\ t \in Nat /\ c8 \in Nat
        BY <1>1 DEF QueuedInv, QueuedData
      <4>2. CASE t = h
        BY <1>2, <2>1, <2>2, <2>3, <2>4, <2>5, <2>6, <4>1, <4>2 DEF QueuedTask
      <4>3. CASE t # h
        BY <1>2, <2>1, <2>4, <2>5, <2>6, <4>1, <4>3 DEF QueuedTask
      <4> QED  BY <4>2, <4>3
    <3>3. ASSUME NEW d \in Callers PROVE QueuedCaller(d)'
      <4>1. QueuedCaller(d)
        BY <1>1 DEF QueuedInv
      <4> QED  BY <1>2, <2>7, <4>1 DEF QueuedCaller
    <3> QED  BY <3>1, <3>2, <3>3 DEF QueuedInv
  <2> QED  BY <1>1, <1>2, <2>8, <2>9, QueuedPartsNext DEF Queued!SizeInv
<1> QED  BY <1>3, <1>4

\* is_idle() or is_busy() is called.
LEMMA QueuedAsk ==
    ASSUME Queued!IInv, NEW c \in Callers, Queued!Ask(c)
    PROVE  Queued!IInv'
<1>1. Queued!TypeOK /\ QueuedData /\ Queued!SizeInv /\ MaxAsks \in Nat
  BY QueuedParts, QueuedDataHolds, ProgramsAssumption
<1>2. /\ c5[c] = "out" /\ c9 < MaxAsks /\ c9' = c9 + 1
      /\ UNCHANGED <<c1, c2, c3, c4, c6, c8, c10, c11, c12>>
  BY DEF Queued!Ask
<1>3. \/ c5' = c5 /\ \E a \in BOOLEAN : c7' = [c7 EXCEPT ![c] = a]
      \/ (c5' = [c5 EXCEPT ![c] = "idle"] \/ c5' = [c5 EXCEPT ![c] = "busy"]) /\ c7' = c7
  BY DEF Queued!Ask, Queued!GoTo
<1>4. /\ c5' \in [Callers -> Queued!CallStates]
      /\ \A d \in Callers : c5'[d] = c5[d] \/ {c5[d], c5'[d]} \subseteq {"out", "idle", "busy", "joining"}
  BY <1>1, <1>2, <1>3 DEF QueuedData, Queued!CallStates
<1>5. c7' \in [Callers -> BOOLEAN] /\ c9' \in 0..MaxAsks
  BY <1>1, <1>2, <1>3 DEF Queued!TypeOK
<1>6. Queued!TypeOK'
  BY <1>1, <1>2, <1>4, <1>5 DEF Queued!TypeOK
<1> QED  BY <1>1, <1>2, <1>4, <1>6, QueuedCallQuiet DEF Queued!SizeInv

\* A caller tries to run a task of the queue.
LEMMA QueuedTryOne ==
    ASSUME Queued!IInv, NEW c \in Callers, Queued!TryOne(c)
    PROVE  Queued!IInv'
<1>1. Queued!TypeOK /\ QueuedInv /\ QueuedUnique /\ Queued!SizeInv /\ QueuedData
  BY QueuedParts, QueuedDataHolds DEF QueuedInv
<1>2. c5[c] \in {"idle", "busy"} /\ UNCHANGED <<c1, c2, c4, c8, c9, c11, c12>>
  BY DEF Queued!TryOne, Queued!counts
<1>3. CASE c3 = <<>>
  <2>1. /\ c7' = [c7 EXCEPT ![c] = (c5[c] = "idle")] /\ c5' = [c5 EXCEPT ![c] = "out"]
        /\ UNCHANGED <<c3, c6, c10>>
    BY <1>3 DEF Queued!TryOne, Queued!GoTo
  <2>2. /\ c5' \in [Callers -> Queued!CallStates]
        /\ \A d \in Callers : c5'[d] = c5[d] \/ {c5[d], c5'[d]} \subseteq {"out", "idle", "busy", "joining"}
    BY <1>1, <1>2, <2>1 DEF QueuedData, Queued!CallStates
  <2>3. c7' \in [Callers -> BOOLEAN]
    <3>1. (c5[c] = "idle") \in BOOLEAN
      OBVIOUS
    <3> QED  BY <1>1, <2>1, <3>1 DEF Queued!TypeOK
  <2>4. Queued!TypeOK'
    BY <1>1, <1>2, <2>1, <2>2, <2>3 DEF Queued!TypeOK
  <2> QED  BY <1>1, <1>2, <2>1, <2>2, <2>4, QueuedCallQuiet DEF Queued!SizeInv
<1>4. CASE c3 # <<>>
  <2> DEFINE h == Head(c3)
             p == IF c5[c] = "idle" THEN "runsForIdle" ELSE "runsForBusy"
  <2>1. /\ c3' = Tail(c3) /\ c6' = [c6 EXCEPT ![c] = h] /\ c10' = [c10 EXCEPT ![h] = @ + 1]
        /\ c5' = [c5 EXCEPT ![c] = p] /\ c7' = c7
    BY <1>4 DEF Queued!TryOne, Queued!Stolen, Queued!Runs, Queued!GoTo
  <2>2. /\ h \in Queued!Tasks /\ Queued!InWork(h) /\ c3' \in Seq(Queued!Tasks)
        /\ \A i, j \in DOMAIN c3' : c3'[i] = c3'[j] => i = j
        /\ \A t : Queued!InWork(t)' <=> Queued!InWork(t) /\ t # h
    BY <1>1, <1>4, <2>1, QueuedTakes DEF QueuedUnique, QueuedData
  <2>3. p \in {"runsForIdle", "runsForBusy"}
    OBVIOUS
  <2> HIDE DEF h, p
  <2>4. QueuedTask(h) /\ ~Queued!OnThread(h) /\ ~Queued!WithCaller(h) /\ c10[h] = 0
    BY <1>1, <2>2 DEF QueuedInv, QueuedTask
  <2>5. c6[c] = 0 /\ 0 \notin Queued!Tasks /\ h # 0
    BY <1>1, <1>2, <2>2 DEF QueuedInv, QueuedCaller, QueuedData
  <2>6. /\ c6' \in [Callers -> Queued!Tasks \cup {Queued!None}]
        /\ \A d, e \in Callers : c6'[d] = c6'[e] /\ c6'[e] # 0 => d = e
        /\ \A t \in Queued!Tasks : Queued!WithCaller(t)' <=> Queued!WithCaller(t) \/ t = h
    BY <1>1, <2>1, <2>2, <2>4, <2>5, QueuedCallerGoes
  <2>7. \A t \in Queued!Tasks : Queued!OnThread(t)' <=> Queued!OnThread(t)
    BY <1>2 DEF Queued!OnThread
  <2>8. /\ c10' \in [Queued!Tasks -> Nat] /\ c10'[h] = 1
        /\ \A t \in Queued!Tasks \ {h} : c10'[t] = c10[t]
    BY <1>1, <2>1, <2>2, <2>4 DEF QueuedData
  <2>9. /\ c5'[c] = p /\ c6'[c] = h /\ c5' \in [Callers -> Queued!CallStates]
        /\ \A d \in Callers \ {c} : c5'[d] = c5[d] /\ c6'[d] = c6[d]
    BY <1>1, <2>1, <2>3 DEF QueuedData, Queued!CallStates
  <2>10. Queued!TypeOK'
    BY <1>1, <1>2, <2>1, <2>2, <2>6, <2>8, <2>9 DEF Queued!TypeOK
  <2>11. QueuedInv'
    <3>1. QueuedUnique'
      BY <1>1, <1>2, <2>2, <2>6 DEF QueuedUnique
    <3>2. ASSUME NEW t \in Queued!Tasks PROVE QueuedTask(t)'
      <4>1. QueuedTask(t) /\ t \in Nat /\ c8 \in Nat
        BY <1>1 DEF QueuedInv, QueuedData
      <4>2. CASE t = h
        BY <1>2, <2>2, <2>4, <2>6, <2>7, <2>8, <4>1, <4>2 DEF QueuedTask
      <4>3. CASE t # h
        BY <1>2, <2>2, <2>6, <2>7, <2>8, <4>1, <4>3 DEF QueuedTask
      <4> QED  BY <4>2, <4>3
    <3>3. ASSUME NEW d \in Callers PROVE QueuedCaller(d)'
      <4>1. QueuedCaller(d) /\ c6[d] # h
        BY <1>1, <2>4 DEF QueuedInv, Queued!WithCaller
      <4>2. CASE d = c
        BY <2>2, <2>3, <2>8, <2>9, <4>2 DEF QueuedCaller
      <4>3. CASE d # c
        BY <2>8, <2>9, <4>1, <4>3 DEF QueuedCaller
      <4> QED  BY <4>2, <4>3
    <3> QED  BY <3>1, <3>2, <3>3 DEF QueuedInv
  <2> QED  BY <1>1, <1>2, <2>10, <2>11, QueuedPartsNext DEF Queued!SizeInv
<1> QED  BY <1>3, <1>4

\* The task that a caller has run is over.
LEMMA QueuedTriedOne ==
    ASSUME Queued!IInv, NEW c \in Callers, Queued!TriedOne(c)
    PROVE  Queued!IInv'
<1>1. Queued!TypeOK /\ QueuedInv /\ QueuedData
  BY QueuedParts, QueuedDataHolds
<1>2. /\ c5[c] \in {"runsForIdle", "runsForBusy"} /\ c11' = [c11 EXCEPT ![c6[c]] = @ + 1]
      /\ c6' = [c6 EXCEPT ![c] = 0] /\ c7' = [c7 EXCEPT ![c] = (c5[c] = "runsForBusy")]
      /\ c5' = [c5 EXCEPT ![c] = "out"] /\ UNCHANGED <<c1, c2, c3, c4, c8, c9, c10, c12>>
  BY DEF Queued!TriedOne, Queued!Deletes, Queued!GoTo, Queued!None, Queued!counts
<1>3. c6[c] \in Queued!Tasks /\ c10[c6[c]] = 1
  BY <1>1, <1>2 DEF QueuedInv, QueuedCaller
<1>4. Queued!TypeOK'
  <2>1. c11' \in [Queued!Tasks -> Nat]
    BY <1>1, <1>2, <1>3 DEF QueuedData
  <2>2. c6' \in [Callers -> Queued!Tasks \cup {Queued!None}] /\ c5' \in [Callers -> Queued!CallStates]
    BY <1>1, <1>2 DEF QueuedData, Queued!CallStates
  <2>3. c7' \in [Callers -> BOOLEAN]
    <3>1. (c5[c] = "runsForBusy") \in BOOLEAN
      OBVIOUS
    <3> QED  BY <1>1, <1>2, <3>1 DEF Queued!TypeOK
  <2> QED  BY <1>1, <1>2, <2>1, <2>2, <2>3 DEF Queued!TypeOK
<1> QED  BY <1>2, <1>3, <1>4, QueuedCallerDeletes

\* terminate() and the destructor.
LEMMA QueuedEnding ==
    ASSUME Queued!IInv, NEW c \in Callers, Queued!Terminate(c) \/ Queued!CallDestroy(c) \/ Queued!Destroy(c)
    PROVE  Queued!IInv'
<1>1. Queued!TypeOK /\ QueuedData /\ Queued!SizeInv
  BY QueuedParts, QueuedDataHolds
<1>2. UNCHANGED <<c1, c3, c4, c6, c7, c8, c9, c10, c11>>
  BY DEF Queued!Terminate, Queued!CallDestroy, Queued!Destroy, Queued!callVars, Queued!counts
<1>3. c2' \in BOOLEAN /\ (c2 => c2') /\ c12' \in {"whole", "terminated", "closing", "gone"}
  <2>1. c2 \in BOOLEAN /\ c12 \in {"whole", "terminated", "closing", "gone"}
    BY <1>1 DEF QueuedData, Queued!TypeOK
  <2>2. c12' \in {"whole", "terminated", "closing", "gone"}
    BY <2>1 DEF Queued!Terminate, Queued!CallDestroy, Queued!Destroy
  <2>3. (c2' = TRUE) \/ c2' = c2
    BY DEF Queued!Terminate, Queued!CallDestroy, Queued!Destroy, Queued!Closed
  <2> QED  BY <2>1, <2>2, <2>3
<1>4. \/ c5' = c5
      \/ c5[c] = "out" /\ c5' = [c5 EXCEPT ![c] = "joining"]
      \/ c5[c] = "joining" /\ c5' = [c5 EXCEPT ![c] = "out"]
  BY DEF Queued!Terminate, Queued!CallDestroy, Queued!Destroy, Queued!GoTo, Queued!callVars
<1>5. /\ c5' \in [Callers -> Queued!CallStates]
      /\ \A d \in Callers : c5'[d] = c5[d] \/ {c5[d], c5'[d]} \subseteq {"out", "idle", "busy", "joining"}
  BY <1>1, <1>4 DEF QueuedData, Queued!CallStates
<1>6. Queued!TypeOK'
  BY <1>1, <1>2, <1>3, <1>5 DEF Queued!TypeOK
<1> QED  BY <1>1, <1>2, <1>3, <1>5, <1>6, QueuedCallQuiet DEF Queued!SizeInv

LEMMA QueuedStep ==
    ASSUME Queued!IInv, [Queued!Next]_(Queued!vars)
    PROVE  Queued!IInv'
<1>1. ASSUME NEW w \in Queued!Threads, Queued!Thread(w) PROVE Queued!IInv'
  BY <1>1, QueuedThreadTakes, QueuedThreadEnds, QueuedThreadLeaves DEF Queued!Thread
<1>2. ASSUME NEW c \in Callers, Queued!Call(c) PROVE Queued!IInv'
  BY <1>2, QueuedCallExecute, QueuedAsk, QueuedEnding DEF Queued!Call
<1>3. ASSUME NEW c \in Callers, Queued!Goes(c) PROVE Queued!IInv'
  BY <1>3, QueuedExecute, QueuedSubmit, QueuedTryOne, QueuedTriedOne, QueuedEnding DEF Queued!Goes
<1>4. CASE UNCHANGED Queued!vars
  <2>1. UNCHANGED <<c1, c2, c3, c4, c5, c6, c7, c8, c9, c10, c11, c12>>
    BY <1>4 DEF Queued!vars
  <2>2. Queued!TypeOK' /\ Queued!SizeInv'
    BY <2>1, QueuedParts DEF Queued!TypeOK, Queued!SizeInv
  <2> QED  BY <2>1, <2>2, QueuedCallQuiet
<1> QED  BY <1>1, <1>2, <1>3, <1>4 DEF Queued!Next

\* A set without two members has one or none.
LEMMA OneOrNone ==
    ASSUME NEW S, \A x, y \in S : x = y
    PROVE  Cardinality(S) = IF S = {} THEN 0 ELSE 1
<1>1. CASE S = {}
  BY <1>1, FS_EmptySet
<1>2. CASE S # {}
  <2>1. PICK x : S = {x}
    BY <1>2
  <2> QED  BY <2>1, FS_Singleton
<1> QED  BY <1>1, <1>2

LEMMA QueuedCardinality == \A S : Queued!Cardinality(S) = Cardinality(S)
  BY DEF Queued!Cardinality, Cardinality

\* The owners of a task, counted.
LEMMA QueuedSafe == Queued!IInv => Queued!TypeOK /\ Queued!TaskOwnership
<1> SUFFICES ASSUME Queued!IInv PROVE Queued!TypeOK /\ Queued!TaskOwnership
  OBVIOUS
<1>1. Queued!TypeOK /\ QueuedInv /\ QueuedUnique /\ QueuedData
  BY QueuedParts, QueuedDataHolds DEF QueuedInv
<1>2. ASSUME NEW t \in Queued!Tasks
      PROVE  /\ Queued!Holders(t) + c11[t] = IF t <= c8 THEN 1 ELSE 0
             /\ c10[t] <= 1
             /\ c11[t] = 1 /\ c10[t] = 0 => c2
  <2> DEFINE A == {i \in DOMAIN c3 : c3[i] = t}
             B == {w \in Queued!Threads : c4[w] = t}
             C == {c \in Callers : c6[c] = t}
  <2>1. QueuedTask(t) /\ t \in Nat /\ c8 \in Nat /\ t # 0 /\ c10[t] \in Nat /\ c11[t] \in Nat
    BY <1>1 DEF QueuedInv, QueuedData
  <2>2. (\A x, y \in A : x = y) /\ (\A x, y \in B : x = y) /\ (\A x, y \in C : x = y)
    BY <1>1, <2>1 DEF QueuedUnique
  <2>3. /\ A = {} <=> ~Queued!InWork(t)
        /\ B = {} <=> ~Queued!OnThread(t)
        /\ C = {} <=> ~Queued!WithCaller(t)
    BY DEF Queued!InWork, Queued!OnThread, Queued!WithCaller
  <2>4. Queued!Holders(t) = Cardinality(A) + Cardinality(B) + Cardinality(C)
    BY QueuedCardinality DEF Queued!Holders
  <2> HIDE DEF A, B, C
  <2>5. /\ Cardinality(A) = IF Queued!InWork(t) THEN 1 ELSE 0
        /\ Cardinality(B) = IF Queued!OnThread(t) THEN 1 ELSE 0
        /\ Cardinality(C) = IF Queued!WithCaller(t) THEN 1 ELSE 0
    BY <2>2, <2>3, OneOrNone
  <2>6. Queued!Holders(t) + c11[t] = IF t <= c8 THEN 1 ELSE 0
    BY <2>1, <2>4, <2>5 DEF QueuedTask
  <2>7. c10[t] <= 1 /\ (c11[t] = 1 /\ c10[t] = 0 => c2)
    <3>1. CASE Queued!WithCaller(t)
      <4>1. PICK c \in Callers : c6[c] = t
        BY <3>1 DEF Queued!WithCaller
      <4>2. QueuedCaller(c) /\ c5[c] \in Queued!CallStates
        BY <1>1 DEF QueuedInv, QueuedData
      <4>3. c10[t] \in 0..1
        BY <2>1, <4>1, <4>2 DEF QueuedCaller, Queued!CallStates
      <4> QED  BY <2>1, <3>1, <4>3 DEF QueuedTask
    <3>2. CASE ~Queued!WithCaller(t)
      BY <2>1, <3>2 DEF QueuedTask
    <3> QED  BY <3>1, <3>2
  <2> QED  BY <2>6, <2>7
<1> QED  BY <1>1, <1>2 DEF Queued!TaskOwnership

\* The two variables of the abstract pool.
QueuedLife ==
    [t \in Queued!Tasks |->
        CASE t > c8 \/ c1 = 0 -> "new"
          [] t <= c8 /\ c1 > 0 /\ c11[t] = 1 -> IF c10[t] = 1 THEN "finished" ELSE "discarded"
          [] t <= c8 /\ c1 > 0 /\ c11[t] = 0 -> IF c10[t] = 1 THEN "running" ELSE "accepted"]
QueuedClosing == c1 > 0 /\ c2

QueuedAbstractStep == Queued!TE!Next \/ UNCHANGED <<QueuedLife, QueuedClosing>>

\* The life of a task, read off the variables it is computed from.
QueuedLifeTable ==
    \A t \in Queued!Tasks :
        /\ t > c8 \/ c1 = 0 => QueuedLife[t] = "new"
        /\ t <= c8 /\ c1 > 0 =>
              \/ c10[t] = 0 /\ c11[t] = 0 /\ QueuedLife[t] = "accepted"
              \/ c10[t] = 1 /\ c11[t] = 0 /\ QueuedLife[t] = "running"
              \/ c10[t] = 1 /\ c11[t] = 1 /\ QueuedLife[t] = "finished"
              \/ c10[t] = 0 /\ c11[t] = 1 /\ QueuedLife[t] = "discarded"

LEMMA QueuedLifeIsTable == Queued!IInv => QueuedLifeTable
<1> SUFFICES ASSUME Queued!IInv, NEW t \in Queued!Tasks
             PROVE  /\ t > c8 \/ c1 = 0 => QueuedLife[t] = "new"
                    /\ t <= c8 /\ c1 > 0 =>
                          \/ c10[t] = 0 /\ c11[t] = 0 /\ QueuedLife[t] = "accepted"
                          \/ c10[t] = 1 /\ c11[t] = 0 /\ QueuedLife[t] = "running"
                          \/ c10[t] = 1 /\ c11[t] = 1 /\ QueuedLife[t] = "finished"
                          \/ c10[t] = 0 /\ c11[t] = 1 /\ QueuedLife[t] = "discarded"
  BY DEF QueuedLifeTable
<1>1. QueuedData /\ QueuedTask(t) /\ Queued!TypeOK /\ MaxSize \in Nat
  BY QueuedParts, QueuedDataHolds, ProgramsAssumption DEF QueuedInv
<1>2. t \in Nat /\ c8 \in Nat /\ c1 \in Nat /\ c10[t] \in Nat /\ c11[t] \in Nat
  BY <1>1 DEF QueuedData, Queued!TypeOK
<1>3. c10[t] \in 0..1 /\ c11[t] \in 0..1
  <2>1. c10[t] <= 1 /\ Queued!Holders(t) + c11[t] \in {0, 1}
    BY QueuedSafe DEF Queued!TaskOwnership
  <2>2. c11[t] \in 0..1
    BY <1>1, <1>2 DEF QueuedTask
  <2> QED  BY <1>2, <2>1, <2>2
<1>4. CASE t > c8 \/ c1 = 0
  BY <1>2, <1>4 DEF QueuedLife
<1>5. CASE t <= c8 /\ c1 > 0 /\ c11[t] = 1
  BY <1>2, <1>3, <1>5 DEF QueuedLife
<1>6. CASE t <= c8 /\ c1 > 0 /\ c11[t] = 0
  BY <1>2, <1>3, <1>6 DEF QueuedLife
<1> QED  BY <1>2, <1>3, <1>4, <1>5, <1>6

\* The table holds after a step too.
LEMMA QueuedLifeIsTableNext == Queued!IInv' => QueuedLifeTable'
  BY QueuedLifeIsTable, PTL

\* No step changes the number of threads or opens the executor again.
LEMMA QueuedKeeps ==
    ASSUME Queued!IInv, [Queued!Next]_(Queued!vars)
    PROVE  c1' = c1 /\ (c2 => c2') /\ c1 \in Nat /\ c2 \in BOOLEAN /\ c2' \in BOOLEAN
<1>0. c1 \in Nat /\ c2 \in BOOLEAN /\ c2' \in BOOLEAN
  <2>1. Queued!TypeOK /\ Queued!TypeOK' /\ MaxSize \in Nat
    <3>1. Queued!IInv'
      BY QueuedStep
    <3> QED  BY <3>1, ProgramsAssumption DEF Queued!IInv
  <2>2. c2 \in BOOLEAN
    BY <2>1 DEF Queued!TypeOK
  <2>3. c2' \in BOOLEAN
    BY <2>1 DEF Queued!TypeOK
  <2> QED  BY <2>1, <2>2, <2>3 DEF Queued!TypeOK
<1>1. ASSUME NEW w \in Queued!Threads, Queued!Thread(w) PROVE c1' = c1 /\ (c2 => c2')
  BY <1>1 DEF Queued!Thread, Queued!ThreadTakes, Queued!ThreadEnds, Queued!ThreadLeaves
<1>2. ASSUME NEW c \in Callers, Queued!Call(c) \/ Queued!Goes(c) PROVE c1' = c1 /\ (c2 => c2')
  BY <1>2
     DEF Queued!Call, Queued!Goes, Queued!CallExecute, Queued!Ask, Queued!Terminate, Queued!CallDestroy,
         Queued!Closed, Queued!Execute, Queued!Submit, Queued!TryOne, Queued!TriedOne, Queued!Destroy
<1>3. CASE UNCHANGED Queued!vars
  <2>1. c1' = c1 /\ c2' = c2
    BY <1>3 DEF Queued!vars
  <2> QED  BY <1>0, <2>1
<1> QED  BY <1>0, <1>1, <1>2, <1>3 DEF Queued!Next

QueuedLifeFunction == QueuedLife = [u \in Queued!Tasks |-> QueuedLife[u]]

LEMMA QueuedLifeIsFunction == QueuedLifeFunction
<1> DEFINE S(u) == CASE u > c8 \/ c1 = 0 -> "new"
                     [] u <= c8 /\ c1 > 0 /\ c11[u] = 1 -> IF c10[u] = 1 THEN "finished" ELSE "discarded"
                     [] u <= c8 /\ c1 > 0 /\ c11[u] = 0 -> IF c10[u] = 1 THEN "running" ELSE "accepted"
<1>1. QueuedLife = [u \in Queued!Tasks |-> S(u)]
  BY DEF QueuedLife
<1> HIDE DEF S
<1> QED  BY <1>1 DEF QueuedLifeFunction

LEMMA QueuedLifeIsFunctionNext == QueuedLifeFunction'
  BY QueuedLifeIsFunction, PTL

\* A step that changes the life of one task.
LEMMA QueuedLifeStep ==
    ASSUME NEW t \in Queued!Tasks, NEW s, QueuedLife'[t] = s,
           \A u \in Queued!Tasks \ {t} : QueuedLife'[u] = QueuedLife[u],
           QueuedClosing' = QueuedClosing
    PROVE  Queued!TE!Become(t, QueuedLife[t], s)
<1>1. QueuedLife' = [QueuedLife EXCEPT ![t] = s]
  <2>1. /\ QueuedLife = [u \in Queued!Tasks |-> QueuedLife[u]]
        /\ QueuedLife' = [u \in Queued!Tasks |-> QueuedLife'[u]]
    BY QueuedLifeIsFunction, QueuedLifeIsFunctionNext DEF QueuedLifeFunction
  <2> QED  BY <2>1
<1> QED  BY <1>1 DEF Queued!TE!Become, QueuedLife, QueuedClosing

\* A step that changes no life is a Close or a stutter.
LEMMA QueuedQuietMaps ==
    ASSUME Queued!IInv, [Queued!Next]_(Queued!vars), UNCHANGED <<c8, c10, c11>>
    PROVE  QueuedAbstractStep
<1>1. c1' = c1 /\ (c2 => c2') /\ c2 \in BOOLEAN /\ c2' \in BOOLEAN
  BY QueuedKeeps
<1>2. QueuedLife' = QueuedLife
  BY <1>1 DEF QueuedLife
<1>3. CASE c2' = c2
  BY <1>1, <1>2, <1>3 DEF QueuedAbstractStep, QueuedClosing
<1>4. CASE c1 > 0 /\ c2'
  <2>1. QueuedClosing' = TRUE
    BY <1>1, <1>4 DEF QueuedClosing
  <2>2. Queued!TE!Close
    BY <1>2, <2>1 DEF Queued!TE!Close, QueuedClosing, QueuedLife
  <2> QED  BY <2>2 DEF QueuedAbstractStep, Queued!TE!Next
<1>5. CASE ~(c1 > 0)
  <2>1. QueuedClosing' = QueuedClosing
    BY <1>1, <1>5 DEF QueuedClosing
  <2> QED  BY <1>2, <2>1 DEF QueuedAbstractStep
<1> QED  BY <1>1, <1>3, <1>4, <1>5

\* Without threads nothing is accepted.
LEMMA QueuedEmptyMaps ==
    ASSUME Queued!IInv, [Queued!Next]_(Queued!vars), c1 = 0
    PROVE  QueuedAbstractStep
<1>1. c1' = c1
  BY QueuedKeeps
<1>2. QueuedLife' = QueuedLife /\ QueuedClosing' = QueuedClosing
  BY <1>1 DEF QueuedLife, QueuedClosing
<1> QED  BY <1>2 DEF QueuedAbstractStep

\* Fewer tasks are run than there are threads and callers, when one of those has none.
LEMMA QueuedFewer ==
    ASSUME NEW V \in SUBSET Queued!Threads, NEW D \in SUBSET Callers,
           V # Queued!Threads \/ D # Callers,
           NEW R, \A t \in R : (\E w \in V : c4[w] = t) \/ (\E c \in D : c6[c] = t)
    PROVE  Cardinality(R) < MaxSize + Cardinality(Callers)
<1>0. MaxSize \in Nat /\ IsFiniteSet(Callers) /\ Cardinality(Callers) \in Nat
  BY ProgramsAssumption, FS_CardinalityType
<1>1. IsFiniteSet(Queued!Threads) /\ Cardinality(Queued!Threads) = MaxSize
  <2>1. MaxSize \in Int /\ 1 \in Int
    BY <1>0
  <2>2. IsFiniteSet(1..MaxSize) /\ Cardinality(1..MaxSize) = IF 1 > MaxSize THEN 0 ELSE MaxSize - 1 + 1
    BY <2>1, FS_Interval
  <2> QED  BY <1>0, <2>2 DEF Queued!Threads
<1>2. /\ IsFiniteSet(V) /\ Cardinality(V) <= MaxSize /\ (V # Queued!Threads => Cardinality(V) # MaxSize)
      /\ Cardinality(V) \in Nat
  BY <1>1, FS_Subset, FS_CardinalityType
<1>3. /\ IsFiniteSet(D) /\ Cardinality(D) <= Cardinality(Callers) /\ (D # Callers => Cardinality(D) # Cardinality(Callers))
      /\ Cardinality(D) \in Nat
  BY <1>0, FS_Subset, FS_CardinalityType
<1> DEFINE A == {c4[w] : w \in V}
           B == {c6[c] : c \in D}
<1>4. IsFiniteSet(A) /\ Cardinality(A) <= Cardinality(V) /\ Cardinality(A) \in Nat
  <2> DEFINE f == [w \in V |-> c4[w]]
  <2>1. f \in Surjection(V, A)
    BY DEF Surjection
  <2> HIDE DEF A, f
  <2> QED  BY <1>2, <2>1, FS_Surjection, FS_CardinalityType
<1>5. IsFiniteSet(B) /\ Cardinality(B) <= Cardinality(D) /\ Cardinality(B) \in Nat
  <2> DEFINE g == [c \in D |-> c6[c]]
  <2>1. g \in Surjection(D, B)
    BY DEF Surjection
  <2> HIDE DEF B, g
  <2> QED  BY <1>3, <2>1, FS_Surjection, FS_CardinalityType
<1>6. R \in SUBSET (A \cup B)
  OBVIOUS
<1> HIDE DEF A, B
<1>7. /\ IsFiniteSet(A \cup B) /\ Cardinality(A \cup B) <= Cardinality(A) + Cardinality(B)
      /\ Cardinality(A \cup B) \in Nat
  <2>1. /\ IsFiniteSet(A \cup B)
        /\ Cardinality(A \cup B) = Cardinality(A) + Cardinality(B) - Cardinality(A \cap B)
    BY <1>4, <1>5, FS_Union
  <2>2. Cardinality(A \cap B) \in Nat
    BY <1>4, FS_Intersection, FS_CardinalityType
  <2>3. Cardinality(A \cup B) \in Nat
    BY <2>1, FS_CardinalityType
  <2> QED  BY <1>4, <1>5, <2>1, <2>2, <2>3
<1>8. Cardinality(R) <= Cardinality(A \cup B) /\ Cardinality(R) \in Nat
  <2>1. IsFiniteSet(R) /\ Cardinality(R) <= Cardinality(A \cup B)
    BY <1>6, <1>7, FS_Subset
  <2>2. Cardinality(R) \in Nat
    BY <2>1, FS_CardinalityType
  <2> QED  BY <2>1, <2>2
<1>9. Cardinality(A) <= MaxSize /\ Cardinality(B) <= Cardinality(Callers)
  BY <1>0, <1>2, <1>3, <1>4, <1>5
<1>10. Cardinality(A) < MaxSize \/ Cardinality(B) < Cardinality(Callers)
  <2>1. CASE V # Queued!Threads
    BY <1>0, <1>2, <1>4, <2>1
  <2>2. CASE D # Callers
    BY <1>0, <1>3, <1>5, <2>2
  <2> QED  BY <2>1, <2>2
<1>11. Cardinality(A) + Cardinality(B) < MaxSize + Cardinality(Callers)
  BY <1>0, <1>4, <1>5, <1>9, <1>10
<1> QED  BY <1>0, <1>4, <1>5, <1>7, <1>8, <1>11

\* The abstract module counts with the same Cardinality.
LEMMA QueuedTECardinality == \A S : Queued!TE!Cardinality(S) = Cardinality(S)
  BY DEF Queued!TE!Cardinality, Cardinality

\* A task that is run is with a thread or with a caller.
LEMMA QueuedRunning ==
    ASSUME Queued!IInv, NEW t \in Queued!Tasks, QueuedLife[t] = "running"
    PROVE  Queued!OnThread(t) \/ Queued!WithCaller(t)
<1>1. QueuedData /\ QueuedTask(t) /\ Queued!TypeOK /\ MaxSize \in Nat
  BY QueuedParts, QueuedDataHolds, ProgramsAssumption DEF QueuedInv
<1>2. t \in Nat /\ c8 \in Nat /\ c1 \in Nat
  BY <1>1 DEF QueuedData, Queued!TypeOK
<1>3. t <= c8 /\ c10[t] = 1 /\ c11[t] = 0
  BY <1>2, QueuedLifeIsTable DEF QueuedLifeTable
<1> QED  BY <1>1, <1>3 DEF QueuedTask

\* The first task of the queue is run, by a thread or by a caller that had none.
LEMMA QueuedRunMaps ==
    ASSUME Queued!IInv, [Queued!Next]_(Queued!vars), NEW t \in Queued!Tasks, Queued!InWork(t),
           c10' = [c10 EXCEPT ![t] = @ + 1], UNCHANGED <<c2, c8, c11>>,
           (\E w \in Queued!Threads : c4[w] = 0) \/ (\E c \in Callers : c6[c] = 0)
    PROVE  QueuedAbstractStep
<1>1. QueuedData /\ QueuedTask(t) /\ c10[t] = 0 /\ c11[t] = 0 /\ t <= c8
  BY QueuedParts, QueuedDataHolds DEF QueuedInv, QueuedTask
<1>2. c1' = c1 /\ c1 \in Nat
  BY QueuedKeeps
<1>3. c10'[t] = 1 /\ \A u \in Queued!Tasks \ {t} : c10'[u] = c10[u]
  BY <1>1 DEF QueuedData
<1>4. CASE c1 = 0
  BY <1>4, QueuedEmptyMaps
<1>5. CASE c1 > 0
  <2>1. QueuedLife[t] = "accepted"
    BY <1>1, <1>5, QueuedLifeIsTable DEF QueuedLifeTable
  <2>2. QueuedLife'[t] = "running"
    BY <1>1, <1>2, <1>3, <1>5, QueuedStep, QueuedLifeIsTableNext DEF QueuedLifeTable
  <2>3. \A u \in Queued!Tasks \ {t} : QueuedLife'[u] = QueuedLife[u]
    BY <1>2, <1>3 DEF QueuedLife
  <2>4. Queued!TE!Become(t, "accepted", "running")
    BY <1>2, <2>1, <2>2, <2>3, QueuedLifeStep DEF QueuedClosing
  <2>5. Queued!TE!Cardinality(Queued!TE!With("running")) < MaxSize + Queued!Cardinality(Callers)
    <3> DEFINE R == {u \in Queued!Tasks : QueuedLife[u] = "running"}
               V == {w \in Queued!Threads : c4[w] # 0}
               D == {c \in Callers : c6[c] # 0}
    <3>1. Queued!TE!With("running") = R
      BY DEF Queued!TE!With, QueuedLife
    <3>2. \A u \in R : (\E w \in V : c4[w] = u) \/ (\E c \in D : c6[c] = u)
      BY <1>1, QueuedRunning DEF Queued!OnThread, Queued!WithCaller, QueuedData
    <3>3. V \in SUBSET Queued!Threads /\ D \in SUBSET Callers /\ (V # Queued!Threads \/ D # Callers)
      OBVIOUS
    <3> HIDE DEF R, V, D
    <3>4. Cardinality(R) < MaxSize + Cardinality(Callers)
      BY <3>2, <3>3, QueuedFewer
    <3> QED  BY <3>1, <3>4, QueuedTECardinality, QueuedCardinality
  <2>6. Queued!TE!Start(t)
    BY <2>4, <2>5 DEF Queued!TE!Start
  <2> QED  BY <2>6 DEF QueuedAbstractStep, Queued!TE!Next
<1> QED  BY <1>2, <1>4, <1>5

\* A task is deleted, behind its run or because the executor is closed.
LEMMA QueuedDeleteMaps ==
    ASSUME Queued!IInv, [Queued!Next]_(Queued!vars), NEW t \in Queued!Tasks,
           Queued!OnThread(t) \/ Queued!WithCaller(t), c10[t] = 1 \/ (c10[t] = 0 /\ c2),
           c11' = [c11 EXCEPT ![t] = @ + 1], UNCHANGED <<c2, c8, c10>>
    PROVE  QueuedAbstractStep
<1>1. QueuedData /\ QueuedTask(t) /\ c11[t] = 0 /\ t <= c8
  BY QueuedParts, QueuedDataHolds DEF QueuedInv, QueuedTask
<1>2. c1' = c1 /\ c1 \in Nat /\ c2 \in BOOLEAN
  BY QueuedKeeps
<1>3. c11'[t] = 1 /\ \A u \in Queued!Tasks \ {t} : c11'[u] = c11[u]
  BY <1>1 DEF QueuedData
<1>4. \A u \in Queued!Tasks \ {t} : QueuedLife'[u] = QueuedLife[u]
  BY <1>2, <1>3 DEF QueuedLife
<1>5. QueuedClosing' = QueuedClosing
  BY <1>2 DEF QueuedClosing
<1>6. QueuedLifeTable /\ QueuedLifeTable'
  BY QueuedLifeIsTable, QueuedLifeIsTableNext, QueuedStep
<1>7. CASE c1 = 0
  BY <1>7, QueuedEmptyMaps
<1>8. CASE c1 > 0 /\ c10[t] = 1
  <2>1. QueuedLife[t] = "running" /\ QueuedLife'[t] = "finished"
    BY <1>1, <1>2, <1>3, <1>6, <1>8 DEF QueuedLifeTable
  <2>2. Queued!TE!Become(t, "running", "finished")
    BY <1>4, <1>5, <2>1, QueuedLifeStep
  <2> QED  BY <2>2 DEF QueuedAbstractStep, Queued!TE!Next, Queued!TE!Finish
<1>9. CASE c1 > 0 /\ c10[t] = 0 /\ c2
  <2>1. QueuedLife[t] = "accepted" /\ QueuedLife'[t] = "discarded"
    BY <1>1, <1>2, <1>3, <1>6, <1>9 DEF QueuedLifeTable
  <2>2. Queued!TE!Become(t, "accepted", "discarded")
    BY <1>4, <1>5, <2>1, QueuedLifeStep
  <2>3. Queued!TE!Discard(t)
    BY <1>9, <2>2 DEF Queued!TE!Discard
  <2> QED  BY <2>3 DEF QueuedAbstractStep, Queued!TE!Next
<1> QED  BY <1>2, <1>7, <1>8, <1>9

\* execute() is called: the next task is accepted.
LEMMA QueuedAcceptMaps ==
    ASSUME Queued!IInv, [Queued!Next]_(Queued!vars), NEW c \in Callers, Queued!CallExecute(c)
    PROVE  QueuedAbstractStep
<1> DEFINE t == c8 + 1
<1>1. QueuedData /\ c8 < MaxTasks /\ c8' = t /\ UNCHANGED <<c1, c2, c10, c11>>
  BY QueuedParts, QueuedDataHolds DEF Queued!CallExecute
<1>2. t \in Queued!Tasks /\ t > c8 /\ c8 \in Nat /\ t <= c8'
  BY <1>1 DEF QueuedData
<1>3. QueuedTask(t) /\ c10[t] = 0 /\ c11[t] = 0
  BY <1>2, QueuedParts DEF QueuedInv, QueuedTask
<1>4. c1 \in Nat
  BY QueuedKeeps
<1>5. CASE c1 = 0
  BY <1>5, QueuedEmptyMaps
<1>6. CASE c1 > 0
  <2>1. QueuedLife[t] = "new"
    BY <1>2, QueuedLifeIsTable DEF QueuedLifeTable
  <2>2. QueuedLife'[t] = "accepted"
    BY <1>1, <1>2, <1>3, <1>6, QueuedStep, QueuedLifeIsTableNext DEF QueuedLifeTable
  <2>3. \A u \in Queued!Tasks \ {t} : QueuedLife'[u] = QueuedLife[u]
    <3> SUFFICES ASSUME NEW u \in Queued!Tasks \ {t} PROVE QueuedLife'[u] = QueuedLife[u]
      OBVIOUS
    <3>1. u \in Nat /\ c8' \in Nat /\ (u > c8' \/ u <= c8') /\ (u > c8' <=> u > c8) /\ (u <= c8' <=> u <= c8)
      BY <1>1, <1>2 DEF QueuedData
    <3>2. CASE u > c8
      BY <1>1, <1>2, <3>1, <3>2 DEF QueuedLife
    <3>3. CASE u <= c8
      <4>1. QueuedLifeTable /\ QueuedLifeTable'
        BY QueuedLifeIsTable, QueuedLifeIsTableNext, QueuedStep
      <4> QED  BY <1>1, <1>6, <3>1, <3>3, <4>1 DEF QueuedLifeTable
    <3> QED  BY <1>2, <3>1, <3>2, <3>3
  <2> HIDE DEF t
  <2>4. Queued!TE!Become(t, "new", "accepted")
    BY <1>1, <1>2, <2>1, <2>2, <2>3, QueuedLifeStep DEF QueuedClosing
  <2> QED  BY <1>2, <2>4 DEF QueuedAbstractStep, Queued!TE!Next, Queued!TE!Accept
<1> QED  BY <1>4, <1>5, <1>6

\* A dropped task is deleted by a closed executor.
LEMMA QueuedDropMaps ==
    ASSUME Queued!IInv, [Queued!Next]_(Queued!vars), NEW c \in Callers,
           c5[c] \in {"execute", "checked"}, c2, Queued!Dropped(c), UNCHANGED <<c2, c8, c10>>
    PROVE  QueuedAbstractStep
<1>1. QueuedCaller(c)
  BY QueuedParts DEF QueuedInv
<1>2. c6[c] \in Queued!Tasks /\ c10[c6[c]] = 0 /\ Queued!WithCaller(c6[c])
  BY <1>1 DEF QueuedCaller, Queued!WithCaller
<1>3. c11' = [c11 EXCEPT ![c6[c]] = @ + 1]
  BY DEF Queued!Dropped, Queued!Deletes
<1> QED  BY <1>2, <1>3, QueuedDeleteMaps

\* Every step of the pool is one of the abstract pool or a stutter.
LEMMA QueuedStepMaps ==
    ASSUME Queued!IInv, [Queued!Next]_(Queued!vars)
    PROVE  QueuedAbstractStep
<1>0. QueuedInv /\ QueuedData
  BY QueuedParts, QueuedDataHolds
<1>1. ASSUME NEW w \in Queued!Threads, Queued!ThreadTakes(w) PROVE QueuedAbstractStep
  <2>1. /\ c3 # <<>> /\ c3' = Tail(c3) /\ c4[w] = 0 /\ UNCHANGED <<c2, c8, c11>>
        /\ c10' = [c10 EXCEPT ![Head(c3)] = @ + 1]
    BY <1>1 DEF Queued!ThreadTakes, Queued!Runs, Queued!None, Queued!counts
  <2>2. Head(c3) \in Queued!Tasks /\ Queued!InWork(Head(c3))
    BY <1>0, <2>1, QueuedTakes DEF QueuedInv, QueuedUnique, QueuedData
  <2> QED  BY <2>1, <2>2, QueuedRunMaps
<1>2. ASSUME NEW w \in Queued!Threads, Queued!ThreadEnds(w) PROVE QueuedAbstractStep
  <2>1. /\ c4[w] \in Queued!Tasks /\ Queued!OnThread(c4[w]) /\ UNCHANGED <<c2, c8, c10>>
        /\ c11' = [c11 EXCEPT ![c4[w]] = @ + 1]
    BY <1>2 DEF Queued!ThreadEnds, Queued!Deletes, Queued!OnThread, Queued!counts
  <2>2. c10[c4[w]] = 1
    BY <1>0, <2>1 DEF QueuedInv, QueuedTask
  <2> QED  BY <2>1, <2>2, QueuedDeleteMaps
<1>3. ASSUME NEW w \in Queued!Threads, Queued!ThreadLeaves(w) PROVE QueuedAbstractStep
  <2>1. UNCHANGED <<c8, c10, c11>>
    BY <1>3 DEF Queued!ThreadLeaves, Queued!counts
  <2> QED  BY <2>1, QueuedQuietMaps
<1>4. ASSUME NEW c \in Callers, Queued!Execute(c) PROVE QueuedAbstractStep
  <2>1. c5[c] = "execute" /\ UNCHANGED <<c2, c8, c10>>
    BY <1>4 DEF Queued!Execute, Queued!counts
  <2>2. CASE c2
    BY <1>4, <2>1, <2>2, QueuedDropMaps DEF Queued!Execute
  <2>3. CASE ~c2
    BY <1>4, <2>1, <2>3, QueuedQuietMaps DEF Queued!Execute
  <2> QED  BY <2>2, <2>3
<1>5. ASSUME NEW c \in Callers, Queued!Submit(c) PROVE QueuedAbstractStep
  <2>1. c5[c] = "checked" /\ UNCHANGED <<c2, c8, c10>>
    BY <1>5 DEF Queued!Submit, Queued!counts
  <2>2. CASE c2
    BY <1>5, <2>1, <2>2, QueuedDropMaps DEF Queued!Submit
  <2>3. CASE ~c2
    BY <1>5, <2>1, <2>3, QueuedQuietMaps DEF Queued!Submit
  <2> QED  BY <2>2, <2>3
<1>6. ASSUME NEW c \in Callers, Queued!TryOne(c) PROVE QueuedAbstractStep
  <2>1. c5[c] \in {"idle", "busy"} /\ UNCHANGED <<c2, c8, c11>>
    BY <1>6 DEF Queued!TryOne, Queued!counts
  <2>2. CASE c3 = <<>>
    BY <1>6, <2>1, <2>2, QueuedQuietMaps DEF Queued!TryOne
  <2>3. CASE c3 # <<>>
    <3>1. c3' = Tail(c3) /\ c10' = [c10 EXCEPT ![Head(c3)] = @ + 1]
      BY <1>6, <2>3 DEF Queued!TryOne, Queued!Stolen, Queued!Runs
    <3>2. Head(c3) \in Queued!Tasks /\ Queued!InWork(Head(c3))
      BY <1>0, <2>3, <3>1, QueuedTakes DEF QueuedInv, QueuedUnique, QueuedData
    <3>3. c6[c] = 0
      BY <1>0, <2>1 DEF QueuedInv, QueuedCaller
    <3> QED  BY <2>1, <3>1, <3>2, <3>3, QueuedRunMaps
  <2> QED  BY <2>2, <2>3
<1>7. ASSUME NEW c \in Callers, Queued!TriedOne(c) PROVE QueuedAbstractStep
  <2>1. /\ c5[c] \in {"runsForIdle", "runsForBusy"} /\ UNCHANGED <<c2, c8, c10>>
        /\ c11' = [c11 EXCEPT ![c6[c]] = @ + 1]
    BY <1>7 DEF Queued!TriedOne, Queued!Deletes, Queued!counts
  <2>2. c6[c] \in Queued!Tasks /\ c10[c6[c]] = 1 /\ Queued!WithCaller(c6[c])
    BY <1>0, <2>1 DEF QueuedInv, QueuedCaller, Queued!WithCaller
  <2> QED  BY <2>1, <2>2, QueuedDeleteMaps
<1>8. ASSUME NEW c \in Callers,
             Queued!Ask(c) \/ Queued!Terminate(c) \/ Queued!CallDestroy(c) \/ Queued!Destroy(c)
      PROVE  QueuedAbstractStep
  <2>1. UNCHANGED <<c8, c10, c11>>
    BY <1>8 DEF Queued!Ask, Queued!Terminate, Queued!CallDestroy, Queued!Destroy, Queued!counts
  <2> QED  BY <2>1, QueuedQuietMaps
<1>9. CASE UNCHANGED Queued!vars
  <2>1. UNCHANGED <<c8, c10, c11>>
    BY <1>9 DEF Queued!vars
  <2> QED  BY <2>1, QueuedQuietMaps
<1> QED  BY <1>1, <1>2, <1>3, <1>4, <1>5, <1>6, <1>7, <1>8, <1>9, QueuedAcceptMaps
     DEF Queued!Next, Queued!Thread, Queued!Call, Queued!Goes

LEMMA QueuedImplements ==
    ASSUME Queued!IInv, [Queued!Next]_(Queued!vars)
    PROVE  [Queued!TE!Next]_(Queued!TE!vars)
  BY QueuedStepMaps DEF QueuedAbstractStep, Queued!TE!vars, QueuedLife, QueuedClosing

\* The pool starts as the abstract pool does: somebody uses it.
LEMMA QueuedInitImplements == Queued!Init => Queued!TE!Init
<1> SUFFICES ASSUME Queued!Init PROVE Queued!TE!Init
  OBVIOUS
<1>1. Queued!IInv /\ QueuedData /\ c8 = 0 /\ c1 \in {0, MaxSize} /\ c2 = (c1 = 0) /\ MaxSize \in Nat
  BY QueuedInit, QueuedParts, QueuedDataHolds, ProgramsAssumption DEF Queued!Init
<1>2. QueuedLife = [t \in Queued!Tasks |-> "new"]
  <2>1. \A t \in Queued!Tasks : t > c8
    BY <1>1 DEF QueuedData
  <2>2. \A t \in Queued!Tasks : QueuedLife[t] = "new"
    BY <1>1, <2>1, QueuedLifeIsTable DEF QueuedLifeTable
  <2> QED  BY <2>2, QueuedLifeIsFunction DEF QueuedLifeFunction
<1>3. QueuedClosing = FALSE
  <2>1. c2 <=> c1 = 0
    BY DEF Queued!Init
  <2> QED  BY <1>1, <2>1 DEF QueuedClosing
<1>4. MaxSize + Queued!Cardinality(Callers) # 0
  <2>1. Cardinality(Callers) \in Nat /\ Cardinality(Callers) # 0
    BY ProgramsAssumption, FS_EmptySet, FS_CardinalityType
  <2> QED  BY <1>1, <2>1, QueuedCardinality
<1> QED  BY <1>2, <1>3, <1>4 DEF Queued!TE!Init, QueuedLife, QueuedClosing

-----------------------------------------------------------------------------
(* The machine that runs one of the programs.                              *)

ProgramNames ==
    {"testable_mutex", "count_down", "shared_monitor", "server", "spsc_queue", "ping_pong", "priority",
     "upgrade_mutex", "synchronized", "sync_queue", "alarm", "queued_pool"}

\* The inductive invariant: that of the program that runs.
IInv ==
    /\ program \in ProgramNames
    /\ program = "testable_mutex" => Testable!IInv
    /\ program = "count_down" => Count!IInv
    /\ program = "shared_monitor" => SharedM!IInv
    /\ program = "server" => Server!IInv
    /\ program = "spsc_queue" => Spsc!IInv
    /\ program = "ping_pong" => Ping!IInv
    /\ program = "priority" => Priority!IInv
    /\ program = "upgrade_mutex" => Upgrades!IInv
    /\ program = "synchronized" => Boost!IInv
    /\ program = "sync_queue" => Sync!IInv
    /\ program = "alarm" => Alarm!IInv
    /\ program = "queued_pool" => Queued!IInv

\* A program keeps running, and makes its own steps.
ItsSteps ==
    /\ program' = program
    /\ program = "testable_mutex" => [Testable!Next]_(Testable!vars)
    /\ program = "count_down" => [Count!Next]_(Count!vars)
    /\ program = "shared_monitor" => [SharedM!Next]_(SharedM!vars)
    /\ program = "server" => [Server!Next]_(Server!vars)
    /\ program = "spsc_queue" => [Spsc!Next]_(Spsc!vars)
    /\ program = "ping_pong" => [Ping!Next]_(Ping!vars)
    /\ program = "priority" => [Priority!Next]_(Priority!vars)
    /\ program = "upgrade_mutex" => [Upgrades!Next]_(Upgrades!vars)
    /\ program = "synchronized" => [Boost!Next]_(Boost!vars)
    /\ program = "sync_queue" => [Sync!Next]_(Sync!vars)
    /\ program = "alarm" => [Alarm!Next]_(Alarm!vars)
    /\ program = "queued_pool" => [Queued!Next]_(Queued!vars)

LEMMA StepsOfProgram == [Next]_vars => ItsSteps
<1> USE DEF Rest4, Rest7, Rest8, Rest9, Rest11, Rest12
<1>1. CASE program = "testable_mutex" /\ Testable!Next /\ UNCHANGED Rest4
  BY <1>1 DEF ItsSteps
<1>2. CASE program = "count_down" /\ Count!Next /\ UNCHANGED Rest7
  BY <1>2 DEF ItsSteps
<1>3. CASE program = "shared_monitor" /\ SharedM!Next /\ UNCHANGED Rest7
  BY <1>3 DEF ItsSteps
<1>4. CASE program = "server" /\ Server!Next /\ UNCHANGED Rest8
  BY <1>4 DEF ItsSteps
<1>5. CASE program = "spsc_queue" /\ Spsc!Next /\ UNCHANGED Rest8
  BY <1>5 DEF ItsSteps
<1>6. CASE program = "ping_pong" /\ Ping!Next /\ UNCHANGED Rest8
  BY <1>6 DEF ItsSteps
<1>7. CASE program = "priority" /\ Priority!Next /\ UNCHANGED Rest8
  BY <1>7 DEF ItsSteps
<1>8. CASE program = "upgrade_mutex" /\ Upgrades!Next /\ UNCHANGED Rest9
  BY <1>8 DEF ItsSteps
<1>9. CASE program = "synchronized" /\ Boost!Next /\ UNCHANGED Rest9
  BY <1>9 DEF ItsSteps
<1>10. CASE program = "sync_queue" /\ Sync!Next /\ UNCHANGED Rest11
  BY <1>10 DEF ItsSteps
<1>11. CASE program = "alarm" /\ Alarm!Next /\ UNCHANGED Rest12
  BY <1>11 DEF ItsSteps
<1>12. CASE program = "queued_pool" /\ Queued!Next /\ UNCHANGED program
  BY <1>12 DEF ItsSteps
<1>13. CASE UNCHANGED vars
  <2>1. UNCHANGED <<program, c1, c2, c3, c4, c5, c6, c7, c8, c9, c10, c11, c12>>
    BY <1>13 DEF vars
  <2>2. /\ UNCHANGED Testable!vars /\ UNCHANGED Count!vars /\ UNCHANGED SharedM!vars
        /\ UNCHANGED Server!vars /\ UNCHANGED Spsc!vars /\ UNCHANGED Ping!vars
        /\ UNCHANGED Priority!vars /\ UNCHANGED Upgrades!vars /\ UNCHANGED Boost!vars
        /\ UNCHANGED Sync!vars /\ UNCHANGED Alarm!vars /\ UNCHANGED Queued!vars
    BY <2>1
       DEF Testable!vars, Count!vars, SharedM!vars, Server!vars, Spsc!vars, Ping!vars, Priority!vars,
           Upgrades!vars, Boost!vars, Sync!vars, Alarm!vars, Queued!vars
  <2> QED  BY <2>1, <2>2 DEF ItsSteps
<1> QED  BY <1>1, <1>2, <1>3, <1>4, <1>5, <1>6, <1>7, <1>8, <1>9, <1>10, <1>11, <1>12, <1>13 DEF Next

LEMMA InitInv == Init => IInv
<1> SUFFICES ASSUME Init PROVE IInv
  OBVIOUS
<1>1. CASE program = "testable_mutex" /\ Testable!Init
  BY <1>1, TestableInit DEF IInv, ProgramNames
<1>2. CASE program = "count_down" /\ Count!Init
  BY <1>2, CountInit DEF IInv, ProgramNames
<1>3. CASE program = "shared_monitor" /\ SharedM!Init
  BY <1>3, SharedInit DEF IInv, ProgramNames
<1>4. CASE program = "server" /\ Server!Init
  BY <1>4, ServerInit DEF IInv, ProgramNames
<1>5. CASE program = "spsc_queue" /\ Spsc!Init
  BY <1>5, SpscInit DEF IInv, ProgramNames
<1>6. CASE program = "ping_pong" /\ Ping!Init
  BY <1>6, PingInit DEF IInv, ProgramNames
<1>7. CASE program = "priority" /\ Priority!Init
  BY <1>7, PriorityInit DEF IInv, ProgramNames
<1>8. CASE program = "upgrade_mutex" /\ Upgrades!Init
  BY <1>8, UpgradesInit DEF IInv, ProgramNames
<1>9. CASE program = "synchronized" /\ Boost!Init
  BY <1>9, BoostInit DEF IInv, ProgramNames
<1>10. CASE program = "sync_queue" /\ Sync!Init
  BY <1>10, SyncInit DEF IInv, ProgramNames
<1>11. CASE program = "alarm" /\ Alarm!Init
  BY <1>11, AlarmInit DEF IInv, ProgramNames
<1>12. CASE program = "queued_pool" /\ Queued!Init
  BY <1>12, QueuedInit DEF IInv, ProgramNames
<1> QED  BY <1>1, <1>2, <1>3, <1>4, <1>5, <1>6, <1>7, <1>8, <1>9, <1>10, <1>11, <1>12 DEF Init

LEMMA StepInv == IInv /\ [Next]_vars => IInv'
<1> SUFFICES ASSUME IInv, [Next]_vars PROVE IInv'
  OBVIOUS
<1>0. ItsSteps /\ program' = program /\ program \in ProgramNames
  BY StepsOfProgram DEF ItsSteps, IInv
<1>1. CASE program = "testable_mutex"
  <2>1. Testable!IInv'
    BY <1>0, <1>1, TestableStep DEF ItsSteps, IInv
  <2> QED  BY <1>0, <1>1, <2>1 DEF IInv
<1>2. CASE program = "count_down"
  <2>1. Count!IInv'
    BY <1>0, <1>2, CountStep DEF ItsSteps, IInv
  <2> QED  BY <1>0, <1>2, <2>1 DEF IInv
<1>3. CASE program = "shared_monitor"
  <2>1. SharedM!IInv'
    BY <1>0, <1>3, SharedStep DEF ItsSteps, IInv
  <2> QED  BY <1>0, <1>3, <2>1 DEF IInv
<1>4. CASE program = "server"
  <2>1. Server!IInv'
    BY <1>0, <1>4, ServerStep DEF ItsSteps, IInv
  <2> QED  BY <1>0, <1>4, <2>1 DEF IInv
<1>5. CASE program = "spsc_queue"
  <2>1. Spsc!IInv'
    BY <1>0, <1>5, SpscStep DEF ItsSteps, IInv
  <2> QED  BY <1>0, <1>5, <2>1 DEF IInv
<1>6. CASE program = "ping_pong"
  <2>1. Ping!IInv'
    BY <1>0, <1>6, PingStep DEF ItsSteps, IInv
  <2> QED  BY <1>0, <1>6, <2>1 DEF IInv
<1>7. CASE program = "priority"
  <2>1. Priority!IInv'
    BY <1>0, <1>7, PriorityStep DEF ItsSteps, IInv
  <2> QED  BY <1>0, <1>7, <2>1 DEF IInv
<1>8. CASE program = "upgrade_mutex"
  <2>1. Upgrades!IInv'
    BY <1>0, <1>8, UpgradesStep DEF ItsSteps, IInv
  <2> QED  BY <1>0, <1>8, <2>1 DEF IInv
<1>9. CASE program = "synchronized"
  <2>1. Boost!IInv'
    BY <1>0, <1>9, BoostStep DEF ItsSteps, IInv
  <2> QED  BY <1>0, <1>9, <2>1 DEF IInv
<1>10. CASE program = "sync_queue"
  <2>1. Sync!IInv'
    BY <1>0, <1>10, SyncStep DEF ItsSteps, IInv
  <2> QED  BY <1>0, <1>10, <2>1 DEF IInv
<1>11. CASE program = "alarm"
  <2>1. Alarm!IInv'
    BY <1>0, <1>11, AlarmStep DEF ItsSteps, IInv
  <2> QED  BY <1>0, <1>11, <2>1 DEF IInv
<1>12. CASE program = "queued_pool"
  <2>1. Queued!IInv'
    BY <1>0, <1>12, QueuedStep DEF ItsSteps, IInv
  <2> QED  BY <1>0, <1>12, <2>1 DEF IInv
<1> QED  BY <1>0, <1>1, <1>2, <1>3, <1>4, <1>5, <1>6, <1>7, <1>8, <1>9, <1>10, <1>11, <1>12 DEF ProgramNames

\* The invariants of the programs hold in all their states.
THEOREM Invariance == Spec => []IInv
  BY InitInv, StepInv, PTL DEF Spec

LEMMA ConsistentHolds == IInv => Consistent
<1> SUFFICES ASSUME IInv PROVE TypesOK /\ OwnersAreKnown
  BY DEF Consistent
<1>0. program \in ProgramNames
  BY DEF IInv
<1>1. CASE program = "testable_mutex"
  BY <1>1, TestableSafe DEF IInv, TypesOK, OwnersAreKnown
<1>2. CASE program = "count_down"
  BY <1>2, CountSafe DEF IInv, TypesOK, OwnersAreKnown
<1>3. CASE program = "shared_monitor"
  BY <1>3, SharedSafe DEF IInv, TypesOK, OwnersAreKnown
<1>4. CASE program = "server"
  BY <1>4, ServerSafe DEF IInv, TypesOK, OwnersAreKnown
<1>5. CASE program = "spsc_queue"
  BY <1>5, SpscSafe DEF IInv, TypesOK, OwnersAreKnown
<1>6. CASE program = "ping_pong"
  BY <1>6, PingSafe DEF IInv, TypesOK, OwnersAreKnown
<1>7. CASE program = "priority"
  BY <1>7, PrioritySafe DEF IInv, TypesOK, OwnersAreKnown
<1>8. CASE program = "upgrade_mutex"
  BY <1>8, UpgradesSafe DEF IInv, TypesOK, OwnersAreKnown
<1>9. CASE program = "synchronized"
  BY <1>9, BoostSafe DEF IInv, TypesOK, OwnersAreKnown
<1>10. CASE program = "sync_queue"
  BY <1>10, SyncSafe DEF IInv, TypesOK, OwnersAreKnown
<1>11. CASE program = "alarm"
  BY <1>11, AlarmSafe DEF IInv, TypesOK, OwnersAreKnown
<1>12. CASE program = "queued_pool"
  BY <1>12, QueuedSafe DEF IInv, TypesOK, OwnersAreKnown
<1> QED  BY <1>0, <1>1, <1>2, <1>3, <1>4, <1>5, <1>6, <1>7, <1>8, <1>9, <1>10, <1>11, <1>12 DEF ProgramNames

\* The id beside the mutex of TestableMutex and of the boost monitor is that of its
\* owner (testable_mutex.hpp, 54-108; threadpool.cpp, 160-225), no thread that has its
\* locks uses an object that another one writes (shared_monitor.cpp, 48-102;
\* shared_mutex.cpp, 610-633 and 640-650, but not the sizes read at 637), and every
\* thread of shared_mutex.cpp has given up its lock at the end (299-507).
THEOREM StaysConsistent == Spec => []Consistent
  BY Invariance, ConsistentHolds, PTL

LEMMA AssertionsAreKept == IInv => AssertionsHold
  BY UpgradesSafe, CountSafe, SpscSafe, SyncSafe, PingSafe DEF IInv, AssertionsHold

\* What the programs assert themselves holds in every schedule: under an upgrade
\* (shared_mutex.cpp, 78-365), of the counters (test_atomic_counter.cpp, 18-19), of
\* the lock-free queue (lockfree_spsc_queue.cpp, 54, 94), in the tests of sync_queue
\* (multi_thread_pass.cpp, 75-229) and of the turns (perf_condition_variable.cpp, 64-94).
THEOREM AssertionsAlwaysHold == Spec => []AssertionsHold
  BY Invariance, AssertionsAreKept, PTL

LEMMA NothingIsDropped == IInv => NothingLost
  BY AlarmSafe, PrioritySafe, QueuedSafe, ServerSafe DEF IInv, NothingLost

\* An alarm is in the list, with the thread or handled (alarm_cond.cpp, 96-245), no
\* item is dropped by stop() (priority_scheduler.cpp, 102-133), a task of the boost
\* queued pool has one owner and is run once (threadpool.cpp, 702-737), and the
\* server owns the connections it uses and goes on to accept (async_server.cpp, 54-126).
THEOREM NothingIsLost == Spec => []NothingLost
  BY Invariance, NothingIsDropped, PTL

\* No alarm is handled before its time (alarm_cond.cpp, 217-220), and no wait() of the
\* boost monitor without a timeout returns before a notify (threadpool.cpp, 111-126).
THEOREM NothingIsEarly == Spec => NothingEarly
<1>1. IInv /\ [Next]_vars => [program = "alarm" => Alarm!HandlesDue]_vars
  BY StepsOfProgram, AlarmStep DEF IInv, ItsSteps
<1>2. IInv /\ [Next]_vars => [program = "synchronized" => Boost!ReturnsNotified]_vars
  BY StepsOfProgram, BoostReturns DEF IInv, ItsSteps
<1> QED  BY <1>1, <1>2, Invariance, PTL DEF Spec, NothingEarly

\* Every step of the boost monitor (threadpool.cpp, 111-250) is a step of the abstract
\* Monitor or none.
THEOREM MonitorImplementation == Spec => ImplementsMonitor
<1>1. Init => (program = "synchronized" => Boost!M!Init)
  BY BoostInitImplements DEF Init
<1>2. IInv /\ IInv' /\ [Next]_vars => [program = "synchronized" => [Boost!M!Next]_(Boost!M!vars)]_vars
  BY StepsOfProgram, BoostImplements DEF IInv, ItsSteps
<1> QED  BY <1>1, <1>2, Invariance, PTL DEF Spec, ImplementsMonitor

\* The boost queued pool (threadpool.cpp, 658-748) keeps the promise of a pool: a task
\* is run at most once, by one of at most as many threads as there are, callers of
\* is_idle() and is_busy() included, and unrun it is deleted only when it is closed.
THEOREM PoolImplementation == Spec => ImplementsTaskExecution
<1>1. Init => (program = "queued_pool" => Queued!TE!Init)
  BY QueuedInitImplements DEF Init
<1>2. IInv /\ [Next]_vars => [program = "queued_pool" => [Queued!TE!Next]_(Queued!TE!vars)]_vars
  BY StepsOfProgram, QueuedImplements DEF IInv, ItsSteps
<1> QED  BY <1>1, <1>2, Invariance, PTL DEF Spec, ImplementsTaskExecution
=============================================================================
