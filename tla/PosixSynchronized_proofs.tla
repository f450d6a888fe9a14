---------------------- MODULE PosixSynchronized_proofs ----------------------
(***************************************************************************)
(* Synchronized keeps its promise for any number of threads: at most one   *)
(* thread is inside, no lock is forgotten, and the object implements the   *)
(* abstract Monitor, also while the destructor runs; the destructor tells  *)
(* an unused object from a used one.                                       *)
(***************************************************************************)
EXTENDS PosixSynchronized, TLAPS

\* Who owns the mutex, by the place of each thread, and who believes it does.
Places ==
    /\ owner \in Threads \cup {None}
    /\ pc \in [Threads -> ThreadStates]
    /\ holds \in [Threads -> BOOLEAN]
    /\ \A t \in Threads :
          /\ pc[t] \in {"out", "d_try"} => (holds[t] <=> owner = t)
          /\ pc[t] \in Blocked \cup {"d_timed", "d_unlock", "d_destroy"} => ~holds[t]
          /\ pc[t] = "d_unlock" => owner = t
          /\ owner = t => pc[t] \in {"out", "d_try", "d_unlock"}

\* Waking sleepers keeps all places but theirs, and does not move a thread out
\* of a wait.
LEMMA AwakeFacts ==
    ASSUME Places, NEW woken \in SUBSET Threads, woken \subseteq Sleepers
    PROVE  /\ Awake(woken) \in [Threads -> ThreadStates]
           /\ \A t \in Threads : \/ Awake(woken)[t] = pc[t]
                                 \/ pc[t] \in Asleep /\ Awake(woken)[t] = "signalled"
  BY DEF Awake, Sleepers, Places, ThreadStates, Resuming

\* Taking the free mutex keeps the places, wherever the thread asked for it.
LEMMA TakeFacts ==
    ASSUME Places, NEW t \in Threads, NEW r, Take(t, r),
           pc[t] \in {"out"} \cup Blocked \cup Resuming
    PROVE  Places'
<1>1. /\ owner = None /\ owner' = t
      /\ pc' = [pc EXCEPT ![t] = "out"] /\ holds' = [holds EXCEPT ![t] = TRUE]
  BY DEF Take, Return
<1>2. /\ owner' \in Threads \cup {None}
      /\ pc' \in [Threads -> ThreadStates]
      /\ holds' \in [Threads -> BOOLEAN]
  BY <1>1 DEF Places, ThreadStates
<1>3. ASSUME NEW u \in Threads
      PROVE  /\ pc'[u] \in {"out", "d_try"} => (holds'[u] <=> owner' = u)
             /\ pc'[u] \in Blocked \cup {"d_timed", "d_unlock", "d_destroy"} => ~holds'[u]
             /\ pc'[u] = "d_unlock" => owner' = u
             /\ owner' = u => pc'[u] \in {"out", "d_try", "d_unlock"}
  <2>1. CASE u = t
    BY <1>1, <2>1 DEF Places, Blocked
  <2>2. CASE u # t
    BY <1>1, <2>2, MonitorAssumption DEF Places
  <2> QED  BY <2>1, <2>2
<1> QED  BY <1>2, <1>3 DEF Places

\* A new object has them.
LEMMA InitPlaces == Init => Places
  BY MonitorAssumption DEF Init, Places, ThreadStates

\* Every step keeps the places.
LEMMA StepPlaces == Places /\ [Next]_vars => Places'
<1> SUFFICES ASSUME Places, [Next]_vars PROVE Places'
  OBVIOUS
<1>1. ASSUME NEW t \in Threads, Call(t) PROVE Places'
  <2>1. CASE Lock(t) \/ TimedLock(t)
    <3>1. CASE Take(t, "true")
      BY <2>1, <3>1, TakeFacts DEF Lock, TimedLock, CallLock, MayCall, Ready
    <3>2. CASE ~Take(t, "true")
      BY <2>1, <3>2
         DEF Lock, TimedLock, CallLock, Return, MayCall, Ready, Places, ThreadStates,
             Blocked
    <3> QED  BY <3>1, <3>2
  <2>2. CASE TryLock(t)
    <3>1. CASE Take(t, "LOCKED")
      BY <2>2, <3>1, TakeFacts DEF TryLock, MayCall, Ready
    <3>2. CASE ~Take(t, "LOCKED")
      BY <2>2, <3>2 DEF TryLock, Return, MayCall, Ready, Places
    <3> QED  BY <3>1, <3>2
  <2>3. CASE UnlockOutside(t) \/ WaitOutside(t)
    BY <2>3 DEF UnlockOutside, WaitOutside, Return, MayCall, Ready, Places
  <2>4. ASSUME NEW asleep \in Asleep, Wait(t, asleep) PROVE Places'
    BY <2>4, MonitorAssumption DEF Wait, Places, ThreadStates, Blocked, Asleep
  <2>5. CASE Notify(t) \/ NotifyAll(t)
    <3>1. PICK woken \in SUBSET Sleepers : pc' = Awake(woken) \/ pc' = pc
      BY <2>5 DEF Notify, NotifyAll
    <3>2. UNCHANGED <<owner, holds>>
      BY <2>5 DEF Notify, NotifyAll
    <3> QED  BY <3>1, <3>2, AwakeFacts DEF Sleepers, Places, Blocked, Asleep
  <2> QED  BY <1>1, <2>1, <2>2, <2>3, <2>4, <2>5 DEF Call
<1>2. ASSUME NEW t \in Threads, Locked(t) \/ LockExpires(t) \/ Unlock(t) PROVE Places'
  <2>1. CASE Locked(t)
    BY <2>1, TakeFacts DEF Locked
  <2>2. CASE LockExpires(t) \/ Unlock(t)
    BY <2>2, MonitorAssumption
       DEF LockExpires, Unlock, Return, Places, ThreadStates, Blocked
  <2> QED  BY <1>2, <2>1, <2>2
<1>3. ASSUME NEW t \in Threads, SpuriousWakeup(t) PROVE Places'
  <2>1. pc' = Awake({t}) /\ UNCHANGED <<owner, holds>> /\ {t} \subseteq Sleepers
    BY <1>3 DEF SpuriousWakeup, Sleepers
  <2> QED  BY <2>1, AwakeFacts DEF Places, Blocked, Asleep
<1>4. ASSUME NEW t \in Threads, WaitExpires(t) \/ Resume(t) PROVE Places'
  <2>1. CASE WaitExpires(t)
    BY <2>1 DEF WaitExpires, Places, ThreadStates, Blocked, Resuming
  <2>2. CASE Resume(t)
    BY <2>2, TakeFacts DEF Resume
  <2> QED  BY <1>4, <2>1, <2>2
<1>5. ASSUME NEW t \in Threads, CallDestroy(t) PROVE Places'
  BY <1>5 DEF CallDestroy, Ready, Places, ThreadStates, Blocked, DtorStates
<1>6. ASSUME NEW t \in Threads, Destroy(t) PROVE Places'
  <2>1. CASE DestroyTry(t)
    <3>1. CASE owner \in {None, t}
      BY <2>1, <3>1, MonitorAssumption DEF DestroyTry, Places, ThreadStates, DtorStates
    <3>2. CASE owner \notin {None, t}
      <4>1. /\ pc' = [Awake(Sleepers) EXCEPT ![t] = "d_cond"] /\ pc[t] = "d_try"
            /\ UNCHANGED <<owner, holds>>
        BY <2>1, <3>2 DEF DestroyTry
      <4> QED  BY <3>2, <4>1, AwakeFacts
           DEF Sleepers, Places, ThreadStates, Blocked, Asleep, DtorStates
    <3> QED  BY <3>1, <3>2
  <2>2. CASE DestroyLock(t) \/ DestroyUnlock(t)
    BY <2>2, MonitorAssumption
       DEF DestroyLock, DestroyUnlock, Places, ThreadStates, DtorStates
  <2>3. CASE DestroyMutex(t) \/ DestroyCond(t)
    BY <2>3 DEF DestroyMutex, DestroyCond, Places, ThreadStates, Blocked, DtorStates
  <2> QED  BY <1>6, <2>1, <2>2, <2>3 DEF Destroy
<1>7. CASE UNCHANGED vars
  BY <1>7 DEF vars, Places
<1> QED  BY <1>1, <1>2, <1>3, <1>4, <1>5, <1>6, <1>7 DEF Next

\* The places are invariant.
THEOREM PlacesInvariant == Spec => []Places
  BY InitPlaces, StepPlaces, PTL DEF Spec

\* A thread whose calls told it that it is inside owns the mutex: lock(),
\* lock(timeout), trylock(), wait() and wait(timeout) never let two threads in.
THEOREM OneInside == Spec => []MutualExclusion
<1>1. Places => MutualExclusion
  BY DEF Places, MutualExclusion
<1> QED  BY <1>1, PlacesInvariant, PTL

\* Whoever owns the mutex knows it, so that somebody will unlock it.
THEOREM LockIsKnown == Spec => []NoForgottenLock
<1>1. Places => NoForgottenLock
  BY DEF Places, NoForgottenLock
<1> QED  BY <1>1, PlacesInvariant, PTL

-----------------------------------------------------------------------------
(* Refinement.                                                             *)

Inside == IF owner # None /\ pc[owner] = "out" THEN owner ELSE None

Waiters == {t \in Threads : pc[t] \in Asleep \cup Resuming}

\* A step of the object is a step of Monitor.
LEMMA StepImplements ==
    Places /\ [Next]_vars => [Contract!Next]_(<<Inside, Waiters>>)
<1> SUFFICES ASSUME Places, [Next]_vars PROVE [Contract!Next]_(<<Inside, Waiters>>)
  OBVIOUS
<1>1. ASSUME NEW t \in Threads, NEW r, Take(t, r), pc[t] \in {"out"} \cup Blocked
      PROVE  Contract!Enter(t)
  BY <1>1 DEF Take, Return, Contract!Enter, Places, Blocked, Asleep, Resuming
<1>2. ASSUME NEW t \in Threads, Call(t) PROVE [Contract!Next]_(<<Inside, Waiters>>)
  <2>1. CASE Lock(t) \/ TimedLock(t)
    <3>1. CASE Take(t, "true")
      BY <1>1, <2>1, <3>1 DEF Lock, TimedLock, CallLock, MayCall, Ready, Contract!Next
    <3>2. CASE ~Take(t, "true")
      BY <2>1, <3>2
         DEF Lock, TimedLock, CallLock, MayCall, Ready, Return, Places, Asleep,
             Resuming, Inside, Waiters
    <3> QED  BY <3>1, <3>2
  <2>2. CASE TryLock(t)
    <3>1. CASE Take(t, "LOCKED")
      BY <1>1, <2>2, <3>1 DEF TryLock, MayCall, Ready, Contract!Next
    <3>2. CASE ~Take(t, "LOCKED")
      BY <2>2, <3>2 DEF TryLock, MayCall, Ready, Return, Places, Inside, Waiters
    <3> QED  BY <3>1, <3>2
  <2>3. CASE UnlockOutside(t) \/ WaitOutside(t)
    BY <2>3
       DEF UnlockOutside, WaitOutside, Return, MayCall, Ready, Places, Inside, Waiters
  <2>4. ASSUME NEW asleep \in Asleep, Wait(t, asleep) PROVE Contract!Sleep(t)
    BY <2>4 DEF Wait, MayCall, Ready, Contract!Sleep, Places
  <2>5. CASE Notify(t) \/ NotifyAll(t)
    <3>1. PICK woken \in SUBSET Sleepers : pc' = Awake(woken) \/ pc' = pc
      BY <2>5 DEF Notify, NotifyAll
    <3>2. owner' = owner
      BY <2>5 DEF Notify, NotifyAll
    <3> QED  BY <3>1, <3>2, AwakeFacts
         DEF Sleepers, Places, Asleep, Resuming, Inside, Waiters
  <2> QED  BY <1>2, <2>1, <2>2, <2>3, <2>4, <2>5 DEF Call, Contract!Next
<1>3. ASSUME NEW t \in Threads, Locked(t) PROVE Contract!Enter(t)
  BY <1>1, <1>3 DEF Locked
<1>4. ASSUME NEW t \in Threads, LockExpires(t) PROVE UNCHANGED <<Inside, Waiters>>
  BY <1>4 DEF LockExpires, Return, Places, Asleep, Resuming, Inside, Waiters
<1>5. ASSUME NEW t \in Threads, Unlock(t) PROVE Contract!Leave(t)
  BY <1>5 DEF Unlock, Ready, Return, Contract!Leave
<1>6. ASSUME NEW t \in Threads, SpuriousWakeup(t) PROVE UNCHANGED <<Inside, Waiters>>
  <2>1. pc' = Awake({t}) /\ owner' = owner /\ {t} \subseteq Sleepers
    BY <1>6 DEF SpuriousWakeup, Sleepers
  <2> QED  BY <2>1, AwakeFacts DEF Places, Asleep, Resuming, Inside, Waiters
<1>7. ASSUME NEW t \in Threads, WaitExpires(t) PROVE UNCHANGED <<Inside, Waiters>>
  BY <1>7 DEF WaitExpires, Asleep, Resuming, Inside, Waiters
<1>8. ASSUME NEW t \in Threads, Resume(t) PROVE Contract!Resume(t)
  BY <1>8 DEF Resume, Take, Return, Contract!Resume, Places, Asleep, Resuming
<1>9. ASSUME NEW t \in Threads, CallDestroy(t) PROVE [Contract!Next]_(<<Inside, Waiters>>)
  <2>1. CASE owner = t
    BY <1>9, <2>1
       DEF CallDestroy, Ready, Contract!Leave, Contract!Next, Asleep, Resuming, Inside,
           Waiters
  <2>2. CASE owner # t
    BY <1>9, <2>2 DEF CallDestroy, Ready, Asleep, Resuming, Inside, Waiters
  <2> QED  BY <2>1, <2>2
<1>10. ASSUME NEW t \in Threads, Destroy(t) PROVE UNCHANGED <<Inside, Waiters>>
  <2>1. CASE DestroyTry(t)
    <3>1. CASE owner \in {None, t}
      BY <2>1, <3>1 DEF DestroyTry, Places, Asleep, Resuming, Inside, Waiters
    <3>2. CASE owner \notin {None, t}
      <4>1. /\ pc' = [Awake(Sleepers) EXCEPT ![t] = "d_cond"] /\ pc[t] = "d_try"
            /\ owner' = owner
        BY <2>1, <3>2 DEF DestroyTry
      <4> QED  BY <3>2, <4>1, AwakeFacts
           DEF Sleepers, Places, Asleep, Resuming, Inside, Waiters
    <3> QED  BY <3>1, <3>2
  <2>2. CASE DestroyLock(t) \/ DestroyUnlock(t)
    BY <2>2 DEF DestroyLock, DestroyUnlock, Places, Asleep, Resuming, Inside, Waiters
  <2>3. CASE DestroyMutex(t) \/ DestroyCond(t)
    BY <2>3 DEF DestroyMutex, DestroyCond, Places, Asleep, Resuming, Inside, Waiters
  <2> QED  BY <1>10, <2>1, <2>2, <2>3 DEF Destroy
<1>11. CASE UNCHANGED vars
  BY <1>11 DEF vars, Inside, Waiters
<1> QED  BY <1>2, <1>3, <1>4, <1>5, <1>6, <1>7, <1>8, <1>9, <1>10, <1>11
     DEF Next, Contract!Next

\* Every behaviour of the object is a behaviour of the abstract monitor: the
\* header's description of lock(), wait() and unlock() is what the code does.
THEOREM Implementation == Spec => ImplementsMonitor
<1>1. Init => Contract!Init
  BY DEF Init, Contract!Init, Asleep, Resuming
<1>2. Places /\ [Next]_vars => [Contract!Next]_(<<Inside, Waiters>>)
  BY StepImplements
<1> QED  BY <1>1, <1>2, PlacesInvariant, PTL
     DEF Spec, ImplementsMonitor, Contract!Spec, Contract!vars, Inside, Waiters

-----------------------------------------------------------------------------
(* The destructor.                                                         *)

Ends == DtorStates \cup {"gone", "aborted"}

\* What the destructor knows at its places.  There is one; what it has counted
\* fits the tries that are left; a destructor that found the object unused stays
\* alone with it; nobody moves any more after an exception.
Ending ==
    /\ destroyed \in BOOLEAN /\ quiet \in BOOLEAN
    /\ result \in [Threads -> Results]
    /\ calls \in 0..MaxCalls
    /\ errors \in 0..(Retries + 1)
    /\ \A t, u \in Threads : pc[t] \in Ends /\ pc[u] \in Ends => t = u
    /\ \A t \in Threads : pc[t] \in DtorStates \ {"d_cond"} => errors <= Retries
    /\ (\A t \in Threads : pc[t] \notin Ends) => errors = 0 /\ ~quiet
    /\ \A t \in Threads : pc[t] = "aborted" => errors = Retries + 1 /\ Users # {}
    /\ quiet => \A t \in Threads : pc[t] \in Ends =>
          /\ pc[t] # "aborted"
          /\ pc[t] \in {"d_cond", "gone"} => destroyed
          /\ \A u \in Threads : u # t => pc[u] = "out"
          /\ owner = IF pc[t] = "d_unlock" THEN t ELSE None

\* A new object is not being destroyed.
LEMMA InitEnding == Init => Ending
<1> SUFFICES ASSUME Init PROVE Ending
  OBVIOUS
<1>1. \A t \in Threads : pc[t] \notin Ends
  BY DEF Init, Ends, DtorStates
<1>2. 0 \in 0..(Retries + 1) /\ 0 \in 0..MaxCalls /\ 0 <= Retries
  BY MonitorAssumption
<1>3. /\ result \in [Threads -> Results]
      /\ errors = 0 /\ calls = 0 /\ quiet = FALSE /\ destroyed = FALSE
  BY DEF Init, Results
<1> QED  BY <1>1, <1>2, <1>3 DEF Ending, Ends

\* Nobody but the destructor moves in an object it found unused.
LEMMA QuietIsAlone ==
    ASSUME Ending, quiet, ~Over, NEW t \in Threads,
           \/ Ready(t) /\ (~Dying \/ owner = t)
           \/ pc[t] \in Blocked \cup Asleep \cup Resuming
    PROVE  FALSE
<1>1. PICK d \in Threads : pc[d] \in Ends
  BY DEF Ending
<1>2. pc[d] \in DtorStates /\ Dying
  BY <1>1 DEF Over, Dying, Ends
<1>3. t # d /\ pc[t] = "out"
  BY <1>1, <1>2 DEF Ending, Ready, DtorStates, Blocked, Asleep, Resuming
<1>4. owner = t
  BY <1>2, <1>3 DEF Blocked, Asleep, Resuming
<1> QED  BY <1>1, <1>3, <1>4, MonitorAssumption DEF Ending

\* A step of a thread that is not in the destructor leaves the destructor's
\* places alone.
LEMMA UserFrame ==
    ASSUME Places, Ending, ~Over, ~quiet, UNCHANGED dtorVars,
           result' \in [Threads -> Results], calls' \in 0..MaxCalls,
           \A u \in Threads : pc'[u] = pc[u] \/ (pc[u] \notin Ends /\ pc'[u] \notin Ends)
    PROVE  Ending'
<1>1. destroyed' = destroyed /\ errors' = errors /\ quiet' = quiet
  BY DEF dtorVars
<1>2. \A u \in Threads : /\ pc'[u] \in Ends <=> pc[u] \in Ends
                        /\ pc'[u] \in Ends => pc'[u] = pc[u]
  OBVIOUS
<1>3. \A u \in Threads : pc'[u] # "aborted"
  BY <1>2 DEF Over, Ends
<1>4. \A u \in Threads : pc'[u] \in DtorStates \ {"d_cond"} => errors <= Retries
  BY <1>2 DEF Ending, Ends
<1> QED  BY <1>1, <1>2, <1>3, <1>4 DEF Ending

\* Every step of a user.
LEMMA UserStep ==
    ASSUME Places, Ending, NEW t \in Threads,
           Call(t) \/ Locked(t) \/ LockExpires(t) \/ Unlock(t)
                   \/ SpuriousWakeup(t) \/ WaitExpires(t) \/ Resume(t)
    PROVE  Ending'
<1>1. ~Over /\ UNCHANGED dtorVars
  BY DEF Call, Lock, TimedLock, CallLock, TryLock, UnlockOutside, Wait, WaitOutside,
         Notify, NotifyAll, Locked, LockExpires, Unlock, SpuriousWakeup, WaitExpires,
         Resume, MayCall, Ready
<1>2. \/ Ready(t) /\ (~Dying \/ owner = t)
      \/ pc[t] \in Blocked \cup Asleep \cup Resuming
  BY DEF Call, Lock, TimedLock, CallLock, TryLock, UnlockOutside, Wait, WaitOutside,
         Notify, NotifyAll, Locked, LockExpires, Unlock, SpuriousWakeup, WaitExpires,
         Resume, MayCall, Blocked, Asleep
<1>3. ~quiet
  BY <1>1, <1>2, QuietIsAlone
<1>4. calls' \in 0..MaxCalls
  <2>1. calls' = calls \/ (calls < MaxCalls /\ calls' = calls + 1)
    BY DEF Call, Lock, TimedLock, CallLock, TryLock, UnlockOutside, Wait, WaitOutside,
           Notify, NotifyAll, Locked, LockExpires, Unlock, SpuriousWakeup, WaitExpires,
           Resume, MayCall
  <2> QED  BY <2>1, MonitorAssumption DEF Ending
<1>5. /\ result' \in [Threads -> Results]
      /\ \A u \in Threads : pc'[u] = pc[u] \/ (pc[u] \notin Ends /\ pc'[u] \notin Ends)
  <2> USE DEF Ends, DtorStates, Results, Places, Ending
  <2>1. CASE Lock(t) \/ TimedLock(t)
    BY <2>1 DEF Lock, TimedLock, CallLock, MayCall, Ready, Take, Return
  <2>2. CASE TryLock(t) \/ UnlockOutside(t) \/ WaitOutside(t) \/ Unlock(t)
    BY <2>2 DEF TryLock, UnlockOutside, WaitOutside, Unlock, MayCall, Ready, Take, Return
  <2>3. ASSUME NEW asleep \in Asleep, Wait(t, asleep) PROVE <1>5!:
    BY <2>3 DEF Wait, MayCall, Ready, Asleep
  <2>4. CASE Notify(t) \/ NotifyAll(t)
    <3>1. PICK woken \in SUBSET Sleepers : pc' = Awake(woken) \/ pc' = pc
      BY <2>4 DEF Notify, NotifyAll
    <3>2. result' = [result EXCEPT ![t] = "none"]
      BY <2>4 DEF Notify, NotifyAll
    <3> QED  BY <3>1, <3>2, AwakeFacts DEF Sleepers, Asleep
  <2>5. CASE Locked(t) \/ LockExpires(t)
    BY <2>5 DEF Locked, LockExpires, Take, Return, Blocked
  <2>6. CASE SpuriousWakeup(t)
    <3>1. pc' = Awake({t}) /\ UNCHANGED result /\ {t} \subseteq Sleepers
      BY <2>6 DEF SpuriousWakeup, Sleepers
    <3> QED  BY <3>1, AwakeFacts DEF Asleep
  <2>7. CASE WaitExpires(t) \/ Resume(t)
    BY <2>7 DEF WaitExpires, Resume, Take, Return, Resuming
  <2> QED  BY <2>1, <2>2, <2>3, <2>4, <2>5, <2>6, <2>7 DEF Call
<1> QED  BY <1>1, <1>3, <1>4, <1>5, UserFrame

\* A step of the only destructor, to a place of the destructor.
LEMMA DestructorFrame ==
    ASSUME Places, Ending, NEW t \in Threads, pc[t] \in DtorStates,
           pc' \in [Threads -> ThreadStates],
           UNCHANGED <<result, calls, quiet>>, destroyed' \in BOOLEAN, pc'[t] \in Ends,
           \A u \in Threads : u # t => \/ pc'[u] = pc[u]
                                       \/ ~quiet /\ pc[u] \in Asleep /\ pc'[u] = "signalled",
           errors' \in 0..(Retries + 1),
           pc'[t] \in DtorStates \ {"d_cond"} => errors' <= Retries,
           pc'[t] = "aborted" => errors' = Retries + 1 /\ Users' # {},
           quiet => /\ pc'[t] # "aborted"
                    /\ pc'[t] \in {"d_cond", "gone"} => destroyed'
                    /\ owner' = IF pc'[t] = "d_unlock" THEN t ELSE None
    PROVE  Ending'
<1>1. \A u \in Threads : u # t => pc[u] \notin Ends /\ pc'[u] \notin Ends
  BY DEF Ending, Ends, DtorStates, Asleep
<1>2. quiet => \A u \in Threads : u # t => pc'[u] = "out"
  BY DEF Ending, Ends
<1>3. \A u \in Threads : pc'[u] \in Ends <=> u = t
  BY <1>1
<1>4. \A u \in Threads : pc'[u] \in DtorStates \cup {"gone", "aborted"} <=> u = t
  BY <1>3 DEF Ends
<1> QED  BY <1>2, <1>3, <1>4 DEF Ending

LEMMA DestructorStep ==
    ASSUME Places, Ending, NEW t \in Threads, Destroy(t)
    PROVE  Ending'
<1>1. pc[t] \in DtorStates /\ UNCHANGED <<result, calls, quiet>>
  BY DEF Destroy, DestroyTry, DestroyLock, DestroyUnlock, DestroyMutex, DestroyCond,
         DtorStates, dtorVars
<1>2. /\ errors \in 0..(Retries + 1) /\ destroyed \in BOOLEAN
      /\ pc \in [Threads -> ThreadStates]
      /\ pc[t] # "d_cond" => errors <= Retries /\ errors + 1 \in 0..(Retries + 1)
      /\ Retries \in Nat
  BY <1>1, MonitorAssumption DEF Ending, Places
<1>3. quiet => /\ owner = IF pc[t] = "d_unlock" THEN t ELSE None
               /\ pc[t] = "d_cond" => destroyed
               /\ \A u \in Threads : u # t => pc[u] = "out"
  BY <1>1 DEF Ending, Ends
<1>4. t # None
  BY MonitorAssumption
<1>5. CASE DestroyTry(t)
  <2>1. CASE owner = None
    <3>1. /\ pc[t] = "d_try" /\ pc' = [pc EXCEPT ![t] = "d_timed"]
          /\ UNCHANGED <<owner, errors, destroyed>>
      BY <1>4, <1>5, <2>1 DEF DestroyTry
    <3> QED  BY <1>1, <1>2, <1>3, <3>1, DestructorFrame DEF Ends, DtorStates, ThreadStates
  <2>2. CASE owner = t
    <3>1. /\ pc[t] = "d_try" /\ pc' = [pc EXCEPT ![t] = "d_cond"]
          /\ UNCHANGED <<errors, destroyed>>
      BY <1>4, <1>5, <2>2 DEF DestroyTry
    <3>2. ~quiet
      BY <1>3, <1>4, <2>2, <3>1
    <3> QED  BY <1>1, <1>2, <3>1, <3>2, DestructorFrame DEF Ends, DtorStates, ThreadStates
  <2>3. CASE owner \notin {None, t}
    <3>1. /\ pc[t] = "d_try" /\ pc' = [Awake(Sleepers) EXCEPT ![t] = "d_cond"]
          /\ errors' = errors + 1 /\ UNCHANGED destroyed
      BY <1>5, <2>3 DEF DestroyTry
    <3>2. ~quiet
      BY <1>3, <2>3, <3>1
    <3>3. /\ Awake(Sleepers) \in [Threads -> ThreadStates]
          /\ \A u \in Threads : \/ Awake(Sleepers)[u] = pc[u]
                                \/ pc[u] \in Asleep /\ Awake(Sleepers)[u] = "signalled"
      BY AwakeFacts DEF Sleepers
    <3>4. /\ pc' \in [Threads -> ThreadStates] /\ pc'[t] = "d_cond"
          /\ \A u \in Threads : u # t => \/ pc'[u] = pc[u]
                                         \/ pc[u] \in Asleep /\ pc'[u] = "signalled"
      BY <3>1, <3>3 DEF ThreadStates, DtorStates
    <3> QED  BY <1>1, <1>2, <3>1, <3>2, <3>4, DestructorFrame DEF Ends, DtorStates
  <2> QED  BY <2>1, <2>2, <2>3
<1>6. CASE DestroyLock(t)
  <2>1. /\ pc[t] = "d_timed" /\ UNCHANGED <<errors, destroyed>>
        /\ \/ owner' = t /\ pc' = [pc EXCEPT ![t] = "d_unlock"]
           \/ owner # None /\ pc' = [pc EXCEPT ![t] = "d_cond"]
    BY <1>6 DEF DestroyLock, dtorVars
  <2> QED  BY <1>1, <1>2, <1>3, <2>1, DestructorFrame DEF Ends, DtorStates, ThreadStates
<1>7. CASE DestroyUnlock(t)
  <2>1. /\ pc[t] = "d_unlock" /\ UNCHANGED <<errors, destroyed>>
        /\ owner' = None /\ pc' = [pc EXCEPT ![t] = "d_destroy"]
    BY <1>7 DEF DestroyUnlock, dtorVars
  <2> QED  BY <1>1, <1>2, <2>1, DestructorFrame DEF Ends, DtorStates, ThreadStates
<1>8. CASE DestroyMutex(t)
  <2>1. pc[t] = "d_destroy" /\ owner' = owner
    BY <1>8 DEF DestroyMutex
  <2>2. CASE Users = {}
    <3>1. destroyed' = TRUE /\ pc' = [pc EXCEPT ![t] = "d_cond"] /\ errors' = errors
      BY <1>8, <2>2 DEF DestroyMutex
    <3> QED  BY <1>1, <1>2, <1>3, <2>1, <3>1, DestructorFrame
         DEF Ends, DtorStates, ThreadStates
  <2>3. CASE Users # {}
    <3>1. /\ errors' = errors + 1 /\ destroyed' = destroyed
          /\ pc' = [pc EXCEPT ![t] = IF errors' > Retries THEN "aborted" ELSE "d_try"]
      BY <1>8, <2>3 DEF DestroyMutex
    <3>2. ~quiet
      <4>1. ASSUME quiet PROVE Users = {}
        <5>1. owner = None /\ \A u \in Threads : pc[u] \notin Asleep \cup Resuming
          BY <1>3, <2>1, <4>1 DEF Asleep, Resuming
        <5> QED  BY <5>1 DEF Users
      <4> QED  BY <2>3, <4>1
    <3>3. Users' = Users
      <4>1. \A u \in Threads : pc'[u] \in Asleep \cup Resuming <=> pc[u] \in Asleep \cup Resuming
        BY <1>2, <2>1, <3>1 DEF Asleep, Resuming
      <4> QED  BY <2>1, <4>1 DEF Users
    <3> QED  BY <1>1, <1>2, <2>1, <2>3, <3>1, <3>2, <3>3, DestructorFrame
         DEF Ends, DtorStates, ThreadStates
  <2> QED  BY <2>2, <2>3
<1>9. CASE DestroyCond(t)
  <2>1. /\ pc[t] = "d_cond" /\ pc' = [pc EXCEPT ![t] = "gone"]
        /\ UNCHANGED <<owner, errors, destroyed>>
    BY <1>9 DEF DestroyCond, dtorVars
  <2> QED  BY <1>1, <1>2, <1>3, <2>1, DestructorFrame DEF Ends, DtorStates, ThreadStates
<1> QED  BY <1>5, <1>6, <1>7, <1>8, <1>9 DEF Destroy

\* The destructor begins.
LEMMA DestructorBegins ==
    ASSUME Places, Ending, NEW t \in Threads, CallDestroy(t)
    PROVE  Ending'
<1>1. /\ pc[t] = "out" /\ pc' = [pc EXCEPT ![t] = "d_try"]
      /\ UNCHANGED <<owner, destroyed, result, errors, calls>>
      /\ quiet' = (owner = None /\ \A u \in Threads : pc[u] = "out")
  BY DEF CallDestroy, Ready
<1>2. \A u \in Threads : pc[u] \notin Ends
  BY DEF CallDestroy, Ready, Over, Dying, Ends
<1>3. errors = 0 /\ \A u \in Threads : pc'[u] \in Ends <=> u = t
  BY <1>1, <1>2 DEF Ending, Places, Ends, DtorStates
<1>4. pc'[t] = "d_try" /\ \A u \in Threads : u # t => pc'[u] = pc[u]
  BY <1>1 DEF Places
<1>5. \A u \in Threads : pc'[u] \notin {"aborted", "d_cond", "gone"}
  BY <1>3, <1>4 DEF Ends, DtorStates
<1>6. quiet' \in BOOLEAN
  BY <1>1
<1> QED  BY <1>1, <1>3, <1>4, <1>5, <1>6, MonitorAssumption DEF Ending

\* Every step keeps what the destructor knows.
LEMMA StepEnding == Places /\ Ending /\ [Next]_vars => Ending'
<1> SUFFICES ASSUME Places, Ending, [Next]_vars PROVE Ending'
  OBVIOUS
<1>1. CASE Next
  BY <1>1, UserStep, DestructorBegins, DestructorStep DEF Next
<1>2. CASE UNCHANGED vars
  BY <1>2 DEF vars, Ending, Users
<1> QED  BY <1>1, <1>2

\* The destructor, which tells an unused object from a used one by error codes
\* alone: one that nobody used is destroyed without an exception, and an
\* exception comes only after all tries, with a user still there.
THEOREM DestructorIsRight == Spec => []Consistent
<1>1. Spec => [](Places /\ Ending)
  BY InitPlaces, InitEnding, StepPlaces, StepEnding, PTL DEF Spec
<1>2. Places /\ Ending => Consistent
  BY DEF Places, Ending, Ends, DtorStates, Consistent, TypeOK, QuietIsDestroyed,
         AbortsLate
<1> QED  BY <1>1, <1>2, PTL
=============================================================================
