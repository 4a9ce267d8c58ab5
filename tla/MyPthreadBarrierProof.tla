----------------------- MODULE MyPthreadBarrierProof -----------------------
(***************************************************************************)
(* Proofs about MyPthreadBarrier, for every finite group of threads and    *)
(* every range of the generation: its invariant, and that each of its      *)
(* steps is a step of the abstract barrier or changes nothing a caller can *)
(* see.                                                                    *)
(***************************************************************************)
EXTENDS MyPthreadBarrier, FiniteSetTheorems, TLAPS

---------------------------------------------------------------------------
\* The next generation is a generation, and never the one that ends: a thread
\* of the ending round can tell them apart even when the counter wraps.
LEMMA NextGenerationDiffers ==
  ASSUME NEW g \in Generations
  PROVE  NextGeneration(g) \in Generations /\ NextGeneration(g) # g
  BY IntAssumption DEF NextGeneration, Generations

\* There is at least one participant.
LEMMA ThreadCount ==
  Cardinality(Threads) \in Nat /\ Cardinality(Threads) >= 1
<1>1. Cardinality(Threads) \in Nat
  BY ThreadsAssumption, FS_CardinalityType
<1>2. Cardinality(Threads) # 0
  BY ThreadsAssumption, FS_EmptySet
<1> QED BY <1>1, <1>2

\* Every set of participants is finite.
LEMMA ThreadSubset ==
  ASSUME NEW S \in SUBSET Threads
  PROVE  IsFiniteSet(S) /\ Cardinality(S) \in Nat
  BY ThreadsAssumption, FS_Subset, FS_CardinalityType

\* The sleeping, checking and opening threads of a step that counts nobody and
\* starts no generation stay the same set.
LEMMA WaitingStable ==
  ASSUME BarrierInv, NEW t \in Threads,
         UNCHANGED <<waiting_threads, generation, gen>>,
         pc' = [pc EXCEPT ![t] = pc'[t]],
         pc[t] \in {"check", "asleep", "relock", "open"} =>
           pc'[t] \in {"check", "asleep", "relock", "open"}
             \/ gen[t] # generation,
         pc[t] \notin {"check", "asleep", "relock", "open"} =>
           pc'[t] \notin {"check", "asleep", "relock", "open"}
  PROVE  Waiting' = Waiting
  BY DEF BarrierInv, TypeOK, Waiting

---------------------------------------------------------------------------
LEMMA InitInv == Init => BarrierInv
<1> SUFFICES ASSUME Init PROVE BarrierInv
  OBVIOUS
<1>1. TypeOK
  BY IntAssumption DEF Init, TypeOK, Generations, Points
<1>2. MutexOwned /\ Lifecycle /\ GenerationOver /\ NoLostWakeup
  BY ThreadsAssumption
     DEF Init, MutexOwned, Critical, Lifecycle, GenerationOver, NoLostWakeup
<1>3. CountedOnce
  <2>1. Waiting = {}
    BY DEF Init, Waiting
  <2> QED BY <2>1, FS_EmptySet DEF Init, CountedOnce
<1> QED BY <1>1, <1>2, <1>3 DEF BarrierInv

\* The last arrival finds everybody else in the barrier: when a thread opens,
\* every participant belongs to its round.
LEMMA AllWaitingAtOpen ==
  ASSUME BarrierInv, NEW t \in Threads, pc[t] = "open"
  PROVE  Waiting = Threads
<1>1. main = "running"
  BY DEF BarrierInv, Lifecycle
<1>2. Cardinality(Waiting) = Cardinality(Threads)
  BY <1>1 DEF BarrierInv, CountedOnce, Lifecycle
<1>3. Waiting \subseteq Threads
  BY DEF Waiting
<1> QED BY <1>2, <1>3, ThreadsAssumption, FS_Subset

LEMMA EnterInv ==
  ASSUME BarrierInv, NEW t \in Threads, Enter(t)
  PROVE  BarrierInv'
<1> USE DEF Enter, Goto
<1>1. TypeOK'
  BY DEF BarrierInv, TypeOK, Points
<1>2. Waiting' = Waiting
  BY WaitingStable DEF BarrierInv, TypeOK
<1>3. MutexOwned' /\ Lifecycle' /\ GenerationOver' /\ NoLostWakeup'
  BY DEF BarrierInv, TypeOK, MutexOwned, Critical, Lifecycle, GenerationOver,
         NoLostWakeup
<1>4. CountedOnce'
  BY <1>2 DEF BarrierInv, TypeOK, CountedOnce
<1> QED BY <1>1, <1>3, <1>4 DEF BarrierInv

LEMMA LockInv ==
  ASSUME BarrierInv, NEW t \in Threads, Lock(t)
  PROVE  BarrierInv'
<1> USE DEF Lock, Goto
<1>1. TypeOK'
  BY DEF BarrierInv, TypeOK, Points
<1>2. Waiting' = Waiting
  BY WaitingStable DEF BarrierInv, TypeOK
<1>3. MutexOwned' /\ Lifecycle' /\ GenerationOver' /\ NoLostWakeup'
  BY ThreadsAssumption
     DEF BarrierInv, TypeOK, MutexOwned, Critical, Lifecycle, GenerationOver,
         NoLostWakeup
<1>4. CountedOnce'
  BY <1>2 DEF BarrierInv, TypeOK, CountedOnce
<1> QED BY <1>1, <1>3, <1>4 DEF BarrierInv

LEMMA ArriveInv ==
  ASSUME BarrierInv, NEW t \in Threads, Arrive(t)
  PROVE  BarrierInv'
<1> USE DEF Arrive, Goto
<1>1. TypeOK'
  BY DEF BarrierInv, TypeOK, Points
<1>2. mutex = t /\ main = "running"
  BY DEF BarrierInv, MutexOwned, Critical, Lifecycle
<1>3. \A u \in Threads : pc[u] # "open"
  BY <1>2 DEF BarrierInv, MutexOwned, Critical
<1>4. MutexOwned' /\ Lifecycle' /\ GenerationOver' /\ NoLostWakeup'
  BY DEF BarrierInv, TypeOK, MutexOwned, Critical, Lifecycle, GenerationOver,
         NoLostWakeup
<1>5. CountedOnce'
  <2>1. t \notin Waiting /\ Waiting' = Waiting \cup {t}
    BY DEF BarrierInv, TypeOK, Waiting
  <2>2. IsFiniteSet(Waiting)
    BY ThreadSubset DEF Waiting
  <2>3. Cardinality(Waiting') = Cardinality(Waiting) + 1
    BY <2>1, <2>2, FS_AddElement
  <2>4. waiting_threads' = Cardinality(Waiting')
    BY <2>3 DEF BarrierInv, CountedOnce
  <2>5. waiting_threads < max_threads
    <3>1. waiting_threads # max_threads
      BY <1>2, <1>3 DEF BarrierInv, CountedOnce
    <3>2. Cardinality(Waiting) <= Cardinality(Threads)
      BY ThreadsAssumption, FS_Subset DEF Waiting
    <3> QED
      BY <1>2, <3>1, <3>2
         DEF BarrierInv, CountedOnce, Lifecycle, TypeOK
  <2>6. (\E u \in Threads : pc'[u] = "open") <=> waiting_threads' = max_threads'
    BY <1>3, <2>5 DEF BarrierInv, TypeOK
  <2> QED BY <2>4, <2>6 DEF CountedOnce
<1> QED BY <1>1, <1>4, <1>5 DEF BarrierInv

LEMMA CondWaitInv ==
  ASSUME BarrierInv, NEW t \in Threads, CondWait(t)
  PROVE  BarrierInv'
<1> USE DEF CondWait, Goto
<1>1. TypeOK'
  BY DEF BarrierInv, TypeOK, Points
<1>2. Waiting' = Waiting
  BY WaitingStable DEF BarrierInv, TypeOK
<1>3. MutexOwned' /\ Lifecycle' /\ GenerationOver' /\ NoLostWakeup'
  BY ThreadsAssumption
     DEF BarrierInv, TypeOK, MutexOwned, Critical, Lifecycle, GenerationOver,
         NoLostWakeup, MustWait
<1>4. CountedOnce'
  BY <1>2 DEF BarrierInv, TypeOK, CountedOnce
<1> QED BY <1>1, <1>3, <1>4 DEF BarrierInv

LEMMA LeaveLoopInv ==
  ASSUME BarrierInv, NEW t \in Threads, LeaveLoop(t)
  PROVE  BarrierInv'
<1> USE DEF LeaveLoop, Goto
<1>1. TypeOK'
  BY DEF BarrierInv, TypeOK, Points
<1>2. gen[t] # generation
  <2>1. mutex = t /\ main = "running"
    BY DEF BarrierInv, MutexOwned, Critical, Lifecycle
  <2>2. \A u \in Threads : pc[u] # "open"
    BY <2>1 DEF BarrierInv, MutexOwned, Critical
  <2>3. Cardinality(Waiting) <= Cardinality(Threads)
    BY ThreadsAssumption, FS_Subset DEF Waiting
  <2>4. waiting_threads < max_threads
    BY <2>1, <2>2, <2>3 DEF BarrierInv, CountedOnce, Lifecycle, TypeOK
  <2> QED BY <2>4 DEF MustWait
<1>3. Waiting' = Waiting
  BY <1>2, WaitingStable DEF BarrierInv, TypeOK
<1>4. MutexOwned' /\ Lifecycle' /\ GenerationOver' /\ NoLostWakeup'
  BY <1>2
     DEF BarrierInv, TypeOK, MutexOwned, Critical, Lifecycle, GenerationOver,
         NoLostWakeup
<1>5. CountedOnce'
  BY <1>3 DEF BarrierInv, TypeOK, CountedOnce
<1> QED BY <1>1, <1>4, <1>5 DEF BarrierInv

LEMMA WakeInv ==
  ASSUME BarrierInv, NEW t \in Threads, SpuriousWakeup(t) \/ Relock(t)
  PROVE  BarrierInv'
<1> USE DEF SpuriousWakeup, Relock, Goto
<1>1. TypeOK'
  BY DEF BarrierInv, TypeOK, Points
<1>2. Waiting' = Waiting
  BY WaitingStable DEF BarrierInv, TypeOK
<1>3. MutexOwned' /\ Lifecycle' /\ GenerationOver' /\ NoLostWakeup'
  BY ThreadsAssumption
     DEF BarrierInv, TypeOK, MutexOwned, Critical, Lifecycle, GenerationOver,
         NoLostWakeup
<1>4. CountedOnce'
  BY <1>2 DEF BarrierInv, TypeOK, CountedOnce
<1> QED BY <1>1, <1>3, <1>4 DEF BarrierInv

LEMMA OpenInv ==
  ASSUME BarrierInv, NEW t \in Threads, Open(t)
  PROVE  BarrierInv'
<1> USE DEF Open
<1>1. generation' \in Generations /\ generation' # generation
  BY NextGenerationDiffers DEF BarrierInv, TypeOK
<1>2. TypeOK'
  BY <1>1 DEF BarrierInv, TypeOK, Points
<1>3. \A u \in Threads : /\ gen[u] = generation
                         /\ pc[u] \in {"check", "asleep", "relock", "open"}
  BY AllWaitingAtOpen DEF Waiting
<1>4. mutex = t /\ main = "running"
  BY DEF BarrierInv, MutexOwned, Critical, Lifecycle
<1>5. \A u \in Threads : pc'[u] = "relock" \/ u = t
  BY <1>3, <1>4 DEF BarrierInv, MutexOwned, Critical
<1>6. MutexOwned' /\ Lifecycle' /\ GenerationOver' /\ NoLostWakeup'
  BY <1>4, <1>5
     DEF BarrierInv, TypeOK, MutexOwned, Critical, Lifecycle, GenerationOver,
         NoLostWakeup
<1>7. CountedOnce'
  <2>1. Waiting' = {}
    BY <1>1, <1>3 DEF Waiting
  <2>2. max_threads' # 0
    BY <1>4, ThreadCount DEF BarrierInv, Lifecycle
  <2> QED BY <1>5, <2>1, <2>2, FS_EmptySet DEF CountedOnce
<1> QED BY <1>2, <1>6, <1>7 DEF BarrierInv

LEMMA UnlockInv ==
  ASSUME BarrierInv, NEW t \in Threads, Unlock(t)
  PROVE  BarrierInv'
<1> USE DEF Unlock
<1>1. TypeOK'
  BY DEF BarrierInv, TypeOK, Points
<1>2. Waiting' = Waiting
  BY WaitingStable DEF BarrierInv, TypeOK
<1>3. MutexOwned' /\ Lifecycle' /\ GenerationOver' /\ NoLostWakeup'
  BY ThreadsAssumption
     DEF BarrierInv, TypeOK, MutexOwned, Critical, Lifecycle, GenerationOver,
         NoLostWakeup
<1>4. CountedOnce'
  BY <1>2 DEF BarrierInv, TypeOK, CountedOnce
<1> QED BY <1>1, <1>3, <1>4 DEF BarrierInv

LEMMA MainInv ==
  ASSUME BarrierInv, BarrierInit \/ DestroyLock \/ Destroy
  PROVE  BarrierInv'
<1>1. CASE BarrierInit
  <2> USE <1>1 DEF BarrierInit
  <2>1. TypeOK'
    BY ThreadCount, IntAssumption DEF BarrierInv, TypeOK, Generations
  <2>2. \A t \in Threads : pc[t] = "out"
    BY DEF BarrierInv, Lifecycle
  <2>3. Waiting' = {}
    BY <2>2 DEF Waiting
  <2>4. CountedOnce'
    BY <2>2, <2>3, FS_EmptySet, ThreadCount DEF CountedOnce
  <2>5. MutexOwned' /\ Lifecycle' /\ GenerationOver' /\ NoLostWakeup'
    BY <2>2
       DEF BarrierInv, MutexOwned, Critical, Lifecycle, GenerationOver,
           NoLostWakeup
  <2> QED BY <2>1, <2>4, <2>5 DEF BarrierInv
<1>2. CASE DestroyLock \/ Destroy
  <2> USE <1>2 DEF DestroyLock, Destroy
  <2>1. TypeOK'
    BY DEF BarrierInv, TypeOK
  <2>2. Waiting' = Waiting
    BY DEF Waiting
  <2>3. CountedOnce'
    BY <2>2 DEF BarrierInv, CountedOnce
  <2>4. MutexOwned' /\ Lifecycle' /\ GenerationOver' /\ NoLostWakeup'
    BY ThreadsAssumption
       DEF BarrierInv, MutexOwned, Critical, Lifecycle, GenerationOver,
           NoLostWakeup
  <2> QED BY <2>1, <2>3, <2>4 DEF BarrierInv
<1> QED BY <1>1, <1>2

LEMMA NextInv == BarrierInv /\ [Next]_vars => BarrierInv'
<1> SUFFICES ASSUME BarrierInv, [Next]_vars PROVE BarrierInv'
  OBVIOUS
<1>1. ASSUME NEW t \in Threads, Enter(t) \/ Wait(t) \/ SpuriousWakeup(t)
      PROVE  BarrierInv'
  BY <1>1, EnterInv, LockInv, ArriveInv, CondWaitInv, LeaveLoopInv, WakeInv,
     OpenInv, UnlockInv DEF Wait
<1>2. CASE BarrierInit \/ DestroyLock \/ Destroy
  BY <1>2, MainInv
<1>3. CASE UNCHANGED vars
  BY <1>3 DEF vars, BarrierInv, TypeOK, MutexOwned, Lifecycle, CountedOnce,
              GenerationOver, NoLostWakeup, Waiting
<1> QED BY <1>1, <1>2, <1>3 DEF Next, Terminated

\* The inductive invariant of the barrier holds in every state.
THEOREM Invariance == SafeSpec => []BarrierInv
  BY InitInv, NextInv, PTL DEF SafeSpec

\* waiting_threads counts the threads of the filling round and no others,
\* for any number of participants.
THEOREM CountIsExact == SafeSpec => []CountedOnce
<1>1. BarrierInv => CountedOnce
  BY DEF BarrierInv
<1> QED BY <1>1, Invariance, PTL

\* No participant sleeps through the end of its generation: the broadcast of
\* the last arrival is never lost, although it is sent before the sleepers
\* can test the condition again.
THEOREM SleepersAreWoken == SafeSpec => []NoLostWakeup
<1>1. BarrierInv => NoLostWakeup
  BY DEF BarrierInv
<1> QED BY <1>1, Invariance, PTL

\* my_pthread_barrier_destroy finds nobody counted: a thread that has come back
\* from its last wait was taken off the count by the one that opened.
LEMMA NobodyAtDestroy ==
  ASSUME BarrierInv, Destroy
  PROVE  waiting_threads = 0
<1>1. main = "destroy" /\ \A t \in Threads : pc[t] = "out"
  BY DEF Destroy, BarrierInv, Lifecycle
<1>2. Waiting = {}
  BY <1>1 DEF Waiting
<1> QED BY <1>2, FS_EmptySet DEF BarrierInv, CountedOnce

\* Destroying the barrier succeeds, for any number of participants and rounds.
THEOREM DestroyReturnsZero == SafeSpec => []DestroySucceeds
<1>1. Init => DestroySucceeds
  BY DEF Init, DestroySucceeds
<1>2. BarrierInv /\ DestroySucceeds /\ [Next]_vars => DestroySucceeds'
  <2> SUFFICES ASSUME BarrierInv, DestroySucceeds, [Next]_vars
               PROVE  DestroySucceeds'
    OBVIOUS
  <2>1. CASE Destroy
    BY <2>1, NobodyAtDestroy DEF Destroy, DestroySucceeds
  <2>2. CASE ~Destroy
    BY <2>2 DEF Next, vars, Wait, BarrierInit, DestroyLock, Enter, Lock, Arrive,
                CondWait, LeaveLoop, SpuriousWakeup, Relock, Open, Unlock,
                Terminated, DestroySucceeds
  <2> QED BY <2>1, <2>2
<1> QED BY <1>1, <1>2, Invariance, PTL DEF SafeSpec

---------------------------------------------------------------------------
(* Refinement.                                                             *)

\* What Phase says at each point of a wait.
LEMMA PhaseCases ==
  ASSUME NEW t \in Threads, pc[t] \in Points
  PROVE  /\ pc[t] \in {"out", "lock", "arrive"} => Phase(t) = "out"
         /\ pc[t] = "unlock_serial" => Phase(t) = "serial"
         /\ pc[t] \in {"check", "asleep", "relock", "open", "unlock"} =>
              Phase(t) = IF gen[t] = generation THEN "arrived" ELSE "released"
  BY DEF Phase, Points

\* A step after which every thread is in the phase it was in is a stutter.
LEMMA SamePhases ==
  ASSUME \A t \in Threads : Phase(t)' = Phase(t), UNCHANGED ret
  PROVE  UNCHANGED Abstract!vars
  BY DEF Abstract!vars

LEMMA RefineInit == Init => Abstract!Init
  BY PhaseCases DEF Init, Abstract!Init, Points

\* The steps of a wait that a caller cannot see.
LEMMA RefineHidden ==
  ASSUME BarrierInv, BarrierInv', NEW t \in Threads,
         Enter(t) \/ Lock(t) \/ CondWait(t) \/ LeaveLoop(t)
           \/ SpuriousWakeup(t) \/ Relock(t)
  PROVE  UNCHANGED Abstract!vars
<1>1. \A u \in Threads : pc[u] \in Points /\ pc'[u] \in Points
  BY DEF BarrierInv, TypeOK
<1>2. \A u \in Threads : Phase(u)' = Phase(u)
  <2> SUFFICES ASSUME NEW u \in Threads PROVE Phase(u)' = Phase(u)
    OBVIOUS
  <2>1. gen'[u] = gen[u] /\ generation' = generation
    BY DEF Enter, Lock, CondWait, LeaveLoop, SpuriousWakeup, Relock
  <2>2. CASE pc'[u] = pc[u]
    BY <2>1, <2>2 DEF Phase
  <2>3. CASE pc[u] \in {"out", "lock"} /\ pc'[u] \in {"lock", "arrive"}
    BY <2>3 DEF Phase
  <2>4. CASE /\ pc[u] \in {"check", "asleep", "relock"}
             /\ pc'[u] \in {"check", "asleep", "relock", "unlock"}
    BY <2>1, <2>4 DEF Phase
  <2>5. \/ pc'[u] = pc[u]
        \/ pc[u] \in {"out", "lock"} /\ pc'[u] \in {"lock", "arrive"}
        \/ /\ pc[u] \in {"check", "asleep", "relock"}
           /\ pc'[u] \in {"check", "asleep", "relock", "unlock"}
    BY DEF Enter, Lock, CondWait, LeaveLoop, SpuriousWakeup, Relock, Goto,
           BarrierInv, TypeOK
  <2> QED BY <2>2, <2>3, <2>4, <2>5
<1>3. UNCHANGED ret
  BY DEF Enter, Lock, CondWait, LeaveLoop, SpuriousWakeup, Relock
<1> QED BY <1>2, <1>3, SamePhases

\* Being counted is arriving.
LEMMA RefineArrive ==
  ASSUME BarrierInv, BarrierInv', NEW t \in Threads, Arrive(t)
  PROVE  Abstract!Arrive(t)
<1>1. Phase(t) = "out"
  BY DEF Arrive, Goto, Phase
<1>2. Phase(t)' = "arrived"
  BY DEF Arrive, Goto, Phase, BarrierInv, TypeOK
<1>3. ASSUME NEW u \in Threads, u # t PROVE Phase(u)' = Phase(u)
  BY <1>3 DEF Arrive, Goto, Phase, BarrierInv, TypeOK
<1> QED BY <1>1, <1>2, <1>3 DEF Arrive, Abstract!Arrive

\* Starting the next generation releases the whole round at once.
LEMMA RefineOpen ==
  ASSUME BarrierInv, BarrierInv', NEW t \in Threads, Open(t)
  PROVE  Abstract!Trip(t)
<1>1. \A u \in Threads : /\ gen[u] = generation
                         /\ pc[u] \in {"check", "asleep", "relock", "open"}
  BY AllWaitingAtOpen DEF Open, Waiting
<1>2. generation' # generation
  BY NextGenerationDiffers DEF Open, BarrierInv, TypeOK
<1>3. \A u \in Threads : Phase(u) = "arrived"
  BY <1>1 DEF Phase
<1>4. Phase(t)' = "serial"
  BY DEF Open, Phase
<1>5. ASSUME NEW u \in Threads, u # t PROVE Phase(u)' = "released"
  <2>1. pc'[u] = "relock"
    BY <1>1, <1>5 DEF Open, BarrierInv, MutexOwned, Critical
  <2>2. gen'[u] # generation'
    BY <1>1, <1>2 DEF Open
  <2> QED BY <2>1, <2>2 DEF Phase
<1> QED BY <1>3, <1>4, <1>5 DEF Open, Abstract!Trip

\* Giving the mutex back is the return of the call.
LEMMA RefineUnlock ==
  ASSUME BarrierInv, BarrierInv', NEW t \in Threads, Unlock(t)
  PROVE  Abstract!Return(t)
<1>1. pc[t] = "unlock" => Phase(t) = "released"
  BY DEF Phase, BarrierInv, GenerationOver
<1>2. pc[t] = "unlock_serial" => Phase(t) = "serial"
  BY DEF Phase
<1>3. Phase(t)' = "out"
  BY DEF Unlock, Phase, BarrierInv, TypeOK
<1>4. ASSUME NEW u \in Threads, u # t PROVE Phase(u)' = Phase(u)
  BY <1>4 DEF Unlock, Phase, BarrierInv, TypeOK
<1> QED
  BY <1>1, <1>2, <1>3, <1>4
     DEF Unlock, Abstract!Return, SERIAL, Abstract!SERIAL

LEMMA RefineMain ==
  ASSUME BarrierInv, BarrierInit \/ DestroyLock \/ Destroy
  PROVE  UNCHANGED Abstract!vars
<1>1. \A t \in Threads : pc[t] = "out" /\ pc'[t] = "out"
  BY DEF BarrierInv, Lifecycle, BarrierInit, DestroyLock, Destroy
<1>2. \A t \in Threads : Phase(t)' = Phase(t)
  BY <1>1 DEF Phase
<1> QED BY <1>2, SamePhases DEF BarrierInit, DestroyLock, Destroy

LEMMA RefineNext ==
  BarrierInv /\ BarrierInv' /\ [Next]_vars => [Abstract!Next]_(Abstract!vars)
<1> SUFFICES ASSUME BarrierInv, BarrierInv', [Next]_vars
             PROVE  [Abstract!Next]_(Abstract!vars)
  OBVIOUS
<1>1. ASSUME NEW t \in Threads, Enter(t) \/ Wait(t) \/ SpuriousWakeup(t)
      PROVE  [Abstract!Next]_(Abstract!vars)
  <2>1. CASE Arrive(t) \/ Unlock(t)
    BY <2>1, RefineArrive, RefineUnlock DEF Abstract!Next
  <2>2. CASE Open(t)
    BY <2>2, RefineOpen DEF Abstract!Next, Abstract!AnyTrip
  <2>3. CASE Enter(t) \/ Lock(t) \/ CondWait(t) \/ LeaveLoop(t)
               \/ SpuriousWakeup(t) \/ Relock(t)
    BY <2>3, RefineHidden
  <2> QED BY <1>1, <2>1, <2>2, <2>3 DEF Wait
<1>2. CASE BarrierInit \/ DestroyLock \/ Destroy
  BY <1>2, RefineMain
<1>3. CASE UNCHANGED vars
  <2>1. \A t \in Threads : Phase(t)' = Phase(t)
    BY <1>3 DEF vars, Phase
  <2> QED BY <1>3, <2>1, SamePhases DEF vars
<1> QED BY <1>1, <1>2, <1>3 DEF Next, Terminated

\* Every behaviour of the code is a behaviour of the abstract barrier, for any
\* finite number of threads, through every wrap of the generation and under
\* any spurious wakeups. (Liveness is left to the model checker.)
THEOREM Refinement == SafeSpec => Abstract!SafeSpec
  BY RefineInit, RefineNext, Invariance, PTL DEF SafeSpec, Abstract!SafeSpec
=============================================================================
