-------------------------- MODULE MyPthreadBarrier --------------------------
(***************************************************************************)
(* The barrier of exercise09/task_3: a counter and a generation number     *)
(* under a mutex, and a condition variable the early threads sleep on.     *)
(* One process per participating thread, calling wait again and again, and *)
(* the main thread that initialises the barrier and destroys it once every *)
(* participant has left.                                                   *)
(*                                                                         *)
(* generation is an int that is incremented for ever; here it runs over    *)
(* IntMin..IntMax and wraps, as the increment of a stored int does.        *)
(***************************************************************************)
EXTENDS Integers, FiniteSets

CONSTANTS
  Threads,          \* the participants, count of my_pthread_barrier_init
  Main,             \* the thread that creates and destroys the barrier
  None,             \* no thread: the owner of a free mutex
  IntMin, IntMax    \* the range of the generation

ASSUME ThreadsAssumption ==
  /\ IsFiniteSet(Threads)
  /\ Threads # {}
  /\ Main \notin Threads
  /\ None \notin Threads \cup {Main}

ASSUME IntAssumption ==
  /\ IntMin \in Int /\ IntMax \in Int
  /\ IntMin < IntMax
  /\ 0 \in IntMin..IntMax

VARIABLES
  max_threads, waiting_threads, generation,     \* my_pthread_barrier_t
  mutex,            \* owner of barrier_mutex
  pc,               \* where each participant is
  gen,              \* its local copy of the generation
  ret,              \* what its last wait returned
  main,             \* where the main thread is
  destroyed         \* what my_pthread_barrier_destroy returned

vars == <<max_threads, waiting_threads, generation, mutex, pc, gen, ret,
          main, destroyed>>

SERIAL == -1        \* MY_PTHREAD_BARRIER_SERIAL_THREAD

Generations == IntMin..IntMax

NextGeneration(g) == IF g = IntMax THEN IntMin ELSE g + 1

\* The points of a wait; "asleep" is in the set the condition variable wakes.
Points == {"out", "lock", "arrive", "check", "asleep", "relock", "open",
           "unlock", "unlock_serial"}

\* Those between lock and unlock.
Critical == {"arrive", "check", "open", "unlock", "unlock_serial"}

Init ==
  /\ max_threads = 0
  /\ waiting_threads = 0
  /\ generation = 0
  /\ mutex = None
  /\ pc = [t \in Threads |-> "out"]
  /\ gen = [t \in Threads |-> 0]
  /\ ret = [t \in Threads |-> 0]
  /\ main = "init"
  /\ destroyed = 0

---------------------------------------------------------------------------
\* my_pthread_barrier_wait

Goto(t, from, to) ==
  /\ pc[t] = from
  /\ pc' = [pc EXCEPT ![t] = to]

\* A participant that the main thread has created calls wait.
Enter(t) ==
  /\ main = "running"
  /\ Goto(t, "out", "lock")
  /\ UNCHANGED <<max_threads, waiting_threads, generation, mutex, gen, ret,
                 main, destroyed>>

Lock(t) ==
  /\ mutex = None
  /\ mutex' = t
  /\ Goto(t, "lock", "arrive")
  /\ UNCHANGED <<max_threads, waiting_threads, generation, gen, ret, main,
                 destroyed>>

\* Mutant: <= for <, so that the last thread waits as well.
ArriveOffByOne(t) ==
  /\ gen' = [gen EXCEPT ![t] = generation]
  /\ waiting_threads' = waiting_threads + 1
  /\ Goto(t, "arrive",
          IF waiting_threads' <= max_threads THEN "check" ELSE "open")
  /\ UNCHANGED <<max_threads, generation, mutex, ret, main, destroyed>>

\* Remember the generation, be counted, and see whether this was the last.
Arrive(t) ==
  /\ gen' = [gen EXCEPT ![t] = generation]
  /\ waiting_threads' = waiting_threads + 1
  /\ Goto(t, "arrive",
          IF waiting_threads' < max_threads THEN "check" ELSE "open")
  /\ UNCHANGED <<max_threads, generation, mutex, ret, main, destroyed>>

MustWait(t) == gen[t] = generation /\ waiting_threads < max_threads

\* pthread_cond_wait gives up the mutex and goes to sleep in one step.
CondWait(t) ==
  /\ MustWait(t)
  /\ Goto(t, "check", "asleep")
  /\ mutex' = None
  /\ UNCHANGED <<max_threads, waiting_threads, generation, gen, ret, main,
                 destroyed>>

LeaveLoop(t) ==
  /\ ~MustWait(t)
  /\ Goto(t, "check", "unlock")
  /\ UNCHANGED <<max_threads, waiting_threads, generation, mutex, gen, ret,
                 main, destroyed>>

\* A sleeper may wake without any broadcast.
SpuriousWakeup(t) ==
  /\ Goto(t, "asleep", "relock")
  /\ UNCHANGED <<max_threads, waiting_threads, generation, mutex, gen, ret,
                 main, destroyed>>

\* Mutant: if for while, so that a sleeper leaves whatever woke it.
RelockWithoutTest(t) ==
  /\ mutex = None
  /\ mutex' = t
  /\ Goto(t, "relock", "unlock")
  /\ UNCHANGED <<max_threads, waiting_threads, generation, gen, ret, main,
                 destroyed>>

\* Awake, it takes the mutex back before it looks at the condition again.
Relock(t) ==
  /\ mutex = None
  /\ mutex' = t
  /\ Goto(t, "relock", "check")
  /\ UNCHANGED <<max_threads, waiting_threads, generation, gen, ret, main,
                 destroyed>>

\* Mutant: the count is not reset.
OpenKeepingCount(t) ==
  /\ pc[t] = "open"
  /\ generation' = NextGeneration(generation)
  /\ pc' = [u \in Threads |-> IF u = t THEN "unlock_serial"
                              ELSE IF pc[u] = "asleep" THEN "relock"
                              ELSE pc[u]]
  /\ UNCHANGED <<max_threads, waiting_threads, mutex, gen, ret, main,
                 destroyed>>

\* Mutant: the generation stays.
OpenKeepingGeneration(t) ==
  /\ pc[t] = "open"
  /\ waiting_threads' = 0
  /\ pc' = [u \in Threads |-> IF u = t THEN "unlock_serial"
                              ELSE IF pc[u] = "asleep" THEN "relock"
                              ELSE pc[u]]
  /\ UNCHANGED <<max_threads, generation, mutex, gen, ret, main, destroyed>>

\* Mutant: pthread_cond_signal for pthread_cond_broadcast.
OpenWithSignal(t) ==
  LET asleep == {u \in Threads : pc[u] = "asleep"} IN
  /\ pc[t] = "open"
  /\ waiting_threads' = 0
  /\ generation' = NextGeneration(generation)
  /\ \E woken \in SUBSET asleep :
       /\ Cardinality(woken) = IF asleep = {} THEN 0 ELSE 1
       /\ pc' = [u \in Threads |-> IF u = t THEN "unlock_serial"
                                   ELSE IF u \in woken THEN "relock"
                                   ELSE pc[u]]
  /\ UNCHANGED <<max_threads, mutex, gen, ret, main, destroyed>>

\* The last thread starts the next generation and wakes all the sleepers.
Open(t) ==
  /\ pc[t] = "open"
  /\ waiting_threads' = 0
  /\ generation' = NextGeneration(generation)
  /\ pc' = [u \in Threads |-> IF u = t THEN "unlock_serial"
                              ELSE IF pc[u] = "asleep" THEN "relock"
                              ELSE pc[u]]
  /\ UNCHANGED <<max_threads, mutex, gen, ret, main, destroyed>>

Unlock(t) ==
  /\ pc[t] \in {"unlock", "unlock_serial"}
  /\ mutex' = None
  /\ ret' = [ret EXCEPT ![t] = IF pc[t] = "unlock_serial" THEN SERIAL ELSE 0]
  /\ pc' = [pc EXCEPT ![t] = "out"]
  /\ UNCHANGED <<max_threads, waiting_threads, generation, gen, main,
                 destroyed>>

---------------------------------------------------------------------------
\* my_pthread_barrier_init and my_pthread_barrier_destroy

BarrierInit ==
  /\ main = "init"
  /\ main' = "running"
  /\ max_threads' = Cardinality(Threads)
  /\ waiting_threads' = 0
  /\ generation' = 0
  /\ UNCHANGED <<mutex, pc, gen, ret, destroyed>>

\* The main thread has joined every participant and calls destroy.
DestroyLock ==
  /\ main = "running"
  /\ \A t \in Threads : pc[t] = "out"
  /\ mutex = None
  /\ mutex' = Main
  /\ main' = "destroy"
  /\ UNCHANGED <<max_threads, waiting_threads, generation, pc, gen, ret,
                 destroyed>>

\* It is refused with -2 when somebody is counted as waiting.
Destroy ==
  /\ main = "destroy"
  /\ mutex' = None
  /\ destroyed' = IF waiting_threads > 0 THEN -2 ELSE 0
  /\ main' = "done"
  /\ UNCHANGED <<max_threads, waiting_threads, generation, pc, gen, ret>>

Terminated == main = "done" /\ UNCHANGED vars

---------------------------------------------------------------------------
Wait(t) ==
  \/ Lock(t) \/ Arrive(t) \/ CondWait(t) \/ LeaveLoop(t) \/ Relock(t)
  \/ Open(t) \/ Unlock(t)

Next ==
  \/ \E t \in Threads : Enter(t) \/ Wait(t) \/ SpuriousWakeup(t)
  \/ BarrierInit \/ DestroyLock \/ Destroy
  \/ Terminated

\* Every thread inside a wait keeps running, and is not locked out of the
\* mutex for ever by others that come and go. Nobody has to call wait, and
\* nobody has to wake without a broadcast.
Fairness ==
  \A t \in Threads :
    /\ WF_vars(Arrive(t) \/ CondWait(t) \/ LeaveLoop(t) \/ Open(t)
               \/ Unlock(t))
    /\ SF_vars(Lock(t) \/ Relock(t))

SafeSpec == Init /\ [][Next]_vars

Spec == SafeSpec /\ Fairness

---------------------------------------------------------------------------
\* The types; the generation stays within its int.
TypeOK ==
  /\ max_threads \in Nat
  /\ waiting_threads \in Nat
  /\ generation \in Generations
  /\ mutex \in Threads \cup {Main, None}
  /\ pc \in [Threads -> Points]
  /\ gen \in [Threads -> Generations]
  /\ ret \in [Threads -> {0, SERIAL}]
  /\ main \in {"init", "running", "destroy", "done"}
  /\ destroyed \in {0, -2}

\* The threads of the round that is filling up.
Waiting == {t \in Threads : /\ pc[t] \in {"check", "asleep", "relock", "open"}
                            /\ gen[t] = generation}

\* One thread at a time is between lock and unlock, and it owns the mutex.
MutexOwned ==
  /\ \A t \in Threads : pc[t] \in Critical <=> mutex = t
  /\ main = "destroy" <=> mutex = Main

\* Before the barrier exists and after it is gone nobody is in a wait.
Lifecycle ==
  /\ main # "running" => \A t \in Threads : pc[t] = "out"
  /\ main # "init" => max_threads = Cardinality(Threads)

\* waiting_threads counts exactly the threads of the current round, and it
\* only reaches max_threads in the hands of the thread about to reset it: the
\* threads of the round before, still on their way out, are never counted.
CountedOnce ==
  /\ waiting_threads = Cardinality(Waiting)
  /\ main # "init" =>
       ((\E t \in Threads : pc[t] = "open") <=> waiting_threads = max_threads)

\* The thread that opens is of the current round, and a thread that leaves the
\* loop of wait does so because its generation is over.
GenerationOver ==
  \A t \in Threads :
    /\ pc[t] = "open" => gen[t] = generation
    /\ pc[t] = "unlock" => gen[t] # generation

\* The broadcast reaches everybody it is meant for: nobody sleeps on through
\* a generation that has ended, and nobody goes to sleep on one.
NoLostWakeup == \A t \in Threads : pc[t] = "asleep" => gen[t] = generation

\* What makes the barrier work, as one inductive invariant.
BarrierInv ==
  /\ TypeOK
  /\ MutexOwned
  /\ Lifecycle
  /\ CountedOnce
  /\ GenerationOver
  /\ NoLostWakeup

\* Once every participant has returned for good, destroy is not refused: the
\* count was reset by the thread that opened the last round.
DestroySucceeds == destroyed = 0

---------------------------------------------------------------------------
\* What a caller sees of a wait: it has arrived once it is counted, and it is
\* released by the change of the generation, not by waking up.
Phase(t) ==
  CASE pc[t] \in {"out", "lock", "arrive"} -> "out"
    [] pc[t] = "unlock_serial" -> "serial"
    [] OTHER -> IF gen[t] = generation THEN "arrived" ELSE "released"

Abstract == INSTANCE ThreadBarrier WITH phase <- [t \in Threads |-> Phase(t)]

\* The code implements the barrier: rounds open as a whole, one serial thread
\* each, safely reused, whatever wakes spuriously; and a full round is
\* released and every released call returns.
ImplementsBarrier == Abstract!Spec
=============================================================================
