--------------------------- MODULE ThreadBarrier ---------------------------
(***************************************************************************)
(* What a barrier for a fixed group of threads promises: nobody returns    *)
(* from a wait before everybody has called it, all the calls of a round    *)
(* are released together, exactly one of them returns the serial value,    *)
(* and the barrier can be used again at once, by threads that are faster   *)
(* than others still on their way out.                                     *)
(*                                                                         *)
(* It stands for pthread_barrier_t where the code uses the library's, and  *)
(* it is what MyPthreadBarrier is shown to implement.                      *)
(***************************************************************************)
EXTENDS Integers

CONSTANT Threads    \* the threads the barrier was initialised for

VARIABLES
  phase,            \* where each thread is: see Phases
  ret               \* what the last wait of each thread returned

vars == <<phase, ret>>

SERIAL == -1        \* PTHREAD_BARRIER_SERIAL_THREAD

Phases == {"out", "arrived", "released", "serial"}

TypeOK ==
  /\ phase \in [Threads -> Phases]
  /\ ret \in [Threads -> {0, SERIAL}]

Init ==
  /\ phase = [t \in Threads |-> "out"]
  /\ ret = [t \in Threads |-> 0]

\* t calls wait and is counted.
Arrive(t) ==
  /\ phase[t] = "out"
  /\ phase' = [phase EXCEPT ![t] = "arrived"]
  /\ UNCHANGED ret

\* The last one is in: all are released in one step, s as the serial thread.
Trip(s) ==
  /\ \A t \in Threads : phase[t] = "arrived"
  /\ phase' = [t \in Threads |-> IF t = s THEN "serial" ELSE "released"]
  /\ UNCHANGED ret

\* The wait of t returns.
Return(t) ==
  /\ phase[t] \in {"released", "serial"}
  /\ phase' = [phase EXCEPT ![t] = "out"]
  /\ ret' = [ret EXCEPT ![t] = IF phase[t] = "serial" THEN SERIAL ELSE 0]

AnyTrip == \E s \in Threads : Trip(s)

Next ==
  \/ \E t \in Threads : Arrive(t) \/ Return(t)
  \/ AnyTrip

\* A full round is released, and a released call returns.
Fairness ==
  /\ WF_vars(AnyTrip)
  /\ \A t \in Threads : WF_vars(Return(t))

SafeSpec == Init /\ [][Next]_vars

Spec == SafeSpec /\ Fairness
=============================================================================
