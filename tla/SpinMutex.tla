----------------------------- MODULE SpinMutex ------------------------------
(***************************************************************************)
(* exercise09/task_1: one thread fills a queue with ones and a final zero, *)
(* another takes them out and adds them up, under a mutex that is either   *)
(* the program's own, a flag set in a loop of test-and-set and sched_yield *)
(* (c_mutex_t), or that of the C library.                                  *)
(***************************************************************************)
EXTENDS Naturals, Sequences

CONSTANT Count      \* the ones to push, 10000000 in the program

Threads == {"populate", "sum"}

VARIABLES
  kind,             \* "none" before the program runs, "c_mutex" or "pthread"
  locked,           \* the flag, or that the library's mutex is taken
  at,               \* where each thread is
  fifo,             \* the queue
  pushed,           \* i of populate
  buf,              \* what sum has popped
  overall           \* its sum

vars == <<kind, locked, at, fifo, pushed, buf, overall>>

Init ==
  /\ kind = "none"
  /\ locked = FALSE
  /\ at = [t \in Threads |-> "none"]
  /\ fifo = <<>>
  /\ pushed = 0
  /\ buf = 0
  /\ overall = 0

\* main initialises queue and mutex, which the build has chosen, and creates
\* the threads.
Start ==
  /\ kind = "none"
  /\ kind' \in {"c_mutex", "pthread"}
  /\ at' = [t \in Threads |-> "lock"]
  /\ UNCHANGED <<locked, fifo, pushed, buf, overall>>

Goto(t, from, to) ==
  /\ at[t] = from
  /\ at' = [at EXCEPT ![t] = to]

---------------------------------------------------------------------------
\* The mutex

\* Mutant: the flag is tested in one step and set in another.
TestThenSet(t) ==
  \/ /\ ~locked
     /\ Goto(t, "lock", "yield")
     /\ UNCHANGED <<kind, locked, fifo, pushed, buf, overall>>
  \/ /\ Goto(t, "yield", "critical")
     /\ locked' = TRUE
     /\ UNCHANGED <<kind, fifo, pushed, buf, overall>>

\* atomic_flag_test_and_set finds the flag clear, and sets it.
TestAndSet(t) ==
  /\ ~locked
  /\ Goto(t, "lock", "critical")
  /\ locked' = TRUE
  /\ UNCHANGED <<kind, fifo, pushed, buf, overall>>

\* It finds the flag set: the thread yields. (The library's mutex would block.)
Fail(t) ==
  /\ kind = "c_mutex"
  /\ locked
  /\ Goto(t, "lock", "yield")
  /\ UNCHANGED <<kind, locked, fifo, pushed, buf, overall>>

Yield(t) ==
  /\ Goto(t, "yield", "lock")
  /\ UNCHANGED <<kind, locked, fifo, pushed, buf, overall>>

lock(t) == TestAndSet(t) \/ Fail(t) \/ Yield(t)

---------------------------------------------------------------------------
\* The threads

\* A one, or after all of them the zero.
Push ==
  /\ Goto("populate", "critical", "unlock")
  /\ fifo' = Append(fifo, IF pushed < Count THEN 1 ELSE 0)
  /\ pushed' = pushed + 1
  /\ UNCHANGED <<kind, locked, buf, overall>>

Pushed ==
  /\ Goto("populate", "unlock", IF pushed > Count THEN "exited" ELSE "lock")
  /\ locked' = FALSE
  /\ UNCHANGED <<kind, fifo, pushed, buf, overall>>

\* Nothing there: give the mutex back and try again.
Empty ==
  /\ fifo = <<>>
  /\ Goto("sum", "critical", "lock")
  /\ locked' = FALSE
  /\ UNCHANGED <<kind, fifo, pushed, buf, overall>>

Pop ==
  /\ fifo # <<>>
  /\ Goto("sum", "critical", "unlock")
  /\ buf' = Head(fifo)
  /\ fifo' = Tail(fifo)
  /\ UNCHANGED <<kind, locked, pushed, overall>>

\* The mutex is given back; what was popped is added, or it was the zero.
Add ==
  /\ Goto("sum", "unlock", IF buf = 0 THEN "exited" ELSE "lock")
  /\ locked' = FALSE
  /\ overall' = overall + buf
  /\ UNCHANGED <<kind, fifo, pushed, buf>>

---------------------------------------------------------------------------
populate == Push \/ Pushed
sum == Empty \/ Pop \/ Add

Next == Start \/ (\E t \in Threads : lock(t)) \/ populate \/ sum

Spec == Init /\ [][Next]_vars

---------------------------------------------------------------------------
Inside(t) == at[t] \in {"critical", "unlock"}

\* The types.
TypeOK ==
  /\ kind \in {"none", "c_mutex", "pthread"}
  /\ locked \in BOOLEAN
  /\ at \in [Threads -> {"none", "lock", "yield", "critical", "unlock", "exited"}]
  /\ fifo \in Seq({0, 1})
  /\ pushed \in 0 .. Count + 1
  /\ buf \in {0, 1}
  /\ overall \in Nat

\* Between lock and unlock there is one thread at most, and the flag is set
\* exactly while there is one.
MutualExclusion ==
  /\ locked <=> \E t \in Threads : Inside(t)
  /\ ~ (Inside("populate") /\ Inside("sum"))

\* Every one is counted once: what is added, popped and still queued are the
\* ones pushed so far, the zero is behind them, and sum stops with all of them.
EveryOneCounts ==
  LET zeros == {k \in DOMAIN fifo : fifo[k] = 0}
      popped == IF at["sum"] = "unlock" THEN buf ELSE 0
  IN
  /\ zeros \subseteq {Len(fifo)}
  /\ overall + popped + (Len(fifo) - IF zeros = {} THEN 0 ELSE 1)
       = IF pushed > Count THEN Count ELSE pushed
  /\ at["sum"] = "exited" => overall = Count /\ fifo = <<>>

=============================================================================
