--------------------------- MODULE SharedCounter ----------------------------
(***************************************************************************)
(* Threads that add to shared memory, and the main thread that joins them. *)
(*   "mutex"   exercise06/task_1: one counter, 73 added and 71 taken away  *)
(*             in turn, under a mutex                                      *)
(*   "atomic"  the same with an atomic counter                             *)
(*   "files"   exercise03/task_3b: a sum for each thread, of a file of its *)
(*             own, that main adds up when it has joined the thread        *)
(***************************************************************************)
EXTENDS Integers, Sequences, Sums

CONSTANTS
  NUM_THREADS,
  Iterations,       \* turns of the loop of thread_function
  Files,            \* the numbers in each file, or NoFile if it cannot be read
  NoFile,
  None              \* the owner of a free mutex

Threads == 1 .. NUM_THREADS

VARIABLES
  adding,           \* the program that runs, "none" before
  adder,            \* where each thread is
  i,                \* its turns of the loop, or lines read
  register,         \* what it has read of the counter
  counter,
  lock,             \* owner of the mutex
  sum,              \* sum_thread_t.sum
  joiner,           \* where main is
  created,          \* threads it has created
  joined,           \* threads it has joined
  total_sum

vars == <<adding, adder, i, register, counter, lock, sum, joiner, created, joined,
          total_sum>>
mains == <<joiner, created, joined, total_sum>>

Init ==
  /\ adding = "none"
  /\ adder = [t \in Threads |-> "none"]
  /\ i = [t \in Threads |-> 0]
  /\ register = [t \in Threads |-> 0]
  /\ counter = 0
  /\ lock = None
  /\ sum = [t \in Threads |-> 0]
  /\ joiner = "none"
  /\ created = 0
  /\ joined = 0
  /\ total_sum = 0

Start(p) ==
  /\ adding = "none"
  /\ adding' = p
  /\ joiner' = "create"
  /\ UNCHANGED <<adder, i, register, counter, lock, sum, created, joined, total_sum>>

Goto(t, p, from, to) ==
  /\ adding = p
  /\ adder[t] = from
  /\ adder' = [adder EXCEPT ![t] = to]

---------------------------------------------------------------------------
\* thread_function of the two counters

\* What the turn with this i adds.
Step(n) == IF n % 2 = 0 THEN 73 ELSE -71

\* Mutant: the mutex is taken for the store only.
LockLate(t) ==
  /\ i[t] < Iterations
  /\ Goto(t, "mutex", "loop", "load")
  /\ UNCHANGED <<adding, i, register, counter, lock, sum, mains>>

Lock(t) ==
  /\ lock = None
  /\ i[t] < Iterations
  /\ Goto(t, "mutex", "loop", "load")
  /\ lock' = t
  /\ UNCHANGED <<adding, i, register, counter, sum, mains>>

Load(t) ==
  /\ Goto(t, "mutex", "load", "store")
  /\ register' = [register EXCEPT ![t] = counter]
  /\ UNCHANGED <<adding, i, counter, lock, sum, mains>>

Store(t) ==
  /\ Goto(t, "mutex", "store", "loop")
  /\ counter' = register[t] + Step(i[t])
  /\ register' = [register EXCEPT ![t] = 0]
  /\ i' = [i EXCEPT ![t] = @ + 1]
  /\ lock' = None
  /\ UNCHANGED <<adding, sum, mains>>

\* atomic_fetch_add and atomic_fetch_sub
FetchAdd(t) ==
  /\ i[t] < Iterations
  /\ Goto(t, "atomic", "loop", "loop")
  /\ counter' = counter + Step(i[t])
  /\ i' = [i EXCEPT ![t] = @ + 1]
  /\ UNCHANGED <<adding, register, lock, sum, mains>>

LoopEnds(t) ==
  /\ adding \in {"mutex", "atomic"}
  /\ i[t] = Iterations
  /\ Goto(t, adding, "loop", "exited")
  /\ UNCHANGED <<adding, i, register, counter, lock, sum, mains>>

---------------------------------------------------------------------------
\* sum_file

\* A file that cannot be opened leaves the sum at the zero main has put there.
CannotOpen(t) ==
  /\ Goto(t, "files", "loop", "exited")
  /\ Files[t] = NoFile
  /\ UNCHANGED <<adding, i, register, counter, lock, sum, mains>>

ReadLine(t) ==
  /\ Goto(t, "files", "loop", "loop")
  /\ Files[t] # NoFile
  /\ i[t] < Len(Files[t])
  /\ sum' = [sum EXCEPT ![t] = @ + Files[t][i[t] + 1]]
  /\ i' = [i EXCEPT ![t] = @ + 1]
  /\ UNCHANGED <<adding, register, counter, lock, mains>>

EndOfFile(t) ==
  /\ Goto(t, "files", "loop", "exited")
  /\ Files[t] # NoFile
  /\ i[t] = Len(Files[t])
  /\ UNCHANGED <<adding, i, register, counter, lock, sum, mains>>

---------------------------------------------------------------------------
\* main

Create ==
  /\ joiner = "create"
  /\ created < NUM_THREADS
  /\ created' = created + 1
  /\ adder' = [adder EXCEPT ![created + 1] = "loop"]
  /\ joiner' = IF created + 1 = NUM_THREADS THEN "join" ELSE "create"
  /\ UNCHANGED <<adding, i, register, counter, lock, sum, joined, total_sum>>

\* The process ends, and with it the threads there are.
Killed == [t \in Threads |-> IF adder[t] = "unborn" THEN "unborn" ELSE "killed"]

\* A failing create ends the process,
CreateFails ==
  /\ joiner = "create"
  /\ adding # "files"
  /\ joiner' = "failed"
  /\ adder' = Killed
  /\ UNCHANGED <<adding, i, register, counter, lock, sum, created, joined, total_sum>>

\* except in task_3b, where main tests for a negative result, which there is
\* none: it goes on as if the thread was there.
CreateUnnoticed ==
  /\ joiner = "create"
  /\ adding = "files"
  /\ created < NUM_THREADS
  /\ created' = created + 1
  /\ adder' = [adder EXCEPT ![created + 1] = "unborn"]
  /\ joiner' = IF created + 1 = NUM_THREADS THEN "join" ELSE "create"
  /\ UNCHANGED <<adding, i, register, counter, lock, sum, joined, total_sum>>

Join ==
  /\ joiner = "join"
  /\ adder[joined + 1] = "exited"
  /\ joined' = joined + 1
  /\ total_sum' = total_sum + sum[joined + 1]
  /\ joiner' = IF joined + 1 = NUM_THREADS THEN "done" ELSE "join"
  /\ UNCHANGED <<adding, adder, i, register, counter, lock, sum, created>>

\* The handle of a thread that was not created was never written: joining it
\* ends the process or fails, and then the sum is the zero main has put there.
JoinUnborn ==
  /\ joiner = "join"
  /\ adder[joined + 1] = "unborn"
  /\ \/ /\ joined' = joined + 1
        /\ total_sum' = total_sum + sum[joined + 1]
        /\ joiner' = IF joined + 1 = NUM_THREADS THEN "done" ELSE "join"
        /\ adder' = adder
     \/ /\ joiner' = "failed"
        /\ adder' = Killed
        /\ UNCHANGED <<joined, total_sum>>
  /\ UNCHANGED <<adding, i, register, counter, lock, sum, created>>

---------------------------------------------------------------------------
thread_function(t) == Load(t) \/ Store(t) \/ FetchAdd(t) \/ LoopEnds(t)
sum_file(t) == CannotOpen(t) \/ ReadLine(t) \/ EndOfFile(t)

Next ==
  \/ \E p \in {"mutex", "atomic", "files"} : Start(p)
  \/ \E t \in Threads : Lock(t) \/ thread_function(t) \/ sum_file(t)
  \/ Create \/ CreateFails \/ CreateUnnoticed \/ Join \/ JoinUnborn

Spec == Init /\ [][Next]_vars

---------------------------------------------------------------------------
\* The types.
TypeOK ==
  /\ adding \in {"none", "mutex", "atomic", "files"}
  /\ adder \in [Threads -> {"none", "loop", "load", "store", "exited", "unborn", "killed"}]
  /\ i \in [Threads -> Nat]
  /\ register \in [Threads -> Int]
  /\ counter \in Int
  /\ lock \in Threads \cup {None}
  /\ sum \in [Threads -> Int]
  /\ joiner \in {"none", "create", "join", "done", "failed"}
  /\ created \in 0 .. NUM_THREADS /\ joined \in 0 .. created

\* What the first n turns of a thread amount to.
Added(n) == 73 * ((n + 1) \div 2) - 71 * (n \div 2)

\* What there is to read for each thread that there is.
Contents ==
  [t \in Threads |-> IF Files[t] = NoFile \/ adder[t] = "unborn" THEN 0
                    ELSE Total(Files[t], Len(Files[t]))]

\* No addition is ever lost: at any moment the counter is what the turns that
\* are over amount to, and a thread in the middle of one holds the value of now.
NothingLost ==
  adding \in {"mutex", "atomic"} =>
    /\ counter = Total([t \in Threads |-> Added(i[t])], NUM_THREADS)
    /\ \A t \in Threads : adder[t] = "store" => lock = t /\ register[t] = counter

\* The total main prints is that of all the files it was given that have a thread
\* and could be read, however the threads' reading and main's joining interleave.
\* A file whose thread was not created is missing from it without a word.
TotalIsExact ==
  joiner = "done" /\ adding = "files" =>
    total_sum = Total(Contents, NUM_THREADS)

=============================================================================
