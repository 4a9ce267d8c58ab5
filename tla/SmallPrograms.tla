--------------------------- MODULE SmallPrograms ----------------------------
(***************************************************************************)
(* The programs that share nothing with any other, side by side: a         *)
(* behaviour starts one of them and stays with it.                         *)
(***************************************************************************)
EXTENDS Integers, Sequences

\* The owner of a free mutex, a task that is none, a field that is NULL.
CONSTANT None

---------------------------------------------------------------------------
CONSTANTS Request, MSG_SIZE, Stack

VARIABLES scheduler, shutdown, exists, writable, queue, msg_buf, stack, task,
          save_ptr, stats, token_amount, service
sched == <<scheduler, shutdown, exists, writable, queue, msg_buf, stack, task,
           save_ptr, stats, token_amount, service>>

Sched == INSTANCE Scheduler

\* The numbers of a request, and their sum, are ints, and it fits into the buffer
\* with a zero behind it. What is on the stack has a zero in the end, too.
ASSUME SchedulerAssumption ==
  /\ MSG_SIZE \in Nat \ {0}
  /\ None \notin DOMAIN Request
  /\ \A s \in DOMAIN Request :
       /\ Request[s].words \in Seq(Seq(0 .. 9) \ {<<>>}) \ {<<>>}
       /\ \A k \in DOMAIN Sched!NumbersOf(s) : Sched!NumbersOf(s)[k] \in 0 .. Sched!INT_MAX
       /\ Sched!Total(Sched!NumbersOf(s), Len(Sched!NumbersOf(s))) <= Sched!INT_MAX
       /\ Len(Sched!Line(s)) < MSG_SIZE
  /\ \A b \in Stack :
       /\ b \in [1 .. MSG_SIZE ->
                   0 .. 9 \cup {Sched!SPACE, Sched!NEWLINE, Sched!NUL}]
       /\ b[MSG_SIZE] = Sched!NUL

---------------------------------------------------------------------------
CONSTANTS MaxSignals, Second

ASSUME SignalAssumption == MaxSignals \in Nat /\ Second \in Nat \ {0}

VARIABLES reporter, sig, loaded, disposition, res, handled, printed, tv_sec, tv_nsec
signals == <<reporter, sig, loaded, disposition, res, handled, printed, tv_sec,
             tv_nsec>>

Signals == INSTANCE SignalReporter

---------------------------------------------------------------------------
CONSTANTS Eyes, Argv, N, Upper(_)

ASSUME ForkAssumption ==
  /\ Eyes \in Nat \ {0} /\ N \in Nat
  /\ Argv \in Seq(Seq(Nat))

VARIABLES forking, parent, forked, target, waited, memory, child, copied, thread
forks == <<forking, parent, forked, target, waited, memory, child, copied,
           thread>>

Forked == INSTANCE ForkedChildren

---------------------------------------------------------------------------
CONSTANTS NUM_THREADS, Iterations, Files, NoFile

ASSUME AddingAssumption ==
  /\ NUM_THREADS \in Nat \ {0} /\ Iterations \in Nat
  /\ None \notin 1 .. NUM_THREADS
  /\ \A t \in 1 .. NUM_THREADS : Files[t] = NoFile \/ Files[t] \in Seq(Int)

VARIABLES adding, adder, i, register, counter, lock, sum, joiner, created, joined,
          total_sum
adds == <<adding, adder, i, register, counter, lock, sum, joiner, created, joined,
          total_sum>>

Adding == INSTANCE SharedCounter

---------------------------------------------------------------------------
CONSTANT Ones

ASSUME SpinAssumption == Ones \in Nat

VARIABLES kind, locked, at, fifo, pushed, buf, overall
spins == <<kind, locked, at, fifo, pushed, buf, overall>>

Spin == INSTANCE SpinMutex WITH Count <- Ones

---------------------------------------------------------------------------
CONSTANTS FieldSizes, Steps

ASSUME LifeAssumption ==
  /\ FieldSizes \subseteq Int \X Int /\ Steps \subseteq Int
  /\ \A s \in FieldSizes : None \notin [0 .. s[1] * s[2] - 1 -> BOOLEAN]

VARIABLES life, width, height, steps, field, source, frame, column, files
lives == <<life, width, height, steps, field, source, frame, column, files>>

Life == INSTANCE GameOfLife WITH Sizes <- FieldSizes, NULL <- None

---------------------------------------------------------------------------
CONSTANTS Numbers, MaxSize

ASSUME SortAssumption == Numbers \subseteq Int /\ MaxSize \in Nat

VARIABLES sorting, input, numbers, size, pass, place, swapped
sorts == <<sorting, input, numbers, size, pass, place, swapped>>

Sort == INSTANCE BubbleSort

---------------------------------------------------------------------------
CONSTANTS Configs, ALLOCATION_BUFFER_SIZE, NumAllocations, PoolBlocks

ASSUME BenchAssumption ==
  /\ Configs \in Seq(Nat \ {0}) /\ Configs # <<>>
  /\ ALLOCATION_BUFFER_SIZE \in Nat \ {0}
  /\ NumAllocations \in Nat /\ PoolBlocks \in Nat

VARIABLES build, stage, round, bencher, slot, ptrs, allocations_left, pools
benches == <<build, stage, round, bencher, slot, ptrs, allocations_left, pools>>

Bench == INSTANCE Membench

---------------------------------------------------------------------------
\* The tests. A pool has units of a header, and whole blocks of BLOCK_SIZE units
\* and a header.
CONSTANTS BLOCK_SIZE, TestBlocks, TestPool, KiB, SIZE_MAX

VARIABLES testing, tested, lower_bound, upper_bound, num_blocks, block, allocations,
          contents, failed
free_list_test == <<testing, tested, lower_bound, upper_bound, num_blocks, block,
                    allocations, contents, failed>>

FreeListTest == INSTANCE FreeListTest WITH
  PoolBlocks <- TestBlocks

VARIABLES pool, mem, pc, cursor, block_size, buffer_target, merge_size, next_buf,
          allocated, fault, call, ptr
best_fit_test == <<pool, mem, pc, cursor, block_size, buffer_target, merge_size,
                   next_buf, allocated, fault, call, ptr>>

CONSTANT Data       \* what a caller writes over the place of a header

TestSizes == {1, KiB - 1, KiB, 2 * KiB, 3 * KiB, 4 * KiB, TestPool - 1}

BestFitTest == INSTANCE BestFitTest WITH
  PoolSize <- TestPool, Sizes <- TestSizes, target <- buffer_target

\* The pools have room for what the tests assume of them: four blocks and the one
\* that is never handed out; what is in use at once, 1 + 1 + 3 + 2 + 2 KiB behind
\* five headers, and a free block behind that. 1024 bytes are more than a header.
ASSUME TestAssumption ==
  /\ BLOCK_SIZE \in Nat \ {0} /\ TestBlocks \in Nat /\ TestBlocks >= 5
  /\ KiB \in Nat /\ KiB >= 2
  /\ TestPool \in Nat /\ TestPool > 9 * KiB + 5
  /\ SIZE_MAX \in Nat /\ SIZE_MAX >= BLOCK_SIZE /\ SIZE_MAX >= TestPool
  /\ Data \notin BestFitTest!Headers

---------------------------------------------------------------------------
VARIABLE running    \* the program that runs, 0 before

Runs(p) == running \in {0, p} /\ running' = p

\* The others stay as they are.
Others(p) ==
  /\ IF p = 1 THEN TRUE ELSE UNCHANGED sched
  /\ IF p = 2 THEN TRUE ELSE UNCHANGED signals
  /\ IF p = 3 THEN TRUE ELSE UNCHANGED forks
  /\ IF p = 4 THEN TRUE ELSE UNCHANGED adds
  /\ IF p = 5 THEN TRUE ELSE UNCHANGED spins
  /\ IF p = 6 THEN TRUE ELSE UNCHANGED lives
  /\ IF p = 7 THEN TRUE ELSE UNCHANGED sorts
  /\ IF p = 8 THEN TRUE ELSE UNCHANGED benches
  /\ IF p = 9 THEN TRUE ELSE UNCHANGED free_list_test
  /\ IF p = 10 THEN TRUE ELSE UNCHANGED best_fit_test

allvars == <<running, sched, signals, forks, adds, spins, lives,
             sorts, benches, free_list_test, best_fit_test>>

Init ==
  /\ running = 0
  /\ Sched!Init /\ Signals!Init /\ Forked!Init /\ Adding!Init /\ Spin!Init
  /\ Life!Init /\ Sort!Init /\ Bench!Init /\ FreeListTest!Init
  /\ BestFitTest!TestInit

Next ==
  \/ Runs(1) /\ Sched!Next /\ Others(1)
  \/ Runs(2) /\ Signals!Next /\ Others(2)
  \/ Runs(3) /\ Forked!Next /\ Others(3)
  \/ Runs(4) /\ Adding!Next /\ Others(4)
  \/ Runs(5) /\ Spin!Next /\ Others(5)
  \/ Runs(6) /\ Life!Next /\ Others(6)
  \/ Runs(7) /\ Sort!Next /\ Others(7)
  \/ Runs(8) /\ Bench!Next /\ Others(8)
  \/ Runs(9) /\ FreeListTest!Next /\ Others(9)
  \/ Runs(10) /\ BestFitTest!TestNext /\ Others(10)

\* That of the programs whose liveness is checked.
Fairness ==
  /\ Sched!Fairness /\ Signals!Fairness /\ Forked!Fairness /\ Bench!Fairness

Spec == Init /\ [][Next]_allvars /\ Fairness

---------------------------------------------------------------------------
\* What a program keeps to, its types among it, is checked while it runs, and
\* before any does.
Checks(p) == running \in {0, p}

\* scheduler.c: a request that ends in a newline is answered with its own numbers,
\* whatever an older one has left in the buffer.
OwnNumbers == Checks(1) => Sched!TypeOK /\ Sched!OwnNumbers

\* scheduler.c: a round without a message is the last.
StaleRoundIsLast == Checks(1) => Sched!StaleRoundIsLast

\* scheduler.c: SIGINT ends the scheduler, but for the gap before mq_receive.
ShutdownIsHeeded == Sched!ShutdownIsHeeded

\* exercise03/task_1: no line is printed for a signal that did not come, and no
\* sleep grows with the interruptions.
NoPhantomLine ==
  Checks(2) => Signals!TypeOK /\ Signals!NoPhantomLine /\ Signals!SleepIsBounded

\* exercise03/task_1: SIGINT brings the two user signals back, whatever happens
\* to its count.
InterruptReenables == Signals!InterruptReenables

\* exercise02/task3, exercise03/task_2 and task_3a: each child works on what it
\* was forked for, the parent is done last, and its memory is its own.
EachDoesItsOwn ==
  Checks(3) => /\ Forked!TypeOK
               /\ Forked!EachDoesItsOwn /\ Forked!DoneIsLast /\ Forked!ParentUntouched

\* exercise06/task_1 and exercise03/task_3b: nothing that is added is lost.
NothingLost ==
  Checks(4) => Adding!TypeOK /\ Adding!NothingLost /\ Adding!TotalIsExact

\* exercise09/task_1: one thread inside, and every one that is pushed counts once.
EveryOneCounts ==
  Checks(5) => Spin!TypeOK /\ Spin!MutualExclusion /\ Spin!EveryOneCounts

\* exercise01/task1: the frames are the generations of the game of life.
FramesAreGenerations == Checks(6) => Life!TypeOK /\ Life!FramesAreGenerations

\* exercise11/task_1: the sort is one.
SortedInTheEnd == Checks(7) => Sort!TypeOK /\ Sort!SortedInTheEnd

\* exercise10, membench.c: each block is in one place, whatever the threads do.
EveryBlockOnce == Checks(8) => Bench!TypeOK /\ Bench!EveryBlockOnce

\* exercise10, membench.c, exercise02/task3, exercise03/task_2 and task_3a: what
\* waits for its threads or children ends, but for a benchmark with a thread
\* that has no pool.
ProgramsEnd == Bench!BenchmarkEnds /\ Forked!Termination

\* exercise10, allocator_tests.c: both allocators pass their test.
TestsPass ==
  /\ Checks(9) => FreeListTest!TypeOK /\ FreeListTest!TestPasses
  /\ Checks(10) => BestFitTest!TypeOK /\ BestFitTest!TestPasses
=============================================================================
