# A formal model of the operating-systems exercises

The repository holds the programs of an operating-systems course: one directory
per exercise, each with a README that states what the program must do. They are
small, and most of them are concurrent: threads that meet at barriers, share
queues under mutexes, sleep on condition variables, or share a memory pool. This
directory models those programs in TLA+, checks the models with TLC and proves
the main invariants with TLAPS.

Files: a module per component (`MyPthreadBarrier.tla`, ...), a module `MC...`
that instantiates it for TLC with a `.cfg` for each run, a module `...Proof`
with the theorems, and `PROJECT.json`, which ties every definition to the lines
it models. The programs that share nothing with any other have one module each,
one that composes them (`SmallPrograms`), one run and one module of proofs.

## 1. Inventory

| Component | Where | State | Operations | What is hard |
|---|---|---|---|---|
| Hand-made barrier | `exercise09/task_3/my_pthread_barrier.c` | a count, a generation, a mutex, a condition variable | init, wait, destroy | threads of two rounds in `wait` at once, spurious wakeups, the wrap of the generation |
| Dice game | `exercise09/task_2`, `task_3` | who plays, results, the counter of players, the barrier | one thread per player; main creates, joins, frees | shared data without a mutex, phases separated by barriers, a thread that leaves alone |
| Producer and consumers | `exercise06/task_2`, `task_3` | queue, mutex, condition variable, sums | main pushes elements and sentinels; consumers pop | lost wakeups, sentinels that overtake, polling under a mutex |
| Beehive | `exercise12/task_1` (`task_2`, `task_3` are copies) | field, queue, two flags, two mutexes, two barriers | bees work and collect in cycles | two mutexes taken in turn, positions queued twice, leaving together |
| Free-list allocator | `exercise10/task_1`, `task_2`; `task_3` without the mutex | the list through the headers of a pool, a mutex | init, destroy, malloc, free | order of the list after any sequence of calls, every return path under the mutex |
| Best-fit allocator | `exercise10/task_2` (`task_3` has only the template) | headers of blocks of any size, next and prev links | the same | split and merge, links that go stale |
| Benchmark and tests of the allocators | `exercise10/*/membench.c`, `allocator_tests.c` | threads, their blocks, pools global or thread-local | random allocations and frees, two scripts of calls | more slots than blocks, pools that nobody has set up |
| Spin mutex and shared queue | `exercise09/task_1` | an atomic flag, a queue | lock, unlock, populate, sum | mutual exclusion, counting under it |
| Chat server | `exercise08/task_1/server.c` | connections, admins, one mutex | listener, one thread per conversation | a mutex held while blocking, a return that keeps it |
| Scheduler and service | `exercise05/task_1` | a message queue, a flag, a reused buffer | receive, compute, shut down on SIGINT | interrupted receive, stale buffer |
| Signal reporter | `exercise03/task_1` | counters written by a handler, dispositions | handler, report every second | the handler at any point, two signals that disable each other |
| Processes and threads that sum | `exercise02/task3`, `exercise03/task_2`, `task_3` | copies of the parent's memory, or shared memory | fork or create, wait or join | a fork or a creation that fails, a loop variable that is copied while it is counted |
| Shared counter | `exercise06/task_1` | one counter | add under a mutex, or atomically | lost updates |
| Game of life | `exercise01/task1` | two buffers that take turns | populate, step, write a frame | borders, a buffer with garbage in it |
| Sorting | `exercise11/task_1` | an array | the passes of a bubble sort | where a pass ends |
| Command-line utilities, malloc spy | `exercise01/task3`, `exercise02/task1`, `exercise04`, `exercise11/task_3` | little | count, print, `exec` | nothing concurrent |

How they interact. The dice game of task_3 runs on the hand-made barrier, that of
task_2 on `pthread_barrier_t`; the beehive uses two of the latter. Producer and
beehive use the same kind of queue (`myqueue.h`). The benchmark and the tests
call the allocators through the four functions of `allocator.h`. The service
sends what the scheduler receives. All other components stand alone.

What makes each one correct, in short: a barrier releases rounds as a whole, with
one serial thread each; a game ends, with all threads, when one player is left;
every element is consumed exactly once and every consumer stops; no flower is
forgotten and no bee left behind; an allocator never hands out memory in use and
never loses memory that is free; a client that connects is served and announced; a
request is answered with its own numbers; no signal is made up and each ends what it
is meant to end; what is added up is the sum of what there was.

## 2. Modules

| Module | Models | Checked by run | Proved in |
|---|---|---|---|
| `ThreadBarrier` | what a barrier promises; stands for `pthread_barrier_t` | through the modules that use it | `MyPthreadBarrierProof` |
| `MyPthreadBarrier` | the hand-made barrier, an implementation of `ThreadBarrier` | `barrier` | `MyPthreadBarrierProof` |
| `DiceGame` | the dice game, on `ThreadBarrier` | `dice_game`, `dice_winner` | `DiceGameProof` |
| `ProducerConsumer` | both producer and consumer programs | `producer_consumer` | `ProducerConsumerProof` |
| `Beehive` | the beehive, on two `ThreadBarrier`s | `beehive` | `BeehiveProof` |
| `Allocator` | what a pool of equal blocks promises to its callers | `free_list`, through `FreeListAllocator` | `FreeListAllocatorProof` |
| `FreeListAllocator` | the free-list allocator and its callers, an implementation of `Allocator` | `free_list`, `free_list_double_free` | `FreeListAllocatorProof` |
| `BestFitAllocator` | the allocator of blocks of any size | `best_fit`, `best_fit_overlap` | `BestFitAllocatorProof` |
| `ChatServer` | the chat server and its clients | `chat_server`, `chat_announce` | `ChatServerProof` |
| `SmallPrograms` | the ten programs below side by side, their constants and what is assumed of them | `small_programs` | |
| `Scheduler` | the scheduler, its services and the queue between them | `small_programs` | `SmallProgramsProof` |
| `SignalReporter` | the program that counts and reports signals | `small_programs` | `SmallProgramsProof` |
| `ForkedChildren` | the three programs that fork and wait | `small_programs` | `SmallProgramsProof` |
| `SharedCounter` | the programs whose threads add to shared memory | `small_programs` | `SmallProgramsProof` |
| `Sums` | sums of the first values of a function, for the two programs whose properties add up | through `SharedCounter` and `Scheduler` | `SmallProgramsProof` |
| `SpinMutex` | the spin mutex with the queue it protects | `small_programs` | `SmallProgramsProof` |
| `GameOfLife` | the game of life | `small_programs` | `SmallProgramsProof` |
| `BubbleSort` | the sort of exercise11 | `small_programs` | `SmallProgramsProof` |
| `FreeListPool` | the calls of the free-list allocator as functions of a pool | through the two below | `SmallProgramsProof` |
| `Membench` | the benchmark, in the three builds of the free-list allocator | `small_programs` | `SmallProgramsProof` |
| `FreeListTest` | `test_free_list_allocator`, on `FreeListPool` | `small_programs` | `SmallProgramsProof` |
| `BestFitTest` | `test_best_fit_allocator`, on `BestFitAllocator` | `small_programs` | `BestFitAllocatorProof`, for `SmallPrograms` in `SmallProgramsProof` |

The models are composed in three ways. `MyPthreadBarrier` implements
`ThreadBarrier`, and `DiceGame` and `Beehive` take its actions as conjuncts of
their own, so what they rely on is exactly what the code of the barrier is shown
to provide. `FreeListAllocator` implements `Allocator`. `Membench` and
`FreeListTest` apply the functions of `FreeListPool` to the pools of their
threads, and `BestFitTest` runs the steps of `BestFitAllocator` with a script as
its only caller. And `SmallPrograms` puts the ten small programs side by side, of
which a behaviour runs one: they share no state, so the run is the sum of ten
small ones, not their product. `MCSmallPrograms` gives their constants values.

### How the models correspond to the code

A thread has a program counter `pc[t]`, named for what the thread does next; the
lines between two of its values run under one mutex, or touch at most one piece
of shared data. Taking a mutex is an action of its own (`Lock...`) that needs the
mutex to be free; giving it back is part of the action that ends the critical
section. A wait on a condition variable releases the mutex and falls asleep in
one step and takes the mutex again in another; any sleeper may wake at any time
(`SpuriousWakeup`). Local variables are functions on threads, and get a neutral
value when their scope ends so that states do not differ in what nobody can read.
`printf` is left out, except for the winner of the dice game, which is what that
program is for. Random choices (dice, bears, the first flower) are
nondeterministic.

* **MyPthreadBarrier.** `max_threads`, `waiting_threads`, `generation` and
  `mutex` are the fields of `my_pthread_barrier_t`; `gen[t]` is the local
  `generation` of `wait`. `Arrive` is lines 50-53, `CondWait`, `LeaveLoop` and
  `Relock` the loop 54-56, `Open` lines 58-60. The generation runs over a small
  interval and wraps; in the code the increment of an `int` does.
* **DiceGame.** The two waits of a round are `EnterRound`/`BeginRound` and
  `EnterRolls`/`EndRolls`; `Trip` is the opening of the barrier. `Test` and `Roll`
  touch shared data outside any mutex, one access per step; `Eliminate` is one
  turn of the loop of `eliminate_players`, `Winner` one turn of the loop of
  `get_winner_id`. Reading a `player_t` that main has freed yields any value
  (`ReadPlaying`).
* **ProducerConsumer.** `program` chooses between the consumer of task_2
  (`Retry`) and that of task_3 (`CondWait`, `Wake`); everything else is common.
  `InitQueue` is line 76 of main, after the consumers have been started.
* **Beehive.** One action for each stretch of `bee_work` between lock operations;
  the neighbours are reported one at a time, and the field is given back in
  between as in the code. Positions carry their coordinates, so what lies outside
  the field is decided by `IsHarvested`, as `field_is_harvested` does.
* **FreeListAllocator.** A block is its index in the pool; `next[b]` is its
  header, `start` is `header_start.next`. A call is `...Call`, `...Lock`, and the
  critical section; the walk of `my_free` is one step per link, since nothing but
  the mutex keeps others out meanwhile. The callers (`MallocCall`, `FreeCall`) do
  what a correct program does: they free what they were given, once, and unmap
  the pool when nothing is in use. `DoubleFreeSpec` adds a caller that frees a
  free block, which the code has a branch for. `Allocator` has none of these
  steps: there a call is asked for and answered. `Abstract` maps one to the other:
  a request lasts from the call to the return (`Request`), the free blocks are
  those that should be on the list (`Listed`), and the step in which a call takes
  effect is the one that changes the list, or refuses.
* **BestFitAllocator.** One mutex is held over each call and released on every
  path, so the calls form one sequence; a step is one turn of a loop. `mem` is the
  pool: at each address either a header or `Data`, what a caller wrote there.
  Addresses and sizes are in units of a header (`sizeof(header_t)`), so the
  remainders of requests that are not multiples of it, and the unaligned headers
  they lead to, are abstracted. `Split` makes the writes of lines 120-128
  in their order (`SplitAt`) for a rest that is a block of its own. A `block_size`
  that has wrapped to 0 makes the block its own rest; then the writes go
  through its old next: into the header of that block (`SplitNothing`), or, if
  there is none, through NULL, which ends the process inside the call
  (`SplitCrashes`). `Forward` and `Backward` are the two merging loops, `Merge` lines
  172-176. Once a merge has gone over a stale prev, or a size has wrapped,
  `fault` says so and the model follows only `my_allocator_destroy`. `merge_size`
  is an `int` in the code; pools below 2 GiB, like the only one the repository
  maps, cannot overflow it.
* **ChatServer.** `listener` and `pc[c]` are where the listener and the
  conversation of client c are. `Lock`, `Accept` and `ConversationInit` are lines
  225-231 and the locked part of `conversation_init`; `server_user_is_admin` is
  the whole function, since it waits for the mutex once and for nothing else. Its
  answers are `Verdicts`: true for a name that differs from the first admin, or
  from any behind it, which is what the comparison of line 123 says; when all the
  given admins have that name the loop goes on to pointers nobody wrote, and the
  outcome is anything it can be, a crash too. A client sends, closes or resets
  its connection at any time; messages are counted, and `Recv` takes one or
  several at once. `pthread_create` may fail for the listener (`JoinNothing`) and for
  a conversation (`CreateConversation`): main and the listener look at neither
  result, so main joins a handle that was never written, and a connection stays
  open and counted with nobody to receive from it.
* **Scheduler.** `msg_buf` is kept cell by cell, digits, spaces, newlines and
  zeros, because what the buffer holds behind a message is the point: `Receive`
  overwrites as many cells as the message has, `Token` is one call of `strtok_r`
  with the `atoi` of what it returns. A request is a sequence of words of digits,
  which `Line` joins with spaces; a request longer than the buffer, for which
  `mq_send` fails, and numbers or sums beyond an `int` are left out
  (`SchedulerAssumption`). So is a request of exactly `MSG_SIZE` bytes, which the
  service can send: it leaves no terminator in the buffer, and what `strtok_r` reads
  behind it is undefined. The only receive that
  fails is the one SIGINT interrupts: on any other error of `mq_receive` (line 68) the
  code goes on in the same way with the stale buffer, but that round need not be the last. `Stack` is what the buffer may hold before
  anything has been received. SIGINT may come between any two steps; in the
  receive it interrupts, and the round goes on without a message.
* **SignalReporter.** `Load` and `Store` are the two halves of the `--` of line
  44, and the handler may run between them. `tv_sec` and `tv_nsec` are the time
  left when the handler interrupts a sleep.
* **ForkedChildren.** `copied[c]` is the memory of child c, a copy of the parent's
  at the fork. `parent`, `forked` and `waited` follow the loops of the parent; a
  fork that fails is `ForkFails`, which one of the programs does not notice. Nor
  does task_3a notice a thread that is not created (`NoThread`): it compares the
  result with a negative number, and joins a handle that was never written.
* **SharedCounter, SpinMutex.** A thread that is not created ends the counters
  (`CreateFails`), but not task_3b, which looks for a negative result: main counts it as
  created (`CreateUnnoticed`), and its join of a handle that was never written fails
  or ends the process (`JoinUnborn`). Reading a counter and writing it are two steps
  under a mutex and one in the atomic build. The test-and-set of the spin mutex is
  one step; `Fail` and `Yield` are a turn of its loop. Line 47 of
  `exercise09/task_1/task_1.c` holds a typing error (`:fo:x`) with which that build
  does not compile; the model has the call the line means.
* **GameOfLife, BubbleSort.** Sequential, one step per column of a generation, or
  per comparison. A buffer that nobody has written holds arbitrary cells.
* **FreeListPool, Membench.** A pool is a record of whether it is mapped and its
  sequence of free blocks. `Membench` has `build` for the makefile's choice: one
  pool behind a mutex (task_1), or thread-local pools set up by the threads or by
  main (task_3). A step is a turn of the loop over the slots, or half of one: a
  block in the slot is freed (`FreeSlot`) or stays (`Keep`), an empty slot is
  filled if there is a block (`Allocate`).
* **FreeListTest, BestFitTest.** The assertions of `allocator_tests.c` are
  collected in `failed`, or are the conjuncts of `TestPasses`, each on the calls it
  is about. The scripts are those of the file with the sizes in units.

## 3. What the runs check

Every property of a passing run is violated in TLC when the definition named in
`PROJECT.json` is replaced by its mutant, which stands above it in the module.

| Run | Bounds | Shows |
|---|---|---|
| `barrier` | 3 threads, generations -1..1 | `BarrierInv` (inductive), `CountedOnce`, `NoLostWakeup`, `DestroySucceeds`, and `ImplementsBarrier`: refinement of `ThreadBarrier`, with liveness |
| `dice_game` | 3 players, results {2, 3} | nobody reads the counter or rolls during an elimination; somebody is left; all leave in the same round; one line is printed; every round is judged; a decided game ends |
| `producer_consumer` | 3 consumers, 3 elements, both programs | a pop finds something; sentinels come last; no value is stranded; the sum, which is the documented one for an even number and one more for an odd one; termination |
| `beehive` | 3 x 2 field, 2 bees | no flower is forgotten; leaving together; the field is finished unless the hive is destroyed; termination, so that the two mutexes never block everybody |
| `free_list` | 2 threads, 5 blocks | the list is exact and in address order (`ListInv`), so no block is owned twice; calls return; and `ImplementsAllocator`: a call takes effect in one step, gets the lowest free block, and is refused only when none is free |
| `best_fit` | 9 headers, requests of 1, 2, 3 and `SIZE_MAX` | until a fault the blocks tile the pool (`TiledUntilFault`); when all is freed they are one again (`AllFreeIsOneBlock`); calls return, also over stale links, but for one with a wrapped size that ends the process (`CallsReturn`) |
| `chat_server` | 2 clients, 2 names, 3 lists of admins, 2 messages each | the mutex is the listener's in `accept`, or one of a conversation that was told "admin", and each connection is counted once (`MutexAccountedFor`); whoever connects gets a conversation, unless its thread is not created, the process ends, or the answer true keeps the mutex (`ConnectionIsServed`) |
| `small_programs` | below | one or two properties of each of the ten programs |

The properties of `small_programs`, each of the program it names:

| Property | Program | Bounds | Shows |
|---|---|---|---|
| `OwnNumbers`, `StaleRoundIsLast`, `ShutdownIsHeeded` | `Scheduler` | 3 requests, a buffer of 8 cells, 3 contents of the stack | the remains of older messages never get into an answer; a round without a message is the last; SIGINT ends the scheduler unless it comes in the gap before the receive, and the queue goes with it unless the signal comes in the sleep |
| `NoPhantomLine`, `InterruptReenables` | `SignalReporter` | 2 signals of each kind, 2 ticks a second | increments can be lost but no line is made up; no sleep grows by being interrupted; SIGINT is reported with both user signals switched on again, and they stay on until a user signal is reported |
| `EachDoesItsOwn`, half of `ProgramsEnd` | `ForkedChildren` | dice of 2 sides, 4 arguments of 0 to 4 characters, n = 3 | every child works on its own target or string, or adds up less by n than documented; the parent is done last, its memory stays as it is, and it ends also when forks fail |
| `NothingLost` | `SharedCounter` | 3 threads, 3 turns; 3 files, one missing, one empty | no addition is lost; the total is that of the files that have a thread and can be read |
| `EveryOneCounts` | `SpinMutex` | 5 ones | one thread inside; each one is counted once |
| `FramesAreGenerations` | `GameOfLife` | fields 0x2, 1x1, 3x2, 2x3; 2 steps and -1 | each frame is the generation after the one before |
| `SortedInTheEnd` | `BubbleSort` | up to 4 numbers of 1..3 | the end is sorted and has the numbers of the beginning |
| `EveryBlockOnce`, half of `ProgramsEnd` | `Membench` | rounds of 1 and 2 threads, 2 slots, 3 allocations, 4 blocks | a block is on the list or in one slot; the benchmark ends unless a thread has no pool |
| `TestsPass` | `FreeListTest`, `BestFitTest` | blocks of 5, 9 to a pool, `SIZE_MAX` 63; a pool of 32 headers | no assertion of either test fails |

The type invariant of each module is a conjunct of one of the invariants above
(`SomebodyIsLeft`, `PopFindsSomething`, `NoFlowerForgotten`, `BarrierInv`,
`ListInv`, `TiledUntilFault`, `MutexAccountedFor`, and those of the small programs).

Runs that end in a violation, each a disagreement of the code with its
documentation:

| Run | Property | What it shows |
|---|---|---|
| `dice_winner` | `WinnerIsTheOneLeft` | main frees a player while the serial thread still reads it; the wrong winner can be announced |
| `free_list_double_free` | `MutexReleased` | `my_free` of a free block returns with the mutex locked |
| `best_fit_overlap` | `FreeMemoryIsNobodys` | a split does not correct the prev of the block behind it; a later merge over that link makes a free block of memory in use |
| `chat_announce` | `NameIsAnnounced` | a name that has arrived is not announced: the listener waits in `accept` with the mutex that the line needs |

Four more disagreements are findings on passing runs. Their property states what
the code does beside what the document says, so the run shows both and how they
differ:

| Run | Property | What it shows |
|---|---|---|
| `chat_server` | `MutexAccountedFor` | the answer true leaves `conf_mutex` locked (`server.c:124`), so the first "admin" stops the listener and everybody who asks after; `exercise08/README.md:61,64,97-99,113` has admins who connect, chat and leave again |
| `producer_consumer` | `FinalSum` | for an odd number n of elements the sum is (n + 1)/2, where `exercise06/README.md:52` says n/2, the sum of 0, -1, 2, ... |
| `small_programs` | `EachDoesItsOwn` | task_3a adds 0 to N - 1, as its comment (lines 80-81) expects, where `exercise03/README.md:160,164` says 1 to N |
| `small_programs` | `ShutdownIsHeeded` | a SIGINT in the sleep of the scheduler ends it with the queue left behind (`scheduler.c:94-96`), where `exercise05/README.md:26,67` wants it cleaned up |

Further divergences, met while modelling and noted without a property of their own:

* exercise10/task_2: `my_malloc` takes the first block that fits, as `TryNext` has
  it, where `exercise10/README.md:113` asks for the one whose size is closest.
* exercise10/task_1 and task_3: the first block is never on the list, because the
  loop that chains the headers begins with `header_start`
  (`free_list_allocator.c:56`; `exercise10/README.md:63`). `FreeListPool` has it
  so, and the repository's own test does not notice: it asks for no exact number.
* exercise10/task_3: in the build `free_list_allocator_global` main sets up its
  own thread-local pool and the threads have none, so `my_malloc` returns NULL for
  ever and the benchmark does not end (`exercise10/README.md:85`). That is the
  second case of `BenchmarkEnds`; a failed `mmap` ends the same way.
* exercise08: the branch for `/shutdown` (`server.c:205`) is for a message number
  below one and is never reached (`exercise08/README.md:66`); a name that is *not*
  an admin's gets the answer true (`server.c:123` tests `strcmp` for being unequal);
  `connected_clients` never counts down.
* exercise03/task_1: a signal that arrives between the load and the store of a
  counter is lost, so fewer lines may be printed than signals came.
* exercise01: with a width or height below one, `init_field` returns NULL and
  `free_field(NULL)` ends the program with a fault (`game.c:37`).

The stale prev of `best_fit_overlap` is out of reach of the repository's own test:
`BestFitTest` runs its script to the end with every assertion holding, whatever the
size of the pool (`TestsPassAlways`).

Why the bounds are enough. Three threads are the least for which a barrier has a
serial thread, one that has left and one that has not; the generation has three
values, so a run passes its wrap again and again. Two results give ties, single
and double eliminations, and games of several rounds; more values only repeat
them, since only the order of results counts. With three consumers a value can be
stolen between a signal and the wakeup it causes while a third one sleeps; three
elements are followed by as many sentinels. In a 3 x 2 field a flower has
neighbours in all four directions or outside, and can be reported by two bees. With
five blocks, four of them usable, a block can be freed at the head, in the middle
and at the end of a list of any shape, by two threads that interleave.
Nine headers are the smallest pool but one in which a prev can come to lead into the
data of a caller (eight are enough, seven are not), and requests of one to three
headers give exact fits, fits with no room for a header, and splits. The largest
`size_t` is 15, so that one request wraps, to a block size of 0. As that may end the
process, the run has no deadlock check; the calls that must return are in
`CallsReturn`. With two clients one can wait for the
mutex that the other or the listener has; the three lists of admins end the loop of
`server_user_is_admin` at its first entry, at a later one, behind what was given,
and at the end of the array. Three requests are the fewest for which a short
message follows a longer one and an interrupted round follows both; the highest
priority comes last, so the queue changes the order. With two signals of each kind
one can arrive while the other is counted down. Three threads and three turns make
every pair of additions meet. Fields with one row, one column and no cell at all
have every kind of border. The benchmark has more slots than blocks in the round
with two threads (four for three usable blocks), which is the case in which
`my_malloc` returns NULL.

### Fairness

Threads that can run do run: weak fairness of each thread's own steps. Where a
thread waits for a mutex that others release and take again without end (the
consumers that poll, participants that call `wait` again and again, allocations
in a loop) the acquisition has strong fairness: the mutexes of the C library
are not first-come, but they do not starve a thread for ever either. No fairness
is assumed of anything the code does not control: that somebody calls `wait` or
`my_malloc`, that a sleeper wakes without a broadcast, what the dice show, whether
a bear comes, that a client connects, sends or goes, that a signal arrives. Of the
small programs, those with liveness properties have fairness: weak for the
scheduler, its services, the reporter, the parent, each child and each thread of
the benchmark. `FreeSlot` has strong fairness, which is about chance: the coin that a thread
of the benchmark tosses for each slot does not say "keep" for ever. The chat server's threads have weak fairness, and strong fairness where they
wait for `conf_mutex`. The spin mutex gets none: with a flag alone a thread may
lose every race for it, so there is nothing to promise. So `DiceGame` does not promise an end (ties may go on for ever),
only that every round is judged and that a decided game ends.

## 4. What is proved

Proofs hold for every value of the constants that satisfies the named assumptions
of the module: any finite non-empty group of threads, any range of the generation
with at least two values and zero among them, any number of blocks, of players
(two at least, with any non-empty set of integers as results), of consumers,
elements and bees, any field, a pool of any size. For a program whose
specification has fairness the theorems are about `Spec`, and use no fairness.

* **The barrier** (`MyPthreadBarrierProof`). The inductive invariant `BarrierInv`
  joins `MutexOwned` (who is between lock and unlock), `Lifecycle`, `CountedOnce`
  (`waiting_threads` is the cardinality of the set of threads in the loop whose
  generation is the current one), `GenerationOver` and `NoLostWakeup`. The count
  alone is not inductive: that a thread at `unlock` is not counted needs
  `GenerationOver`, which needs that nobody leaves the loop because of the second
  half of its condition, which needs the count to be below `max_threads` whenever
  the mutex is free. The key lemma is `AllWaitingAtOpen`: when a thread is about to
  open, the threads of its round are all there are, so the next generation,
  which differs from the old one even across the wrap, is nobody's. `Refinement`
  maps every step to a step of `ThreadBarrier` or to a stutter. When main
  destroys the barrier nobody is in the loop, so the count is zero and the call
  succeeds (`DestroyReturnsZero`).
* **The dice game** (`DiceGameProof`). The four invariants rest on `SameHalf` (all
  threads are in the same half of the round, up to the wait that is opening), on
  `LeavesWhenDecided` and on `OneSerial`: after the first round one thread has
  the serial value of the last second wait, and only that one eliminates or
  announces. `Counted` is not inductive alone: that an elimination leaves
  somebody needs `Survivor` (while it goes on, some player in the game is not at
  the maximum it eliminates) and `HasRolled`. That a finite set of results has a
  highest and a lowest one is proved by a well-founded least element, since the
  induction theorems are out of reach.
* **Producer and consumers** (`ProducerConsumerProof`). `Fifo` says what the queue
  holds, elements and then sentinels in the order of pushing. `Attended` is
  `NoValueIsStranded` in a form that a wakeup or a push can be held against: as
  long as somebody sleeps, the values do not outnumber those that will come for
  one. For `FinalSum` the invariant `Accounted` says that there *is* a function of
  partial sums of the consumers' shares that fits (`IsSum`), so that nothing has
  to be computed by recursion.
* **The beehive** (`BeehiveProof`). `AtBarriers` and `SamePart` say where bees can be
  relative to each other around the two barriers, `Flags` that nobody works once a
  flag is set and nobody leaves before. `Frontier` is `NoFlowerForgotten` for every
  state: `Load` says what a bee carries, so that a position is known while it
  is in nobody's hands but a bee's.
* **The free list** (`FreeListAllocatorProof`). `ListInv` is inductive: the list
  is exact (`ListExact`), the ownership of blocks is exclusive, the mutex is held
  by the thread in the critical section, and a walk stands on a listed block below
  its target (`WalkOnList`). `Follows(b, a)` says that b is the next listed block
  after a, which gives order, completeness and the absence of cycles without
  induction over the list. `Refinement` maps every step to a step of `Allocator`,
  with one lemma for each kind, or to a stutter (`InsideRefines`: taking the mutex
  and walking). It needs the list to be exact, for what is taken is whatever
  `start` points to, and what is refused is refused because `start` is `NULL`.
* **The best-fit allocator** (`BestFitAllocatorProof`). The list is a set L of
  addresses (`ListedIs` shows that the set `Listed`, which is computed by
  following the links, is L; `ReachedSteps` is why that recursive function
  exists). `Tiling` is the property. It is not inductive, because a split leaves
  a wrong `prev` behind: `LinksBack` says that such a link points across a block in
  use, or the one that is being freed, so that it is never followed while the
  property holds, and that no header merged away leads to a block that has it as
  its `prev`, so that a merge over a stale link is always noticed as a fault.
  `Apart` says where two free blocks can be neighbours: only where the link back
  is stale. From this follows `GrownTogether`: with nothing in use no link can be
  stale, so two neighbours would have been merged.
* **The chat server** (`ChatServerProof`). `WhoHasTheMutex` is `MutexAccountedFor`
  for any clients, names and lists of admins. The half about the mutex needs that a
  conversation which has it was told "admin", has exited or died in there
  (`KeptForAReason`), that the listener has it exactly in `accept` (`ListenerHasIt`),
  and that there is no listener before main has created it. `Asking` is the one
  lemma about `server_user_is_admin`, for the three actions that call it. The half
  about the count, `CountsEachOnce`, needs that no connection is accepted twice:
  `WaitsOnce` says that who is in the backlog, or just accepted, has no
  conversation yet, and is there once. `OnlySentIsReceived` is for the types alone.
* **The small programs** (`SmallProgramsProof`). `StepOfOne` takes the composition
  apart: while a program is the one that runs, a step of all is a step of it or
  a stutter. So each theorem is about `SmallPrograms!Spec`, and its invariant about one
  program.
  * *Spin mutex.* TLC counts five ones, the program ten millions; the theorem is for
    any number. `OnesAdded` balances what is added, popped, queued and pushed; it is
    inductive with `QueueIsOnes`, which says that the queue holds ones only and,
    from its push until its pop, the zero at its end, and with `ZeroIsLast`,
    that nothing is pushed after it.
  * *Shared counter and files.* The property speaks of sums over threads, which are
    recursive functions. `SumsExist` shows that they exist, `SumsDiffer` what
    one changed summand does to them, both by `AllUpTo`, an induction over an interval
    through a least counterexample. The invariant adds who is between reading and
    writing (`InsideLocked`), what the thread there has read (`SumOfRead`), and that
    the joins that are done are those of the threads below the joiner (`SumOfJoined`),
    and that a thread which was not created has added nothing (`NotThere`).
  * *Forked children.* `MemoryIs` and `Inherited` say what the parent's memory is
    at each fork, so what each copy is. That nobody is left behind is a counting
    argument: the children that have not been collected and the waits that are done
    are together no more than the forks (`WaitsSuffice`). `ShiftedIsRotation`
    shows that the loop that shifts a string by two places is a rotation.
  * *Signal reporter.* `LinePrinted` and `SleepLeft`: while a counter is counted down
    its line has been printed, and what is left of a sleep is at most a
    second.
  * *Scheduler.* That the buffer is taken for a message a second time only when the
    program is about to end holds since a round without a message can only come
    from SIGINT, which is tested before the next. The other property,
    `OwnNumbers`, compares what a walk over cells finds with the numbers that
    were written there, and needs three more facts (`AnswerInv`). `WordByWord`: at
    each call of `strtok_r` the pointer stands at the first cell of the next word,
    the rest of the line is still in the buffer, and the maximum, minimum, sum
    and count are those of the words before. `SpacesGo`: a round cuts every space
    that its own request brought in, so that behind the newline no space is ever
    found, whatever older messages have left there. `WordsCounted`: the count of
    spaces is the number of words still to come. `TextsWritten` says where the
    words of a line lie, by `AllUpTo` over the words, and `WordRead` that `atoi` stops
    at the newline behind the last one, which is why a request without it is
    not answered with its own numbers.
  * *Sort.* `LargestLast` says of finished passes, and `PassSoFar` of the current
    one, where the largest numbers are; `ExchangeKeepsAll` that an exchange
    keeps how many there are of each.
  * *Game of life.* While a generation is computed the columns on the left are done
    and the source is the frame that was written last (`FramesFollow`). The rule
    counts neighbours in two ways, by places in the array with tests for the
    borders and as the set of cells around a cell; `NeighboursAre` is the bijection.
  * *Benchmark.* `BlocksAre`: what a slot holds is a block of the thread's pool, in
    no other slot, and a block is on the list exactly if nobody holds it.
    `PoolsAre` ties the life of a pool to the threads that use it, and `ThreadsAre`
    says who holds nothing, so that pools go when nothing of them is held.
    `FreeInserts` and `MallocTakes` are what the functions of `FreeListPool`
    do to any list in order: put one block in its place, or take the first.
  * *Test of the free list.* For blocks of any size and any number of them from five
    on. `BoundsAre` says that the binary search never excludes the size of a block, so
    that it ends there whatever `SIZE_MAX` is. `IsFree` says for each loop of the
    test which blocks are free before its next turn, and `TestedIs` that those are the
    list. So the k-th `my_malloc` of a loop gets block k (`AllocationsAre`), also when
    every second or every third block has been freed, and what was written to it
    is still there when it is compared (`ContentsAre`).
  * *Test of the best fit.* TLC runs the script for a kilobyte of two headers in a pool
    of 32; the program has 1024 bytes and 256 MiB, and the theorem any kilobyte of two
    headers or more and any pool that has room for what is used at once. The
    calls are fixed, so the invariant is a table: `Layout` has the headers of all
    blocks on the list before and within each of the 20 calls, stale links
    included, `InHands` and `Pointers` what is in use and what was handed out, and
    `Progress` where the search and the two walks of a merge can be. One lemma for
    each call (`Call1` to `Call20`) shows that it leads from its line of the table
    to the next. They rest on lemmas about the steps of `BestFitAllocator`:
    `Passes`, `RunsOut`, `WholeTaken` and `CutsAt` for the search, `GoesOn`,
    `TurnsBack`, `GoesBack` and `MergesAt` for the merge. All of this is in
    `BestFitAllocatorProof`, with what the script takes for granted of the sizes as a
    hypothesis (`RoomForTest`). `SmallProgramsProof` instantiates that module with its
    own constants and variables (`BestFit`), shows that the hypothesis is what
    `TestAssumption` says (`BestFitAssumptions`), and that the steps of this instance are
    those of the one which `SmallPrograms` runs (`SameTestNext` and the like).

What is assumed of constants is named where they are declared
(`BarrierAssumption` and the like; in `SmallPrograms` one assumption per program). Each says
what the code has: at least one thread, sizes that are natural numbers, a
`None` that is none of the values it stands beside.

Only model-checked: all liveness (`ImplementsBarrier`'s fairness part,
`DecidedGameEnds`, the terminations, `CallsReturn`, `ConnectionIsServed`,
`ShutdownIsHeeded`, `InterruptReenables`, `ProgramsEnd`), which is out of the
prover's reach. Every invariant of the passing runs is stated by a theorem. The runs
that end in a violation show behaviours, not theorems.

## 5. Plan

The pools of `Membench` apply the functions of `FreeListPool`, in which a call is one
step; `Allocator` has two, to ask and to be answered. That they implement it too
needs a second specification of what a pool promises, with calls as functions.

## 6. Not modelled

* Failing allocations and joins. Those after which a program goes on are modelled
  (failed `mmap`, null fields, `JoinUnborn`); the others end the process.
* Failing thread creations, in part. They are modelled in the chat server (`server.c:235`,
  `:249`), in `task_3a.c:59`, `task_3b.c:51` and in the two counters. In the producer
  and consumers (`task_2.c:68`, `task_3.c:69`) and in the beehive (`beehive.c:305`) the
  program tests the result and ends. Two programs are modelled for creations that
  succeed, because they do not notice a failure: the dice game (exercise09
  `task_2.c:191`, `task_3.c:187-188`) looks for a negative result, which there is
  none, and would wait at its barrier for the absent player for ever; the benchmark
  (`membench.c:103`) ignores the result and would join a handle nobody wrote. In the
  spin mutex (exercise09 `task_1.c:121-122`) the result is ignored too; a thread that is not
  created is there one that never takes a step, which the model allows, as it
  has no fairness.
* Output, except where a property is about it: the winner, the lines of the
  reporter, the frames, the order of "Done.".
* The command-line utilities (`exercise01/task3`, `exercise02/task1`, `exercise04`): sequential input
  and output without state to speak of. `cat_cut.c` uses names that it does not
  declare, so there is no program to model.
* Dynamic loading and the interposed `malloc` of `exercise11`: the work of the
  loader.
* In the chat server the branch for `/shutdown`, which nothing reaches, and
  `conversation_free`, `server_free` and `config_free`, which nobody calls.
* The path buffer of the game of life, which holds frame numbers of five digits at
  most (`game.c:133`).
* The benchmark of the best-fit allocator (the same loop with other calls), the
  dummy allocator, and the choice of `main.c` between benchmark and test.
* Templates, and the archive of copies (`exercise10/files`, `zip`).
