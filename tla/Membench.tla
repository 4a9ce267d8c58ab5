------------------------------ MODULE Membench ------------------------------
(***************************************************************************)
(* The benchmark of exercise10 (membench.c) with the free-list allocator:  *)
(* for each number of threads, the threads allocate and free at random,    *)
(* first with the system's malloc, then with the allocator. It is built    *)
(*   "task_1_global"  one pool for all, that main sets up                  *)
(*   "task_3_local"   thread-local pools that the threads set up           *)
(*   "task_3_global"  thread-local pools, of which main sets up its own    *)
(* No size that a configuration asks for exceeds a block.                  *)
(***************************************************************************)
EXTENDS FreeListPool, FiniteSets

CONSTANTS
  Configs,                \* the numbers of threads, in order
  ALLOCATION_BUFFER_SIZE,
  NumAllocations,
  PoolBlocks              \* blocks in a pool of POOL_SIZE

Threads == UNION {1 .. Configs[k] : k \in DOMAIN Configs}
Slots == 1 .. ALLOCATION_BUFFER_SIZE
Main == 0
Heap == -2          \* what the system's malloc returns

VARIABLES
  build,            \* "none" before the program runs
  stage,            \* where main is
  round,            \* two for each configuration
  bencher,          \* where each thread is
  slot,             \* its i
  ptrs,
  allocations_left,
  pools             \* the pool of main and of each thread

vars == <<build, stage, round, bencher, slot, ptrs, allocations_left, pools>>
locals == <<slot, ptrs, allocations_left>>

Idle == [t \in Threads |-> "none"]

Init ==
  /\ build = "none"
  /\ stage = "none"
  /\ round = 1
  /\ bencher = Idle
  /\ slot = [t \in Threads |-> 1]
  /\ ptrs = [t \in Threads |-> [s \in Slots |-> NULL]]
  /\ allocations_left = [t \in Threads |-> 0]
  /\ pools = [p \in Threads \cup {Main} |-> Unmapped]

num_threads == Configs[(round + 1) \div 2]
system == round % 2 = 1
init_per_thread == build = "task_3_local"

\* The pool that a thread's calls are about, and the blocks it would have.
PoolOf(t) == IF build = "task_1_global" THEN Main ELSE t
Blocks == IF init_per_thread THEN PoolBlocks \div num_threads ELSE PoolBlocks

\* my_init, unless the benchmark is of the system; the mapping can fail.
Initialised(p) ==
  IF system THEN {pools}
  ELSE {pools, [pools EXCEPT ![p] = my_allocator_init(@, Blocks)]}

Destroyed(p) ==
  IF system THEN pools ELSE [pools EXCEPT ![p] = my_allocator_destroy(@)]

---------------------------------------------------------------------------
\* run_membench and run_config

Start ==
  /\ build = "none"
  /\ build' \in {"task_1_global", "task_3_local", "task_3_global"}
  /\ stage' = "init"
  /\ UNCHANGED <<round, bencher, locals, pools>>

\* No thread waits for another: that they are created one after the other is
\* no different from their starting late.
CreateThreads ==
  /\ stage = "init"
  /\ stage' = "join"
  /\ pools' \in IF init_per_thread THEN {pools} ELSE Initialised(Main)
  /\ bencher' = [t \in Threads |-> IF t <= num_threads THEN "init" ELSE "none"]
  /\ UNCHANGED <<build, round, locals>>

JoinThreads ==
  /\ stage = "join"
  /\ \A t \in 1 .. num_threads : bencher[t] = "exited"
  /\ pools' = IF init_per_thread THEN pools ELSE Destroyed(Main)
  /\ stage' = IF round = 2 * Len(Configs) THEN "done" ELSE "init"
  /\ round' = IF round = 2 * Len(Configs) THEN round ELSE round + 1
  /\ bencher' = Idle
  /\ UNCHANGED <<build, locals>>

---------------------------------------------------------------------------
\* thread_fn

Goto(t, from, to) ==
  /\ bencher[t] = from
  /\ bencher' = [bencher EXCEPT ![t] = to]

InitPool(t) ==
  /\ Goto(t, "init", "loop")
  /\ pools' \in IF init_per_thread THEN Initialised(t) ELSE {pools}
  /\ allocations_left' = [allocations_left EXCEPT ![t] = NumAllocations]
  /\ slot' = [slot EXCEPT ![t] = 1]
  /\ UNCHANGED <<build, stage, round, ptrs>>

\* A turn of the loop over the slots.
Looping(t) == bencher[t] = "loop" /\ allocations_left[t] > 0
held(t) == ptrs[t][slot[t]]
Advance(t) == slot' = [slot EXCEPT ![t] = (@ % ALLOCATION_BUFFER_SIZE) + 1]

\* The slot holds a pointer, and chance lets it stay ...
Keep(t) ==
  /\ Looping(t) /\ held(t) # NULL
  /\ Advance(t)
  /\ UNCHANGED <<build, stage, round, bencher, ptrs, allocations_left, pools>>

\* (what freeing the slot's pointer, if it is one of the pool's, amounts to)
FreeHeld(t) ==
  /\ pools' = IF held(t) \in {NULL, Heap} THEN pools
              ELSE [pools EXCEPT ![PoolOf(t)] = my_free(@, held(t))]
  /\ ptrs' = [ptrs EXCEPT ![t][slot[t]] = NULL]

\* ... or has it freed, to allocate again.
FreeSlot(t) ==
  /\ Looping(t) /\ held(t) # NULL
  /\ FreeHeld(t)
  /\ UNCHANGED <<build, stage, round, bencher, slot, allocations_left>>

\* Mutant: an allocation that failed is tried again at once.
AllocateOrRetry(t) ==
  /\ Looping(t) /\ held(t) = NULL
  /\ LET ptr == IF system THEN Heap ELSE my_malloc(pools[PoolOf(t)], TRUE)
     IN /\ ptrs' = [ptrs EXCEPT ![t][slot[t]] = ptr]
        /\ allocations_left' = [allocations_left EXCEPT ![t] =
                                  IF ptr = NULL THEN @ ELSE @ - 1]
  /\ pools' = IF system THEN pools
              ELSE [pools EXCEPT ![PoolOf(t)] = AfterMalloc(@, TRUE)]
  /\ IF ptrs'[t] = ptrs[t] THEN UNCHANGED slot ELSE Advance(t)
  /\ UNCHANGED <<build, stage, round, bencher>>

\* The slot is empty. NULL is not counted.
Allocate(t) ==
  /\ Looping(t) /\ held(t) = NULL
  /\ LET ptr == IF system THEN Heap ELSE my_malloc(pools[PoolOf(t)], TRUE)
     IN /\ ptrs' = [ptrs EXCEPT ![t][slot[t]] = ptr]
        /\ allocations_left' = [allocations_left EXCEPT ![t] =
                                  IF ptr = NULL THEN @ ELSE @ - 1]
  /\ pools' = IF system THEN pools
              ELSE [pools EXCEPT ![PoolOf(t)] = AfterMalloc(@, TRUE)]
  /\ Advance(t)
  /\ UNCHANGED <<build, stage, round, bencher>>

AllAllocated(t) ==
  /\ allocations_left[t] = 0
  /\ Goto(t, "loop", "drain")
  /\ slot' = [slot EXCEPT ![t] = 1]
  /\ UNCHANGED <<build, stage, round, ptrs, allocations_left, pools>>

FreeRemaining(t) ==
  /\ bencher[t] = "drain" /\ slot[t] <= ALLOCATION_BUFFER_SIZE
  /\ FreeHeld(t)
  /\ slot' = [slot EXCEPT ![t] = @ + 1]
  /\ UNCHANGED <<build, stage, round, bencher, allocations_left>>

Exit(t) ==
  /\ slot[t] > ALLOCATION_BUFFER_SIZE
  /\ Goto(t, "drain", "exited")
  /\ pools' = IF init_per_thread THEN Destroyed(t) ELSE pools
  /\ UNCHANGED <<build, stage, round, locals>>

---------------------------------------------------------------------------
run_config == CreateThreads \/ JoinThreads

thread_fn(t) ==
  \/ InitPool(t) \/ Keep(t) \/ Allocate(t) \/ AllAllocated(t)
  \/ FreeRemaining(t) \/ Exit(t)

Next == Start \/ run_config \/ \E t \in Threads : thread_fn(t) \/ FreeSlot(t)

\* The threads run, and of the coins they throw not all fall on the same side.
Fairness ==
  /\ WF_vars(run_config)
  /\ \A t \in Threads : WF_vars(thread_fn(t) \/ FreeSlot(t)) /\ SF_vars(FreeSlot(t))

Spec == Init /\ [][Next]_vars /\ Fairness

---------------------------------------------------------------------------
\* The types.
TypeOK ==
  /\ build \in {"none", "task_1_global", "task_3_local", "task_3_global"}
  /\ stage \in {"none", "init", "join", "done"}
  /\ round \in 1 .. 2 * Len(Configs)
  /\ bencher \in [Threads -> {"none", "init", "loop", "drain", "exited"}]
  /\ slot \in [Threads -> 1 .. ALLOCATION_BUFFER_SIZE + 1]
  /\ ptrs \in [Threads -> [Slots -> {NULL, Heap} \cup 1 .. PoolBlocks]]
  /\ allocations_left \in [Threads -> 0 .. NumAllocations]

Holders(p, b) ==
  {h \in Threads \X Slots : PoolOf(h[1]) = p /\ ptrs[h[1]][h[2]] = b}

\* However the threads' calls interleave, each block of a pool but the first is
\* on the list, once and in its place, or in one slot of one thread, so that a
\* pool is whole again when its threads have freed what they have left.
EveryBlockOnce ==
  \A p \in DOMAIN pools : pools[p].mapped =>
    LET free == pools[p].free IN
    /\ \A j, k \in DOMAIN free : j < k => free[j] < free[k]
    /\ \A b \in 1 .. Blocks - 1 :
         Cardinality(Holders(p, b)) =
           IF \E k \in DOMAIN free : free[k] = b THEN 0 ELSE 1
    /\ (\A t \in Threads : PoolOf(t) = p => bencher[t] \in {"none", "exited"}) =>
         Len(free) = Blocks - 1

\* A thread that asks an allocator without a pool gets NULL for ever.
Starves(t) == bencher[t] = "loop" /\ ~system /\ ~pools[PoolOf(t)].mapped

\* The benchmark ends, even with fewer blocks than slots, unless some thread
\* has no pool: because the mapping failed, or, in task_3_global, because main
\* has set up a pool that only main sees.
BenchmarkEnds ==
  stage = "init" ~> stage = "done" \/ \E t \in Threads : Starves(t)
=============================================================================
