---------------------------- MODULE FreeListTest ----------------------------
(***************************************************************************)
(* test_free_list_allocator (exercise10, allocator_tests.c), on the free-  *)
(* list allocator. The calls are made one at a time, so that a step here   *)
(* may be several. Sizes are in units, the pool's in blocks.               *)
(***************************************************************************)
EXTENDS FreeListPool

CONSTANTS
  BLOCK_SIZE,       \* what a block has beside its header
  PoolBlocks,       \* whole blocks in POOL_SIZE
  SIZE_MAX

VARIABLES
  testing,          \* where the test is
  tested,           \* the pool
  lower_bound, upper_bound,
  num_blocks,
  block,            \* the loops' counter
  allocations,
  contents,         \* what was last written to each block
  failed            \* assertions that did not hold, by line

vars == <<testing, tested, lower_bound, upper_bound, num_blocks, block,
          allocations, contents, failed>>

Init ==
  /\ testing = "none"
  /\ tested = Unmapped
  /\ lower_bound = 0 /\ upper_bound = SIZE_MAX
  /\ num_blocks = 0
  /\ block = 0
  /\ allocations = <<>>
  /\ contents = [b \in 0 .. PoolBlocks - 1 |-> 0]
  /\ failed = {}

Goto(from, to) == testing = from /\ testing' = to

Assert(line, holds) == failed' = IF holds THEN failed ELSE failed \cup {line}

Malloc(pool, size) == my_malloc(pool, size <= BLOCK_SIZE)
After(pool, size) == AfterMalloc(pool, size <= BLOCK_SIZE)

Start ==
  /\ Goto("none", "search")
  /\ tested' = my_allocator_init(tested, PoolBlocks)
  /\ UNCHANGED <<lower_bound, upper_bound, num_blocks, block, allocations, contents,
                 failed>>

\* The binary search for the largest size; what it gets it frees again.
find_maximum_block_size ==
  /\ testing = "search"
  /\ lower_bound < upper_bound
  /\ LET midpoint == lower_bound + (upper_bound - lower_bound) \div 2 + 1
         ptr == Malloc(tested, midpoint)
     IN /\ lower_bound' = IF ptr = NULL THEN lower_bound ELSE midpoint
        /\ upper_bound' = IF ptr = NULL THEN midpoint - 1 ELSE upper_bound
        /\ tested' = IF ptr = NULL THEN tested
                     ELSE my_free(After(tested, midpoint), ptr)
  /\ UNCHANGED <<testing, num_blocks, block, allocations, contents, failed>>

block_size == lower_bound

\* One that is too large, two that are not; the first is freed and comes back.
\* (ptr1, ptr2 and ptr4 are what allocations has until the count.)
FirstPointers ==
  /\ lower_bound = upper_bound
  /\ Goto("search", "reuse")
  /\ LET one == After(tested, 1) IN
       /\ allocations' = <<Malloc(tested, 1), Malloc(one, 1)>>
       /\ tested' = After(one, 1)
  /\ Assert(42, Malloc(tested, PoolBlocks * (BLOCK_SIZE + 1)) = NULL
                /\ Malloc(tested, 1) # NULL)
  /\ UNCHANGED <<lower_bound, upper_bound, num_blocks, block, contents>>

Reuse ==
  /\ Goto("reuse", "count")
  /\ LET freed == my_free(tested, allocations[1])
         third == After(freed, block_size)
         ptr3 == Malloc(freed, block_size)
         ptr4 == Malloc(third, block_size)
     IN /\ Assert(61, ptr3 = allocations[1] /\ ptr4 > allocations[2])
        /\ tested' = After(third, block_size)
        /\ block' = ptr4
  /\ num_blocks' = 3
  /\ UNCHANGED <<lower_bound, upper_bound, allocations, contents>>

\* The rest of the pool, to the last block.
Count ==
  /\ testing = "count"
  /\ Malloc(tested, 1) # NULL
  /\ block' = Malloc(tested, 1)
  /\ tested' = After(tested, 1)
  /\ num_blocks' = num_blocks + 1
  /\ UNCHANGED <<testing, lower_bound, upper_bound, allocations, contents, failed>>

Limits ==
  /\ Malloc(tested, 1) = NULL
  /\ Goto("count", "allocate")
  /\ Assert(80, block + 1 - allocations[1] <= PoolBlocks)
  /\ tested' = my_allocator_init(my_allocator_destroy(tested), PoolBlocks)
  /\ allocations' = [k \in 0 .. num_blocks - 1 |-> NULL]
  /\ block' = 0
  /\ UNCHANGED <<lower_bound, upper_bound, num_blocks, contents>>

\* The loops over the blocks: where each begins, and its step.
Loops == <<[name |-> "allocate", first |-> 0, step |-> 1],
           [name |-> "compare", first |-> 1, step |-> 1],
           [name |-> "verify", first |-> 0, step |-> 1],
           [name |-> "free_two", first |-> 0, step |-> 2],
           [name |-> "replace_two", first |-> 0, step |-> 2],
           [name |-> "free_three", first |-> 1, step |-> 3],
           [name |-> "replace_three", first |-> 1, step |-> 3]>>

\* A turn of one of these loops.
Turn(names) ==
  \E k \in DOMAIN Loops :
    /\ testing \in names /\ testing = Loops[k].name
    /\ block < num_blocks
    /\ block' = block + Loops[k].step
    /\ UNCHANGED <<testing, lower_bound, upper_bound, num_blocks>>

AllocateBlock ==
  /\ Turn({"allocate", "replace_two", "replace_three"})
  /\ allocations' = [allocations EXCEPT ![block] = Malloc(tested, block_size)]
  /\ tested' = After(tested, block_size)
  /\ Assert(90, Malloc(tested, block_size) # NULL)
  /\ UNCHANGED contents

\* The block is written, and lies behind the one before; the first is zero.
CompareBlock ==
  /\ Turn({"compare"})
  /\ Assert(95, allocations[block - 1] < allocations[block])
  /\ contents' = [contents EXCEPT ![allocations[block]] = block % 255]
  /\ UNCHANGED <<tested, allocations>>

VerifyBlock ==
  /\ Turn({"verify"})
  /\ Assert(100, contents[allocations[block]] = block % 255)
  /\ UNCHANGED <<tested, allocations, contents>>

FreeBlock ==
  /\ Turn({"free_two", "free_three"})
  /\ tested' = my_free(tested, allocations[block])
  /\ UNCHANGED <<allocations, contents, failed>>

\* The next loop, or after the last of them the end.
LoopEnds ==
  /\ block >= num_blocks
  /\ \E k \in DOMAIN Loops :
       /\ testing = Loops[k].name
       /\ IF k = Len(Loops)
          THEN /\ testing' = "done"
               /\ tested' = my_allocator_destroy(tested)
               /\ UNCHANGED block
          ELSE /\ testing' = Loops[k + 1].name
               /\ block' = Loops[k + 1].first
               /\ UNCHANGED tested
  /\ UNCHANGED <<lower_bound, upper_bound, num_blocks, allocations, contents, failed>>

---------------------------------------------------------------------------
test_free_list_allocator ==
  \/ find_maximum_block_size \/ FirstPointers \/ Reuse \/ Count \/ Limits
  \/ AllocateBlock \/ CompareBlock \/ VerifyBlock \/ FreeBlock \/ LoopEnds

Next == Start \/ test_free_list_allocator

Spec == Init /\ [][Next]_vars

---------------------------------------------------------------------------
\* The types.
TypeOK ==
  /\ testing \in {"none", "search", "reuse", "count", "done"}
                   \cup {Loops[k].name : k \in DOMAIN Loops}
  /\ lower_bound \in 0 .. SIZE_MAX /\ upper_bound \in 0 .. SIZE_MAX
  /\ num_blocks \in 0 .. PoolBlocks
  /\ failed \subseteq Nat

\* The test's assertions hold, its search finds the size of a block, and at its
\* end it has had every block of the pool but the first, none of them twice.
TestPasses ==
  /\ failed = {}
  /\ testing \notin {"none", "search"} => block_size = BLOCK_SIZE
  /\ testing = "done" =>
       {allocations[k] : k \in DOMAIN allocations} = 1 .. PoolBlocks - 1
       /\ num_blocks = PoolBlocks - 1
=============================================================================
