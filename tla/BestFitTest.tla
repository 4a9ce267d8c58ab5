---------------------------- MODULE BestFitTest -----------------------------
(***************************************************************************)
(* test_best_fit_allocator (exercise10, allocator_tests.c): the calls it   *)
(* makes one after the other of the allocator in BestFitAllocator. A unit  *)
(* is a header.                                                            *)
(***************************************************************************)
EXTENDS BestFitAllocator, Sequences

CONSTANT KiB        \* 1024 bytes in units

VARIABLES
  call,             \* the call of the script that is next or under way
  ptr               \* what the calls of my_malloc have returned

testvars == <<vars, call, ptr>>

malloc(n, s) == [name |-> "malloc", number |-> n, size |-> s]
free(n) == [name |-> "free", number |-> n, size |-> 0]

overhead == Header

Script ==
  <<malloc(1, KiB), malloc(2, KiB), free(1), malloc(3, KiB),
    malloc(4, 3 * KiB), malloc(5, 2 * KiB), malloc(6, 2 * KiB), free(5),
    malloc(7, KiB), malloc(8, KiB - overhead), free(4), free(8), free(7),
    malloc(9, 4 * KiB), free(9), free(6), free(2), free(3),
    malloc(10, PoolSize - overhead), malloc(11, 1)>>

TestInit ==
  /\ Init
  /\ call = 0
  /\ ptr = [n \in 1 .. 11 |-> NULL]

Begin ==
  /\ call = 0
  /\ MapPool
  /\ call' = 1
  /\ UNCHANGED ptr

Call ==
  /\ call \in DOMAIN Script
  /\ \/ /\ Script[call].name = "malloc"
        /\ MallocCall
        /\ block_size' = BlockSize(Script[call].size)
     \/ /\ Script[call].name = "free"
        /\ FreeCall
        /\ target' = ptr[Script[call].number]
  /\ UNCHANGED <<call, ptr>>

\* The block that a step has handed out.
Returned == IF allocated' = allocated THEN NULL
            ELSE CHOOSE a \in allocated' : a \notin allocated

Run ==
  /\ my_malloc \/ my_free
  /\ IF pc' # "idle" THEN UNCHANGED <<call, ptr>>
     ELSE /\ call' = call + 1
          /\ ptr' = IF Script[call].name = "malloc"
                    THEN [ptr EXCEPT ![Script[call].number] = Returned] ELSE ptr

Finish ==
  /\ call = Len(Script) + 1
  /\ UnmapPool
  /\ call' = call + 1
  /\ UNCHANGED ptr

test_best_fit_allocator == Call \/ Run \/ Finish

TestNext == Begin \/ test_best_fit_allocator

TestSpec == TestInit /\ [][TestNext]_testvars

---------------------------------------------------------------------------
\* Assertion k of the test is checked when the pointer with this number is there.
Checked(n) == \E k \in DOMAIN Script :
  /\ Script[k] = malloc(n, Script[k].size)
  /\ k < call

\* The assertions of the test hold, and none of the links back that a split has
\* left behind is followed in it: with every block freed, all of the pool is one
\* block again.
TestPasses ==
  /\ fault = "none"
  /\ Checked(1) => ptr[1] # NULL
  /\ Checked(2) => ptr[2] > ptr[1]
  /\ Checked(3) => ptr[3] = ptr[1]
  /\ Checked(6) => ptr[5] > ptr[4] /\ ptr[6] > ptr[5]
  /\ Checked(7) => ptr[7] = ptr[5]
  /\ Checked(8) => ptr[8] = ptr[5] + KiB + overhead
  /\ Checked(9) => ptr[9] = ptr[4]
  /\ Checked(10) => ptr[10] # NULL
  /\ Checked(11) => ptr[11] = NULL
=============================================================================
