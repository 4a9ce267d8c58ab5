---------------------------- MODULE FreeListPool ----------------------------
(***************************************************************************)
(* The calls of the free-list allocator as functions of the pool, for the  *)
(* programs that make them in a thread-local pool (exercise10/task_3), or  *)
(* one at a time: exercise10/task_1 holds its mutex over each call.        *)
(* FreeListAllocator has the steps of a call.                              *)
(*                                                                         *)
(* A block is its number, from 0 on, and the list of free ones is the      *)
(* sequence that leads from header_start.next.                             *)
(***************************************************************************)
EXTENDS Integers, Sequences

NULL == -1

Unmapped == [mapped |-> FALSE, free |-> <<>>]

\* A pool of this many blocks. The first is left out: the loop that chains the
\* headers writes header_start.next first. Without a whole block the mapping
\* fails, and one pool is enough.
my_allocator_init(pool, blocks) ==
  IF pool.mapped \/ blocks = 0 THEN pool
  ELSE [mapped |-> TRUE, free |-> [k \in 1 .. blocks - 1 |-> k]]

my_allocator_destroy(pool) == Unmapped

Available(pool, fits) == pool.mapped /\ fits /\ pool.free # <<>>

\* The pointer that is returned, and the pool after the call.
my_malloc(pool, fits) ==
  IF Available(pool, fits) THEN Head(pool.free) ELSE NULL

\* Mutant: the block taken stays on the list.
KeepingTheBlock(pool, fits) == pool

AfterMalloc(pool, fits) ==
  IF Available(pool, fits) THEN [pool EXCEPT !.free = Tail(@)] ELSE pool

\* Mutant: the freed block is put at the head of the list, whatever is there.
FreeAtTheHead(pool, ptr) ==
  IF pool.mapped THEN [pool EXCEPT !.free = <<ptr>> \o @] ELSE pool

\* How many blocks of the list are before the first that is above ptr, where the
\* walk along it ends.
Passed(free, ptr) ==
  CHOOSE k \in 0 .. Len(free) :
    /\ \A j \in 1 .. k : free[j] <= ptr
    /\ k = Len(free) \/ free[k + 1] > ptr

\* The freed block is put there, unless it is the last that was passed itself.
my_free(pool, ptr) ==
  LET k == Passed(pool.free, ptr)
  IN IF ~pool.mapped \/ (k > 0 /\ pool.free[k] = ptr) THEN pool
     ELSE [pool EXCEPT !.free = SubSeq(@, 1, k) \o <<ptr>> \o SubSeq(@, k + 1, Len(@))]
=============================================================================
