-------------------------- MODULE BestFitAllocator --------------------------
(***************************************************************************)
(* The allocator of exercise10/task_2: blocks of any size tile the pool,   *)
(* each behind a header with its size, whether it is free, and links to    *)
(* its neighbours. my_malloc takes the first free block that is large      *)
(* enough and splits it; my_free merges a block with the free ones around  *)
(* it.                                                                     *)
(*                                                                         *)
(* One mutex is held over each call, and released on every path, so the    *)
(* calls of all the threads form one sequence, here with a step for each   *)
(* turn of a loop. Addresses and sizes are in units of a header. Memory    *)
(* that was handed out holds the caller's data, where a header may have    *)
(* been before.                                                            *)
(*                                                                         *)
(* The links back are not kept up to date by a split, so a merge can go    *)
(* wrong, and so can a size that wraps: either it spoils the header behind *)
(* the block, or the process ends in the call, with the mutex held. After  *)
(* a fault the code has no meaning: the model notes it and lets the pool   *)
(* only be unmapped.                                                       *)
(***************************************************************************)
EXTENDS Integers

CONSTANTS
  PoolSize,         \* total_size of my_allocator_init, in headers
  Sizes,            \* the sizes that are asked for
  SIZE_MAX,         \* the largest size_t
  Data              \* what a caller has written over a place for a header

ASSUME PoolAssumption ==
  /\ PoolSize \in Nat /\ PoolSize > 0
  /\ SIZE_MAX \in Nat /\ SIZE_MAX >= PoolSize
  /\ Sizes \subseteq 1 .. SIZE_MAX

Addresses == 0 .. PoolSize - 1

NULL == -1

Header == 1         \* sizeof(header_t)

Headers == [is_free : BOOLEAN, size : Nat,
            next : Addresses \cup {NULL}, prev : Addresses \cup {NULL}]

\* Pages are mapped filled with zeros.
Zero == [is_free |-> FALSE, size |-> 0, next |-> NULL, prev |-> NULL]

ASSUME DataAssumption == Data \notin Headers

VARIABLES
  pool,             \* whether the pool is mapped
  mem,              \* what the pool holds where a header can start
  pc, cursor,       \* where the current call is
  block_size,       \* my_malloc
  target, merge_size, next_buf, \* my_free
  allocated,        \* what was returned to callers and not freed
  fault             \* why the list can no longer be trusted

vars == <<pool, mem, pc, cursor, block_size, target, merge_size, next_buf,
          allocated, fault>>

free_locals == <<target, merge_size, next_buf>>

is_free(a) == mem[a].is_free
size(a) == mem[a].size
next(a) == mem[a].next
prev(a) == mem[a].prev

Init ==
  /\ pool = FALSE
  /\ mem = [a \in Addresses |-> Zero]
  /\ pc = "idle"
  /\ cursor = NULL
  /\ block_size = 0
  /\ target = NULL /\ merge_size = 0 /\ next_buf = NULL
  /\ allocated = {}
  /\ fault = "none"

Goto(from, to) == pc = from /\ pc' = to

\* The call returns, and its local variables are gone.
Return(from) ==
  /\ Goto(from, "idle")
  /\ cursor' = NULL
  /\ block_size' = 0
  /\ target' = NULL /\ merge_size' = 0 /\ next_buf' = NULL

---------------------------------------------------------------------------
\* my_allocator_init and my_allocator_destroy

\* One free block, as large as the pool; the rest of the pages is zero.
MapPool ==
  /\ pc = "idle" /\ ~pool
  /\ pool' = TRUE
  /\ mem' = [a \in Addresses |->
               IF a = 0 THEN [Zero EXCEPT !.is_free = TRUE, !.size = PoolSize]
               ELSE Zero]
  /\ UNCHANGED <<pc, cursor, block_size, free_locals, allocated, fault>>

\* Pages are given back whether or not blocks of them are in use.
UnmapPool ==
  /\ pc = "idle" /\ pool
  /\ pool' = FALSE
  /\ mem' = [a \in Addresses |-> Zero]
  /\ allocated' = {}
  /\ fault' = "none"
  /\ UNCHANGED <<pc, cursor, block_size, free_locals>>

---------------------------------------------------------------------------
\* my_malloc

\* A size_t: it wraps.
BlockSize(n) == (n + Header) % (SIZE_MAX + 1)

\* The search starts at the lowest block, which is always at the pool's start.
\* (Without a pool the call returns NULL and changes nothing.)
MallocCall ==
  /\ pool /\ fault = "none"
  /\ Goto("idle", "fit")
  /\ \E n \in Sizes : block_size' = BlockSize(n)
  /\ cursor' = 0
  /\ UNCHANGED <<pool, mem, free_locals, allocated, fault>>

Fits(a) == is_free(a) /\ size(a) >= block_size


TryNext ==
  /\ pc = "fit"
  /\ ~Fits(cursor)
  /\ next(cursor) # NULL
  /\ cursor' = next(cursor)
  /\ UNCHANGED <<pool, mem, pc, block_size, free_locals, allocated,
                 fault>>

MallocFails ==
  /\ pc = "fit"
  /\ ~Fits(cursor)
  /\ next(cursor) = NULL
  /\ Return("fit")
  /\ UNCHANGED <<pool, mem, allocated, fault>>

\* Of the n units at a the caller gets all but the header, to write to.
HandOut(m, a, n) ==
  [x \in Addresses |-> IF x \in a + 1 .. a + n - 1 THEN Data ELSE m[x]]

\* No room for another header: the caller gets all of it.
TakeWhole ==
  /\ pc = "fit"
  /\ Fits(cursor)
  /\ size(cursor) < block_size + Header
  /\ mem' = HandOut([mem EXCEPT ![cursor].is_free = FALSE],
                    cursor, size(cursor))
  /\ allocated' = allocated \cup {cursor}
  /\ Return("fit")
  /\ UNCHANGED <<pool, fault>>

\* The writes to the two headers, in the code's order. The prev of the block
\* after the rest is left as it was.
SplitAt(rest, rest_size) ==
  [mem EXCEPT ![cursor].next = rest,
              ![rest] = [is_free |-> TRUE, size |-> rest_size,
                         next |-> next(cursor), prev |-> cursor],
              ![cursor].is_free = FALSE,
              ![cursor].size = block_size]

\* Mutant: the rest is not shortened by what is taken off.
SplitKeepingSize ==
  /\ pc = "fit"
  /\ Fits(cursor)
  /\ size(cursor) >= block_size + Header
  /\ block_size # 0
  /\ mem' = HandOut(SplitAt(cursor + block_size, size(cursor)),
                    cursor, block_size)
  /\ allocated' = allocated \cup {cursor}
  /\ Return("fit")
  /\ UNCHANGED <<pool, fault>>

\* The rest becomes a free block of its own.
Split ==
  /\ pc = "fit"
  /\ Fits(cursor)
  /\ size(cursor) >= block_size + Header
  /\ block_size # 0
  /\ mem' = HandOut(SplitAt(cursor + block_size, size(cursor) - block_size),
                    cursor, block_size)
  /\ allocated' = allocated \cup {cursor}
  /\ Return("fit")
  /\ UNCHANGED <<pool, fault>>

\* A block_size of 0 is a sum that has wrapped. The block is then its own rest
\* for a moment: once the old next is stored in it, every further cursor->next
\* is that old next. Its header gets what the rest's should get, and of the
\* block nothing is left.
SplitNothing ==
  /\ pc = "fit"
  /\ Fits(cursor)
  /\ block_size = 0
  /\ next(cursor) # NULL
  /\ mem' = [mem EXCEPT ![next(cursor)].prev = cursor,
                        ![next(cursor)].is_free = TRUE,
                        ![next(cursor)].size = size(cursor),
                        ![cursor].is_free = FALSE,
                        ![cursor].size = 0]
  /\ allocated' = allocated \cup {cursor}
  /\ fault' = "wrapped_size"
  /\ Return("fit")
  /\ UNCHANGED pool

\* If the block was the last one, its old next is null, and so is the pointer
\* written through: the process ends in the call, which holds the mutex.
SplitCrashes ==
  /\ Goto("fit", "crashed")
  /\ Fits(cursor)
  /\ block_size = 0
  /\ next(cursor) = NULL
  /\ fault' = "wrapped_size"
  /\ UNCHANGED <<pool, mem, cursor, block_size, free_locals, allocated>>

---------------------------------------------------------------------------
\* my_free

FreeCall ==
  /\ fault = "none"
  /\ Goto("idle", "forward")
  /\ \E a \in allocated :
       /\ ~is_free(a)
       /\ allocated' = allocated \ {a}
       /\ mem' = [mem EXCEPT ![a].is_free = TRUE]
       /\ target' = a
       /\ cursor' = a
       /\ merge_size' = size(a)
  /\ UNCHANGED <<pool, block_size, next_buf, fault>>

NextIsFree == next(cursor) # NULL /\ is_free(next(cursor))

Forward ==
  /\ pc = "forward"
  /\ NextIsFree
  /\ merge_size' = merge_size + size(next(cursor))
  /\ cursor' = next(cursor)
  /\ UNCHANGED <<pool, mem, pc, block_size, target, next_buf, allocated,
                 fault>>

\* Mutant: blocks after the freed one are not merged.
TurnBackAtOnce ==
  /\ Goto("forward", "backward")
  /\ next_buf' = next(cursor)
  /\ cursor' = target
  /\ UNCHANGED <<pool, mem, block_size, target, merge_size, allocated,
                 fault>>

TurnBack ==
  /\ Goto("forward", "backward")
  /\ ~NextIsFree
  /\ next_buf' = next(cursor)
  /\ cursor' = target
  /\ UNCHANGED <<pool, mem, block_size, target, merge_size, allocated,
                 fault>>

\* What the condition cursor->prev && cursor->prev->is_free may yield.
PrevIsFree ==
  LET a == prev(cursor) IN
    CASE a = NULL -> {FALSE}
      [] a # NULL -> IF mem[a] = Data THEN BOOLEAN ELSE {is_free(a)}

\* b is the next block of the list after a.
Leads(a, b) == a # NULL /\ next(a) = b

\* One free block back. Merging over a prev that does not lead here, because
\* a split has put a block in between, or reading a size from what is data by
\* now, spoils the list.
Backward ==
  /\ pc = "backward"
  /\ TRUE \in PrevIsFree
  /\ IF mem[prev(cursor)] = Data
     THEN /\ fault' = "stale_prev"
          /\ Return("backward")
          /\ UNCHANGED <<pool, mem, allocated>>
     ELSE /\ merge_size' = merge_size + size(prev(cursor))
          /\ cursor' = prev(cursor)
          /\ fault' = IF Leads(prev(cursor), cursor) THEN fault
                      ELSE "stale_prev"
          /\ UNCHANGED <<pool, mem, pc, block_size, target, next_buf,
                         allocated>>

Merge ==
  /\ pc = "backward"
  /\ FALSE \in PrevIsFree
  /\ LET merged == [mem EXCEPT ![cursor].next = next_buf,
                               ![cursor].size = merge_size]
     IN mem' = IF next_buf = NULL THEN merged
               ELSE [merged EXCEPT ![next_buf].prev = cursor]
  /\ Return("backward")
  /\ UNCHANGED <<pool, allocated, fault>>

---------------------------------------------------------------------------
my_malloc ==
  TryNext \/ MallocFails \/ TakeWhole \/ Split \/ SplitNothing \/ SplitCrashes

my_free == Forward \/ TurnBack \/ Backward \/ Merge

Next ==
  \/ MapPool \/ UnmapPool
  \/ MallocCall \/ FreeCall
  \/ my_malloc \/ my_free

\* A call that has begun keeps running.
Fairness == WF_vars(my_malloc \/ my_free)

Spec == Init /\ [][Next]_vars /\ Fairness

---------------------------------------------------------------------------
\* The list from the pool's start on.
Reached[k \in 0 .. PoolSize] ==
  IF k = 0 THEN {0}
  ELSE Reached[k - 1] \cup ({next(a) : a \in Reached[k - 1]} \ {NULL})

Listed == Reached[PoolSize]

End(a) == IF next(a) = NULL THEN PoolSize ELSE next(a)

\* The blocks tile the pool, and those in use are the callers'.
Tiled ==
  /\ \A a \in Listed : /\ mem[a] # Data
                       /\ size(a) > 0
                       /\ a + size(a) = End(a)
  /\ allocated = {a \in Listed : ~is_free(a)}

Quiet == pool /\ pc = "idle"

\* Every variable has its type: links stay in the pool, and no block begins
\* outside of it. (A size may exceed the pool after a merge that went wrong,
\* which can count the same memory twice.)
TypeOK ==
  /\ pool \in BOOLEAN
  /\ mem \in [Addresses -> Headers \cup {Data}]
  /\ pc \in {"idle", "fit", "crashed", "forward", "backward"}
  /\ cursor \in Addresses \cup {NULL}
  /\ block_size \in 0 .. SIZE_MAX
  /\ target \in Addresses \cup {NULL}
  /\ merge_size \in Nat
  /\ next_buf \in Addresses \cup {NULL}
  /\ allocated \subseteq Addresses
  /\ fault \in {"none", "stale_prev", "wrapped_size"}

\* Whatever is allocated, split, freed and merged in whatever order: between
\* calls the blocks tile the pool without a gap or an overlap, each in use by
\* exactly the caller it was returned to. Only a merge over a stale prev and a
\* wrapped size can end this, although many prevs are stale long before. The
\* links stay in the pool even then: the types hold.
TiledUntilFault ==
  /\ TypeOK
  /\ Quiet /\ fault = "none" => Tiled

\* Adjacent free blocks may stay apart for a while, because a prev is stale;
\* but when everything has been freed it has grown together again into the one
\* block the pool began with.
AllFreeIsOneBlock ==
  Quiet /\ fault = "none" /\ allocated = {} =>
    is_free(0) /\ size(0) = PoolSize /\ next(0) = NULL /\ prev(0) = NULL

\* The size that my_malloc works with has wrapped to 0.
SizeWrapped == pc \in {"fit", "crashed"} /\ block_size = 0

\* No loop of links keeps the search or a merge busy for ever, stale as the
\* links back may be: every call comes to its end. For all but a wrapped size
\* that is its return, with the mutex given back; a wrapped size may end the
\* process instead, with the mutex held.
CallsReturn ==
  /\ pc # "idle" ~> pc \in {"idle", "crashed"}
  /\ pc # "idle" /\ ~SizeWrapped ~> pc = "idle"

\* A block on the list that counts as free contains no memory of a caller, so
\* that memory is not handed out a second time.
FreeMemoryIsNobodys ==
  Quiet => \A a \in Listed, b \in allocated :
             is_free(a) => a + size(a) <= b \/ b + size(b) <= a
=============================================================================
