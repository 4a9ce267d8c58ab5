------------------------- MODULE FreeListAllocator -------------------------
(***************************************************************************)
(* The free-list allocator of exercise10/task_1 and task_2: blocks of one  *)
(* size in a mapped pool, the free ones in a list through their headers    *)
(* that is kept in address order, and one mutex around every operation.    *)
(*                                                                         *)
(* A block is its index in the pool, so that addresses compare as indices  *)
(* do. Threads allocate at any time and free what they were given; the     *)
(* main thread maps the pool, again if it likes, and unmaps it when no     *)
(* block is in use.                                                        *)
(***************************************************************************)
EXTENDS Integers

CONSTANTS
  Threads,
  BlockCount,       \* blocks that fit into the pool
  None              \* the owner of a free mutex

ASSUME AllocatorAssumption ==
  /\ BlockCount \in Nat /\ BlockCount > 0
  /\ None \notin Threads

Blocks == 0 .. BlockCount - 1

NULL == -1

VARIABLES
  pool,             \* whether the pool is mapped
  start,            \* header_start.next
  next,             \* the header of each block
  mutex,            \* owner of free_list_alloc_mutex
  pc,               \* where each thread is
  too_big,          \* my_malloc: the size exceeds a block
  target,           \* my_free: header_to_free
  cursor,           \* my_free: header_cursor
  held              \* the blocks my_malloc returned to each thread

vars == <<pool, start, next, mutex, pc, too_big, target, cursor, held>>

list == <<pool, start, next>>
locals == <<too_big, target, cursor>>

Init ==
  /\ pool = FALSE
  /\ start = NULL
  /\ next = [b \in Blocks |-> NULL]
  /\ mutex = None
  /\ pc = [t \in Threads |-> "idle"]
  /\ too_big = [t \in Threads |-> FALSE]
  /\ target = [t \in Threads |-> NULL]
  /\ cursor = [t \in Threads |-> NULL]
  /\ held = [t \in Threads |-> {}]

Goto(t, from, to) ==
  /\ pc[t] = from
  /\ pc' = [pc EXCEPT ![t] = to]

Lock(t, from, to) ==
  /\ Goto(t, from, to)
  /\ mutex = None
  /\ mutex' = t
  /\ UNCHANGED <<list, locals, held>>

\* Every local variable ends with its call, and the call returns.
Return(t, from) ==
  /\ Goto(t, from, "idle")
  /\ mutex' = None
  /\ too_big' = [too_big EXCEPT ![t] = FALSE]
  /\ target' = [target EXCEPT ![t] = NULL]
  /\ cursor' = [cursor EXCEPT ![t] = NULL]

---------------------------------------------------------------------------
\* my_allocator_init and my_allocator_destroy, each one critical section

\* The headers are chained from header_start on, which is sent past the first
\* block at once: block 0 is never in the list.
MapPool ==
  /\ mutex = None
  /\ ~pool
  /\ pool' = TRUE
  /\ start' = IF BlockCount > 1 THEN 1 ELSE NULL
  /\ next' = [b \in Blocks |-> IF b = 0 \/ b = BlockCount - 1 THEN NULL
                               ELSE b + 1]
  /\ UNCHANGED <<mutex, pc, locals, held>>

\* t is giving target[t] back, from its call on.
Freeing(t) == pc[t] \in {"f_lock", "free", "walk"}

Uses(t, b) == b \in held[t] \/ (Freeing(t) /\ b = target[t])

InUse == {b \in Blocks : \E t \in Threads : Uses(t, b)}

UnmapPool ==
  /\ mutex = None
  /\ pool
  /\ InUse = {}
  /\ pool' = FALSE
  /\ start' = NULL
  /\ next' = [b \in Blocks |-> NULL]
  /\ UNCHANGED <<mutex, pc, locals, held>>

---------------------------------------------------------------------------
\* my_malloc

MallocCall(t) ==
  /\ Goto(t, "idle", "m_lock")
  /\ \E big \in BOOLEAN : too_big' = [too_big EXCEPT ![t] = big]
  /\ UNCHANGED <<list, mutex, target, cursor, held>>

MallocLock(t) == Lock(t, "m_lock", "malloc")

\* No pool, too large, or nothing free.
MallocFails(t) ==
  /\ Return(t, "malloc")
  /\ ~pool \/ too_big[t] \/ start = NULL
  /\ UNCHANGED <<list, held>>

\* Mutant: the block stays at the head of the list.
TakeWithoutUnlinking(t) ==
  /\ Return(t, "malloc")
  /\ pool /\ ~too_big[t] /\ start # NULL
  /\ held' = [held EXCEPT ![t] = @ \cup {start}]
  /\ UNCHANGED list

Take(t) ==
  /\ Return(t, "malloc")
  /\ pool /\ ~too_big[t] /\ start # NULL
  /\ held' = [held EXCEPT ![t] = @ \cup {start}]
  /\ start' = next[start]
  /\ UNCHANGED <<pool, next>>

---------------------------------------------------------------------------
\* my_free

FreeCall(t) ==
  /\ Goto(t, "idle", "f_lock")
  /\ \E b \in held[t] :
       /\ target' = [target EXCEPT ![t] = b]
       /\ held' = [held EXCEPT ![t] = @ \ {b}]
  /\ UNCHANGED <<list, mutex, too_big, cursor>>

FreeLock(t) == Lock(t, "f_lock", "free")

\* Mutant: always at the head, so that the list loses its order.
PushAlways(t) ==
  /\ Return(t, "free")
  /\ pool
  /\ next' = [next EXCEPT ![target[t]] = start]
  /\ start' = target[t]
  /\ UNCHANGED <<pool, held>>

\* The block becomes the new head of the list.
Push(t) ==
  /\ Return(t, "free")
  /\ pool
  /\ start = NULL \/ start > target[t]
  /\ next' = [next EXCEPT ![target[t]] = start]
  /\ start' = target[t]
  /\ UNCHANGED <<pool, held>>

\* Or its place is further down, and the cursor starts at the head.
BeginWalk(t) ==
  /\ Goto(t, "free", "walk")
  /\ pool
  /\ start # NULL /\ start <= target[t]
  /\ cursor' = [cursor EXCEPT ![t] = start]
  /\ UNCHANGED <<list, mutex, too_big, target, held>>

GoesOn(t) == next[cursor[t]] # NULL /\ next[cursor[t]] <= target[t]

Walk(t) ==
  /\ pc[t] = "walk"
  /\ GoesOn(t)
  /\ cursor' = [cursor EXCEPT ![t] = next[@]]
  /\ UNCHANGED <<list, mutex, pc, too_big, target, held>>

\* Mutant: the mutex is kept when the block is linked in last.
InsertKeepingMutex(t) ==
  /\ pc[t] = "walk"
  /\ ~GoesOn(t)
  /\ next' = [next EXCEPT ![target[t]] = next[cursor[t]],
                          ![cursor[t]] = target[t]]
  /\ Goto(t, "walk", "idle")
  /\ target' = [target EXCEPT ![t] = NULL]
  /\ cursor' = [cursor EXCEPT ![t] = NULL]
  /\ UNCHANGED <<pool, start, mutex, too_big, held>>

\* The cursor is the last free block at or below the one to free. When it is
\* that block itself, the call returns and does not unlock the mutex.
Insert(t) ==
  /\ pc[t] = "walk"
  /\ ~GoesOn(t)
  /\ IF cursor[t] = target[t]
     THEN /\ Goto(t, "walk", "idle")
          /\ target' = [target EXCEPT ![t] = NULL]
          /\ cursor' = [cursor EXCEPT ![t] = NULL]
          /\ UNCHANGED <<next, mutex, too_big>>
     ELSE /\ next' = [next EXCEPT ![target[t]] = next[cursor[t]],
                                  ![cursor[t]] = target[t]]
          /\ Return(t, "walk")
  /\ UNCHANGED <<pool, start, held>>

---------------------------------------------------------------------------
my_malloc(t) == MallocLock(t) \/ MallocFails(t) \/ Take(t)

my_free(t) == FreeLock(t) \/ Push(t) \/ BeginWalk(t) \/ Walk(t) \/ Insert(t)

Next ==
  \/ MapPool \/ UnmapPool
  \/ \E t \in Threads : MallocCall(t) \/ FreeCall(t) \/ my_malloc(t) \/ my_free(t)

\* A thread inside a call keeps running and is not locked out for ever.
Fairness ==
  \A t \in Threads :
    /\ WF_vars(MallocFails(t) \/ Take(t) \/ Push(t) \/ BeginWalk(t) \/ Walk(t)
               \/ Insert(t))
    /\ SF_vars(MallocLock(t) \/ FreeLock(t))

SafeSpec == Init /\ [][Next]_vars

Spec == SafeSpec /\ Fairness

\* A thread frees a block that is free: the block of the list's head.
DoubleFreeCall(t) ==
  /\ start # NULL
  /\ Goto(t, "idle", "f_lock")
  /\ target' = [target EXCEPT ![t] = start]
  /\ UNCHANGED <<list, mutex, too_big, cursor, held>>

DoubleFreeSpec == Init /\ [][Next \/ \E t \in Threads : DoubleFreeCall(t)]_vars

---------------------------------------------------------------------------
Points == {"idle", "m_lock", "malloc", "f_lock", "free", "walk"}

\* The types; no header points outside the pool.
TypeOK ==
  /\ pool \in BOOLEAN
  /\ start \in Blocks \cup {NULL}
  /\ next \in [Blocks -> Blocks \cup {NULL}]
  /\ mutex \in Threads \cup {None}
  /\ pc \in [Threads -> Points]
  /\ too_big \in [Threads -> BOOLEAN]
  /\ target \in [Threads -> Blocks \cup {NULL}]
  /\ cursor \in [Threads -> Blocks \cup {NULL}]
  /\ held \in [Threads -> SUBSET Blocks]

\* The mutex is owned by the thread inside an operation, and only by it: a
\* call that has returned has given it back.
MutexReleased ==
  \A t \in Threads : mutex = t <=> pc[t] \in {"malloc", "free", "walk"}

\* No block is owned twice: not by two threads, not by a thread while another
\* one is still giving it back, and not by the one that is doing so.
OwnedOnce ==
  /\ \A t, u \in Threads, b \in Blocks : Uses(t, b) /\ Uses(u, b) => t = u
  /\ \A t \in Threads : Freeing(t) => target[t] \in Blocks \ held[t]
  /\ \A t \in Threads : ~Uses(t, 0)
  /\ ~pool => InUse = {}

\* The blocks that should be in the list.
Listed == IF pool THEN Blocks \ ({0} \cup InUse) ELSE {}

\* b is what should follow a: the next listed block up, or the end.
Follows(b, a) ==
  \/ b = NULL /\ \A c \in Listed : c <= a
  \/ b \in Listed /\ a < b /\ \A c \in Listed : c <= a \/ b <= c

\* The list is exact: it starts at the lowest block that nobody uses, each of
\* these leads to the next higher one, and the highest ends the list. So no
\* block is lost or listed twice, the list has no cycle, and it never leads to
\* a block in use, however allocations and frees interleave.
ListExact ==
  /\ Follows(start, NULL)
  /\ \A b \in Listed : Follows(next[b], b)

\* The walk stays on the list and below the block that looks for its place.
WalkOnList ==
  \A t \in Threads :
    pc[t] = "walk" => cursor[t] \in Listed /\ cursor[t] < target[t]

ListInv ==
  /\ TypeOK
  /\ MutexReleased
  /\ OwnedOnce
  /\ ListExact
  /\ WalkOnList

---------------------------------------------------------------------------
\* What t has asked for, seen from outside: its call is pending from its first
\* step on, and over when it returns.
Request(t) ==
  CASE pc[t] = "idle" -> "none"
    [] pc[t] \in {"m_lock", "malloc"} -> IF too_big[t] THEN "too big" ELSE "block"
    [] OTHER -> "return"

Abstract == INSTANCE Allocator WITH
  free <- Listed,
  request <- [t \in Threads |-> Request(t)],
  giving <- [t \in Threads |-> IF Freeing(t) THEN target[t] ELSE NULL]

\* To its callers the code is a pool whose blocks are handed out and taken back
\* in one step each: my_malloc gives the lowest block that nobody uses, it
\* returns NULL only if there is none (or no pool, or the request is too big),
\* and a block can be handed out again as soon as my_free has linked it in.
ImplementsAllocator == Abstract!Spec

\* Every call of my_malloc and my_free returns.
CallsReturn == \A t \in Threads : pc[t] # "idle" ~> pc[t] = "idle"
=============================================================================
