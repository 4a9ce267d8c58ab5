----------------------------- MODULE Allocator -----------------------------
(***************************************************************************)
(* What a pool of equal blocks promises to the threads that share it. A    *)
(* call is answered in one step: the lowest free block becomes the         *)
(* caller's, or there is none and the caller gets nothing; a block that    *)
(* was given back is free again. The pool can be unmapped when every       *)
(* block of it is free. There is no mutex here, no list and no order of    *)
(* steps: FreeListAllocator is shown to implement it.                      *)
(***************************************************************************)
EXTENDS Integers

CONSTANTS
  Threads,
  BlockCount        \* blocks that fit into the pool

VARIABLES
  pool,             \* whether the pool is mapped
  free,             \* the blocks that can be handed out
  request,          \* what each thread has asked for: see Requests
  giving,           \* the block it is giving back
  held              \* the blocks it was handed

vars == <<pool, free, request, giving, held>>

NULL == -1

\* The first block of the pool is never handed out.
Usable == 1 .. BlockCount - 1

Requests == {"none", "block", "too big", "return"}

Init ==
  /\ pool = FALSE
  /\ free = {}
  /\ request = [t \in Threads |-> "none"]
  /\ giving = [t \in Threads |-> NULL]
  /\ held = [t \in Threads |-> {}]

MapPool ==
  /\ ~pool
  /\ pool' = TRUE
  /\ free' = Usable
  /\ UNCHANGED <<request, giving, held>>

UnmapPool ==
  /\ pool
  /\ free = Usable
  /\ pool' = FALSE
  /\ free' = {}
  /\ UNCHANGED <<request, giving, held>>

Ask(t) ==
  /\ request[t] = "none"
  /\ \E r \in {"block", "too big"} : request' = [request EXCEPT ![t] = r]
  /\ UNCHANGED <<pool, free, giving, held>>

Grant(t) ==
  /\ request[t] = "block"
  /\ \E b \in free :
       /\ \A c \in free : b <= c
       /\ held' = [held EXCEPT ![t] = @ \cup {b}]
       /\ free' = free \ {b}
  /\ request' = [request EXCEPT ![t] = "none"]
  /\ UNCHANGED <<pool, giving>>

\* Only who asks for too much is refused while a block is free.
Refuse(t) ==
  /\ request[t] = "too big" \/ (request[t] = "block" /\ free = {})
  /\ request' = [request EXCEPT ![t] = "none"]
  /\ UNCHANGED <<pool, free, giving, held>>

GiveBack(t) ==
  /\ request[t] = "none"
  /\ \E b \in held[t] :
       /\ giving' = [giving EXCEPT ![t] = b]
       /\ held' = [held EXCEPT ![t] = @ \ {b}]
  /\ request' = [request EXCEPT ![t] = "return"]
  /\ UNCHANGED <<pool, free>>

Release(t) ==
  /\ request[t] = "return"
  /\ free' = free \cup {giving[t]}
  /\ giving' = [giving EXCEPT ![t] = NULL]
  /\ request' = [request EXCEPT ![t] = "none"]
  /\ UNCHANGED <<pool, held>>

Next ==
  \/ MapPool \/ UnmapPool
  \/ \E t \in Threads : Ask(t) \/ Grant(t) \/ Refuse(t) \/ GiveBack(t) \/ Release(t)

Spec == Init /\ [][Next]_vars
=============================================================================
