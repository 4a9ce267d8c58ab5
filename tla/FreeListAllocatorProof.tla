----------------------- MODULE FreeListAllocatorProof -----------------------
(***************************************************************************)
(* Proofs about FreeListAllocator, for any set of threads and any number   *)
(* of blocks.                                                              *)
(***************************************************************************)
EXTENDS FreeListAllocator, TLAPS

USE DEF NULL

---------------------------------------------------------------------------
\* A step after which the same threads use the same blocks keeps the set of
\* the blocks that should be listed, and who owns what.
LEMMA UsesStable ==
  ASSUME ListInv, pool' = pool,
         \A t \in Threads : Freeing(t)' => target'[t] \in Blocks \ held'[t],
         \A t \in Threads, b \in Blocks : Uses(t, b)' <=> Uses(t, b)
  PROVE  Listed' = Listed /\ OwnedOnce'
<1>1. 0 \in Blocks
  BY AllocatorAssumption DEF Blocks
<1>2. InUse' = InUse
  BY DEF InUse
<1> QED BY <1>1, <1>2 DEF Listed, ListInv, OwnedOnce

\* The list survives a step that changes neither it nor the set of its blocks.
LEMMA ListExactStable ==
  ASSUME ListExact, UNCHANGED <<start, next>>, Listed' = Listed
  PROVE  ListExact'
  BY DEF ListExact, Follows

LEMMA ListedType == Listed \subseteq Blocks /\ Blocks \subseteq Nat
  BY AllocatorAssumption DEF Listed, Blocks

---------------------------------------------------------------------------
LEMMA InitInv == Init => ListInv
<1> SUFFICES ASSUME Init PROVE ListInv
  OBVIOUS
<1> USE DEF Init
<1>1. TypeOK /\ MutexReleased /\ WalkOnList
  BY AllocatorAssumption
     DEF TypeOK, Blocks, Points, MutexReleased, WalkOnList
<1>2. \A t \in Threads : ~Freeing(t) /\ held[t] = {}
  BY DEF Freeing
<1>3. OwnedOnce
  BY <1>2 DEF OwnedOnce, Uses, InUse
<1>4. ListExact
  BY DEF ListExact, Listed, Follows
<1> QED BY <1>1, <1>3, <1>4 DEF ListInv

LEMMA MapPoolInv ==
  ASSUME ListInv, MapPool
  PROVE  ListInv'
<1> USE AllocatorAssumption DEF MapPool, locals
<1>1. TypeOK'
  BY DEF ListInv, TypeOK, Blocks
<1>2. InUse = {}
  BY DEF ListInv, OwnedOnce
<1>3. \A t \in Threads, b \in Blocks : Uses(t, b)' <=> Uses(t, b)
  BY DEF Uses, Freeing
<1>4. InUse' = {}
  BY <1>2, <1>3 DEF InUse
<1>5. MutexReleased' /\ WalkOnList'
  BY DEF ListInv, MutexReleased, WalkOnList
<1>6. OwnedOnce'
  BY <1>4 DEF ListInv, OwnedOnce, Uses, Freeing
<1>7. Listed' = 1 .. BlockCount - 1
  BY <1>4 DEF Listed, Blocks
<1>8. ListExact'
  BY <1>7 DEF ListExact, Follows, Blocks
<1> QED BY <1>1, <1>5, <1>6, <1>8 DEF ListInv

LEMMA UnmapPoolInv ==
  ASSUME ListInv, UnmapPool
  PROVE  ListInv'
<1> USE DEF UnmapPool, locals
<1>1. TypeOK'
  BY DEF ListInv, TypeOK
<1>2. \A t \in Threads, b \in Blocks : Uses(t, b)' <=> Uses(t, b)
  BY DEF Uses, Freeing
<1>3. InUse' = {}
  BY <1>2 DEF InUse
<1>4. MutexReleased' /\ WalkOnList'
  BY AllocatorAssumption DEF ListInv, TypeOK, MutexReleased, WalkOnList
<1>5. OwnedOnce'
  BY <1>3 DEF ListInv, OwnedOnce, Uses, Freeing
<1>6. ListExact'
  BY DEF ListExact, Listed, Follows
<1> QED BY <1>1, <1>4, <1>5, <1>6 DEF ListInv

\* The steps that change neither the list nor who uses which block.
LEMMA QuietInv ==
  ASSUME ListInv, NEW t \in Threads,
         MallocCall(t) \/ MallocLock(t) \/ MallocFails(t) \/ FreeLock(t)
  PROVE  ListInv'
<1> USE DEF MallocCall, MallocLock, MallocFails, FreeLock, Lock, Return, Goto,
            list
<1>1. TypeOK'
  <2>1. CASE MallocCall(t)
    BY <2>1 DEF ListInv, TypeOK, Points
  <2>2. CASE MallocLock(t) \/ FreeLock(t)
    BY <2>2 DEF ListInv, TypeOK, Points, locals
  <2>3. CASE MallocFails(t)
    BY <2>3 DEF ListInv, TypeOK, Points
  <2> QED BY <2>1, <2>2, <2>3
<1>2. MutexReleased'
  BY AllocatorAssumption DEF ListInv, TypeOK, MutexReleased
<1>3. UNCHANGED <<pool, start, next, held>>
  BY DEF locals
<1>4. \A u \in Threads : /\ Freeing(u)' <=> Freeing(u)
                         /\ Freeing(u) => target'[u] = target[u]
  BY DEF ListInv, TypeOK, Freeing, locals
<1>5. Listed' = Listed /\ OwnedOnce'
  BY <1>3, <1>4, UsesStable DEF ListInv, OwnedOnce, Uses
<1>6. ListExact'
  BY <1>3, <1>5, ListExactStable DEF ListInv
<1>7. WalkOnList'
  BY <1>5 DEF ListInv, TypeOK, WalkOnList, locals
<1> QED BY <1>1, <1>2, <1>5, <1>6, <1>7 DEF ListInv

LEMMA FreeCallInv ==
  ASSUME ListInv, NEW t \in Threads, FreeCall(t)
  PROVE  ListInv'
<1> USE DEF FreeCall, Goto, list
<1>1. PICK b \in held[t] : /\ target' = [target EXCEPT ![t] = b]
                           /\ held' = [held EXCEPT ![t] = @ \ {b}]
  OBVIOUS
<1>2. b \in Blocks
  BY DEF ListInv, TypeOK
<1>3. TypeOK'
  BY <1>1, <1>2 DEF ListInv, TypeOK, Points
<1>4. MutexReleased'
  BY DEF ListInv, TypeOK, MutexReleased
<1>5. /\ ~Freeing(t) /\ Freeing(t)' /\ target'[t] = b
      /\ held'[t] = held[t] \ {b}
      /\ \A u \in Threads : u # t =>
           /\ Freeing(u)' <=> Freeing(u)
           /\ target'[u] = target[u] /\ held'[u] = held[u]
  BY <1>1 DEF ListInv, TypeOK, Freeing
<1>6. \A u \in Threads, c \in Blocks : Uses(u, c)' <=> Uses(u, c)
  BY <1>5 DEF Uses
<1>7. \A u \in Threads : Freeing(u)' => target'[u] \in Blocks \ held'[u]
  BY <1>2, <1>5 DEF ListInv, OwnedOnce
<1>8. Listed' = Listed /\ OwnedOnce'
  BY <1>6, <1>7, UsesStable
<1>9. ListExact'
  BY <1>8, ListExactStable DEF ListInv
<1>10. WalkOnList'
  BY <1>5, <1>8 DEF ListInv, TypeOK, WalkOnList, Freeing
<1> QED BY <1>3, <1>4, <1>8, <1>9, <1>10 DEF ListInv

\* The block that is taken is on the list before, and on none after.
LEMMA TakenOut ==
  ASSUME ListInv, NEW t \in Threads, Take(t)
  PROVE  /\ start \in Listed /\ start \in Blocks /\ start \in Nat /\ start # 0
         /\ \A u \in Threads : ~Uses(u, start)
         /\ \A u \in Threads, c \in Blocks :
              Uses(u, c)' <=> Uses(u, c) \/ (u = t /\ c = start)
         /\ Listed' = Listed \ {start}
<1> USE DEF Take, Return, Goto
<1>1. start \in Listed /\ start \in Blocks /\ start \in Nat /\ start # 0
  BY ListedType DEF ListInv, ListExact, Follows, Listed
<1>2. \A u \in Threads : ~Uses(u, start)
  BY <1>1 DEF Listed, InUse
<1>3. /\ ~Freeing(t) /\ ~Freeing(t)'
      /\ held'[t] = held[t] \cup {start}
      /\ \A u \in Threads : u # t =>
           /\ Freeing(u)' <=> Freeing(u)
           /\ target'[u] = target[u] /\ held'[u] = held[u]
  BY DEF ListInv, TypeOK, Freeing
<1>4. \A u \in Threads, c \in Blocks :
        Uses(u, c)' <=> Uses(u, c) \/ (u = t /\ c = start)
  BY <1>3 DEF Uses
<1>5. InUse' = InUse \cup {start}
  BY <1>1, <1>4 DEF InUse
<1>6. Listed' = Listed \ {start}
  BY <1>5 DEF Listed
<1> QED BY <1>1, <1>2, <1>4, <1>6

LEMMA TakeInv ==
  ASSUME ListInv, NEW t \in Threads, Take(t)
  PROVE  ListInv'
<1>1. start \in Listed /\ start \in Blocks /\ start \in Nat /\ start # 0
  BY TakenOut
<1>2. \A u \in Threads : ~Uses(u, start)
  BY TakenOut
<1>3. \A u \in Threads, c \in Blocks :
        Uses(u, c)' <=> Uses(u, c) \/ (u = t /\ c = start)
  BY TakenOut
<1>4. Listed' = Listed \ {start}
  BY TakenOut
<1> USE DEF Take, Return, Goto
<1>5. TypeOK'
  BY <1>1 DEF ListInv, TypeOK, Points
<1>6. MutexReleased'
  BY AllocatorAssumption DEF ListInv, TypeOK, MutexReleased
<1>7. /\ ~Freeing(t) /\ ~Freeing(t)'
      /\ held'[t] = held[t] \cup {start}
      /\ \A u \in Threads : u # t =>
           /\ Freeing(u)' <=> Freeing(u)
           /\ target'[u] = target[u] /\ held'[u] = held[u]
  BY DEF ListInv, TypeOK, Freeing
<1>8. OwnedOnce'
  <2>1. 0 \in Blocks
    BY AllocatorAssumption DEF Blocks
  <2>2. \A u \in Threads : ~Uses(u, 0)'
    BY <1>1, <1>3, <2>1 DEF ListInv, OwnedOnce
  <2>3. \A u, v \in Threads, c \in Blocks : Uses(u, c)' /\ Uses(v, c)' => u = v
    BY <1>2, <1>3 DEF ListInv, OwnedOnce
  <2>4. \A u \in Threads : Freeing(u)' => target'[u] \in Blocks \ held'[u]
    BY <1>7 DEF ListInv, OwnedOnce
  <2> QED BY <2>2, <2>3, <2>4 DEF OwnedOnce
<1>9. ListExact'
  <2>1. Follows(start, NULL) /\ Follows(next[start], start)
        /\ \A b \in Listed : Follows(next[b], b)
    BY <1>1 DEF ListInv, ListExact
  <2>2. Follows(start, NULL)'
    <3>1. start' = next[start]
      OBVIOUS
    <3>2. \A b \in Listed : b \in Nat /\ start <= b
      BY <1>1, <2>1, ListedType DEF Follows
    <3>3. CASE next[start] = NULL
      BY <1>1, <1>4, <2>1, <3>1, <3>2, <3>3 DEF Follows
    <3>4. CASE next[start] \in Listed
      <4>1. next[start] \in Nat /\ start < next[start]
            /\ \A c \in Listed : c <= start \/ next[start] <= c
        <5>1. next[start] \in Nat /\ next[start] # NULL
          BY <3>2, <3>4
        <5>2. Follows(next[start], start)
          BY <2>1
        <5> HIDE DEF Take
        <5> QED BY <5>1, <5>2 DEF Follows
      <4>2. \A c \in Listed' : next[start] <= c
        BY <1>1, <1>4, <3>2, <4>1
      <4>3. start' \in Listed' /\ NULL < start' /\ \A c \in Listed' : start' <= c
        BY <1>1, <1>4, <3>1, <3>4, <4>1, <4>2
      <4> QED BY <4>3 DEF Follows
    <3> QED BY <2>1, <3>3, <3>4 DEF Follows
  <2>3. ASSUME NEW b \in Listed' PROVE Follows(next[b], b)'
    <3>1. b \in Listed /\ b \in Nat /\ b # start /\ start < b
      BY <1>1, <1>4, <2>1, ListedType DEF Follows
    <3> QED BY <1>1, <1>4, <2>1, <3>1, ListedType DEF Follows
  <2> QED BY <2>2, <2>3 DEF ListExact
<1>10. WalkOnList'
  BY DEF ListInv, TypeOK, MutexReleased, WalkOnList
<1> QED BY <1>5, <1>6, <1>8, <1>9, <1>10 DEF ListInv

LEMMA WalkInv ==
  ASSUME ListInv, NEW t \in Threads, BeginWalk(t) \/ Walk(t)
  PROVE  ListInv'
<1> USE DEF BeginWalk, Walk, GoesOn, Goto, list
<1>1. UNCHANGED <<pool, start, next, held, target, mutex, too_big>>
  OBVIOUS
<1>2. pc[t] \in {"free", "walk"} /\ pc' = [pc EXCEPT ![t] = "walk"]
  BY DEF ListInv, TypeOK
<1>3. cursor' = [cursor EXCEPT ![t] = cursor'[t]]
  BY DEF ListInv, TypeOK
<1>4. \A u \in Threads : Freeing(u)' <=> Freeing(u)
  BY <1>2 DEF ListInv, TypeOK, Freeing
<1>5. Listed' = Listed /\ OwnedOnce'
  BY <1>1, <1>4, UsesStable DEF ListInv, OwnedOnce, Uses
<1>6. target[t] \notin Listed /\ target[t] \in Nat
  BY <1>2, ListedType DEF ListInv, OwnedOnce, Listed, InUse, Uses, Freeing
<1>7. cursor'[t] \in Listed /\ cursor'[t] <= target[t]
  <2>1. CASE BeginWalk(t)
    BY <2>1 DEF ListInv, TypeOK, ListExact, Follows
  <2>2. CASE Walk(t)
    BY <2>2 DEF ListInv, TypeOK, ListExact, Follows, WalkOnList
  <2> QED BY <2>1, <2>2
<1>8. cursor'[t] \in Blocks /\ cursor'[t] < target[t]
  <2>1. cursor'[t] \in Nat /\ cursor'[t] # target[t]
    BY <1>6, <1>7, ListedType
  <2> QED BY <1>6, <1>7, <2>1, ListedType
<1>9. TypeOK'
  BY <1>1, <1>2, <1>3, <1>8 DEF ListInv, TypeOK, Points
<1>10. MutexReleased'
  BY <1>1, <1>2 DEF ListInv, TypeOK, MutexReleased
<1>11. ListExact'
  BY <1>1, <1>5, ListExactStable DEF ListInv
<1>12. WalkOnList'
  BY <1>1, <1>2, <1>3, <1>5, <1>7, <1>8 DEF ListInv, TypeOK, WalkOnList
<1> QED BY <1>5, <1>9, <1>10, <1>11, <1>12 DEF ListInv

\* A block that is linked in becomes listed, and nothing else changes.
LEMMA LinkedIn ==
  ASSUME ListInv, NEW t \in Threads, Freeing(t), pool' = pool,
         pc' = [pc EXCEPT ![t] = "idle"],
         target' = [target EXCEPT ![t] = NULL],
         held' = held
  PROVE  /\ target[t] \in Blocks /\ target[t] # 0
         /\ target[t] \notin Listed
         /\ Listed' = Listed \cup {target[t]}
         /\ OwnedOnce'
<1>1. target[t] \in Blocks \ held[t] /\ Uses(t, target[t])
  BY DEF ListInv, OwnedOnce, Uses
<1>2. target[t] # 0 /\ pool /\ target[t] \in InUse
  BY <1>1 DEF ListInv, OwnedOnce, InUse
<1>3. /\ ~Freeing(t)'
      /\ \A u \in Threads : u # t => /\ Freeing(u)' <=> Freeing(u)
                                     /\ target'[u] = target[u]
  BY DEF ListInv, TypeOK, Freeing
<1>4. \A u \in Threads, c \in Blocks :
        Uses(u, c)' <=> Uses(u, c) /\ c # target[t]
  BY <1>1, <1>3 DEF ListInv, OwnedOnce, Uses
<1>5. InUse' = InUse \ {target[t]}
  BY <1>4 DEF InUse
<1>6. Listed' = Listed \cup {target[t]}
  BY <1>1, <1>2, <1>5 DEF Listed
<1>7. OwnedOnce'
  <2>1. 0 \in Blocks
    BY AllocatorAssumption DEF Blocks
  <2>2. \A u \in Threads : ~Uses(u, 0)'
    BY <1>4, <2>1 DEF ListInv, OwnedOnce
  <2>3. \A u, v \in Threads, c \in Blocks : Uses(u, c)' /\ Uses(v, c)' => u = v
    BY <1>4 DEF ListInv, OwnedOnce
  <2>4. \A u \in Threads : Freeing(u)' => target'[u] \in Blocks \ held'[u]
    BY <1>3 DEF ListInv, OwnedOnce
  <2> QED BY <1>2, <2>2, <2>3, <2>4 DEF OwnedOnce
<1> QED BY <1>1, <1>2, <1>6, <1>7 DEF Listed

LEMMA PushInv ==
  ASSUME ListInv, NEW t \in Threads, Push(t)
  PROVE  ListInv'
<1> USE DEF Push, Return, Goto
<1>1. PICK b \in Blocks : b = target[t] /\ b # 0 /\ b \notin Listed
                            /\ Listed' = Listed \cup {b} /\ OwnedOnce'
  BY LinkedIn DEF Freeing
<1>2. TypeOK'
  BY <1>1 DEF ListInv, TypeOK, Points
<1>3. MutexReleased'
  BY AllocatorAssumption DEF ListInv, TypeOK, MutexReleased
<1>4. start' = b /\ next' = [next EXCEPT ![b] = start]
  BY <1>1
<1>5. Follows(start, NULL) /\ \A d \in Listed : Follows(next[d], d)
  BY DEF ListInv, ListExact
<1>6. ASSUME NEW c \in Listed PROVE b < c
  <2>1. b \in Nat /\ c \in Nat
    BY ListedType
  <2>2. start \in Listed /\ start <= c
    BY <1>5, <2>1 DEF Follows
  <2>3. start \in Nat /\ b < start
    BY <1>1, <2>2, ListedType
  <2> QED BY <2>1, <2>2, <2>3
<1>7. Follows(start, NULL)'
  BY <1>1, <1>4, <1>6, ListedType DEF Follows
<1>8. ASSUME NEW d \in Listed' PROVE Follows(next[d], d)'
  <2>1. CASE d = b
    <3>1. next'[d] = start
      BY <1>4, <2>1 DEF ListInv, TypeOK
    <3> QED BY <1>1, <1>5, <1>6, <2>1, <3>1, ListedType DEF Follows
  <2>2. CASE d # b
    <3>1. d \in Listed /\ next'[d] = next[d]
      BY <1>1, <1>4, <2>2, ListedType DEF ListInv, TypeOK
    <3> QED BY <1>1, <1>5, <1>6, <3>1, ListedType DEF Follows
  <2> QED BY <2>1, <2>2
<1>9. ListExact'
  BY <1>7, <1>8 DEF ListExact
<1>10. WalkOnList'
  BY DEF ListInv, TypeOK, MutexReleased, WalkOnList
<1> QED BY <1>1, <1>2, <1>3, <1>9, <1>10 DEF ListInv

LEMMA InsertInv ==
  ASSUME ListInv, NEW t \in Threads, Insert(t)
  PROVE  ListInv'
<1>1. PICK c \in Listed : c = cursor[t] /\ c < target[t]
  BY DEF Insert, ListInv, WalkOnList
<1>2. pc[t] = "walk" /\ Freeing(t) /\ ~GoesOn(t)
  BY DEF Insert, Freeing
<1>3. target[t] \in Nat
  BY <1>2, ListedType DEF ListInv, OwnedOnce
<1>4. /\ Return(t, "walk")
      /\ next' = [next EXCEPT ![target[t]] = next[c], ![c] = target[t]]
      /\ UNCHANGED <<pool, start, held>>
  BY <1>1, <1>3, ListedType DEF Insert
<1> USE DEF Return, Goto
<1>5. PICK b \in Blocks : b = target[t] /\ b # 0 /\ b \notin Listed
                            /\ Listed' = Listed \cup {b} /\ OwnedOnce'
  BY <1>2, <1>4, LinkedIn
<1>6. TypeOK'
  BY <1>1, <1>4, <1>5, ListedType DEF ListInv, TypeOK, Points
<1>7. MutexReleased'
  BY <1>2, <1>4, AllocatorAssumption DEF ListInv, TypeOK, MutexReleased
<1>8. WalkOnList'
  BY <1>2, <1>4 DEF ListInv, TypeOK, MutexReleased, WalkOnList
<1>9. Follows(start, NULL) /\ \A d \in Listed : Follows(next[d], d)
  BY DEF ListInv, ListExact
<1>10. b \in Nat /\ c \in Nat /\ c < b
  BY <1>1, <1>5, ListedType
<1>11. next[c] = NULL \/ next[c] > b
  BY <1>1, <1>2, <1>5, <1>10 DEF GoesOn, ListInv, TypeOK, Blocks
<1>12. \A d \in Listed : d <= c \/ d > b
  <2> SUFFICES ASSUME NEW d \in Listed, ~(d <= c) PROVE d > b
    OBVIOUS
  <2>1. next[c] \in Listed /\ next[c] <= d
    BY <1>9 DEF Follows
  <2>2. d \in Nat /\ next[c] \in Nat
    BY <2>1, ListedType
  <2> QED BY <1>10, <1>11, <2>1, <2>2
<1>13. /\ next'[b] = next[c] /\ next'[c] = b
       /\ \A d \in Listed : d # c => next'[d] = next[d]
  BY <1>1, <1>4, <1>5, <1>10, ListedType DEF ListInv, TypeOK
<1>14. Follows(start, NULL)'
  BY <1>4, <1>5, <1>9, <1>10, ListedType DEF Follows
<1>15. ASSUME NEW d \in Listed' PROVE Follows(next[d], d)'
  <2>1. CASE d = b
    BY <1>5, <1>9, <1>10, <1>11, <1>12, <1>13, <2>1, ListedType DEF Follows
  <2>2. CASE d = c
    BY <1>5, <1>10, <1>12, <1>13, <2>2, ListedType DEF Follows
  <2>3. CASE d # b /\ d # c
    <3>1. d \in Listed /\ d \in Nat /\ next'[d] = next[d] /\ Follows(next[d], d)
      BY <1>5, <1>9, <1>13, <2>3, ListedType
    <3>2. CASE d > b
      BY <1>5, <1>10, <3>1, <3>2, ListedType DEF Follows
    <3>3. CASE d < c
      <4>1. next[d] \in Listed /\ d < next[d] /\ next[d] <= c
            /\ \A e \in Listed : e <= d \/ next[d] <= e
        BY <1>10, <3>1, <3>3, ListedType DEF Follows
      <4>2. next[d] \in Nat
        BY <4>1, ListedType
      <4> QED BY <1>5, <1>10, <3>1, <4>1, <4>2, ListedType DEF Follows
    <3> QED BY <1>10, <1>12, <2>3, <3>1, <3>2, <3>3
  <2> QED BY <2>1, <2>2, <2>3
<1>16. ListExact'
  BY <1>14, <1>15 DEF ListExact
<1> QED BY <1>5, <1>6, <1>7, <1>8, <1>16 DEF ListInv

LEMMA NextInv == ListInv /\ [Next]_vars => ListInv'
<1> SUFFICES ASSUME ListInv, [Next]_vars PROVE ListInv'
  OBVIOUS
<1>1. CASE MapPool \/ UnmapPool
  BY <1>1, MapPoolInv, UnmapPoolInv
<1>2. ASSUME NEW t \in Threads,
             MallocCall(t) \/ FreeCall(t) \/ my_malloc(t) \/ my_free(t)
      PROVE  ListInv'
  BY <1>2, QuietInv, FreeCallInv, TakeInv, WalkInv, PushInv, InsertInv
     DEF my_malloc, my_free
<1>3. CASE UNCHANGED vars
  <2> USE <1>3 DEF vars
  <2>1. TypeOK' /\ MutexReleased'
    BY DEF ListInv, TypeOK, MutexReleased
  <2>2. Listed' = Listed /\ OwnedOnce'
    BY UsesStable DEF ListInv, OwnedOnce, Uses, Freeing
  <2>3. ListExact'
    BY <2>2, ListExactStable DEF ListInv
  <2>4. WalkOnList'
    BY <2>2 DEF ListInv, WalkOnList
  <2> QED BY <2>1, <2>2, <2>3, <2>4 DEF ListInv
<1> QED BY <1>1, <1>2, <1>3 DEF Next

\* The free list is exact, and every block is owned at most once, in every
\* state.
THEOREM Invariance == SafeSpec => []ListInv
  BY InitInv, NextInv, PTL DEF SafeSpec

\* No block is handed to two threads, however calls interleave.
THEOREM NoDoubleAllocation == SafeSpec => []OwnedOnce
<1>1. ListInv => OwnedOnce
  BY DEF ListInv
<1> QED BY <1>1, Invariance, PTL

---------------------------------------------------------------------------
\* The abstract allocator, through the mapping of FreeListAllocator.

LEMMA RefineInit == Init => Abstract!Init
  BY DEF Init, Abstract!Init, Abstract!NULL, Listed, Request, Freeing

Requests == [t \in Threads |-> Request(t)]

Giving == [t \in Threads |-> IF Freeing(t) THEN target[t] ELSE NULL]

\* What is asked for, and what is given back, changes with the caller alone.
LEMMA OneCaller ==
  ASSUME ListInv, NEW t \in Threads, NEW p \in Points,
         pc' = [pc EXCEPT ![t] = p],
         \A u \in Threads : u # t => too_big'[u] = too_big[u] /\ target'[u] = target[u]
  PROVE  /\ Requests' = [Requests EXCEPT ![t] = Request(t)']
         /\ Giving' = [Giving EXCEPT ![t] = IF Freeing(t)' THEN target'[t] ELSE NULL]
<1>1. pc \in [Threads -> Points]
  BY DEF ListInv, TypeOK
<1>2. \A u \in Threads : u # t => pc'[u] = pc[u]
  BY <1>1
<1>3. \A u \in Threads : u # t => Request(u)' = Request(u)
  BY <1>2 DEF Request
<1>4. \A u \in Threads : u # t => (Freeing(u)' <=> Freeing(u))
  BY <1>2 DEF Freeing
<1> QED BY <1>3, <1>4 DEF Requests, Giving

LEMMA MapPoolRefines ==
  ASSUME ListInv, MapPool
  PROVE  Abstract!MapPool
<1>1. \A t \in Threads, b \in Blocks : ~Uses(t, b)'
  BY DEF MapPool, locals, ListInv, OwnedOnce, InUse, Uses, Freeing
<1>2. Listed' = Abstract!Usable
  BY <1>1, AllocatorAssumption DEF MapPool, Listed, InUse, Blocks, Abstract!Usable
<1> QED BY <1>2 DEF MapPool, locals, Request, Freeing, Abstract!MapPool

LEMMA UnmapPoolRefines ==
  ASSUME ListInv, UnmapPool
  PROVE  Abstract!UnmapPool
<1>1. Listed = Abstract!Usable
  BY AllocatorAssumption DEF UnmapPool, Listed, Blocks, Abstract!Usable
<1>2. Listed' = {}
  BY DEF UnmapPool, Listed
<1> QED BY <1>1, <1>2 DEF UnmapPool, locals, Request, Freeing, Abstract!UnmapPool

LEMMA SameFree ==
  ASSUME pool' = pool, \A t \in Threads, b \in Blocks : Uses(t, b)' <=> Uses(t, b)
  PROVE  Listed' = Listed
  BY DEF Listed, InUse

\* A step that changes neither what is asked for nor who uses what is not seen.
LEMMA Unseen ==
  ASSUME Listed' = Listed, Requests' = Requests, Giving' = Giving,
         pool' = pool, held' = held
  PROVE  UNCHANGED Abstract!vars
  BY DEF Abstract!vars, Requests, Giving

LEMMA AskRefines ==
  ASSUME ListInv, NEW t \in Threads, MallocCall(t)
  PROVE  Abstract!Ask(t)
<1> USE DEF MallocCall, Goto, list
<1>1. pc \in [Threads -> Points] /\ too_big \in [Threads -> BOOLEAN]
  BY DEF ListInv, TypeOK
<1>2. PICK big \in BOOLEAN : too_big' = [too_big EXCEPT ![t] = big]
  OBVIOUS
<1>3. /\ Requests' = [Requests EXCEPT ![t] = Request(t)']
      /\ Giving' = [Giving EXCEPT ![t] = IF Freeing(t)' THEN target'[t] ELSE NULL]
  BY <1>1, <1>2, OneCaller DEF Points
<1>4. Request(t) = "none" /\ Request(t)' \in {"block", "too big"}
  BY <1>1, <1>2 DEF Request
<1>5. ~Freeing(t) /\ ~Freeing(t)'
  BY <1>1 DEF Freeing
<1>6. Giving' = Giving
  BY <1>3, <1>5 DEF Giving
<1>7. Listed' = Listed
  <2>1. \A u \in Threads : (Freeing(u)' <=> Freeing(u))
    BY <1>1 DEF Freeing
  <2> QED BY <2>1, SameFree DEF Uses
<1>8. Requests[t] = "none"
  BY <1>4 DEF Requests
<1> HIDE DEF MallocCall
<1>9. pool' = pool /\ held' = held
  BY DEF MallocCall
<1> QED BY <1>3, <1>4, <1>6, <1>7, <1>8, <1>9 DEF Abstract!Ask, Requests, Giving

LEMMA RefuseRefines ==
  ASSUME ListInv, NEW t \in Threads, MallocFails(t)
  PROVE  Abstract!Refuse(t)
<1> USE DEF MallocFails, Return, Goto, list
<1>1. /\ pc \in [Threads -> Points] /\ too_big \in [Threads -> BOOLEAN]
      /\ target \in [Threads -> Blocks \cup {NULL}]
  BY DEF ListInv, TypeOK
<1>2. /\ Requests' = [Requests EXCEPT ![t] = Request(t)']
      /\ Giving' = [Giving EXCEPT ![t] = IF Freeing(t)' THEN target'[t] ELSE NULL]
  BY <1>1, OneCaller DEF Points
<1>3. /\ Request(t) = (IF too_big[t] THEN "too big" ELSE "block")
      /\ Request(t)' = "none"
  BY <1>1 DEF Request
<1>4. ~Freeing(t) /\ ~Freeing(t)'
  BY <1>1 DEF Freeing
<1>5. Giving' = Giving
  BY <1>2, <1>4 DEF Giving
<1>6. Listed' = Listed
  <2>1. \A u \in Threads : /\ Freeing(u)' <=> Freeing(u)
                           /\ Freeing(u) => target'[u] = target[u]
    BY <1>1 DEF Freeing
  <2> QED BY <2>1, SameFree DEF Uses
\* The list is empty only when nothing should be on it.
<1>7. ~too_big[t] => Listed = {}
  <2>1. CASE ~pool
    BY <2>1 DEF Listed
  <2>2. CASE start = NULL
    <3>1. \A c \in Listed : c <= NULL
      BY <2>2, ListedType DEF ListInv, ListExact, Follows
    <3> QED BY <3>1, ListedType
  <2> QED BY <2>1, <2>2
<1>8. Requests[t] = Request(t)
  BY DEF Requests
<1>9. pool' = pool /\ held' = held
  OBVIOUS
<1> HIDE DEF MallocFails
<1> QED BY <1>2, <1>3, <1>5, <1>6, <1>7, <1>8, <1>9 DEF Abstract!Refuse, Requests, Giving

LEMMA GrantRefines ==
  ASSUME ListInv, NEW t \in Threads, Take(t)
  PROVE  Abstract!Grant(t)
<1>1. start \in Listed /\ Listed' = Listed \ {start}
  BY TakenOut
<1>2. \A c \in Listed : start <= c
  BY <1>1, ListedType DEF ListInv, ListExact, Follows
<1> USE DEF Take, Return, Goto
<1>3. /\ pc \in [Threads -> Points] /\ too_big \in [Threads -> BOOLEAN]
      /\ target \in [Threads -> Blocks \cup {NULL}]
  BY DEF ListInv, TypeOK
<1>4. /\ Requests' = [Requests EXCEPT ![t] = Request(t)']
      /\ Giving' = [Giving EXCEPT ![t] = IF Freeing(t)' THEN target'[t] ELSE NULL]
  BY <1>3, OneCaller DEF Points
<1>5. Request(t) = "block" /\ Request(t)' = "none"
  BY <1>3 DEF Request
<1>6. ~Freeing(t) /\ ~Freeing(t)'
  BY <1>3 DEF Freeing
<1>7. Giving' = Giving
  BY <1>4, <1>6 DEF Giving
<1>8. Requests[t] = "block"
  BY <1>5 DEF Requests
<1>9. pool' = pool /\ held' = [held EXCEPT ![t] = @ \cup {start}]
  OBVIOUS
<1> HIDE DEF Take
<1> QED BY <1>1, <1>2, <1>4, <1>5, <1>7, <1>8, <1>9 DEF Abstract!Grant, Requests, Giving

LEMMA GiveBackRefines ==
  ASSUME ListInv, NEW t \in Threads, FreeCall(t)
  PROVE  Abstract!GiveBack(t)
<1> USE DEF FreeCall, Goto, list
<1>1. /\ pc \in [Threads -> Points] /\ target \in [Threads -> Blocks \cup {NULL}]
      /\ held \in [Threads -> SUBSET Blocks]
  BY DEF ListInv, TypeOK
<1>2. PICK b \in held[t] : /\ target' = [target EXCEPT ![t] = b]
                           /\ held' = [held EXCEPT ![t] = @ \ {b}]
  OBVIOUS
<1>3. /\ Requests' = [Requests EXCEPT ![t] = Request(t)']
      /\ Giving' = [Giving EXCEPT ![t] = IF Freeing(t)' THEN target'[t] ELSE NULL]
  BY <1>1, <1>2, OneCaller DEF Points
<1>4. Request(t) = "none" /\ Request(t)' = "return"
  BY <1>1 DEF Request
<1>5. ~Freeing(t) /\ Freeing(t)' /\ target'[t] = b
  BY <1>1, <1>2 DEF Freeing
<1>6. Listed' = Listed
  <2>1. \A u \in Threads : u # t => /\ Freeing(u)' <=> Freeing(u)
                                    /\ target'[u] = target[u]
                                    /\ held'[u] = held[u]
    BY <1>1, <1>2 DEF Freeing
  <2>2. held'[t] = held[t] \ {b}
    BY <1>1, <1>2
  <2>3. \A u \in Threads, c \in Blocks : Uses(u, c)' <=> Uses(u, c)
    BY <1>2, <1>5, <2>1, <2>2 DEF Uses
  <2> QED BY <2>3, SameFree
<1>7. Requests[t] = "none"
  BY <1>4 DEF Requests
<1>8. pool' = pool
  OBVIOUS
<1> HIDE DEF FreeCall
<1> QED BY <1>2, <1>3, <1>4, <1>5, <1>6, <1>7, <1>8
        DEF Abstract!GiveBack, Requests, Giving

\* The block is linked in and the call returns in the same step.
LEMMA ReleaseRefines ==
  ASSUME ListInv, NEW t \in Threads, Push(t) \/ Insert(t)
  PROVE  Abstract!Release(t)
<1>1. /\ Return(t, pc[t]) /\ pc[t] \in {"free", "walk"}
      /\ pool' = pool /\ held' = held
  <2>1. CASE Push(t)
    BY <2>1 DEF Push, Return, Goto
  <2>2. CASE Insert(t)
    <3>1. cursor[t] # target[t]
      <4>1. cursor[t] \in Listed /\ cursor[t] < target[t] /\ Freeing(t)
        BY <2>2 DEF Insert, Freeing, ListInv, WalkOnList
      <4>2. cursor[t] \in Nat /\ target[t] \in Nat
        BY <4>1, ListedType DEF ListInv, OwnedOnce
      <4> QED BY <4>1, <4>2
    <3> QED BY <2>2, <3>1 DEF Insert, Return, Goto
  <2> QED BY <2>1, <2>2
<1> USE DEF Return, Goto
<1>2. /\ pc \in [Threads -> Points] /\ too_big \in [Threads -> BOOLEAN]
      /\ target \in [Threads -> Blocks \cup {NULL}]
  BY DEF ListInv, TypeOK
<1>3. /\ pc' = [pc EXCEPT ![t] = "idle"] /\ target' = [target EXCEPT ![t] = NULL]
      /\ too_big' = [too_big EXCEPT ![t] = FALSE]
  BY <1>1
<1>4. Freeing(t) /\ ~Freeing(t)'
  BY <1>1, <1>2, <1>3 DEF Freeing
<1>5. Listed' = Listed \cup {target[t]}
  BY <1>1, <1>3, <1>4, LinkedIn
<1>6. /\ Requests' = [Requests EXCEPT ![t] = Request(t)']
      /\ Giving' = [Giving EXCEPT ![t] = IF Freeing(t)' THEN target'[t] ELSE NULL]
  BY <1>2, <1>3, OneCaller DEF Points
<1>7. Request(t) = "return" /\ Request(t)' = "none"
  BY <1>1, <1>2, <1>3 DEF Request
<1>8. Requests[t] = "return" /\ Giving[t] = target[t]
  BY <1>4, <1>7 DEF Requests, Giving
<1> QED BY <1>1, <1>4, <1>5, <1>6, <1>7, <1>8
        DEF Abstract!Release, Abstract!NULL, Requests, Giving

\* Taking the mutex and walking along the list.
LEMMA InsideRefines ==
  ASSUME ListInv, NEW t \in Threads,
         MallocLock(t) \/ FreeLock(t) \/ BeginWalk(t) \/ Walk(t)
  PROVE  UNCHANGED Abstract!vars
<1> USE DEF MallocLock, FreeLock, BeginWalk, Walk, Lock, Goto, list, locals
<1>1. pc \in [Threads -> Points]
  BY DEF ListInv, TypeOK
<1>2. UNCHANGED <<pool, held, target, too_big>>
  OBVIOUS
<1>3. /\ \A u \in Threads : u # t => pc'[u] = pc[u]
      /\ \/ pc[t] = "m_lock" /\ pc'[t] = "malloc"
         \/ pc[t] \in {"f_lock", "free", "walk"} /\ pc'[t] \in {"free", "walk"}
  BY <1>1
<1> HIDE DEF MallocLock, FreeLock, BeginWalk, Walk
<1>4. \A u \in Threads : (Freeing(u)' <=> Freeing(u)) /\ Request(u)' = Request(u)
  BY <1>2, <1>3 DEF Freeing, Request
<1>5. Listed' = Listed
  BY <1>2, <1>4, SameFree DEF Uses
<1> QED BY <1>2, <1>4, <1>5, Unseen DEF Requests, Giving

LEMMA RefineNext ==
  ASSUME ListInv, [Next]_vars
  PROVE  [Abstract!Next]_(Abstract!vars)
<1>1. CASE MapPool \/ UnmapPool
  BY <1>1, MapPoolRefines, UnmapPoolRefines DEF Abstract!Next
<1>2. ASSUME NEW t \in Threads,
             MallocCall(t) \/ FreeCall(t) \/ my_malloc(t) \/ my_free(t)
      PROVE  [Abstract!Next]_(Abstract!vars)
  <2>1. CASE MallocCall(t)
    BY <2>1, AskRefines DEF Abstract!Next
  <2>2. CASE FreeCall(t)
    BY <2>2, GiveBackRefines DEF Abstract!Next
  <2>3. CASE MallocFails(t)
    BY <2>3, RefuseRefines DEF Abstract!Next
  <2>4. CASE Take(t)
    BY <2>4, GrantRefines DEF Abstract!Next
  <2>5. CASE Push(t) \/ Insert(t)
    BY <2>5, ReleaseRefines DEF Abstract!Next
  <2>6. CASE MallocLock(t) \/ FreeLock(t) \/ BeginWalk(t) \/ Walk(t)
    BY <2>6, InsideRefines
  <2> QED BY <1>2, <2>1, <2>2, <2>3, <2>4, <2>5, <2>6 DEF my_malloc, my_free
<1>3. CASE UNCHANGED vars
  <2>1. Listed' = Listed
    BY <1>3, SameFree DEF vars, Uses, Freeing
  <2>2. Requests' = Requests /\ Giving' = Giving
    BY <1>3 DEF vars, Requests, Giving, Request, Freeing
  <2> QED BY <1>3, <2>1, <2>2, Unseen DEF vars
<1> QED BY <1>1, <1>2, <1>3 DEF Next

\* To its callers the code is the abstract pool, whatever the number of threads
\* and blocks: every call takes effect in one step, my_malloc gives the lowest
\* free block and fails only when there is none, and nothing is free or in use
\* that should not be.
THEOREM Refinement == SafeSpec => ImplementsAllocator
<1>1. ListInv /\ [Next]_vars => [Abstract!Next]_(Abstract!vars)
  BY RefineNext
<1> QED BY <1>1, RefineInit, Invariance, PTL
        DEF SafeSpec, ImplementsAllocator, Abstract!Spec
=============================================================================
