----------------------- MODULE BestFitAllocatorProof -----------------------
(***************************************************************************)
(* Proofs about BestFitAllocator, for a pool of any size and any requests: *)
(* until a fault the blocks tile the pool, and when all of them are free   *)
(* they are one block again.                                               *)
(*                                                                         *)
(* The list is a set L of blocks. What the code leaves wrong in the links  *)
(* back is confined by LinksBack and Apart: a prev that is stale points    *)
(* across a block in use, and nothing off the list leads to a block.       *)
(*                                                                         *)
(* And about the script that BestFitTest runs on it, for a kilobyte and a  *)
(* pool of any size: SmallProgramsProof takes them from here.              *)
(***************************************************************************)
EXTENDS BestFitTest, NaturalsInduction, WellFoundedInduction, TLAPS

---------------------------------------------------------------------------
(* The inductive invariant.                                                *)

InUse(a) == ~is_free(a)

\* The blocks of L follow each other from the start of the pool to its end.
Tiling(L) ==
  /\ 0 \in L
  /\ \A a \in L : /\ mem[a] \in Headers
                  /\ size(a) > 0
                  /\ a + size(a) = End(a)
                  /\ next(a) \in L \cup {NULL}
  /\ \A b \in L \ {0} : \E a \in L : next(a) = b
  /\ \A a, b \in L : a < b => a + size(a) <= b

\* A block in use, or the one that is being freed, begins from p on before b.
Separated(L, p, b) ==
  \E u \in L : p <= u /\ u < b /\ (InUse(u) \/ u = target)

\* The prev of a block is the block before it, or a block in use lies between
\* (it is the prev itself after a split). And no header that has been merged
\* away still leads to a block that has it as its prev, so a merge that tests
\* no more than the flag and the link cannot leave the list unnoticed.
LinksBack(L) ==
  /\ prev(0) = NULL
  /\ \A b \in L \ {0} :
       /\ prev(b) \in 0 .. b - 1
       /\ (prev(b) \in L /\ next(prev(b)) = b) \/ Separated(L, prev(b), b)
       /\ (prev(b) \notin L /\ mem[prev(b)] # Data) => next(prev(b)) # b

\* Two free blocks stay side by side only where the link back is stale, or
\* while one of them is being freed.
Apart(L) ==
  \A q, b \in L : (/\ next(q) = b
                   /\ is_free(q) /\ is_free(b)
                   /\ q # target /\ b # target) => prev(b) # q

\* The blocks in use are the callers'.
Owned(L) == allocated = {a \in L : InUse(a)}

\* my_malloc searches on the list.
Searching(L) == pc = "fit" => cursor \in L

\* my_free has added up the free blocks from the target to the cursor.
GoingForward(L) ==
  pc = "forward" =>
    /\ target \in L /\ cursor \in L /\ target <= cursor
    /\ target + merge_size = cursor + size(cursor)
    /\ \A x \in L : target <= x /\ x <= cursor => is_free(x)

NextBlock == IF next_buf = NULL THEN PoolSize ELSE next_buf

\* my_free has added up the free blocks from the cursor to next_buf, which is
\* in use or the end.
GoingBackward(L) ==
  pc = "backward" =>
    /\ target \in L /\ cursor \in L
    /\ next_buf \in L \cup {NULL}
    /\ cursor <= target /\ target < NextBlock
    /\ cursor + merge_size = NextBlock
    /\ \A x \in L : cursor <= x /\ x < NextBlock => is_free(x)
    /\ next_buf # NULL => InUse(next_buf)

Blocks(L) ==
  /\ Tiling(L) /\ LinksBack(L) /\ Apart(L) /\ Owned(L)
  /\ Searching(L) /\ GoingForward(L) /\ GoingBackward(L)

Sound == pool /\ fault = "none" => \E L \in SUBSET Addresses : Blocks(L)

\* After a fault only the merge that has met it goes on, on headers; or the
\* process has ended.
Faulty ==
  fault # "none" =>
    /\ pool /\ pc \in {"idle", "crashed", "backward"}
    /\ pc = "backward" => /\ cursor \in Addresses /\ mem[cursor] # Data
                          /\ next_buf # NULL => mem[next_buf] # Data

\* What holds between the calls.
Resting ==
  /\ pc \in {"idle", "fit"} => target = NULL
  /\ ~pool => pc = "idle" /\ fault = "none" /\ allocated = {}

IInv == TypeOK /\ Sound /\ Faulty /\ Resting

---------------------------------------------------------------------------
(* The list.                                                               *)

\* What a block of the list is, in numbers.
LEMMA BlockShape ==
  ASSUME TypeOK, NEW L \in SUBSET Addresses, Tiling(L), NEW a \in L
  PROVE  /\ a \in Addresses /\ a \in Nat /\ a < PoolSize
         /\ mem[a] \in Headers /\ mem[a] # Data
         /\ size(a) \in Nat /\ size(a) > 0
         /\ is_free(a) \in BOOLEAN
         /\ next(a) # NULL => next(a) \in L /\ next(a) = a + size(a)
         /\ next(a) = NULL => a + size(a) = PoolSize
         /\ a + size(a) <= PoolSize
         /\ prev(a) \in Addresses \cup {NULL}
<1>1. a \in Addresses /\ a \in Nat /\ a < PoolSize
  BY PoolAssumption DEF Addresses
<1>2. mem[a] \in Headers /\ size(a) > 0 /\ a + size(a) = End(a)
        /\ next(a) \in L \cup {NULL}
  BY DEF Tiling
<1>3. mem[a] # Data
  BY <1>2, DataAssumption
<1>4. size(a) \in Nat /\ is_free(a) \in BOOLEAN
        /\ prev(a) \in Addresses \cup {NULL}
  BY <1>2 DEF Headers, size, is_free, prev
<1> QED
  BY <1>1, <1>2, <1>3, <1>4, PoolAssumption DEF End, Addresses, NULL

\* Nothing of the list begins inside a block, or before the next one.
LEMMA NextIsNearest ==
  ASSUME TypeOK, NEW L \in SUBSET Addresses, Tiling(L),
         NEW a \in L, NEW b \in L, a < b
  PROVE  next(a) # NULL /\ next(a) <= b
<1>1. a + size(a) <= b
  BY DEF Tiling
<1> QED BY <1>1, BlockShape

\* A step that leaves the headers, the owners and the target alone leaves the
\* list as it is.
LEMMA SameList ==
  ASSUME NEW L, Tiling(L), LinksBack(L), Apart(L), Owned(L),
         UNCHANGED <<mem, allocated, target>>
  PROVE  (Tiling(L) /\ LinksBack(L) /\ Apart(L) /\ Owned(L))'
  BY DEF Tiling, LinksBack, Apart, Owned, Separated, InUse, is_free, size, next,
         prev, End

---------------------------------------------------------------------------
(* my_allocator_init, my_allocator_destroy, and the search of my_malloc.   *)

\* No block is asked for.
LEMMA NoRequest == 0 \in 0 .. SIZE_MAX
  BY PoolAssumption

LEMMA InitInv == Init => IInv
<1> SUFFICES ASSUME Init PROVE IInv
  OBVIOUS
<1>1. Zero \in Headers
  BY DEF Zero, Headers
<1>2. TypeOK
  BY <1>1, NoRequest DEF Init, TypeOK
<1> QED BY <1>2 DEF Init, IInv, Sound, Faulty, Resting

LEMMA MapPoolInv ==
  ASSUME IInv, MapPool
  PROVE  IInv'
<1> USE DEF MapPool, free_locals
<1> DEFINE whole == [Zero EXCEPT !.is_free = TRUE, !.size = PoolSize]
<1>1. Zero \in Headers /\ whole \in Headers
  BY PoolAssumption DEF Zero, Headers
<1>2. 0 \in Addresses
  BY PoolAssumption DEF Addresses
<1>3. mem'[0] = whole
  BY <1>2
<1>4. TypeOK'
  BY <1>1 DEF IInv, TypeOK
<1>5. whole.is_free = TRUE /\ whole.size = PoolSize /\ whole.next = NULL
        /\ whole.prev = NULL
  BY DEF Zero
<1> HIDE DEF whole
<1> DEFINE L == {0}
<1>6. 0 \in L /\ \A a \in L : a = 0
  OBVIOUS
<1> HIDE DEF L
<1>7. Tiling(L)' /\ LinksBack(L)' /\ Apart(L)'
  <2>1. size(0)' = PoolSize /\ next(0)' = NULL /\ prev(0)' = NULL
          /\ mem'[0] \in Headers
    BY <1>1, <1>3, <1>5 DEF size, next, prev
  <2>2. Tiling(L)'
    BY <1>6, <2>1, PoolAssumption DEF Tiling, End
  <2>3. LinksBack(L)'
    BY <1>6, <2>1 DEF LinksBack
  <2>4. Apart(L)'
    BY <1>6, <2>1 DEF Apart, NULL
  <2> QED BY <2>2, <2>3, <2>4
<1>8. pc' = "idle" /\ fault = "none" /\ allocated' = {} /\ target' = NULL
  BY DEF IInv, Resting
<1>9. Owned(L)'
  BY <1>3, <1>5, <1>6, <1>8 DEF Owned, InUse, is_free
<1>10. Blocks(L)'
  BY <1>7, <1>8, <1>9
     DEF Blocks, Searching, GoingForward, GoingBackward
<1>11. L \in SUBSET Addresses
  BY <1>2, <1>6
<1> QED BY <1>4, <1>8, <1>10, <1>11 DEF IInv, Sound, Faulty, Resting

LEMMA UnmapPoolInv ==
  ASSUME IInv, UnmapPool
  PROVE  IInv'
<1>1. Zero \in Headers
  BY DEF Zero, Headers
<1>2. TypeOK'
  BY <1>1 DEF UnmapPool, IInv, TypeOK, free_locals
<1> QED BY <1>2 DEF UnmapPool, IInv, Sound, Faulty, Resting, free_locals

\* A remainder is smaller than what it is taken by.
LEMMA Remainder ==
  ASSUME NEW a \in Nat, NEW b \in Nat, b > 0
  PROVE  a % b \in 0 .. b - 1
  OBVIOUS

LEMMA MallocCallInv ==
  ASSUME IInv, MallocCall
  PROVE  IInv'
<1> USE DEF MallocCall, Goto, free_locals
<1>1. \A n \in Sizes : BlockSize(n) \in 0 .. SIZE_MAX
  <2> SUFFICES ASSUME NEW n \in Sizes PROVE BlockSize(n) \in 0 .. SIZE_MAX
    OBVIOUS
  <2>1. n + 1 \in Nat /\ SIZE_MAX + 1 \in Nat /\ SIZE_MAX + 1 > 0
    BY PoolAssumption
  <2>2. (n + 1) % (SIZE_MAX + 1) \in 0 .. (SIZE_MAX + 1) - 1
    BY <2>1, Remainder
  <2> QED BY <2>2, PoolAssumption DEF BlockSize, Header
<1>2. TypeOK'
  BY <1>1, PoolAssumption DEF IInv, TypeOK, Addresses
<1>3. PICK L \in SUBSET Addresses : Blocks(L)
  BY DEF IInv, Sound
<1>4. Blocks(L)'
  BY <1>3, SameList
     DEF Blocks, Searching, GoingForward, GoingBackward, Tiling, free_locals
<1> QED BY <1>2, <1>4 DEF IInv, Sound, Faulty, Resting, free_locals

LEMMA TryNextInv ==
  ASSUME IInv, TryNext
  PROVE  IInv'
<1> USE DEF TryNext
<1>1. pool /\ fault = "none"
  BY DEF IInv, Faulty, Resting
<1>2. PICK L \in SUBSET Addresses : Blocks(L)
  BY <1>1 DEF IInv, Sound
<1>3. cursor \in L /\ cursor' \in L
  BY <1>2 DEF Blocks, Searching, Tiling
<1>4. TypeOK'
  BY <1>3 DEF IInv, TypeOK, free_locals
<1>5. Blocks(L)'
  BY <1>2, <1>3, SameList
     DEF Blocks, Searching, GoingForward, GoingBackward, free_locals
<1> QED BY <1>1, <1>4, <1>5 DEF IInv, Sound, Faulty, Resting, free_locals

LEMMA MallocFailsInv ==
  ASSUME IInv, MallocFails
  PROVE  IInv'
<1> USE DEF MallocFails, Return, Goto
<1>1. pool /\ fault = "none" /\ target = NULL
  BY DEF IInv, Faulty, Resting
<1>2. PICK L \in SUBSET Addresses : Blocks(L)
  BY <1>1 DEF IInv, Sound
<1>3. TypeOK'
  BY NoRequest DEF IInv, TypeOK
<1>4. Blocks(L)'
  BY <1>1, <1>2, SameList
     DEF Blocks, Searching, GoingForward, GoingBackward
<1> QED BY <1>1, <1>3, <1>4 DEF IInv, Sound, Faulty, Resting

---------------------------------------------------------------------------
(* Taking a block.                                                         *)

LEMMA TakeWholeInv ==
  ASSUME IInv, TakeWhole
  PROVE  IInv'
<1> USE DEF TakeWhole, Return, Goto
<1>1. pool /\ fault = "none" /\ target = NULL /\ TypeOK
  BY DEF IInv, Faulty, Resting
<1>2. PICK L \in SUBSET Addresses : Blocks(L)
  BY <1>1 DEF IInv, Sound
<1> DEFINE p == cursor
<1>3. p \in L /\ is_free(p)
  BY <1>2 DEF Blocks, Searching, Fits
<1>4. Tiling(L) /\ LinksBack(L) /\ Apart(L) /\ Owned(L)
  BY <1>2 DEF Blocks
<1>5. p \in Addresses /\ p \in Nat /\ size(p) \in Nat /\ size(p) > 0
        /\ mem[p] \in Headers
  BY <1>1, <1>3, <1>4, BlockShape
<1>6. mem'[p] = [mem[p] EXCEPT !.is_free = FALSE]
  BY <1>1, <1>5 DEF HandOut, TypeOK
<1>7. \A x \in Addresses \ {p} : \/ mem'[x] = mem[x]
                                 \/ mem'[x] = Data /\ p < x /\ x < p + size(p)
  <2> SUFFICES ASSUME NEW x \in Addresses \ {p}
               PROVE  \/ mem'[x] = mem[x]
                      \/ mem'[x] = Data /\ p < x /\ x < p + size(p)
    OBVIOUS
  <2>1. x \in Int
    BY DEF Addresses
  <2>2. mem'[x] = IF x \in p + 1 .. p + size(p) - 1 THEN Data ELSE mem[x]
    BY <1>1, <1>5 DEF HandOut, TypeOK
  <2> QED BY <1>5, <2>1, <2>2
<1>8. ASSUME NEW x \in L, x # p PROVE mem'[x] = mem[x]
  <2>1. ~(p < x /\ x < p + size(p))
    <3>1. p < x => p + size(p) <= x
      BY <1>3, <1>4, <1>8 DEF Tiling
    <3>2. x \in Nat
      BY <1>1, <1>4, <1>8, BlockShape
    <3> QED BY <1>5, <3>1, <3>2
  <2> QED BY <1>7, <1>8, <2>1
<1> HIDE DEF p
<1>9. mem'[p] \in Headers /\ mem'[p].is_free = FALSE
        /\ mem'[p].size = mem[p].size /\ mem'[p].next = mem[p].next
        /\ mem'[p].prev = mem[p].prev
  BY <1>5, <1>6 DEF Headers
<1>10. \A x \in L : /\ size(x)' = size(x) /\ next(x)' = next(x)
                    /\ prev(x)' = prev(x) /\ mem'[x] \in Headers
                    /\ is_free(x)' = (is_free(x) /\ x # p)
  <2> SUFFICES ASSUME NEW x \in L
               PROVE  /\ size(x)' = size(x) /\ next(x)' = next(x)
                      /\ prev(x)' = prev(x) /\ mem'[x] \in Headers
                      /\ is_free(x)' = (is_free(x) /\ x # p)
    OBVIOUS
  <2>1. CASE x = p
    BY <1>9, <2>1 DEF size, next, prev, is_free
  <2>2. CASE x # p
    <3>1. mem[x] \in Headers
      BY <1>4 DEF Tiling
    <3>2. is_free(x) \in BOOLEAN
      BY <1>1, <1>4, BlockShape
    <3> QED BY <1>8, <2>2, <3>1, <3>2 DEF size, next, prev, is_free
  <2> QED BY <2>1, <2>2
<1>11. TypeOK'
  <2>1. \A x \in Addresses : mem'[x] \in Headers \cup {Data}
    BY <1>1, <1>7, <1>9 DEF TypeOK
  <2>2. mem' = [x \in Addresses |-> mem'[x]]
    BY DEF HandOut
  <2>3. mem' \in [Addresses -> Headers \cup {Data}]
    BY <2>1, <2>2
  <2>4. allocated' \subseteq Addresses
    BY <1>1, <1>5 DEF TypeOK, p
  <2> QED BY <1>1, <2>3, <2>4, NoRequest DEF TypeOK
<1>12. Tiling(L)'
  <2>1. \A a \in L : End(a)' = End(a)
    BY <1>10 DEF End
  <2>2. \A a \in L : /\ mem'[a] \in Headers
                     /\ size(a)' > 0
                     /\ a + size(a)' = End(a)'
                     /\ next(a)' \in L \cup {NULL}
    BY <1>4, <1>10, <2>1 DEF Tiling
  <2>3. \A b \in L \ {0} : \E a \in L : next(a)' = b
    BY <1>4, <1>10 DEF Tiling
  <2>4. \A a, b \in L : a < b => a + size(a)' <= b
    BY <1>4, <1>10 DEF Tiling
  <2> QED BY <1>4, <2>2, <2>3, <2>4 DEF Tiling
<1>13. target' = NULL
  OBVIOUS
<1>14. \A u \in L : u # NULL
  BY <1>1, <1>4, BlockShape DEF NULL
<1>15. LinksBack(L)'
  <2>1. prev(0)' = NULL
    BY <1>4, <1>10 DEF Tiling, LinksBack
  <2>2. ASSUME NEW b \in L \ {0}
        PROVE  /\ prev(b)' \in 0 .. b - 1
               /\ ((prev(b) \in L /\ next(prev(b)) = b)
                     \/ Separated(L, prev(b), b))'
               /\ (prev(b)' \notin L /\ mem'[prev(b)'] # Data) =>
                    mem'[prev(b)'].next # b
    <3>1. prev(b)' = prev(b) /\ prev(b) \in 0 .. b - 1
      BY <1>4, <1>10 DEF LinksBack
    <3>2. prev(b) \in Addresses
      <4>1. b \in Nat /\ b < PoolSize
        BY <1>1, <1>4, <2>2, BlockShape
      <4> QED BY <3>1, <4>1, PoolAssumption DEF Addresses
    <3>3. CASE prev(b) \in L /\ next(prev(b)) = b
      <4>1. (next(prev(b)))' = b
        BY <1>10, <3>1, <3>3 DEF next
      <4> QED BY <3>1, <3>3, <4>1
    <3>4. CASE Separated(L, prev(b), b)
      <4>1. PICK u \in L : prev(b) <= u /\ u < b /\ InUse(u)
        BY <1>1, <1>14, <3>4 DEF Separated
      <4>2. InUse(u)'
        BY <1>10, <4>1 DEF InUse
      <4>3. Separated(L, prev(b), b)'
        BY <3>1, <4>1, <4>2 DEF Separated
      <4>4. (prev(b) \notin L /\ mem'[prev(b)] # Data) => mem'[prev(b)].next # b
        BY <1>3, <1>4, <1>7, <2>2, <3>2 DEF LinksBack, next
      <4> QED BY <3>1, <4>3, <4>4
    <3> QED BY <1>4, <2>2, <3>3, <3>4 DEF LinksBack
  <2> QED BY <2>1, <2>2 DEF LinksBack, next
<1>16. Apart(L)'
  <2> SUFFICES ASSUME NEW q \in L, NEW b \in L,
                      next(q)' = b, is_free(q)', is_free(b)'
               PROVE  prev(b)' # q
    BY DEF Apart
  <2>1. next(q) = b /\ is_free(q) /\ is_free(b) /\ prev(b)' = prev(b)
    BY <1>10
  <2> QED BY <1>1, <1>4, <1>14, <2>1 DEF Apart
<1>17. Owned(L)'
  BY <1>3, <1>4, <1>10 DEF Owned, InUse, p
<1>18. Blocks(L)'
  BY <1>12, <1>15, <1>16, <1>17
     DEF Blocks, Searching, GoingForward, GoingBackward
<1> QED BY <1>1, <1>11, <1>18 DEF IInv, Sound, Faulty, Resting

\* The addresses strictly between p and p + n.
LEMMA Inside ==
  ASSUME NEW p \in Nat, NEW n \in Nat, NEW x \in Int
  PROVE  x \in p + 1 .. p + n - 1 <=> p < x /\ x < p + n
  OBVIOUS

\* What a split writes: the header of the block that is taken, that of the rest,
\* and the caller's data.
LEMMA SplitWrites ==
  ASSUME TypeOK, NEW p \in Addresses, NEW n \in Nat, n > 0, p = cursor, n = block_size,
         mem[p] \in Headers, size(p) >= n + 1, p + size(p) <= PoolSize,
         mem' = HandOut(SplitAt(p + n, size(p) - n), p, n)
  PROVE  /\ p + n \in Addresses
         /\ mem' \in [Addresses -> Headers \cup {Data}]
         /\ mem'[p] = [is_free |-> FALSE, size |-> n,
                       next |-> p + n, prev |-> prev(p)]
         /\ mem'[p + n] = [is_free |-> TRUE, size |-> size(p) - n,
                           next |-> next(p), prev |-> p]
         /\ \A x \in Addresses \ {p, p + n} :
              \/ mem'[x] = mem[x]
              \/ mem'[x] = Data /\ p < x /\ x < p + n
<1> DEFINE r == p + n
           R == [is_free |-> TRUE, size |-> size(p) - n,
                 next |-> next(p), prev |-> p]
           m1 == [mem EXCEPT ![p].next = r]
           m2 == [m1 EXCEPT ![r] = R]
           m3 == [m2 EXCEPT ![p].is_free = FALSE]
           m4 == [m3 EXCEPT ![p].size = n]
<1>1. /\ p \in Nat /\ p < PoolSize /\ size(p) \in Nat
      /\ next(p) \in Addresses \cup {NULL} /\ prev(p) \in Addresses \cup {NULL}
  BY PoolAssumption DEF Addresses, Headers, size, next, prev
<1>2. r \in Addresses
  BY <1>1, PoolAssumption DEF Addresses
<1>3. R \in Headers
  BY <1>1 DEF Headers
<1>4. m1 \in [Addresses -> Headers \cup {Data}] /\ m1[p] \in Headers
        /\ m1[p] = [mem[p] EXCEPT !.next = r]
  BY <1>2 DEF TypeOK, Headers
<1>5. m2 \in [Addresses -> Headers \cup {Data}] /\ m2[p] \in Headers
        /\ m2[r] = R /\ (n > 0 => m2[p] = m1[p])
  <2>1. m2[r] = R
    BY <1>2, <1>4
  <2>2. n > 0 => m2[p] = m1[p]
    BY <1>1, <1>2, <1>4
  <2>3. m2[p] \in Headers
    <3>1. CASE p = r
      BY <2>1, <3>1, <1>3
    <3>2. CASE p # r
      BY <3>2, <1>4
    <3> QED BY <3>1, <3>2
  <2>4. m2 \in [Addresses -> Headers \cup {Data}]
    BY <1>2, <1>3, <1>4
  <2> QED BY <2>1, <2>2, <2>3, <2>4
<1>6. m3 \in [Addresses -> Headers \cup {Data}] /\ m3[p] \in Headers
        /\ m3[p] = [m2[p] EXCEPT !.is_free = FALSE]
        /\ (n > 0 => m3[r] = m2[r])
  <2> HIDE DEF m2, R
  <2>1. m3[p] = [m2[p] EXCEPT !.is_free = FALSE]
    BY <1>5
  <2>2. [m2[p] EXCEPT !.is_free = FALSE] \in Headers
    BY <1>5 DEF Headers
  <2>3. n > 0 => m3[r] = m2[r]
    BY <1>1, <1>2, <1>5
  <2> QED BY <1>5, <2>1, <2>2, <2>3
<1>7. m4 \in [Addresses -> Headers \cup {Data}]
        /\ m4[p] = [m3[p] EXCEPT !.size = n]
        /\ (n > 0 => m4[r] = m3[r])
  <2> HIDE DEF m3, R
  <2>1. m4[p] = [m3[p] EXCEPT !.size = n]
    BY <1>6
  <2>2. [m3[p] EXCEPT !.size = n] \in Headers
    BY <1>6 DEF Headers
  <2>3. n > 0 => m4[r] = m3[r]
    BY <1>1, <1>2, <1>6
  <2> QED BY <1>6, <2>1, <2>2, <2>3
<1>8. \A x \in Addresses \ {p, r} : m4[x] = mem[x]
  <2>1. \A x \in Addresses \ {p, r} : m1[x] = mem[x]
    BY DEF TypeOK
  <2>2. \A x \in Addresses \ {p, r} : m2[x] = m1[x]
    BY <1>4
  <2>3. \A x \in Addresses \ {p, r} : m3[x] = m2[x]
    BY <1>5
  <2>4. \A x \in Addresses \ {p, r} : m4[x] = m3[x]
    BY <1>6
  <2> HIDE DEF m1, m2, m3, m4
  <2> QED BY <2>1, <2>2, <2>3, <2>4
<1>9. n > 0 => m4[p] = [is_free |-> FALSE, size |-> n, next |-> r,
                        prev |-> prev(p)]
  <2> SUFFICES ASSUME n > 0
               PROVE  m4[p] = [is_free |-> FALSE, size |-> n, next |-> r,
                               prev |-> prev(p)]
    OBVIOUS
  <2>1. m2[p] = [mem[p] EXCEPT !.next = r]
    BY <1>4, <1>5
  <2>2. m4[p] = [[[mem[p] EXCEPT !.next = r] EXCEPT !.is_free = FALSE]
                   EXCEPT !.size = n]
    <3> HIDE DEF m1, m2, m3, m4
    <3> QED BY <1>6, <1>7, <2>1
  <2> HIDE DEF m1, m2, m3, m4
  <2> QED BY <2>2 DEF Headers, prev
<1>10. SplitAt(p + n, size(p) - n) = m4
  BY DEF SplitAt
<1>11. mem' = [x \in Addresses |->
                 IF x \in p + 1 .. p + n - 1 THEN Data ELSE m4[x]]
  BY <1>10 DEF HandOut
<1> HIDE DEF m1, m2, m3, m4
<1>12. mem' \in [Addresses -> Headers \cup {Data}]
  BY <1>7, <1>11
<1>13. ASSUME n > 0
       PROVE  /\ mem'[p] = [is_free |-> FALSE, size |-> n, next |-> r,
                            prev |-> prev(p)]
              /\ mem'[r] = R
  <2>1. p \notin p + 1 .. p + n - 1 /\ r \notin p + 1 .. p + n - 1
    BY <1>1
  <2>2. m4[r] = R
    BY <1>5, <1>6, <1>7, <1>13
  <2> QED BY <1>2, <1>9, <1>11, <1>13, <2>1, <2>2
<1>14. \A x \in Addresses \ {p, r} :
         mem'[x] = mem[x] \/ (mem'[x] = Data /\ p < x /\ x < p + n)
  <2> SUFFICES ASSUME NEW x \in Addresses \ {p, r}
               PROVE  mem'[x] = mem[x] \/ (mem'[x] = Data /\ p < x /\ x < p + n)
    OBVIOUS
  <2>1. x \in Int
    BY DEF Addresses
  <2> DEFINE data == p + 1 .. p + n - 1
  <2>2. x \in data => p < x /\ x < p + n
    BY <1>1, <2>1, Inside
  <2>3. mem'[x] = IF x \in data THEN Data ELSE m4[x]
    BY <1>11
  <2>4. m4[x] = mem[x]
    BY <1>8
  <2> HIDE DEF data
  <2> QED BY <2>2, <2>3, <2>4
<1> QED BY <1>2, <1>12, <1>13, <1>14

\* The list with the rest in it. The block behind the rest keeps a prev that
\* leads past the rest, to the block that has just been taken.
LEMMA SplitList ==
  ASSUME TypeOK, target = NULL, target' = NULL,
         NEW L \in SUBSET Addresses,
         Tiling(L), LinksBack(L), Apart(L), Owned(L),
         NEW p \in L, NEW n \in Nat, NEW r \in Addresses, r = p + n, n > 0,
         is_free(p), size(p) >= n + 1,
         mem'[p] = [is_free |-> FALSE, size |-> n, next |-> r,
                    prev |-> prev(p)],
         mem'[r] = [is_free |-> TRUE, size |-> size(p) - n,
                    next |-> next(p), prev |-> p],
         \A x \in Addresses \ {p, r} :
           mem'[x] = mem[x] \/ (mem'[x] = Data /\ p < x /\ x < r),
         allocated' = allocated \cup {p}
  PROVE  (Tiling(L \cup {r}) /\ LinksBack(L \cup {r}) /\ Apart(L \cup {r})
            /\ Owned(L \cup {r}))'
<1>1. /\ p \in Addresses /\ p \in Nat /\ size(p) \in Nat
      /\ mem[p] \in Headers /\ p + size(p) <= PoolSize
  BY BlockShape
<1>2. p < r /\ r < p + size(p) /\ r \in Nat /\ r = p + n
  BY <1>1
<1>3. ASSUME NEW x \in L
      PROVE  /\ x \in Nat /\ x \in Addresses /\ x # NULL
             /\ x < p => x + size(x) <= p
             /\ p < x => p + size(p) <= x
             /\ x # p => ~(p < x /\ x < p + size(p))
  <2>1. x \in Nat /\ x \in Addresses /\ x # NULL
    BY BlockShape DEF NULL
  <2>2. x < p => x + size(x) <= p
    BY DEF Tiling
  <2>3. p < x => p + size(p) <= x
    BY DEF Tiling
  <2> QED BY <1>1, <2>1, <2>2, <2>3
<1>4. r \notin L
  BY <1>2, <1>3
<1>5. \A x \in L \ {p} : mem'[x] = mem[x]
  <2> SUFFICES ASSUME NEW x \in L \ {p} PROVE mem'[x] = mem[x]
    OBVIOUS
  <2>1. x # r /\ x \in Addresses /\ ~(p < x /\ x < r)
    BY <1>1, <1>2, <1>3, <1>4
  <2> QED BY <1>1, <2>1
<1> DEFINE M == L \cup {r}
<1>6. \A x \in L \ {p} : /\ size(x)' = size(x) /\ next(x)' = next(x)
                         /\ prev(x)' = prev(x) /\ is_free(x)' = is_free(x)
                         /\ mem'[x] \in Headers
  BY <1>5 DEF size, next, prev, is_free, Tiling
<1>7. /\ size(p)' = n /\ next(p)' = r /\ prev(p)' = prev(p)
      /\ is_free(p)' = FALSE
      /\ size(r)' = size(p) - n /\ next(r)' = next(p) /\ prev(r)' = p
      /\ is_free(r)' = TRUE
  BY <1>1 DEF size, next, prev, is_free
<1>8. mem'[p] \in Headers /\ mem'[r] \in Headers
  <2>1. prev(p) \in Addresses \cup {NULL} /\ next(p) \in Addresses \cup {NULL}
    BY <1>1 DEF Headers, prev, next
  <2>2. size(p) - n \in Nat
    BY <1>1
  <2> QED BY <1>1, <2>1, <2>2 DEF Headers
<1>9. Tiling(M)'
  <2>1. ASSUME NEW a \in M
        PROVE  /\ mem'[a] \in Headers
               /\ size(a)' > 0
               /\ a + size(a)' = End(a)'
               /\ next(a)' \in M \cup {NULL}
    <3>1. CASE a = p
      BY <1>2, <1>7, <1>8, <3>1 DEF End, NULL
    <3>2. CASE a = r
      <4>1. p + size(p) = End(p) /\ next(p) \in L \cup {NULL}
        BY DEF Tiling
      <4>2. End(r)' = End(p)
        BY <1>7 DEF End
      <4>3. r + (size(p) - n) = p + size(p) /\ size(p) - n > 0
        BY <1>1, <1>2
      <4> QED BY <1>7, <1>8, <3>2, <4>1, <4>2, <4>3
    <3>3. CASE a \in L \ {p}
      <4>1. End(a)' = End(a)
        BY <1>6, <3>3 DEF End
      <4> QED BY <1>6, <3>3, <4>1 DEF Tiling
    <3> QED BY <3>1, <3>2, <3>3
  <2>2. ASSUME NEW b \in M \ {0}
        PROVE  \E a \in M : next(a)' = b
    <3>1. CASE b = r
      BY <1>7, <3>1
    <3>2. CASE b # r
      <4>1. PICK a \in L : next(a) = b
        BY <2>2, <3>2 DEF Tiling
      <4>2. CASE a = p
        BY <1>7, <4>1, <4>2
      <4>3. CASE a # p
        BY <1>6, <4>1, <4>3
      <4> QED BY <4>2, <4>3
    <3> QED BY <3>1, <3>2
  <2>3. ASSUME NEW a \in M, NEW b \in M, a < b
        PROVE  a + size(a)' <= b
    <3>1. CASE a = p
      BY <1>1, <1>2, <1>3, <1>7, <2>3, <3>1
    <3>2. CASE a = r
      <4>1. b \in L /\ p < b
        BY <1>2, <1>3, <2>3, <3>2
      <4>2. p + size(p) <= b
        BY <1>3, <4>1
      <4> QED BY <1>1, <1>2, <1>7, <3>2, <4>2
    <3>3. CASE a \in L \ {p}
      <4>1. size(a)' = size(a) /\ size(a) \in Nat /\ a \in Nat
        BY <1>6, <3>3, BlockShape
      <4>2. CASE b = r
        <5>1. a < p
          BY <1>1, <1>2, <1>3, <2>3, <3>3, <4>1, <4>2
        <5> QED BY <1>1, <1>2, <1>3, <3>3, <4>1, <4>2, <5>1
      <4>3. CASE b # r
        BY <2>3, <3>3, <4>1, <4>3 DEF Tiling
      <4> QED BY <4>2, <4>3
    <3> QED BY <3>1, <3>2, <3>3
  <2>4. 0 \in M
    BY DEF Tiling
  <2> QED BY <2>1, <2>2, <2>3, <2>4 DEF Tiling
<1>10. LinksBack(M)'
  <2>1. prev(0)' = NULL
    BY <1>6, <1>7 DEF Tiling, LinksBack
  <2>2. ASSUME NEW b \in M \ {0}
        PROVE  /\ prev(b)' \in 0 .. b - 1
               /\ ((prev(b) \in M /\ next(prev(b)) = b)
                     \/ Separated(M, prev(b), b))'
               /\ (prev(b)' \notin M /\ mem'[prev(b)'] # Data) =>
                    mem'[prev(b)'].next # b
    <3>1. CASE b = r
      <4>1. next(prev(b))' = r /\ prev(b)' = p
        BY <1>7, <3>1 DEF next
      <4>2. p \in 0 .. r - 1
        BY <1>1, <1>2
      <4> QED BY <3>1, <4>1, <4>2
    <3>2. CASE b # r
      <4>1. prev(b)' = prev(b) /\ b \in L
        BY <2>2, <1>6, <1>7, <3>2
      <4>2. /\ prev(b) \in 0 .. b - 1
            /\ (prev(b) \in L /\ next(prev(b)) = b) \/ Separated(L, prev(b), b)
            /\ (prev(b) \notin L /\ mem[prev(b)] # Data) =>
                 next(prev(b)) # b
        BY <2>2, <4>1 DEF LinksBack
      <4>3. prev(b) \in Addresses
        <5>1. b \in Nat /\ b < PoolSize
          BY <4>1, BlockShape
        <5> QED BY <4>2, <5>1, PoolAssumption DEF Addresses
      <4>4. (prev(b)' \notin M /\ mem'[prev(b)'] # Data) =>
              mem'[prev(b)'].next # b
        BY <1>1, <4>1, <4>2, <4>3 DEF next
      <4>5. CASE prev(b) = p
        <5>1. InUse(p)'
          BY <1>7 DEF InUse
        <5>2. p < b
          BY <4>2, <4>5, <1>3, <4>1
        <5>3. Separated(M, prev(b), b)'
          BY <1>1, <4>1, <4>5, <5>1, <5>2 DEF Separated
        <5> QED BY <4>1, <4>2, <4>4, <5>3
      <4>6. CASE prev(b) # p /\ prev(b) \in L /\ next(prev(b)) = b
        <5>1. (next(prev(b)))' = b
          BY <1>5, <4>1, <4>6 DEF next
        <5> QED BY <4>1, <4>2, <4>4, <4>6, <5>1
      <4>7. CASE Separated(L, prev(b), b)
        <5>1. PICK u \in L : prev(b) <= u /\ u < b /\ InUse(u)
          BY <1>3, <4>7 DEF Separated
        <5>2. InUse(u)'
          BY <1>6, <5>1 DEF InUse
        <5>3. Separated(M, prev(b), b)'
          BY <4>1, <5>1, <5>2 DEF Separated
        <5> QED BY <4>1, <4>2, <4>4, <5>3
      <4> QED BY <4>2, <4>5, <4>6, <4>7
    <3> QED BY <3>1, <3>2
  <2> QED BY <2>1, <2>2 DEF LinksBack, next
<1>11. Apart(M)'
  <2> SUFFICES ASSUME NEW q \in M, NEW b \in M,
                      next(q)' = b, is_free(q)', is_free(b)'
               PROVE  prev(b)' # q
    BY DEF Apart
  <2>1. q # p /\ b # p
    BY <1>7
  <2>2. b # r
    <3>1. CASE q = r
      BY <1>4, <1>7, <3>1, <1>2 DEF Tiling, NULL
    <3>2. CASE q # r
      <4>1. next(q) = b /\ next(q) \in L \cup {NULL}
        BY <1>6, <2>1, <3>2 DEF Tiling
      <4> QED BY <1>2, <1>4, <4>1 DEF NULL
    <3> QED BY <3>1, <3>2
  <2>3. b \in L /\ prev(b)' = prev(b) /\ is_free(b)
    BY <1>6, <2>1, <2>2
  <2>4. CASE q = r
    <3>1. next(p) = b
      BY <1>7, <2>4
    <3>2. b = p + size(p)
      BY <1>3, <2>3, <3>1, BlockShape
    <3>3. SUFFICES ASSUME prev(b) = r PROVE FALSE
      BY <2>3, <2>4
    <3>4. PICK u \in L : r <= u /\ u < b
      <4>1. b # 0
        BY <1>2, <3>2
      <4> QED BY <1>4, <2>3, <3>3, <4>1 DEF LinksBack, Separated
    <3> QED BY <1>2, <1>3, <3>2, <3>4
  <2>5. CASE q # r
    <3>1. next(q) = b /\ is_free(q)
      BY <1>6, <2>1, <2>5
    <3> QED BY <1>3, <2>3, <2>5, <3>1 DEF Apart
  <2> QED BY <2>4, <2>5
<1>12. Owned(M)'
  <2>1. allocated' = {a \in L : InUse(a)} \cup {p}
    BY DEF Owned
  <2>2. \A a \in M : InUse(a)' <=> a \in {x \in L : InUse(x)} \cup {p}
    BY <1>4, <1>6, <1>7 DEF InUse
  <2> QED BY <2>1, <2>2 DEF Owned
<1> QED BY <1>9, <1>10, <1>11, <1>12

LEMMA SplitInv ==
  ASSUME IInv, Split
  PROVE  IInv'
<1>1. /\ pool /\ fault = "none" /\ target = NULL /\ TypeOK
      /\ block_size \in Nat
  <2>1. pool /\ fault = "none" /\ target = NULL /\ TypeOK
    BY DEF IInv, Faulty, Resting, Split
  <2>2. block_size \in 0 .. SIZE_MAX
    BY <2>1 DEF TypeOK
  <2> QED BY <2>1, <2>2, PoolAssumption
<1>2. PICK L \in SUBSET Addresses : Blocks(L)
  BY <1>1 DEF IInv, Sound
<1>3. PICK p \in L : p = cursor
  BY <1>2 DEF Split, Blocks, Searching
<1>4. PICK n \in Nat : n = block_size /\ n > 0
  BY <1>1 DEF Split
<1>5. Tiling(L) /\ LinksBack(L) /\ Apart(L) /\ Owned(L)
  BY <1>2 DEF Blocks
<1>6. is_free(p) /\ size(p) >= n + 1
        /\ mem' = HandOut(SplitAt(p + n, size(p) - n), p, n)
  BY <1>3, <1>4 DEF Split, Fits, Header
<1>7. p \in Addresses /\ mem[p] \in Headers /\ p + size(p) <= PoolSize
  BY <1>1, <1>5, BlockShape
<1>8. pool' /\ pc' = "idle" /\ target' = NULL
        /\ allocated' = allocated \cup {p}
        /\ fault' = "none"
  BY <1>1, <1>3, <1>4 DEF Split, Return, Goto
<1>9. p + n \in Addresses /\ mem' \in [Addresses -> Headers \cup {Data}]
  BY <1>1, <1>3, <1>4, <1>6, <1>7, SplitWrites
<1>10. TypeOK'
  BY <1>1, <1>7, <1>8, <1>9, NoRequest DEF TypeOK, Split, Return
<1>11. /\ mem'[p] = [is_free |-> FALSE, size |-> n, next |-> p + n,
                      prev |-> prev(p)]
       /\ mem'[p + n] = [is_free |-> TRUE, size |-> size(p) - n,
                         next |-> next(p), prev |-> p]
       /\ \A x \in Addresses \ {p, p + n} :
            mem'[x] = mem[x] \/ (mem'[x] = Data /\ p < x /\ x < p + n)
  BY <1>1, <1>3, <1>4, <1>6, <1>7, SplitWrites
<1>12. (Tiling(L \cup {p + n}) /\ LinksBack(L \cup {p + n})
          /\ Apart(L \cup {p + n}) /\ Owned(L \cup {p + n}))'
  BY <1>1, <1>3, <1>4, <1>5, <1>6, <1>8, <1>9, <1>11, SplitList
<1>13. Blocks(L \cup {p + n})'
  BY <1>8, <1>12 DEF Blocks, Searching, GoingForward, GoingBackward
<1>14. L \cup {p + n} \in SUBSET Addresses
  BY <1>9
<1> QED BY <1>8, <1>10, <1>13, <1>14 DEF IInv, Sound, Faulty, Resting

\* With a size that has wrapped, two headers are written, or the process ends:
\* a fault either way.
LEMMA SplitNothingInv ==
  ASSUME IInv, SplitNothing
  PROVE  IInv'
<1>1. pool /\ fault = "none" /\ TypeOK
  BY DEF IInv, Faulty, Resting, SplitNothing
<1>2. PICK L \in SUBSET Addresses : Blocks(L)
  BY <1>1 DEF IInv, Sound
<1>3. cursor \in L /\ next(cursor) \in L /\ Tiling(L)
  BY <1>2 DEF SplitNothing, Blocks, Searching, Tiling
<1>4. PICK p \in L, n \in L : p = cursor /\ n = next(cursor) /\ p # n
  BY <1>1, <1>3, BlockShape DEF NULL, SplitNothing
<1>5. p \in Addresses /\ n \in Addresses /\ mem[p] \in Headers /\ mem[n] \in Headers
        /\ size(p) \in Nat
  BY <1>1, <1>3, BlockShape
<1>6. mem' = [mem EXCEPT ![n] = [@ EXCEPT !.prev = p, !.is_free = TRUE, !.size = size(p)],
                         ![p] = [@ EXCEPT !.is_free = FALSE, !.size = 0]]
  BY <1>1, <1>4, <1>5 DEF SplitNothing, TypeOK
<1>7. /\ [mem[n] EXCEPT !.prev = p, !.is_free = TRUE, !.size = size(p)] \in Headers
      /\ [mem[p] EXCEPT !.is_free = FALSE, !.size = 0] \in Headers
  BY <1>5 DEF Headers
<1>8. mem' \in [Addresses -> Headers \cup {Data}]
  BY <1>1, <1>4, <1>5, <1>6, <1>7 DEF TypeOK
<1>9. TypeOK'
  BY <1>1, <1>4, <1>5, <1>8, NoRequest DEF SplitNothing, Return, Goto, TypeOK
<1> QED BY <1>1, <1>9 DEF SplitNothing, Return, Goto, IInv, Sound, Faulty, Resting

LEMMA SplitCrashesInv ==
  ASSUME IInv, SplitCrashes
  PROVE  IInv'
<1> USE DEF SplitCrashes, Goto, free_locals
<1>1. pool /\ fault = "none" /\ TypeOK
  BY DEF IInv, Faulty, Resting
<1>2. TypeOK'
  BY <1>1 DEF TypeOK
<1> QED BY <1>1, <1>2 DEF IInv, Sound, Faulty, Resting

---------------------------------------------------------------------------
(* Giving a block back.                                                    *)

\* The freed block is the target from here on, and stands in for a block in
\* use until it has been merged.
LEMMA FreeList ==
  ASSUME TypeOK, target = NULL,
         NEW L \in SUBSET Addresses,
         Tiling(L), LinksBack(L), Apart(L), Owned(L),
         NEW t \in L, InUse(t), target' = t,
         mem' = [mem EXCEPT ![t].is_free = TRUE],
         allocated' = allocated \ {t}
  PROVE  (Tiling(L) /\ LinksBack(L) /\ Apart(L) /\ Owned(L))'
<1>1. \A x \in L : x \in Addresses /\ x # NULL /\ mem[x] \in Headers
  BY BlockShape DEF NULL
<1>2. mem'[t] = [mem[t] EXCEPT !.is_free = TRUE]
  BY <1>1 DEF TypeOK
<1>3. \A x \in Addresses \ {t} : mem'[x] = mem[x]
  BY DEF TypeOK
<1>4. \A x \in Addresses : next(x)' = next(x) /\ prev(x)' = prev(x)
                             /\ (x # t => is_free(x)' = is_free(x))
  <2>1. next(t)' = next(t) /\ prev(t)' = prev(t)
    BY <1>1, <1>2 DEF Headers, next, prev
  <2>2. \A x \in Addresses \ {t} : /\ next(x)' = next(x) /\ prev(x)' = prev(x)
                                   /\ is_free(x)' = is_free(x)
    BY <1>3 DEF next, prev, is_free
  <2> QED BY <2>1, <2>2
<1>5. is_free(t)' = TRUE /\ mem'[t] \in Headers
  <2>1. [mem[t] EXCEPT !.is_free = TRUE] \in Headers
    BY <1>1 DEF Headers
  <2>2. [mem[t] EXCEPT !.is_free = TRUE].is_free = TRUE
    BY <1>1 DEF Headers
  <2> QED BY <1>2, <2>1, <2>2 DEF is_free
<1>6. \A x \in L : size(x)' = size(x) /\ End(x)' = End(x) /\ mem'[x] \in Headers
  <2>1. size(t)' = size(t)
    BY <1>1, <1>2 DEF Headers, size
  <2>2. \A x \in L : size(x)' = size(x) /\ mem'[x] \in Headers
    BY <1>1, <1>3, <1>5, <2>1 DEF size
  <2> QED BY <1>1, <1>4, <2>2 DEF End
<1>7. Tiling(L)'
  <2>1. \A a \in L : /\ mem'[a] \in Headers
                     /\ size(a)' > 0
                     /\ a + size(a)' = End(a)'
                     /\ next(a)' \in L \cup {NULL}
    <3> TAKE a \in L
    <3>1. /\ size(a) > 0
          /\ a + size(a) = End(a)
          /\ next(a) \in L \cup {NULL}
      BY DEF Tiling
    <3> QED BY <1>1, <1>4, <1>6, <3>1
  <2>2. \A b \in L \ {0} : \E a \in L : next(a)' = b
    BY <1>1, <1>4 DEF Tiling
  <2>3. \A a, b \in L : a < b => a + size(a)' <= b
    BY <1>6 DEF Tiling
  <2> QED BY <2>1, <2>2, <2>3 DEF Tiling
<1>8. LinksBack(L)'
  <2>1. prev(0)' = NULL
    BY <1>1, <1>4 DEF Tiling, LinksBack
  <2>2. ASSUME NEW b \in L \ {0}
        PROVE  /\ prev(b)' \in 0 .. b - 1
               /\ ((prev(b) \in L /\ next(prev(b)) = b)
                     \/ Separated(L, prev(b), b))'
               /\ (prev(b)' \notin L /\ mem'[prev(b)'] # Data) =>
                    mem'[prev(b)'].next # b
    <3>1. prev(b)' = prev(b) /\ prev(b) \in 0 .. b - 1
      BY <1>1, <1>4 DEF LinksBack
    <3>2. prev(b) \in Addresses
      <4>1. b \in Nat /\ b < PoolSize
        BY <2>2, BlockShape
      <4> QED BY <3>1, <4>1, PoolAssumption DEF Addresses
    <3>3. mem'[prev(b)].next = next(prev(b))
            /\ (prev(b) \notin L => mem'[prev(b)] = mem[prev(b)])
      BY <1>3, <1>4, <3>2 DEF next
    <3>4. (prev(b)' \notin L /\ mem'[prev(b)'] # Data) =>
            mem'[prev(b)'].next # b
      BY <2>2, <3>1, <3>3 DEF LinksBack
    <3>5. CASE prev(b) \in L /\ next(prev(b)) = b
      BY <3>1, <3>3, <3>4, <3>5 DEF next
    <3>6. CASE Separated(L, prev(b), b)
      <4>1. PICK u \in L : prev(b) <= u /\ u < b /\ InUse(u)
        BY <1>1, <3>6 DEF Separated
      <4>2. InUse(u)' \/ u = target'
        BY <1>1, <1>4, <4>1 DEF InUse
      <4>3. Separated(L, prev(b), b)'
        BY <3>1, <4>1, <4>2 DEF Separated
      <4> QED BY <3>1, <3>4, <4>3
    <3> QED BY <2>2, <3>5, <3>6 DEF LinksBack
  <2> QED BY <2>1, <2>2 DEF LinksBack, next
<1>9. Apart(L)'
  <2> SUFFICES ASSUME NEW q \in L, NEW b \in L, q # t, b # t,
                      next(q)' = b, is_free(q)', is_free(b)'
               PROVE  prev(b)' # q
    BY DEF Apart
  <2>1. next(q) = b /\ is_free(q) /\ is_free(b) /\ prev(b)' = prev(b)
    BY <1>1, <1>4
  <2> QED BY <1>1, <2>1 DEF Apart
<1>10. Owned(L)'
  BY <1>1, <1>4, <1>5 DEF Owned, InUse
<1> QED BY <1>7, <1>8, <1>9, <1>10

LEMMA FreeCallInv ==
  ASSUME IInv, FreeCall
  PROVE  IInv'
<1>1. fault = "none" /\ pc = "idle" /\ pc' = "forward" /\ target = NULL
        /\ TypeOK /\ pool
  BY DEF FreeCall, Goto, IInv, Resting
<1>2. PICK L \in SUBSET Addresses : Blocks(L)
  BY <1>1 DEF IInv, Sound
<1>3. Tiling(L) /\ LinksBack(L) /\ Apart(L) /\ Owned(L)
  BY <1>2 DEF Blocks
<1>4. PICK t \in allocated :
        /\ allocated' = allocated \ {t}
        /\ mem' = [mem EXCEPT ![t].is_free = TRUE]
        /\ target' = t /\ cursor' = t /\ merge_size' = size(t)
  BY DEF FreeCall
<1>5. t \in L /\ InUse(t)
  BY <1>3 DEF Owned
<1>6. t \in Addresses /\ t \in Nat /\ mem[t] \in Headers /\ size(t) \in Nat
  BY <1>1, <1>3, <1>5, BlockShape
<1>7. UNCHANGED <<pool, block_size, next_buf, fault>>
  BY DEF FreeCall
<1>8. (Tiling(L) /\ LinksBack(L) /\ Apart(L) /\ Owned(L))'
  BY <1>1, <1>3, <1>4, <1>5, FreeList
<1>9. mem'[t] = [mem[t] EXCEPT !.is_free = TRUE]
  BY <1>1, <1>4, <1>6 DEF TypeOK
<1>10. size(t)' = size(t) /\ is_free(t)' = TRUE
         /\ [mem[t] EXCEPT !.is_free = TRUE] \in Headers
  BY <1>6, <1>9 DEF size, is_free, Headers
<1>11. mem' \in [Addresses -> Headers \cup {Data}]
  BY <1>1, <1>4, <1>6, <1>10 DEF TypeOK
<1>12. TypeOK'
  BY <1>1, <1>4, <1>6, <1>7, <1>11 DEF TypeOK
<1>13. GoingForward(L)'
  <2>1. \A x \in L : t <= x /\ x <= t => x = t
    <3>1. \A x \in L : x \in Nat
      BY <1>1, <1>3, BlockShape
    <3> QED BY <1>6, <3>1
  <2>2. \A x \in L : t <= x /\ x <= t => is_free(x)'
    BY <1>10, <2>1
  <2> QED BY <1>4, <1>5, <1>6, <1>10, <2>2 DEF GoingForward
<1>14. Blocks(L)'
  BY <1>1, <1>8, <1>13 DEF Blocks, Searching, GoingBackward
<1> QED BY <1>1, <1>7, <1>12, <1>14 DEF IInv, Sound, Faulty, Resting

LEMMA ForwardInv ==
  ASSUME IInv, Forward
  PROVE  IInv'
<1>1. /\ fault = "none" /\ pc = "forward" /\ TypeOK /\ pool
      /\ UNCHANGED <<pool, mem, pc, block_size, target, next_buf, allocated,
                     fault>>
      /\ merge_size' = merge_size + size(next(cursor))
      /\ cursor' = next(cursor)
      /\ next(cursor) # NULL /\ is_free(next(cursor))
  BY DEF Forward, NextIsFree, IInv, Faulty, Resting
<1>2. PICK L \in SUBSET Addresses : Blocks(L)
  BY <1>1 DEF IInv, Sound
<1>3. Tiling(L) /\ LinksBack(L) /\ Apart(L) /\ Owned(L)
  BY <1>2 DEF Blocks
<1>4. /\ target \in L /\ cursor \in L /\ target <= cursor
      /\ target + merge_size = cursor + size(cursor)
      /\ \A x \in L : target <= x /\ x <= cursor => is_free(x)
  BY <1>1, <1>2 DEF Blocks, GoingForward
<1>5. PICK n \in L : n = next(cursor)
  BY <1>1, <1>3, <1>4, BlockShape
<1>6. /\ n = cursor + size(cursor) /\ n \in Nat /\ n \in Addresses
      /\ size(n) \in Nat /\ size(cursor) \in Nat /\ cursor \in Nat
      /\ target \in Nat /\ merge_size \in Nat
  <2>1. cursor + size(cursor) = n /\ size(cursor) \in Nat /\ cursor \in Nat
    BY <1>1, <1>3, <1>4, <1>5, BlockShape
  <2>2. n \in Nat /\ n \in Addresses /\ size(n) \in Nat /\ target \in Nat
    BY <1>1, <1>3, <1>4, <1>5, BlockShape
  <2> QED BY <1>1, <2>1, <2>2 DEF TypeOK
<1>7. TypeOK'
  BY <1>1, <1>5, <1>6 DEF TypeOK
<1>8. (Tiling(L) /\ LinksBack(L) /\ Apart(L) /\ Owned(L))'
  BY <1>1, <1>3, SameList
<1>9. \A x \in L : target <= x /\ x <= n => is_free(x)
  <2> SUFFICES ASSUME NEW x \in L, target <= x, x <= n PROVE is_free(x)
    OBVIOUS
  <2>1. x \in Nat
    BY <1>1, <1>3, BlockShape
  <2>2. CASE x <= cursor
    BY <1>4, <2>2
  <2>3. CASE cursor < x
    <3>1. cursor + size(cursor) <= x
      BY <1>3, <1>4, <2>3 DEF Tiling
    <3>2. x = n
      BY <1>6, <2>1, <3>1
    <3> QED BY <1>1, <1>5, <3>2
  <2> QED BY <1>6, <2>1, <2>2, <2>3
<1>10. target <= n /\ target + (merge_size + size(n)) = n + size(n)
  BY <1>4, <1>6
<1>11. size(n)' = size(n) /\ \A x \in L : is_free(x)' = is_free(x)
  BY <1>1 DEF size, is_free
<1>12. GoingForward(L)'
  <2>1. cursor' = n /\ merge_size' = merge_size + size(n) /\ target' = target
    BY <1>1, <1>5
  <2> QED BY <1>4, <1>9, <1>10, <1>11, <2>1 DEF GoingForward
<1>13. Blocks(L)'
  BY <1>1, <1>8, <1>12 DEF Blocks, Searching, GoingBackward
<1> QED BY <1>1, <1>7, <1>13 DEF IInv, Sound, Faulty, Resting

LEMMA TurnBackInv ==
  ASSUME IInv, TurnBack
  PROVE  IInv'
<1>1. /\ fault = "none" /\ pc = "forward" /\ pc' = "backward" /\ TypeOK /\ pool
      /\ UNCHANGED <<pool, mem, block_size, target, merge_size, allocated,
                     fault>>
      /\ next_buf' = next(cursor) /\ cursor' = target
      /\ next(cursor) # NULL => ~is_free(next(cursor))
  BY DEF TurnBack, Goto, NextIsFree, IInv, Faulty, Resting
<1>2. PICK L \in SUBSET Addresses : Blocks(L)
  BY <1>1 DEF IInv, Sound
<1>3. Tiling(L) /\ LinksBack(L) /\ Apart(L) /\ Owned(L)
  BY <1>2 DEF Blocks
<1>4. /\ target \in L /\ cursor \in L /\ target <= cursor
      /\ target + merge_size = cursor + size(cursor)
      /\ \A x \in L : target <= x /\ x <= cursor => is_free(x)
  BY <1>1, <1>2 DEF Blocks, GoingForward
<1>5. PICK e : e = cursor + size(cursor)
  OBVIOUS
<1>6. /\ cursor \in Nat /\ size(cursor) \in Nat /\ size(cursor) > 0
      /\ next(cursor) # NULL => next(cursor) \in L /\ next(cursor) = e
      /\ next(cursor) = NULL => e = PoolSize
  BY <1>1, <1>3, <1>4, <1>5, BlockShape
<1>7. target \in Nat /\ target \in Addresses
  BY <1>1, <1>3, <1>4, BlockShape
<1>8. NextBlock' = e
  BY <1>1, <1>6 DEF NextBlock
<1>9. TypeOK'
  <2>1. next(cursor) \in Addresses \cup {NULL}
    BY <1>6
  <2> QED BY <1>1, <1>7, <2>1 DEF TypeOK
<1>10. (Tiling(L) /\ LinksBack(L) /\ Apart(L) /\ Owned(L))'
  BY <1>1, <1>3, SameList
<1>11. \A x \in L : target <= x /\ x < e => is_free(x)
  <2> SUFFICES ASSUME NEW x \in L, target <= x, x < e PROVE is_free(x)
    OBVIOUS
  <2>1. x \in Nat
    BY <1>1, <1>3, BlockShape
  <2>2. ~(cursor < x)
    <3> SUFFICES ASSUME cursor < x PROVE FALSE
      OBVIOUS
    <3>1. cursor + size(cursor) <= x
      BY <1>3, <1>4 DEF Tiling
    <3> QED BY <1>5, <1>6, <2>1, <3>1
  <2>3. x <= cursor
    BY <1>6, <2>1, <2>2
  <2> QED BY <1>4, <2>3
<1>12. target < e /\ target + merge_size = e /\ target <= target
  BY <1>4, <1>5, <1>6, <1>7
<1>13. \A x \in L : is_free(x)' = is_free(x)
  BY <1>1 DEF is_free
<1>14. next_buf' \in L \cup {NULL}
         /\ (next_buf' # NULL => InUse(next_buf)')
  BY <1>1, <1>6, <1>13 DEF InUse
<1>15. GoingBackward(L)'
  BY <1>1, <1>4, <1>8, <1>11, <1>12, <1>13, <1>14 DEF GoingBackward
<1>16. Blocks(L)'
  BY <1>1, <1>10, <1>15 DEF Blocks, Searching, GoingForward
<1> QED BY <1>1, <1>9, <1>16 DEF IInv, Sound, Faulty, Resting

\* What the test of prev finds: a link, and what is behind it.
LEMMA PrevFound ==
  /\ TRUE \in PrevIsFree =>
       /\ prev(cursor) # NULL
       /\ mem[prev(cursor)] # Data => is_free(prev(cursor)) = TRUE
  /\ FALSE \in PrevIsFree =>
       \/ prev(cursor) = NULL
       \/ mem[prev(cursor)] = Data
       \/ is_free(prev(cursor)) = FALSE
  BY DEF PrevIsFree

\* A merge that goes on without a fault stays on the list: the block before is
\* the one before on the list.
LEMMA BackwardList ==
  ASSUME TypeOK, NEW L \in SUBSET Addresses, Tiling(L), LinksBack(L),
         cursor \in L, NEW p, p = prev(cursor), p # NULL, mem[p] # Data,
         next(p) = cursor
  PROVE  p \in L /\ p < cursor /\ p + size(p) = cursor
<1>1. cursor # 0
  BY DEF LinksBack
<1>2. p \in L
  BY <1>1 DEF LinksBack
<1>3. cursor # NULL
  BY BlockShape DEF NULL
<1>4. p \in Nat /\ size(p) \in Nat /\ size(p) > 0 /\ cursor = p + size(p)
  BY <1>2, <1>3, BlockShape
<1> QED BY <1>2, <1>4

LEMMA BackwardInv ==
  ASSUME IInv, Backward
  PROVE  IInv'
<1>1. pc = "backward" /\ TRUE \in PrevIsFree /\ pool /\ TypeOK
        /\ UNCHANGED <<pool, mem, allocated>>
  BY DEF Backward, IInv, Resting
<1>2. cursor \in Addresses /\ mem[cursor] # Data
        /\ (next_buf # NULL => mem[next_buf] # Data)
  <2>1. CASE fault = "none"
    <3>1. PICK L \in SUBSET Addresses : Blocks(L)
      BY <1>1, <2>1 DEF IInv, Sound
    <3>2. Tiling(L) /\ cursor \in L /\ next_buf \in L \cup {NULL}
      BY <1>1, <3>1 DEF Blocks, GoingBackward
    <3> QED BY <1>1, <3>2, BlockShape
  <2>2. CASE fault # "none"
    BY <1>1, <2>2 DEF IInv, Faulty
  <2> QED BY <2>1, <2>2
<1>3. PICK p : p = prev(cursor)
  OBVIOUS
<1>4. p \in Addresses /\ p # NULL
  <2>1. mem[cursor] \in Headers
    BY <1>1, <1>2 DEF TypeOK
  <2> QED BY <1>1, <1>3, <2>1, PrevFound DEF Headers, prev
<1>5. CASE mem[p] = Data
  <2>1. fault' = "stale_prev" /\ Return("backward")
    BY <1>3, <1>5 DEF Backward
  <2>2. TypeOK'
    BY <1>1, <2>1, NoRequest DEF TypeOK, Return, Goto
  <2> QED BY <1>1, <2>1, <2>2
          DEF IInv, Sound, Faulty, Resting, Return, Goto
<1>6. CASE mem[p] # Data
  <2>1. /\ merge_size' = merge_size + size(p)
        /\ cursor' = p
        /\ fault' = IF Leads(p, cursor) THEN fault ELSE "stale_prev"
        /\ UNCHANGED <<pc, block_size, target, next_buf>>
    BY <1>3, <1>6 DEF Backward
  <2>2. mem[p] \in Headers /\ size(p) \in Nat
    BY <1>1, <1>4, <1>6 DEF TypeOK, Headers, size
  <2>3. TypeOK'
    <3>1. merge_size' \in Nat
      <4>1. merge_size \in Nat
        BY <1>1 DEF TypeOK
      <4>2. merge_size' = merge_size + size(p)
        BY <2>1
      <4> QED BY <2>2, <4>1, <4>2
    <3>2. fault' = fault \/ fault' = "stale_prev"
      BY <2>1
    <3> QED BY <1>1, <1>4, <2>1, <3>1, <3>2 DEF TypeOK
  <2>4. CASE fault' # "none"
    BY <1>1, <1>2, <1>4, <1>6, <2>1, <2>3, <2>4
       DEF IInv, Sound, Faulty, Resting
  <2>5. CASE fault' = "none"
    <3>1. fault = "none" /\ next(p) = cursor
      BY <2>1, <2>5 DEF Leads
    <3>2. PICK L \in SUBSET Addresses : Blocks(L)
      BY <1>1, <3>1 DEF IInv, Sound
    <3>3. Tiling(L) /\ LinksBack(L) /\ Apart(L) /\ Owned(L)
      BY <3>2 DEF Blocks
    <3>4. /\ target \in L /\ cursor \in L
          /\ next_buf \in L \cup {NULL}
          /\ cursor <= target /\ target < NextBlock
          /\ cursor + merge_size = NextBlock
          /\ \A x \in L : cursor <= x /\ x < NextBlock => is_free(x)
          /\ next_buf # NULL => InUse(next_buf)
      BY <1>1, <3>2 DEF Blocks, GoingBackward
    <3>5. p \in L /\ p < cursor /\ p + size(p) = cursor
      BY <1>1, <1>3, <1>4, <1>6, <3>1, <3>3, <3>4, BackwardList
    <3>6. /\ p \in Nat /\ cursor \in Nat /\ target \in Nat /\ size(p) \in Nat
          /\ merge_size \in Nat
      <4>1. p \in Nat /\ size(p) \in Nat
        BY <1>1, <3>3, <3>5, BlockShape
      <4>2. cursor \in Nat /\ target \in Nat
        BY <1>1, <3>3, <3>4, BlockShape
      <4> QED BY <1>1, <4>1, <4>2 DEF TypeOK
    <3>7. PICK e : e = NextBlock
      OBVIOUS
    <3>8. p <= target /\ p + (merge_size + size(p)) = e
      BY <3>4, <3>5, <3>6, <3>7
    <3>9. \A x \in L : p <= x /\ x < e => is_free(x)
      <4> SUFFICES ASSUME NEW x \in L, p <= x, x < e PROVE is_free(x)
        OBVIOUS
      <4>1. x \in Nat
        BY <1>1, <3>3, BlockShape
      <4>2. CASE cursor <= x
        BY <3>4, <3>7, <4>2
      <4>3. CASE x < cursor
        <5>1. ~(p < x)
          <6>1. p < x => p + size(p) <= x
            BY <3>3, <3>5 DEF Tiling
          <6> QED BY <3>5, <3>6, <4>1, <4>3, <6>1
        <5>2. x = p
          BY <3>6, <4>1, <5>1
        <5>3. is_free(p) = TRUE
          BY <1>1, <1>3, <1>6, PrevFound
        <5> QED BY <5>2, <5>3
      <4> QED BY <3>6, <4>1, <4>2, <4>3
    <3>10. (Tiling(L) /\ LinksBack(L) /\ Apart(L) /\ Owned(L))'
      BY <1>1, <2>1, <3>3, SameList
    <3>11. \A x : is_free(x)' = is_free(x)
      BY <1>1 DEF is_free
    <3>12. NextBlock' = e
      BY <2>1, <3>7 DEF NextBlock
    <3>13. GoingBackward(L)'
      BY <2>1, <3>4, <3>5, <3>7, <3>8, <3>9, <3>11, <3>12
         DEF GoingBackward, InUse
    <3>14. Blocks(L)'
      BY <1>1, <2>1, <3>10, <3>13 DEF Blocks, Searching, GoingForward
    <3> QED BY <1>1, <2>1, <2>3, <2>5, <3>14
            DEF IInv, Sound, Faulty, Resting
  <2> QED BY <2>4, <2>5
<1> QED BY <1>5, <1>6

Without(L, c, e) == {x \in L : x <= c \/ x >= e}

\* The list without the blocks that have become part of c, which reaches up to
\* e. Nothing that was merged away still leads to a block whose prev it is, and
\* the block at e gets its prev right again.
LEMMA MergeList ==
  ASSUME TypeOK, NEW L \in SUBSET Addresses,
         Tiling(L), LinksBack(L), Apart(L), Owned(L),
         NEW c \in L, NEW e \in Nat, NEW b0 \in L \cup {NULL},
         b0 # NULL => b0 = e /\ InUse(e),
         b0 = NULL => e = PoolSize,
         target \in L, c <= target, target < e, target' = NULL,
         \A x \in L : c <= x /\ x < e => is_free(x),
         \A q \in L : next(q) = c /\ is_free(q) => prev(c) # q,
         mem'[c] = [mem[c] EXCEPT !.next = b0, !.size = e - c],
         b0 # NULL => mem'[e] = [mem[e] EXCEPT !.prev = c],
         \A x \in Addresses \ {c, b0} : mem'[x] = mem[x],
         allocated' = allocated,
         NEW M, M = Without(L, c, e)
  PROVE  (Tiling(M) /\ LinksBack(M) /\ Apart(M) /\ Owned(M))'
<1> USE DEF Without
<1>1. ASSUME NEW x \in L
      PROVE  /\ x \in Nat /\ x \in Addresses /\ x # NULL /\ x < PoolSize
             /\ mem[x] \in Headers
             /\ size(x) \in Nat /\ size(x) > 0
             /\ next(x) # NULL => next(x) \in L /\ next(x) = x + size(x)
             /\ is_free(x) \in BOOLEAN
  BY BlockShape DEF NULL
<1>2. c \in Nat /\ target \in Nat /\ c < e
  BY <1>1
<1>3. ASSUME NEW x \in L, NEW y \in L, x < y PROVE x + size(x) <= y
  BY <1>3 DEF Tiling
\* Blocks that stay lead on as they did, only c leads to e.
<1>4. ASSUME NEW x \in M, x # c PROVE next(x) \in M \cup {NULL}
  <2> SUFFICES ASSUME next(x) # NULL PROVE next(x) \in M
    OBVIOUS
  <2>1. next(x) \in L /\ next(x) = x + size(x) /\ x \in Nat /\ size(x) \in Nat
    BY <1>1
  <2>2. x < c => next(x) <= c
    BY <1>3, <2>1
  <2> QED BY <1>2, <1>4, <2>1, <2>2
<1>5. ASSUME NEW x \in L, c <= x, x < e, NEW y \in M, next(x) = y
      PROVE  y = e /\ b0 = e
  <2>1. y = x + size(x) /\ x \in Nat /\ size(x) \in Nat /\ size(x) > 0
          /\ y \in Nat /\ y < PoolSize
    BY <1>1, <1>5
  <2>2. y >= e
    BY <1>2, <1>5, <2>1
  <2>3. b0 # NULL
    BY <2>1, <2>2
  <2>4. e \in L
    BY <2>3
  <2>5. x + size(x) <= e
    BY <1>3, <1>5, <2>4
  <2> QED BY <2>1, <2>2, <2>3, <2>5
<1>6. ASSUME NEW x \in M
      PROVE  /\ mem'[x] \in Headers
             /\ is_free(x)' = is_free(x)
             /\ x # c => size(x)' = size(x) /\ next(x)' = next(x)
             /\ x # b0 => prev(x)' = prev(x)
             /\ x = b0 => prev(x)' = c
  <2>1. CASE x = c
    <3>1. mem[c] \in Headers /\ e - c \in Nat /\ b0 \in Addresses \cup {NULL}
      BY <1>1, <1>2
    <3>2. [mem[c] EXCEPT !.next = b0, !.size = e - c] \in Headers
      BY <3>1 DEF Headers
    <3>3. mem'[c].is_free = mem[c].is_free /\ mem'[c].prev = mem[c].prev
      BY <3>1 DEF Headers
    <3>4. c # b0
      BY <1>1, <1>2
    <3> QED BY <2>1, <3>2, <3>3, <3>4 DEF is_free, prev
  <2>2. CASE x = b0
    <3>1. x = e /\ x # c
      BY <1>1, <1>2, <2>2
    <3>2. mem[e] \in Headers /\ c \in Addresses
      BY <1>1, <3>1
    <3>3. mem'[e] = [mem[e] EXCEPT !.prev = c]
      BY <1>1, <2>2
    <3>4. /\ [mem[e] EXCEPT !.prev = c] \in Headers
          /\ mem'[e].is_free = mem[e].is_free /\ mem'[e].size = mem[e].size
          /\ mem'[e].next = mem[e].next /\ mem'[e].prev = c
      BY <3>2, <3>3 DEF Headers
    <3> QED BY <2>2, <3>1, <3>3, <3>4 DEF is_free, size, next, prev
  <2>3. CASE x # c /\ x # b0
    BY <1>1, <2>3 DEF is_free, size, next, prev
  <2> QED BY <2>1, <2>2, <2>3
<1>7. size(c)' = e - c /\ next(c)' = b0 /\ c \in M
  BY <1>1, <1>2 DEF size, next, Headers
<1>8. b0 # NULL => b0 \in M
  BY <1>2
<1>9. Tiling(M)'
  <2>1. ASSUME NEW a \in M
        PROVE  /\ mem'[a] \in Headers
               /\ size(a)' > 0
               /\ a + size(a)' = End(a)'
               /\ next(a)' \in M \cup {NULL}
    <3>1. CASE a = c
      BY <1>2, <1>6, <1>7, <1>8, <3>1 DEF End
    <3>2. CASE a # c
      <4>1. End(a)' = End(a)
        BY <1>6, <3>2 DEF End
      <4>2. size(a) > 0 /\ a + size(a) = End(a)
        BY DEF Tiling
      <4> QED BY <1>4, <1>6, <3>2, <4>1, <4>2
    <3> QED BY <3>1, <3>2
  <2>2. ASSUME NEW b \in M \ {0} PROVE \E a \in M : next(a)' = b
    <3>1. PICK a \in L : next(a) = b
      BY <2>2 DEF Tiling
    <3>2. CASE c <= a /\ a < e
      BY <1>5, <1>7, <2>2, <3>1, <3>2
    <3>3. CASE ~(c <= a /\ a < e)
      <4>1. a \in M /\ a # c
        BY <1>1, <1>2, <3>3
      <4> QED BY <1>6, <3>1, <4>1
    <3> QED BY <3>2, <3>3
  <2>3. ASSUME NEW a \in M, NEW b \in M, a < b PROVE a + size(a)' <= b
    <3>1. CASE a = c
      <4>1. b >= e /\ b \in Nat
        BY <1>1, <1>2, <2>3, <3>1
      <4> QED BY <1>2, <1>7, <3>1, <4>1
    <3>2. CASE a # c
      BY <1>3, <1>6, <2>3, <3>2
    <3> QED BY <3>1, <3>2
  <2>4. 0 \in M
    BY <1>2 DEF Tiling
  <2> QED BY <2>1, <2>2, <2>3, <2>4 DEF Tiling
<1>10. LinksBack(M)'
  <2>1. prev(0)' = NULL
    <3>1. 0 \in M /\ 0 # b0
      BY <1>1, <1>2 DEF Tiling
    <3> QED BY <1>6, <3>1 DEF LinksBack
  <2>2. ASSUME NEW b \in M \ {0}
        PROVE  /\ prev(b)' \in 0 .. b - 1
               /\ ((prev(b) \in M /\ next(prev(b)) = b)
                     \/ Separated(M, prev(b), b))'
               /\ (prev(b)' \notin M /\ mem'[prev(b)'] # Data) =>
                    mem'[prev(b)'].next # b
    <3>1. CASE b = b0
      <4>1. prev(b)' = c /\ mem'[c].next = b
        BY <1>6, <1>7, <3>1 DEF next
      <4>2. c \in 0 .. b - 1
        BY <1>1, <1>2, <3>1
      <4> QED BY <1>7, <4>1, <4>2 DEF next
    <3>2. CASE b # b0
      <4>1. PICK p : p = prev(b)
        OBVIOUS
      <4>2. /\ prev(b)' = p /\ p \in 0 .. b - 1
            /\ (p \in L /\ next(p) = b) \/ Separated(L, p, b)
            /\ (p \notin L /\ mem[p] # Data) => next(p) # b
        BY <1>6, <2>2, <3>2, <4>1 DEF LinksBack
      <4>3. b \in Nat /\ b < PoolSize /\ p \in Nat /\ p < b
              /\ p \in Addresses
        <5>1. b \in Nat /\ b < PoolSize
          BY <1>1
        <5> QED BY <4>2, <5>1, PoolAssumption DEF Addresses
      <4>4. ~(p \in L /\ c <= p /\ p < e /\ next(p) = b)
        BY <1>1, <1>5, <3>2
      <4>5. (p \notin M /\ mem'[p] # Data) => mem'[p].next # b
        <5>1. SUFFICES ASSUME p \notin M, mem'[p] # Data
                       PROVE  mem'[p].next # b
          OBVIOUS
        <5>2. mem'[p] = mem[p]
          BY <1>7, <1>8, <4>3, <5>1 DEF NULL
        <5>3. p \in L => c <= p /\ p < e
          BY <1>2, <4>3, <5>1
        <5> QED BY <4>2, <4>4, <5>1, <5>2, <5>3 DEF next
      <4>6. CASE p \in L /\ next(p) = b
        <5>1. p \in M /\ p # c
          BY <1>2, <4>3, <4>4, <4>6
        <5>2. mem'[p].next = b
          BY <1>6, <4>6, <5>1 DEF next
        <5> QED BY <4>2, <4>5, <5>1, <5>2 DEF next
      <4>7. CASE Separated(L, p, b)
        <5>1. PICK u \in L : p <= u /\ u < b /\ (InUse(u) \/ u = target)
          BY <4>7 DEF Separated
        <5>2. \E v \in M : p <= v /\ v < b /\ InUse(v)
          <6>1. CASE InUse(u)
            <7>1. ~(c <= u /\ u < e)
              BY <6>1 DEF InUse
            <7>2. u \in M
              BY <1>1, <1>2, <7>1
            <7> QED BY <5>1, <6>1, <7>2
          <6>2. CASE u = target
            <7>1. b > c
              BY <1>2, <4>3, <5>1, <6>2
            <7>2. b >= e /\ b0 # NULL
              BY <1>2, <4>3, <7>1
            <7>3. e \in M /\ InUse(e) /\ p <= e /\ e < b
              BY <1>2, <1>8, <3>2, <4>3, <5>1, <6>2, <7>2
            <7> QED BY <7>3
          <6> QED BY <5>1, <6>1, <6>2
        <5>3. \E v \in M : p <= v /\ v < b /\ InUse(v)'
          BY <1>6, <5>2 DEF InUse
        <5>4. Separated(M, prev(b), b)'
          BY <4>2, <5>3 DEF Separated
        <5> QED BY <4>2, <4>5, <5>4
      <4> QED BY <4>2, <4>6, <4>7
    <3> QED BY <3>1, <3>2
  <2> QED BY <2>1, <2>2 DEF LinksBack, next
<1>11. Apart(M)'
  <2> SUFFICES ASSUME NEW q \in M, NEW b \in M,
                      next(q)' = b, is_free(q)', is_free(b)'
               PROVE  prev(b)' # q
    BY DEF Apart
  <2>1. is_free(q) /\ is_free(b)
    BY <1>6
  <2>2. b # b0
    BY <1>1, <2>1 DEF InUse
  <2>3. q # c
    BY <1>1, <1>7, <2>2
  <2>4. next(q) = b /\ prev(b)' = prev(b)
    BY <1>6, <2>2, <2>3
  <2>5. CASE b = c
    BY <2>1, <2>4, <2>5
  <2>6. CASE b # c
    <3>1. q # target /\ b # target
      BY <1>1, <1>2, <2>3, <2>6
    <3> QED BY <2>1, <2>4, <3>1 DEF Apart
  <2> QED BY <2>5, <2>6
<1>12. Owned(M)'
  <2>1. \A a \in L : InUse(a) => a \in M
    BY <1>1, <1>2 DEF InUse
  <2>2. \A a \in M : InUse(a)' <=> InUse(a)
    BY <1>6 DEF InUse
  <2>3. {a \in M : InUse(a)'} = {a \in L : InUse(a)}
    BY <2>1, <2>2
  <2> QED BY <2>3 DEF Owned
<1> QED BY <1>9, <1>10, <1>11, <1>12

\* What a merge writes: the header of the block it has grown, and the link back
\* of the block after it.
LEMMA MergeWrites ==
  ASSUME TypeOK, NEW c \in Addresses, c = cursor, mem[c] \in Headers,
         next_buf # NULL => mem[next_buf] \in Headers, Merge
  PROVE  /\ mem' \in [Addresses -> Headers \cup {Data}]
         /\ c # next_buf =>
              /\ mem'[c] = [mem[c] EXCEPT !.next = next_buf,
                                          !.size = merge_size]
              /\ next_buf # NULL =>
                   mem'[next_buf] = [mem[next_buf] EXCEPT !.prev = c]
              /\ \A x \in Addresses \ {c, next_buf} : mem'[x] = mem[x]
<1> DEFINE h == [mem[c] EXCEPT !.next = next_buf, !.size = merge_size]
           m1 == [mem EXCEPT ![c].next = next_buf, ![c].size = merge_size]
           m2 == [m1 EXCEPT ![next_buf].prev = c]
<1>1. next_buf \in Addresses \cup {NULL} /\ merge_size \in Nat
        /\ mem \in [Addresses -> Headers \cup {Data}]
  BY DEF TypeOK
<1>2. h \in Headers
  BY <1>1 DEF Headers
<1>3. m1 = [mem EXCEPT ![c] = h]
  <2>1. [mem EXCEPT ![c].next = next_buf][c] = [mem[c] EXCEPT !.next = next_buf]
    BY <1>1
  <2> QED BY <1>1, <2>1
<1>4. mem' = IF next_buf = NULL THEN m1 ELSE m2
  BY DEF Merge
<1> HIDE DEF h, m1
<1>5. m1 \in [Addresses -> Headers \cup {Data}] /\ m1[c] = h
        /\ \A x \in Addresses \ {c} : m1[x] = mem[x]
  BY <1>1, <1>2, <1>3
<1>6. CASE next_buf = NULL
  BY <1>4, <1>5, <1>6 DEF h
<1>7. CASE next_buf # NULL
  <2>1. m1[next_buf] \in Headers
    BY <1>1, <1>2, <1>5, <1>7
  <2>2. m2 \in [Addresses -> Headers \cup {Data}]
    <3>1. [m1[next_buf] EXCEPT !.prev = c] \in Headers
      BY <2>1 DEF Headers
    <3> QED BY <1>1, <1>5, <1>7, <3>1
  <2>3. m2[next_buf] = [m1[next_buf] EXCEPT !.prev = c]
          /\ \A x \in Addresses \ {next_buf} : m2[x] = m1[x]
    BY <1>1, <1>5, <1>7
  <2> HIDE DEF m2
  <2> QED BY <1>1, <1>4, <1>5, <1>7, <2>2, <2>3 DEF h
<1> QED BY <1>6, <1>7

LEMMA MergeInv ==
  ASSUME IInv, Merge
  PROVE  IInv'
<1>1. /\ pc = "backward" /\ pc' = "idle" /\ FALSE \in PrevIsFree
      /\ pool /\ TypeOK /\ UNCHANGED <<pool, allocated, fault>>
      /\ target' = NULL /\ merge_size' = 0 /\ next_buf' = NULL
      /\ cursor' = NULL /\ block_size' = 0
  BY DEF Merge, Return, Goto, IInv, Resting
<1>2. cursor \in Addresses /\ mem[cursor] # Data
        /\ (next_buf # NULL => mem[next_buf] # Data)
  <2>1. CASE fault = "none"
    <3>1. PICK L \in SUBSET Addresses : Blocks(L)
      BY <1>1, <2>1 DEF IInv, Sound
    <3>2. Tiling(L) /\ cursor \in L /\ next_buf \in L \cup {NULL}
      BY <1>1, <3>1 DEF Blocks, GoingBackward
    <3> QED BY <1>1, <3>2, BlockShape
  <2>2. CASE fault # "none"
    BY <1>1, <2>2 DEF IInv, Faulty
  <2> QED BY <2>1, <2>2
<1>3. mem[cursor] \in Headers /\ (next_buf # NULL => mem[next_buf] \in Headers)
  BY <1>1, <1>2 DEF TypeOK
<1>4. PICK c \in Addresses : c = cursor
  BY <1>2
<1>5. /\ mem' \in [Addresses -> Headers \cup {Data}]
      /\ c # next_buf =>
           /\ mem'[c] = [mem[c] EXCEPT !.next = next_buf, !.size = merge_size]
           /\ next_buf # NULL =>
                mem'[next_buf] = [mem[next_buf] EXCEPT !.prev = c]
           /\ \A x \in Addresses \ {c, next_buf} : mem'[x] = mem[x]
  BY <1>1, <1>3, <1>4, MergeWrites
<1>6. TypeOK'
  BY <1>1, <1>5, NoRequest DEF TypeOK
<1>7. CASE fault # "none"
  BY <1>1, <1>6, <1>7 DEF IInv, Sound, Faulty, Resting
<1>8. CASE fault = "none"
  <2>1. PICK L \in SUBSET Addresses : Blocks(L)
    BY <1>1, <1>8 DEF IInv, Sound
  <2>2. Tiling(L) /\ LinksBack(L) /\ Apart(L) /\ Owned(L)
    BY <2>1 DEF Blocks
  <2>3. /\ target \in L /\ c \in L
        /\ next_buf \in L \cup {NULL}
        /\ c <= target /\ target < NextBlock
        /\ c + merge_size = NextBlock
        /\ \A x \in L : c <= x /\ x < NextBlock => is_free(x)
        /\ next_buf # NULL => InUse(next_buf)
    BY <1>1, <1>4, <2>1 DEF Blocks, GoingBackward
  <2>4. PICK e \in Nat : e = NextBlock
    <3>1. next_buf # NULL => next_buf \in Nat
      BY <1>1, <2>2, <2>3, BlockShape
    <3> QED BY <3>1, PoolAssumption DEF NextBlock
  <2>5. PICK b0 \in L \cup {NULL} : b0 = next_buf
    BY <2>3
  <2>6. (b0 # NULL => b0 = e /\ InUse(e)) /\ (b0 = NULL => e = PoolSize)
    BY <2>3, <2>4, <2>5 DEF NextBlock
  <2>7. c \in Nat /\ target \in Nat /\ c # NULL
    BY <1>1, <2>2, <2>3, BlockShape DEF NULL
  <2>8. merge_size = e - c /\ c # next_buf
    <3>1. merge_size \in Nat
      BY <1>1 DEF TypeOK
    <3>2. c < e
      BY <2>3, <2>4, <2>7
    <3>3. c # b0
      BY <2>6, <2>7, <3>2
    <3> QED BY <2>3, <2>4, <2>5, <2>7, <3>1, <3>3
  <2>9. ASSUME NEW q \in L, next(q) = c, is_free(q) PROVE prev(c) # q
    <3>1. q # NULL /\ mem[q] # Data /\ is_free(q) = TRUE
      BY <1>1, <2>2, <2>9, BlockShape DEF NULL
    <3> QED BY <1>1, <1>4, <3>1, PrevFound
  <2>10. /\ mem'[c] = [mem[c] EXCEPT !.next = b0, !.size = e - c]
         /\ b0 # NULL => mem'[e] = [mem[e] EXCEPT !.prev = c]
         /\ \A x \in Addresses \ {c, b0} : mem'[x] = mem[x]
    BY <1>5, <2>5, <2>6, <2>8
  <2> PICK M : M = Without(L, c, e)
    OBVIOUS
  <2>11. (Tiling(M) /\ LinksBack(M) /\ Apart(M) /\ Owned(M))'
    <3>1. target < e /\ \A x \in L : c <= x /\ x < e => is_free(x)
      BY <2>3, <2>4
    <3>2. allocated' = allocated /\ target' = NULL /\ TypeOK
      BY <1>1
    <3>3. target \in L /\ c \in L /\ c <= target
      BY <2>3
    <3>4. \A q \in L : next(q) = c /\ is_free(q) => prev(c) # q
      BY <2>9
    <3> QED
      BY <2>2, <2>6, <2>10, <3>1, <3>2, <3>3, <3>4, MergeList
  <2>12. M \in SUBSET Addresses
    BY DEF Without
  <2>13. Blocks(M)'
    BY <1>1, <2>11 DEF Blocks, Searching, GoingForward, GoingBackward
  <2> QED BY <1>1, <1>6, <1>8, <2>12, <2>13 DEF IInv, Sound, Faulty, Resting
<1> QED BY <1>7, <1>8

---------------------------------------------------------------------------
(* The invariant, and what follows from it.                                *)

LEMMA NextInv == IInv /\ [Next]_vars => IInv'
<1> SUFFICES ASSUME IInv, [Next]_vars PROVE IInv'
  OBVIOUS
<1>1. CASE MapPool \/ UnmapPool \/ MallocCall \/ FreeCall
  BY <1>1, MapPoolInv, UnmapPoolInv, MallocCallInv, FreeCallInv
<1>2. CASE my_malloc
  BY <1>2, TryNextInv, MallocFailsInv, TakeWholeInv, SplitInv, SplitNothingInv, SplitCrashesInv
     DEF my_malloc
<1>3. CASE my_free
  BY <1>3, ForwardInv, TurnBackInv, BackwardInv, MergeInv DEF my_free
<1>4. CASE UNCHANGED vars
  <2>1. TypeOK' /\ Faulty' /\ Resting'
    BY <1>4 DEF IInv, TypeOK, Faulty, Resting, vars, free_locals
  <2>2. ASSUME NEW L, Blocks(L) PROVE Blocks(L)'
    <3>1. (Tiling(L) /\ LinksBack(L) /\ Apart(L) /\ Owned(L))'
      BY <1>4, <2>2, SameList DEF Blocks, vars
    <3> QED BY <1>4, <2>2, <3>1
            DEF Blocks, Searching, GoingForward, GoingBackward, NextBlock,
                InUse, is_free, size, vars
  <2>3. Sound'
    BY <1>4, <2>2 DEF IInv, Sound, vars
  <2> QED BY <2>1, <2>3 DEF IInv
<1> QED BY <1>1, <1>2, <1>3, <1>4 DEF Next

\* The inductive invariant holds in every state.
THEOREM Invariance == Spec => []IInv
  BY InitInv, NextInv, PTL DEF Spec

\* A set of numbers that has 0 and every successor has all the numbers. (The
\* library's induction takes an operator; a least counterexample does not.)
LEMMA UpTo ==
  ASSUME NEW N \in Nat, NEW S, 0 \in S,
         \A k \in Nat : k < N /\ k \in S => k + 1 \in S
  PROVE  \A k \in 0 .. N : k \in S
<1> DEFINE Missing == {k \in 0 .. N : k \notin S}
<1> SUFFICES ASSUME Missing # {} PROVE FALSE
  OBVIOUS
<1>1. Missing \subseteq Nat
  OBVIOUS
<1>2. PICK n \in Missing : \A m \in Missing : ~ (<<m, n>> \in OpToRel(<, Nat))
  <2> HIDE DEF Missing
  <2> QED BY <1>1, NatLessThanWellFounded, WFMin
<1>3. n \in Nat /\ n # 0 /\ n <= N /\ n \notin S
  OBVIOUS
<1>4. n - 1 \notin Missing
  <2> HIDE DEF Missing
  <2>1. n - 1 \in Missing => <<n - 1, n>> \in OpToRel(<, Nat)
    BY <1>1, <1>3 DEF OpToRel
  <2> QED BY <1>2, <2>1
<1>5. n - 1 \in S /\ n - 1 \in Nat /\ n - 1 < N /\ (n - 1) + 1 = n
  BY <1>3, <1>4
<1> QED BY <1>3, <1>5

\* One turn of the walk over the list.
Step(A) == A \cup ({next(a) : a \in A} \ {NULL})

\* Reached is a function: what can be reached in n steps is there for every n.
LEMMA ReachedSteps ==
  /\ Reached[0] = {0}
  /\ \A k \in 1 .. PoolSize : Reached[k] = Step(Reached[k - 1])
<1> DEFINE Walks(n, f) ==
             f = [k \in 0 .. n |-> IF k = 0 THEN {0} ELSE Step(f[k - 1])]
           S == {n \in 0 .. PoolSize : \E f : Walks(n, f)}
<1>1. 0 \in S
  <2>1. Walks(0, [k \in 0 .. 0 |-> {0}])
    OBVIOUS
  <2> HIDE DEF Walks
  <2>2. 0 \in 0 .. PoolSize
    BY PoolAssumption
  <2> QED BY <2>1, <2>2
<1>2. ASSUME NEW n \in Nat, n < PoolSize, n \in S
      PROVE  n + 1 \in S
  <2>1. PICK f : Walks(n, f)
    BY <1>2
  <2> DEFINE g == [k \in 0 .. n + 1 |-> IF k = n + 1 THEN Step(f[n]) ELSE f[k]]
  <2>2. ASSUME NEW k \in 0 .. n + 1
        PROVE  g[k] = IF k = 0 THEN {0} ELSE Step(g[k - 1])
    <3> HIDE DEF S
    <3>1. CASE k = n + 1
      <4>1. k # 0 /\ k - 1 = n /\ n # n + 1 /\ n \in 0 .. n + 1
        BY <1>2, <3>1
      <4>2. g[n] = f[n] /\ g[k] = Step(f[n])
        BY <3>1, <4>1
      <4> QED BY <4>1, <4>2
    <3>2. CASE k # n + 1
      <4>1. k \in 0 .. n
        BY <1>2, <3>2
      <4>2. g[k] = f[k]
        BY <3>2
      <4>3. f[k] = IF k = 0 THEN {0} ELSE Step(f[k - 1])
        BY <2>1, <4>1
      <4>4. k # 0 => g[k - 1] = f[k - 1]
        BY <1>2, <4>1
      <4> QED BY <4>2, <4>3, <4>4
    <3> QED BY <3>1, <3>2
  <2>3. g = [k \in 0 .. n + 1 |-> g[k]]
    OBVIOUS
  <2> HIDE DEF g
  <2>4. Walks(n + 1, g)
    BY <2>2, <2>3
  <2> HIDE DEF Walks
  <2> QED BY <1>2, <2>4, PoolAssumption
<1>3. PICK f : Walks(PoolSize, f)
  <2> HIDE DEF Walks
  <2>1. \A k \in 0 .. PoolSize : k \in S
    <3> HIDE DEF S
    <3> QED BY <1>1, <1>2, UpTo, PoolAssumption
  <2> QED BY <2>1, PoolAssumption
<1>4. Reached = [k \in 0 .. PoolSize |->
                   IF k = 0 THEN {0} ELSE Step(Reached[k - 1])]
  BY <1>3 DEF Reached, Step
<1>5. ASSUME NEW k \in 0 .. PoolSize
      PROVE  Reached[k] = IF k = 0 THEN {0} ELSE Step(Reached[k - 1])
  BY <1>4
<1> QED BY <1>5, PoolAssumption

\* The blocks of the list are those that can be reached from the start.
LEMMA ListedIs ==
  ASSUME TypeOK, NEW L \in SUBSET Addresses, Tiling(L)
  PROVE  Listed = L
<1>1. \A A : A \subseteq Step(A)
  BY DEF Step
<1>2. Reached[PoolSize] \subseteq L
  <2> DEFINE S == {k \in 0 .. PoolSize : Reached[k] \subseteq L}
  <2>1. 0 \in S
    BY ReachedSteps, PoolAssumption DEF Tiling
  <2>2. ASSUME NEW k \in Nat, k < PoolSize, k \in S PROVE k + 1 \in S
    <3>1. Reached[k + 1] = Step(Reached[k])
      <4>1. k + 1 \in 1 .. PoolSize /\ (k + 1) - 1 = k
        BY <2>2, PoolAssumption
      <4> QED BY <4>1, ReachedSteps
    <3>2. \A a \in L : next(a) \in L \cup {NULL}
      BY DEF Tiling
    <3>3. Reached[k + 1] \subseteq L
      BY <2>2, <3>1, <3>2 DEF Step
    <3> QED BY <2>2, <3>3, PoolAssumption
  <2> HIDE DEF S
  <2>3. PoolSize \in S
    BY <2>1, <2>2, UpTo, PoolAssumption
  <2> QED BY <2>3 DEF S
\* A block at address k is reached in k steps at the most.
<1>3. ASSUME NEW a \in L, NEW k \in 0 .. PoolSize, a <= k
      PROVE  a \in Reached[k]
  <2> DEFINE S == {n \in 0 .. PoolSize : \A x \in L : x <= n => x \in Reached[n]}
  <2>1. 0 \in S
    <3>1. \A x \in L : x <= 0 => x = 0
      <4>1. \A x \in L : x \in Nat
        BY BlockShape
      <4> QED BY <4>1
    <3> QED BY <3>1, ReachedSteps, PoolAssumption
  <2>2. ASSUME NEW n \in Nat, n < PoolSize, n \in S PROVE n + 1 \in S
    <3>1. Reached[n + 1] = Step(Reached[n])
      <4>1. n + 1 \in 1 .. PoolSize /\ (n + 1) - 1 = n
        BY <2>2, PoolAssumption
      <4> QED BY <4>1, ReachedSteps
    <3>2. ASSUME NEW x \in L, x <= n + 1 PROVE x \in Reached[n + 1]
      <4>1. x \in Nat /\ x # NULL
        BY BlockShape DEF NULL
      <4>2. CASE x <= n
        BY <1>1, <2>2, <3>1, <4>2
      <4>3. CASE x = n + 1
        <5>1. PICK y \in L : next(y) = x
          BY <2>2, <4>3 DEF Tiling
        <5>2. y \in Nat /\ size(y) \in Nat /\ size(y) > 0 /\ x = y + size(y)
          BY <4>1, <5>1, BlockShape
        <5>3. y <= n
          BY <2>2, <4>3, <5>2
        <5>4. y \in Reached[n]
          BY <2>2, <5>3
        <5> QED BY <3>1, <4>1, <5>1, <5>4 DEF Step
      <4> QED BY <2>2, <3>2, <4>1, <4>2, <4>3
    <3> QED BY <2>2, <3>2, PoolAssumption
  <2> HIDE DEF S
  <2>3. k \in S
    BY <2>1, <2>2, UpTo, PoolAssumption
  <2> QED BY <1>3, <2>3 DEF S
<1>4. L \subseteq Reached[PoolSize]
  <2>1. \A a \in L : a <= PoolSize
    BY BlockShape, PoolAssumption
  <2> QED BY <1>3, <2>1, PoolAssumption
<1> QED BY <1>2, <1>4 DEF Listed

\* Whatever is allocated, split, freed and merged: between calls the blocks on
\* the list tile the pool, for a pool of any size and any sizes that are asked
\* for, until a merge follows a stale prev or a size wraps.
THEOREM PoolIsTiled == Spec => []TiledUntilFault
<1>1. IInv => TiledUntilFault
  <2> SUFFICES ASSUME IInv PROVE TiledUntilFault
    OBVIOUS
  <2>1. TypeOK
    BY DEF IInv
  <2>2. ASSUME pool, fault = "none" PROVE Tiled
    <3>1. PICK L \in SUBSET Addresses : Blocks(L)
      BY <2>2 DEF IInv, Sound
    <3>2. Tiling(L) /\ Owned(L)
      BY <3>1 DEF Blocks
    <3>3. Listed = L
      BY <2>1, <3>2, ListedIs
    <3>4. \A a \in L : /\ mem[a] # Data
                       /\ size(a) > 0
                       /\ a + size(a) = End(a)
      BY <3>2, DataAssumption DEF Tiling
    <3> QED BY <3>2, <3>3, <3>4 DEF Tiled, Owned, InUse
  <2> QED BY <2>1, <2>2 DEF TiledUntilFault, Quiet
<1> QED BY <1>1, Invariance, PTL

\* When everything has been freed, one block is left. If there were two, the
\* second would have a right prev, as no block in use can make it stale, and
\* the two would have been merged when the later one of them was freed.
THEOREM GrownTogether == Spec => []AllFreeIsOneBlock
<1>1. IInv => AllFreeIsOneBlock
  <2> SUFFICES ASSUME IInv, Quiet, fault = "none", allocated = {}
               PROVE  is_free(0) /\ size(0) = PoolSize /\ next(0) = NULL
                        /\ prev(0) = NULL
    BY DEF AllFreeIsOneBlock
  <2>1. TypeOK /\ target = NULL
    BY DEF IInv, Resting, Quiet
  <2>2. PICK L \in SUBSET Addresses : Blocks(L)
    BY DEF IInv, Sound, Quiet
  <2>3. Tiling(L) /\ LinksBack(L) /\ Apart(L) /\ Owned(L)
    BY <2>2 DEF Blocks
  <2>4. \A a \in L : is_free(a) /\ a # NULL
    <3>1. \A a \in L : a # NULL
      BY <2>1, <2>3, BlockShape DEF NULL
    <3> QED BY <2>3, <3>1 DEF Owned, InUse
  <2>5. ASSUME NEW b \in L \ {0} PROVE FALSE
    <3>1. ~Separated(L, prev(b), b)
      BY <2>1, <2>4 DEF Separated, InUse
    <3>2. prev(b) \in L /\ next(prev(b)) = b
      BY <2>3, <3>1 DEF LinksBack
    <3> QED BY <2>1, <2>3, <2>4, <3>2 DEF Apart
  <2>6. 0 \in L
    BY <2>3 DEF Tiling
  <2>7. next(0) = NULL
    <3> SUFFICES ASSUME next(0) # NULL PROVE FALSE
      OBVIOUS
    <3>1. next(0) \in L /\ next(0) = 0 + size(0) /\ size(0) \in Nat /\ size(0) > 0
      BY <2>1, <2>3, <2>6, BlockShape
    <3> QED BY <2>5, <3>1
  <2>8. size(0) = PoolSize
    <3>1. size(0) \in Nat /\ 0 + size(0) = PoolSize
      BY <2>1, <2>3, <2>6, <2>7, BlockShape
    <3> QED BY <3>1
  <2>9. prev(0) = NULL
    BY <2>3 DEF LinksBack
  <2> QED BY <2>4, <2>6, <2>7, <2>8, <2>9
<1> QED BY <1>1, Invariance, PTL

---------------------------------------------------------------------------
(* The test of the best fit, for a kilobyte of any number of headers and a *)
(* pool of any size that has room for it.                                  *)

\* What the test takes for granted of the sizes, as SmallPrograms assumes it.
RoomForTest == KiB \in Nat /\ KiB >= 2 /\ PoolSize > 9 * KiB + 5

\* Where the blocks of the test begin.
Sec == KiB + 1
Third == 2 * KiB + 2
Fourth == 5 * KiB + 3
Half == 6 * KiB + 4
Slice == 6 * KiB + 3
Fifth == 7 * KiB + 4
Last == 9 * KiB + 5

\* A block that is in use, and one that is free.
Busy(m, a, s, n, p) == m[a] = [is_free |-> FALSE, size |-> s, next |-> n, prev |-> p]
Spare(m, a, s, n, p) == m[a] = [is_free |-> TRUE, size |-> s, next |-> n, prev |-> p]

FirstTwo(m) == Busy(m, 0, KiB + 1, Sec, -1) /\ Busy(m, Sec, KiB + 1, Third, 0)

\* The front, with all behind it free.
FrontOnly(m) == FirstTwo(m) /\ Spare(m, Third, PoolSize - Third, -1, Sec)
FirstOnly(m) == Busy(m, 0, KiB + 1, Sec, -1) /\ Spare(m, Sec, PoolSize - Sec, -1, 0)

Front(m) == FirstTwo(m) /\ Busy(m, Third, 3 * KiB + 1, Fourth, Sec)
FrontFreed(m) == FirstTwo(m) /\ Spare(m, Third, 3 * KiB + 1, Fourth, Sec)

\* The last two blocks; what the first of them has for a prev may be stale.
Back(m, p) ==
  /\ Busy(m, Fifth, 2 * KiB + 1, Last, p)
  /\ Spare(m, Last, PoolSize - Last, -1, Fifth)

\* The middle, merged and cut again.
Middle(m) == FirstTwo(m) /\ Spare(m, Third, 5 * KiB + 2, Fifth, Sec)

Freed == pc \in {"forward", "backward"}

\* Before the block of call k is marked as free, and from then on.
At(k) == call = k /\ ~Freed
In(k) == call = k /\ Freed

\* What the pool looks like at each call of the test, and in a call of my_free
\* when the block is marked as free.
Layout ==
  /\ call \in {1, 19} => Spare(mem, 0, PoolSize, -1, -1)
  /\ call = 2 => FirstOnly(mem)
  /\ At(3) => FrontOnly(mem)
  /\ call = 4 \/ In(3) =>
       /\ Spare(mem, 0, KiB + 1, Sec, -1) /\ Busy(mem, Sec, KiB + 1, Third, 0)
       /\ Spare(mem, Third, PoolSize - Third, -1, Sec)
  /\ call = 5 => FrontOnly(mem)
  /\ call = 6 => Front(mem) /\ Spare(mem, Fourth, PoolSize - Fourth, -1, Third)
  /\ call = 7 => /\ Front(mem) /\ Busy(mem, Fourth, 2 * KiB + 1, Fifth, Third)
                 /\ Spare(mem, Fifth, PoolSize - Fifth, -1, Fourth)
  /\ At(8) =>
       Front(mem) /\ Busy(mem, Fourth, 2 * KiB + 1, Fifth, Third) /\ Back(mem, Fourth)
  /\ call = 9 \/ In(8) =>
       Front(mem) /\ Spare(mem, Fourth, 2 * KiB + 1, Fifth, Third) /\ Back(mem, Fourth)
  /\ call = 10 =>
       /\ Front(mem) /\ Busy(mem, Fourth, KiB + 1, Half, Third)
       /\ Spare(mem, Half, KiB, Fifth, Fourth) /\ Back(mem, Fourth)
  /\ At(11) =>
       /\ Front(mem) /\ Busy(mem, Fourth, KiB + 1, Half, Third)
       /\ Busy(mem, Half, KiB, Fifth, Fourth) /\ Back(mem, Fourth)
  /\ At(12) \/ In(11) =>
       /\ FrontFreed(mem) /\ Busy(mem, Fourth, KiB + 1, Half, Third)
       /\ Busy(mem, Half, KiB, Fifth, Fourth) /\ Back(mem, Fourth)
  /\ In(12) =>
       /\ FrontFreed(mem) /\ Busy(mem, Fourth, KiB + 1, Half, Third)
       /\ Spare(mem, Half, KiB, Fifth, Fourth) /\ Back(mem, Fourth)
  /\ At(13) =>
       /\ FrontFreed(mem) /\ Busy(mem, Fourth, KiB + 1, Half, Third)
       /\ Spare(mem, Half, KiB, Fifth, Fourth) /\ Back(mem, Half)
  /\ In(13) =>
       /\ FrontFreed(mem) /\ Spare(mem, Fourth, KiB + 1, Half, Third)
       /\ Spare(mem, Half, KiB, Fifth, Fourth) /\ Back(mem, Half)
  /\ call = 14 => Middle(mem) /\ Back(mem, Third)
  /\ At(15) =>
       /\ FirstTwo(mem) /\ Busy(mem, Third, 4 * KiB + 1, Slice, Sec)
       /\ Spare(mem, Slice, KiB + 1, Fifth, Third) /\ Back(mem, Third)
  /\ In(15) =>
       /\ FirstTwo(mem) /\ Spare(mem, Third, 4 * KiB + 1, Slice, Sec)
       /\ Spare(mem, Slice, KiB + 1, Fifth, Third) /\ Back(mem, Third)
  /\ At(16) => Middle(mem) /\ Back(mem, Third)
  /\ In(16) =>
       /\ Middle(mem) /\ Spare(mem, Fifth, 2 * KiB + 1, Last, Third)
       /\ Spare(mem, Last, PoolSize - Last, -1, Fifth)
  /\ At(17) => FrontOnly(mem)
  /\ In(17) =>
       /\ Busy(mem, 0, KiB + 1, Sec, -1) /\ Spare(mem, Sec, KiB + 1, Third, 0)
       /\ Spare(mem, Third, PoolSize - Third, -1, Sec)
  /\ At(18) => FirstOnly(mem)
  /\ In(18) =>
       Spare(mem, 0, KiB + 1, Sec, -1) /\ Spare(mem, Sec, PoolSize - Sec, -1, 0)
  /\ call \in {20, 21} => Busy(mem, 0, PoolSize, -1, -1)

\* What the callers have.
InHands ==
  /\ call \in {0, 1, 19, 22} \/ In(18) => allocated = {}
  /\ call \in {2, 20, 21} \/ At(18) \/ In(17) => allocated = {0}
  /\ At(3) => allocated = {0, Sec}
  /\ call = 4 \/ In(3) => allocated = {Sec}
  /\ call = 5 => allocated = {0, Sec}
  /\ call = 6 => allocated = {0, Sec, Third}
  /\ call = 7 => allocated = {0, Sec, Third, Fourth}
  /\ At(8) => allocated = {0, Sec, Third, Fourth, Fifth}
  /\ call = 9 \/ In(8) => allocated = {0, Sec, Third, Fifth}
  /\ call = 10 => allocated = {0, Sec, Third, Fourth, Fifth}
  /\ At(11) => allocated = {0, Sec, Third, Fourth, Half, Fifth}
  /\ At(12) \/ In(11) =>
       allocated = {0, Sec, Fourth, Half, Fifth}
  /\ At(13) \/ In(12) => allocated = {0, Sec, Fourth, Fifth}
  /\ call = 14 \/ In(13) => allocated = {0, Sec, Fifth}
  /\ At(15) => allocated = {0, Sec, Third, Fifth}
  /\ At(16) \/ In(15) => allocated = {0, Sec, Fifth}
  /\ At(17) \/ In(16) => allocated = {0, Sec}

\* In a call of my_malloc, for so many units, the search is at one of these.
SearchAt(n, S) ==
  /\ pc \in {"idle", "fit"}
  /\ pc = "fit" => block_size = n /\ cursor \in S

\* In a call of my_free the walk forward goes over some blocks, the one back over
\* others; what is merged ends behind the cursor, and then begins at it.
Freeing(t, ahead, behind, after, end) ==
  /\ pc \in {"idle", "forward", "backward"}
  /\ pc # "idle" => target = t
  /\ pc = "forward" => /\ cursor \in ahead
                       /\ merge_size = cursor + mem[cursor].size - t
  /\ pc = "backward" => /\ cursor \in behind /\ next_buf = after
                        /\ merge_size = end - cursor

Progress ==
  /\ call = 1 => SearchAt(KiB + 1, {0})
  /\ call = 2 => SearchAt(KiB + 1, {0, Sec})
  /\ call = 3 => Freeing(0, {0}, {0}, Sec, Sec)
  /\ call = 4 => SearchAt(KiB + 1, {0})
  /\ call = 5 => SearchAt(3 * KiB + 1, {0, Sec, Third})
  /\ call = 6 => SearchAt(2 * KiB + 1, {0, Sec, Third, Fourth})
  /\ call = 7 => SearchAt(2 * KiB + 1, {0, Sec, Third, Fourth, Fifth})
  /\ call = 8 => Freeing(Fourth, {Fourth}, {Fourth}, Fifth, Fifth)
  /\ call = 9 => SearchAt(KiB + 1, {0, Sec, Third, Fourth})
  /\ call = 10 => SearchAt(KiB, {0, Sec, Third, Fourth, Half})
  /\ call = 11 => Freeing(Third, {Third}, {Third}, Fourth, Fourth)
  /\ call = 12 => Freeing(Half, {Half}, {Half}, Fifth, Fifth)
  /\ call = 13 => Freeing(Fourth, {Fourth, Half}, {Fourth, Third}, Fifth, Fifth)
  /\ call = 14 => SearchAt(4 * KiB + 1, {0, Sec, Third})
  /\ call = 15 => Freeing(Third, {Third, Slice}, {Third}, Fifth, Fifth)
  /\ call = 16 => Freeing(Fifth, {Fifth, Last}, {Fifth, Third}, -1, PoolSize)
  /\ call = 17 => Freeing(Sec, {Sec, Third}, {Sec}, -1, PoolSize)
  /\ call = 18 => Freeing(0, {0, Sec}, {0}, -1, PoolSize)
  /\ call = 19 => SearchAt(PoolSize, {0})
  /\ call = 20 => SearchAt(2, {0})
  /\ call \in {0, 21, 22} => pc = "idle"

\* What has been handed out.
Pointers ==
  /\ call > 1 => ptr[1] = 0
  /\ call > 2 => ptr[2] = Sec
  /\ call > 4 => ptr[3] = 0
  /\ call > 5 => ptr[4] = Third
  /\ call > 6 => ptr[5] = Fourth
  /\ call > 7 => ptr[6] = Fifth
  /\ call > 9 => ptr[7] = Fourth
  /\ call > 10 => ptr[8] = Half
  /\ call > 14 => ptr[9] = Third
  /\ call > 19 => ptr[10] = 0
  /\ call > 20 => ptr[11] = -1

Places == 0 .. PoolSize - 1

Memories == [Places -> Headers \cup {Data}]

AtRest == cursor = -1 /\ block_size = 0 /\ target = -1 /\ merge_size = 0 /\ next_buf = -1

Basic ==
  /\ call \in 0 .. 22
  /\ pool \in BOOLEAN /\ (pool <=> call \in 1 .. 21)
  /\ fault = "none"
  /\ mem \in Memories
  /\ ptr \in [1 .. 11 -> Int]
  /\ pc \in {"idle", "fit", "forward", "backward"}
  /\ pc = "idle" => AtRest
  /\ cursor \in Places \cup {-1} /\ target \in Places \cup {-1}
  /\ next_buf \in Places \cup {-1}
  /\ block_size \in 0 .. SIZE_MAX /\ merge_size \in Nat

BestFitTestInv == Basic /\ Layout /\ InHands /\ Progress /\ Pointers

LEMMA PlacesOfTest ==
  ASSUME RoomForTest
  PROVE  /\ KiB \in Int /\ KiB >= 2 /\ PoolSize \in Int /\ SIZE_MAX \in Int
         /\ SIZE_MAX >= PoolSize
         /\ Sec \in Places /\ Third \in Places /\ Fourth \in Places /\ Half \in Places
         /\ Slice \in Places /\ Fifth \in Places /\ Last \in Places /\ 0 \in Places
         /\ Sec = KiB + 1 /\ Third = Sec + KiB + 1 /\ Fourth = Third + 3 * KiB + 1
         /\ Half = Fourth + KiB + 1 /\ Fifth = Half + KiB /\ Fifth = Fourth + 2 * KiB + 1
         /\ Slice = Third + 4 * KiB + 1 /\ Fifth = Slice + KiB + 1
         /\ Fifth = Third + 5 * KiB + 2
         /\ Last = Fifth + 2 * KiB + 1 /\ PoolSize > Last
BY PoolAssumption DEF RoomForTest, Sec, Third, Fourth, Half, Slice, Fifth, Last,
   Places

\* They and the sizes of the blocks are numbers.
LEMMA NumbersOfTest ==
  ASSUME RoomForTest
  PROVE  /\ KiB \in Nat /\ PoolSize \in Nat /\ Sec \in Nat /\ Third \in Nat
         /\ Fourth \in Nat /\ Half \in Nat /\ Slice \in Nat /\ Fifth \in Nat
         /\ Last \in Nat
BY PoolAssumption DEF RoomForTest, Sec, Third, Fourth, Half, Slice, Fifth, Last

Mallocs(k, n, s) ==
  /\ Script[k].name = "malloc" /\ Script[k].number = n
  /\ Script[k].size = s

Frees(k, n) ==
  Script[k].name = "free" /\ Script[k].number = n

LEMMA ScriptIs ==
  /\ DOMAIN Script = 1 .. 20 /\ Len(Script) = 20
  /\ Mallocs(1, 1, KiB) /\ Mallocs(2, 2, KiB) /\ Frees(3, 1) /\ Mallocs(4, 3, KiB)
  /\ Mallocs(5, 4, 3 * KiB) /\ Mallocs(6, 5, 2 * KiB) /\ Mallocs(7, 6, 2 * KiB)
  /\ Frees(8, 5) /\ Mallocs(9, 7, KiB) /\ Mallocs(10, 8, KiB - 1) /\ Frees(11, 4)
  /\ Frees(12, 8) /\ Frees(13, 7) /\ Mallocs(14, 9, 4 * KiB) /\ Frees(15, 9)
  /\ Frees(16, 6) /\ Frees(17, 2) /\ Frees(18, 3) /\ Mallocs(19, 10, PoolSize - 1)
  /\ Mallocs(20, 11, 1)
<1>1. DOMAIN Script = 1 .. 20 /\ Len(Script) = 20
  BY DEF Script
<1>2. /\ Mallocs(1, 1, KiB) /\ Mallocs(2, 2, KiB) /\ Frees(3, 1) /\ Mallocs(4, 3, KiB)
      /\ Mallocs(5, 4, 3 * KiB) /\ Mallocs(6, 5, 2 * KiB) /\ Mallocs(7, 6, 2 * KiB)
      /\ Frees(8, 5) /\ Mallocs(9, 7, KiB) /\ Mallocs(10, 8, KiB - 1) /\ Frees(11, 4)
  BY DEF Script, Mallocs, Frees, malloc, free, overhead, Header
<1>3. /\ Frees(12, 8) /\ Frees(13, 7) /\ Mallocs(14, 9, 4 * KiB) /\ Frees(15, 9)
      /\ Frees(16, 6) /\ Frees(17, 2) /\ Frees(18, 3) /\ Mallocs(19, 10, PoolSize - 1)
      /\ Mallocs(20, 11, 1)
  BY DEF Script, Mallocs, Frees, malloc, free, overhead, Header
<1> QED BY <1>1, <1>2, <1>3

LEMMA HeaderTypes ==
  ASSUME NEW f \in BOOLEAN, NEW s \in Nat, NEW n \in Places \cup {-1},
         NEW p \in Places \cup {-1}
  PROVE  [is_free |-> f, size |-> s, next |-> n, prev |-> p] \in Headers
BY DEF Headers, Addresses, NULL, Places

\* What an assignment to one field of a header does.
LEMMA SpareWrites ==
  ASSUME NEW s, NEW n, NEW p, NEW x, NEW h, NEW q,
         h = [is_free |-> TRUE, size |-> s, next |-> n, prev |-> p]
  PROVE  /\ q = [h EXCEPT !.is_free = FALSE] =>
              q = [is_free |-> FALSE, size |-> s, next |-> n, prev |-> p]
         /\ q = [h EXCEPT !.size = x] =>
              q = [is_free |-> TRUE, size |-> x, next |-> n, prev |-> p]
         /\ q = [h EXCEPT !.next = x] =>
              q = [is_free |-> TRUE, size |-> s, next |-> x, prev |-> p]
         /\ q = [h EXCEPT !.prev = x] =>
              q = [is_free |-> TRUE, size |-> s, next |-> n, prev |-> x]
<1>1. ASSUME q = [h EXCEPT !.is_free = FALSE]
      PROVE  q = [is_free |-> FALSE, size |-> s, next |-> n, prev |-> p]
  BY <1>1
<1>2. ASSUME q = [h EXCEPT !.size = x]
      PROVE  q = [is_free |-> TRUE, size |-> x, next |-> n, prev |-> p]
  BY <1>2
<1>3. ASSUME q = [h EXCEPT !.next = x]
      PROVE  q = [is_free |-> TRUE, size |-> s, next |-> x, prev |-> p]
  BY <1>3
<1>4. ASSUME q = [h EXCEPT !.prev = x]
      PROVE  q = [is_free |-> TRUE, size |-> s, next |-> n, prev |-> x]
  BY <1>4
<1> QED BY <1>1, <1>2, <1>3, <1>4

LEMMA BusyWrites ==
  ASSUME NEW s, NEW n, NEW p, NEW x, NEW h, NEW q,
         h = [is_free |-> FALSE, size |-> s, next |-> n, prev |-> p]
  PROVE  /\ q = [h EXCEPT !.is_free = TRUE] =>
              q = [is_free |-> TRUE, size |-> s, next |-> n, prev |-> p]
         /\ q = [h EXCEPT !.size = x] =>
              q = [is_free |-> FALSE, size |-> x, next |-> n, prev |-> p]
         /\ q = [h EXCEPT !.next = x] =>
              q = [is_free |-> FALSE, size |-> s, next |-> x, prev |-> p]
         /\ q = [h EXCEPT !.prev = x] =>
              q = [is_free |-> FALSE, size |-> s, next |-> n, prev |-> x]
<1>1. ASSUME q = [h EXCEPT !.is_free = TRUE]
      PROVE  q = [is_free |-> TRUE, size |-> s, next |-> n, prev |-> p]
  BY <1>1
<1>2. ASSUME q = [h EXCEPT !.size = x]
      PROVE  q = [is_free |-> FALSE, size |-> x, next |-> n, prev |-> p]
  BY <1>2
<1>3. ASSUME q = [h EXCEPT !.next = x]
      PROVE  q = [is_free |-> FALSE, size |-> s, next |-> x, prev |-> p]
  BY <1>3
<1>4. ASSUME q = [h EXCEPT !.prev = x]
      PROVE  q = [is_free |-> FALSE, size |-> s, next |-> n, prev |-> x]
  BY <1>4
<1> QED BY <1>1, <1>2, <1>3, <1>4

\* The assignments.
MarkUsed(m, c) == [m EXCEPT ![c].is_free = FALSE]
MarkFree(m, c) == [m EXCEPT ![c].is_free = TRUE]
SetSize(m, c, x) == [m EXCEPT ![c].size = x]
SetNext(m, c, x) == [m EXCEPT ![c].next = x]
SetPrev(m, c, x) == [m EXCEPT ![c].prev = x]

\* Memories that only differ in what is at one place.
Differ(k, m, c) ==
  /\ k \in Memories /\ DOMAIN k = Places
  /\ \A a \in Places : a # c => k[a] = m[a]

LEMMA SpareFields ==
  ASSUME NEW m \in Memories, NEW c \in Places, NEW s \in Nat,
         NEW n \in Places \cup {-1}, NEW p \in Places \cup {-1},
         Spare(m, c, s, n, p), NEW k
  PROVE  /\ k = MarkUsed(m, c) =>
              Busy(k, c, s, n, p) /\ Differ(k, m, c)
         /\ \A x \in Nat : k = SetSize(m, c, x) =>
              Spare(k, c, x, n, p) /\ Differ(k, m, c)
         /\ \A x \in Places \cup {-1} : k = SetNext(m, c, x) =>
              Spare(k, c, s, x, p) /\ Differ(k, m, c)
         /\ \A x \in Places \cup {-1} : k = SetPrev(m, c, x) =>
              Spare(k, c, s, n, x) /\ Differ(k, m, c)
<1>1. PICK h : h = m[c]
  OBVIOUS
<1>2. h = [is_free |-> TRUE, size |-> s, next |-> n, prev |-> p]
  BY <1>1 DEF Spare
<1>3. DOMAIN m = Places
  BY DEF Memories
<1>4. ASSUME k = MarkUsed(m, c)
      PROVE  Busy(k, c, s, n, p) /\ Differ(k, m, c)
  <2>1. PICK q : q = k[c]
    OBVIOUS
  <2>2. q = [h EXCEPT !.is_free = FALSE] /\ k = [m EXCEPT ![c] = q]
    BY <1>1, <1>3, <1>4, <2>1 DEF MarkUsed, MarkFree, SetSize, SetNext, SetPrev
  <2>3. q = [is_free |-> FALSE, size |-> s, next |-> n, prev |-> p]
    BY <1>2, <2>2, SpareWrites
  <2>4. q \in Headers
    BY <1>4, <2>3, HeaderTypes
  <2> QED BY <1>3, <2>1, <2>2, <2>3, <2>4 DEF Busy,
       Differ, Memories
<1>5. ASSUME NEW x \in Nat, k = SetSize(m, c, x)
      PROVE  Spare(k, c, x, n, p) /\ Differ(k, m, c)
  <2>1. PICK q : q = k[c]
    OBVIOUS
  <2>2. q = [h EXCEPT !.size = x] /\ k = [m EXCEPT ![c] = q]
    BY <1>1, <1>3, <1>5, <2>1 DEF MarkUsed, MarkFree, SetSize, SetNext, SetPrev
  <2>3. q = [is_free |-> TRUE, size |-> x, next |-> n, prev |-> p]
    BY <1>2, <2>2, SpareWrites
  <2>4. q \in Headers
    BY <1>5, <2>3, HeaderTypes
  <2> QED BY <1>3, <2>1, <2>2, <2>3, <2>4 DEF Spare,
       Differ, Memories
<1>6. ASSUME NEW x \in Places \cup {-1}, k = SetNext(m, c, x)
      PROVE  Spare(k, c, s, x, p) /\ Differ(k, m, c)
  <2>1. PICK q : q = k[c]
    OBVIOUS
  <2>2. q = [h EXCEPT !.next = x] /\ k = [m EXCEPT ![c] = q]
    BY <1>1, <1>3, <1>6, <2>1 DEF MarkUsed, MarkFree, SetSize, SetNext, SetPrev
  <2>3. q = [is_free |-> TRUE, size |-> s, next |-> x, prev |-> p]
    BY <1>2, <2>2, SpareWrites
  <2>4. q \in Headers
    BY <1>6, <2>3, HeaderTypes
  <2> QED BY <1>3, <2>1, <2>2, <2>3, <2>4 DEF Spare,
       Differ, Memories
<1>7. ASSUME NEW x \in Places \cup {-1}, k = SetPrev(m, c, x)
      PROVE  Spare(k, c, s, n, x) /\ Differ(k, m, c)
  <2>1. PICK q : q = k[c]
    OBVIOUS
  <2>2. q = [h EXCEPT !.prev = x] /\ k = [m EXCEPT ![c] = q]
    BY <1>1, <1>3, <1>7, <2>1 DEF MarkUsed, MarkFree, SetSize, SetNext, SetPrev
  <2>3. q = [is_free |-> TRUE, size |-> s, next |-> n, prev |-> x]
    BY <1>2, <2>2, SpareWrites
  <2>4. q \in Headers
    BY <1>7, <2>3, HeaderTypes
  <2> QED BY <1>3, <2>1, <2>2, <2>3, <2>4 DEF Spare,
       Differ, Memories
<1> QED BY <1>4, <1>5, <1>6, <1>7

LEMMA BusyFields ==
  ASSUME NEW m \in Memories, NEW c \in Places, NEW s \in Nat,
         NEW n \in Places \cup {-1}, NEW p \in Places \cup {-1},
         Busy(m, c, s, n, p), NEW k
  PROVE  /\ k = MarkFree(m, c) =>
              Spare(k, c, s, n, p) /\ Differ(k, m, c)
         /\ \A x \in Nat : k = SetSize(m, c, x) =>
              Busy(k, c, x, n, p) /\ Differ(k, m, c)
         /\ \A x \in Places \cup {-1} : k = SetNext(m, c, x) =>
              Busy(k, c, s, x, p) /\ Differ(k, m, c)
         /\ \A x \in Places \cup {-1} : k = SetPrev(m, c, x) =>
              Busy(k, c, s, n, x) /\ Differ(k, m, c)
<1>1. PICK h : h = m[c]
  OBVIOUS
<1>2. h = [is_free |-> FALSE, size |-> s, next |-> n, prev |-> p]
  BY <1>1 DEF Busy
<1>3. DOMAIN m = Places
  BY DEF Memories
<1>4. ASSUME k = MarkFree(m, c)
      PROVE  Spare(k, c, s, n, p) /\ Differ(k, m, c)
  <2>1. PICK q : q = k[c]
    OBVIOUS
  <2>2. q = [h EXCEPT !.is_free = TRUE] /\ k = [m EXCEPT ![c] = q]
    BY <1>1, <1>3, <1>4, <2>1 DEF MarkUsed, MarkFree, SetSize, SetNext, SetPrev
  <2>3. q = [is_free |-> TRUE, size |-> s, next |-> n, prev |-> p]
    BY <1>2, <2>2, BusyWrites
  <2>4. q \in Headers
    BY <1>4, <2>3, HeaderTypes
  <2> QED BY <1>3, <2>1, <2>2, <2>3, <2>4 DEF Spare,
       Differ, Memories
<1>5. ASSUME NEW x \in Nat, k = SetSize(m, c, x)
      PROVE  Busy(k, c, x, n, p) /\ Differ(k, m, c)
  <2>1. PICK q : q = k[c]
    OBVIOUS
  <2>2. q = [h EXCEPT !.size = x] /\ k = [m EXCEPT ![c] = q]
    BY <1>1, <1>3, <1>5, <2>1 DEF MarkUsed, MarkFree, SetSize, SetNext, SetPrev
  <2>3. q = [is_free |-> FALSE, size |-> x, next |-> n, prev |-> p]
    BY <1>2, <2>2, BusyWrites
  <2>4. q \in Headers
    BY <1>5, <2>3, HeaderTypes
  <2> QED BY <1>3, <2>1, <2>2, <2>3, <2>4 DEF Busy,
       Differ, Memories
<1>6. ASSUME NEW x \in Places \cup {-1}, k = SetNext(m, c, x)
      PROVE  Busy(k, c, s, x, p) /\ Differ(k, m, c)
  <2>1. PICK q : q = k[c]
    OBVIOUS
  <2>2. q = [h EXCEPT !.next = x] /\ k = [m EXCEPT ![c] = q]
    BY <1>1, <1>3, <1>6, <2>1 DEF MarkUsed, MarkFree, SetSize, SetNext, SetPrev
  <2>3. q = [is_free |-> FALSE, size |-> s, next |-> x, prev |-> p]
    BY <1>2, <2>2, BusyWrites
  <2>4. q \in Headers
    BY <1>6, <2>3, HeaderTypes
  <2> QED BY <1>3, <2>1, <2>2, <2>3, <2>4 DEF Busy,
       Differ, Memories
<1>7. ASSUME NEW x \in Places \cup {-1}, k = SetPrev(m, c, x)
      PROVE  Busy(k, c, s, n, x) /\ Differ(k, m, c)
  <2>1. PICK q : q = k[c]
    OBVIOUS
  <2>2. q = [h EXCEPT !.prev = x] /\ k = [m EXCEPT ![c] = q]
    BY <1>1, <1>3, <1>7, <2>1 DEF MarkUsed, MarkFree, SetSize, SetNext, SetPrev
  <2>3. q = [is_free |-> FALSE, size |-> s, next |-> n, prev |-> x]
    BY <1>2, <2>2, BusyWrites
  <2>4. q \in Headers
    BY <1>7, <2>3, HeaderTypes
  <2> QED BY <1>3, <2>1, <2>2, <2>3, <2>4 DEF Busy,
       Differ, Memories
<1> QED BY <1>4, <1>5, <1>6, <1>7

\* The step of a call that returns a block.
Returns(n, c) ==
  /\ pc' = "idle" /\ AtRest' /\ pool' = pool /\ fault' = "none"
  /\ call' = call + 1
  /\ allocated' = allocated \cup {c}
  /\ c \notin allocated => ptr' = [ptr EXCEPT ![n] = c]

LEMMA MallocReturns ==
  ASSUME Basic, Run, pc' = "idle", NEW n,
         Script[call].name = "malloc", Script[call].number = n,
         NEW c, allocated' = allocated \cup {c}
  PROVE  /\ call' = call + 1
         /\ c \notin allocated => ptr' = [ptr EXCEPT ![n] = c]
<1>1. call' = call + 1 /\ ptr' = [ptr EXCEPT ![n] = Returned]
  BY DEF Run
<1>2. ASSUME c \notin allocated PROVE Returned = c
  <2>1. allocated' # allocated
    BY <1>2
  <2>2. c \in allocated' /\ \A a \in allocated' : a \notin allocated => a = c
    BY <1>2
  <2>3. Returned = CHOOSE a \in allocated' : a \notin allocated
    BY <2>1 DEF Returned
  <2> QED BY <1>2, <2>2, <2>3
<1> QED BY <1>1, <1>2

LEMMA BlockSizeIs ==
  ASSUME RoomForTest, NEW k \in Nat, k + 1 <= PoolSize
  PROVE  BlockSize(k) = k + 1
<1>1. k + 1 \in Nat /\ SIZE_MAX + 1 \in Nat /\ k + 1 < SIZE_MAX + 1
  BY PlacesOfTest
<1>2. (k + 1) % (SIZE_MAX + 1) = k + 1
  BY <1>1
<1> QED BY <1>2 DEF BlockSize, Header

\* The steps of a search: a block in use is passed, a free one is taken or split.
Stays(c) ==
  /\ pool' = pool /\ mem' = mem /\ allocated' = allocated /\ fault' = fault
  /\ call' = call /\ ptr' = ptr /\ pc' = pc /\ cursor' = c

LEMMA InSearch ==
  ASSUME Basic, TestNext, pc = "fit"
  PROVE  Run /\ my_malloc
BY DEF Basic, TestNext, test_best_fit_allocator, Begin, MapPool, Call, MallocCall,
   FreeCall, Goto, Finish, UnmapPool, Run, my_free, Forward, TurnBack, Backward, Merge

LEMMA Passes ==
  ASSUME Basic, TestNext, pc = "fit",
         NEW s, NEW n, NEW p, Busy(mem, cursor, s, n, p), n # -1
  PROVE  /\ Stays(n) /\ block_size' = block_size /\ target' = target
         /\ merge_size' = merge_size /\ next_buf' = next_buf
<1>1. Run /\ my_malloc
  BY InSearch
<1>2. ~Fits(cursor) /\ next(cursor) = n
  BY DEF Busy, Fits, is_free, next
<1>3. TryNext
  BY <1>1, <1>2 DEF my_malloc, TakeWhole, Split, SplitNothing, SplitCrashes, MallocFails, NULL
<1> QED BY <1>1, <1>2, <1>3 DEF TryNext, Run, Stays, free_locals

LEMMA RunsOut ==
  ASSUME Basic, TestNext, pc = "fit", NEW i1,
         Script[call].name = "malloc", Script[call].number = i1,
         NEW s, NEW p, Busy(mem, cursor, s, -1, p)
  PROVE  /\ pc' = "idle" /\ AtRest' /\ pool' = pool /\ fault' = "none" /\ mem' = mem
         /\ call' = call + 1 /\ allocated' = allocated /\ ptr' = [ptr EXCEPT ![i1] = -1]
<1>1. Run /\ my_malloc
  BY InSearch
<1>2. ~Fits(cursor) /\ next(cursor) = -1
  BY DEF Busy, Fits, is_free, next
<1>3. MallocFails
  BY <1>1, <1>2 DEF my_malloc, TakeWhole, Split, SplitNothing, SplitCrashes, TryNext, NULL
<1>4. allocated' = allocated => Returned = -1
  BY DEF Returned, NULL
<1> QED BY <1>1, <1>3, <1>4 DEF MallocFails, Return, Goto, Run, AtRest, Basic, NULL

\* A free block of the right size is taken as it is.
LEMMA WholeTaken ==
  ASSUME Basic, TestNext, pc = "fit", NEW i1,
         Script[call].name = "malloc", Script[call].number = i1,
         cursor \in Places, NEW s \in Nat \ {0}, NEW n \in Places \cup {-1},
         NEW p \in Places \cup {-1}, Spare(mem, cursor, s, n, p), block_size = s
  PROVE  /\ Returns(i1, cursor) /\ mem' \in Memories
         /\ Busy(mem', cursor, s, n, p)
         /\ \A a \in Places : a < cursor \/ a >= cursor + s => mem'[a] = mem[a]
<1>1. Run /\ my_malloc
  BY InSearch
<1>2. /\ Fits(cursor) /\ size(cursor) = s
      /\ s < block_size + Header
      /\ ~(s >= block_size + Header)
  BY DEF Spare, Fits, is_free, size, Header
<1>3. TakeWhole
  BY <1>1, <1>2 DEF my_malloc, MallocFails, Split, SplitNothing, SplitCrashes, TryNext
<1>4. PICK m : m = MarkUsed(mem, cursor)
  OBVIOUS
<1>5. Busy(m, cursor, s, n, p) /\ Differ(m, mem, cursor)
  <2>1. mem \in Memories /\ s \in Nat
    BY DEF Basic
  <2> QED BY <1>4, <2>1, SpareFields
<1>6. mem' = [x \in Places |-> IF x \in cursor + 1 .. cursor + s - 1 THEN Data ELSE m[x]]
  BY <1>2, <1>3, <1>4 DEF TakeWhole, HandOut, Addresses, Places, MarkUsed
<1>7. mem' \in Memories
  BY <1>5, <1>6 DEF Memories, Differ
<1>8. /\ mem'[cursor] = m[cursor]
      /\ \A a \in Places : a < cursor \/ a >= cursor + s => mem'[a] = mem[a]
  <2>1. cursor \in Int /\ s \in Int /\ Places \subseteq Int
    BY DEF Places
  <2>2. cursor \notin cursor + 1 .. cursor + s - 1
    BY <2>1
  <2>3. ASSUME NEW a \in Places, a < cursor \/ a >= cursor + s PROVE mem'[a] = mem[a]
    <3>1. a \notin cursor + 1 .. cursor + s - 1 /\ a # cursor
      BY <2>1, <2>3
    <3> QED BY <1>5, <1>6, <3>1 DEF Differ
  <2> QED BY <1>6, <2>2, <2>3
<1>9. /\ pc' = "idle" /\ AtRest' /\ pool' = pool /\ fault' = "none"
      /\ allocated' = allocated \cup {cursor}
  BY <1>3 DEF TakeWhole, Return, Goto, AtRest, Basic, NULL
<1> QED BY <1>1, <1>5, <1>7, <1>8, <1>9, MallocReturns DEF Returns, Busy

\* A larger one is cut in two.
LEMMA Cuts ==
  ASSUME Basic, TestNext, pc = "fit", NEW i1,
         Script[call].name = "malloc", Script[call].number = i1,
         cursor \in Places, NEW s \in Nat, NEW n \in Places \cup {-1},
         NEW p \in Places \cup {-1}, Spare(mem, cursor, s, n, p),
         block_size \in Nat \ {0}, s > block_size, cursor + block_size \in Places
  PROVE  /\ Returns(i1, cursor) /\ mem' \in Memories
         /\ Busy(mem', cursor, block_size, cursor + block_size, p)
         /\ Spare(mem', cursor + block_size, s - block_size, n, cursor)
         /\ \A a \in Places : a < cursor \/ a > cursor + block_size => mem'[a] = mem[a]
<1>1. Run /\ my_malloc
  BY InSearch
<1>0. cursor \in Int /\ block_size \in Int /\ s \in Int /\ Places \subseteq Int
      /\ block_size > 0
  BY DEF Places
<1>2. /\ Fits(cursor) /\ size(cursor) = s
      /\ next(cursor) = n
      /\ ~(s < block_size + Header)
  BY <1>0 DEF Spare, Fits, is_free, size, next, Header
<1>3. Split
  BY <1>0, <1>1, <1>2 DEF my_malloc, MallocFails, TakeWhole, TryNext, SplitNothing, SplitCrashes
<1>4. PICK rest : rest = cursor + block_size
  OBVIOUS
<1>5. PICK m : m = SplitAt(rest, s - block_size)
  OBVIOUS
<1>6. PICK c : c = cursor
  OBVIOUS
<1>7. /\ c \in Places /\ rest \in Places /\ c # rest /\ s - block_size \in Nat
      /\ c \in Places \cup {-1} /\ rest \in Places \cup {-1} /\ block_size \in Nat
  BY <1>0, <1>4, <1>6
<1>8. PICK m1 : m1 = SetNext(mem, c, rest)
  OBVIOUS
<1>9. PICK h : h = [is_free |-> TRUE, size |-> s - block_size, next |-> n, prev |-> c]
  OBVIOUS
<1>10. PICK m2 : m2 = [m1 EXCEPT ![rest] = h]
  OBVIOUS
<1>11. PICK m3 : m3 = MarkUsed(m2, c)
  OBVIOUS
<1>12. m = SetSize(m3, c, block_size)
  BY <1>2, <1>4, <1>5, <1>6, <1>8, <1>9, <1>10, <1>11
     DEF SplitAt, SetNext,
     MarkUsed, SetSize
<1>13. Spare(m1, c, s, rest, p) /\ Differ(m1, mem, c)
  <2>1. mem \in Memories /\ Spare(mem, c, s, n, p)
    BY <1>6 DEF Basic
  <2> QED BY <1>7, <1>8, <2>1, SpareFields
<1>14. h \in Headers
  BY <1>7, <1>9, HeaderTypes
<1>15. Spare(m2, c, s, rest, p) /\ m2[rest] = h /\ Differ(m2, m1, rest)
  BY <1>7, <1>10, <1>13, <1>14 DEF Spare, Differ, Memories
<1>16. Busy(m3, c, s, rest, p) /\ Differ(m3, m2, c)
  <2>1. m2 \in Memories
    BY <1>15 DEF Differ
  <2> QED BY <1>7, <1>11, <1>15, <2>1, SpareFields
<1>17. Busy(m, c, block_size, rest, p) /\ Differ(m, m3, c)
  <2>1. m3 \in Memories
    BY <1>16 DEF Differ
  <2> QED BY <1>7, <1>12, <1>16, <2>1, BusyFields
<1>18. m \in Memories /\ m[rest] = h
  BY <1>7, <1>15, <1>16, <1>17 DEF Differ
<1>19. \A a \in Places : a # c /\ a # rest => m[a] = mem[a]
  BY <1>13, <1>15, <1>16, <1>17 DEF Differ
<1>20. mem' = [x \in Places |-> IF x \in c + 1 .. c + block_size - 1 THEN Data ELSE m[x]]
  BY <1>2, <1>3, <1>4, <1>5, <1>6 DEF Split, HandOut, Addresses, Places
<1>21. mem' \in Memories
  BY <1>18, <1>20 DEF Memories
<1>22. mem'[c] = m[c] /\ mem'[rest] = h
  <2>1. c \notin c + 1 .. c + block_size - 1 /\ rest \notin c + 1 .. c + block_size - 1
    BY <1>0, <1>4, <1>6
  <2> QED BY <1>7, <1>18, <1>20, <2>1
<1>23. ASSUME NEW a \in Places, a < cursor \/ a > cursor + block_size
       PROVE mem'[a] = mem[a]
  <2>1. a \notin c + 1 .. c + block_size - 1 /\ a # c /\ a # rest
    BY <1>0, <1>4, <1>6, <1>23
  <2> QED BY <1>19, <1>20, <2>1
<1>24. /\ pc' = "idle" /\ AtRest' /\ pool' = pool
       /\ allocated' = allocated \cup {cursor}
  BY <1>3 DEF Split, Return, Goto, AtRest, NULL
<1>25. fault' = "none"
  BY <1>0, <1>3 DEF Split, Basic
<1>26. Busy(mem', c, block_size, rest, p) /\ Spare(mem', rest, s - block_size, n, c)
  BY <1>9, <1>17, <1>22 DEF Busy, Spare
<1> QED BY <1>1, <1>4, <1>6, <1>21, <1>23, <1>24, <1>25, <1>26,
   MallocReturns DEF Returns

LEMMA CutsAt ==
  ASSUME Basic, TestNext, pc = "fit", NEW i1, NEW z, Mallocs(call, i1, z),
         NEW c \in Places, cursor = c, NEW k \in Nat \ {0}, block_size = k,
         NEW s \in Nat, NEW n \in Places \cup {-1}, NEW p \in Places \cup {-1},
         Spare(mem, c, s, n, p), NEW r \in Places, r = c + k, NEW d \in Nat \ {0}, s = k + d
  PROVE  /\ Returns(i1, c) /\ mem' \in Memories
         /\ Busy(mem', c, k, r, p) /\ Spare(mem', r, d, n, c)
         /\ \A a \in Places : a < c \/ a > r => mem'[a] = mem[a]
<1>1. /\ Returns(i1, cursor) /\ mem' \in Memories
      /\ Busy(mem', cursor, block_size, cursor + block_size, p)
      /\ Spare(mem', cursor + block_size, s - block_size, n, cursor)
      /\ \A a \in Places : a < cursor \/ a > cursor + block_size => mem'[a] = mem[a]
  BY Cuts DEF Mallocs
<1>2. s - block_size = d
  OBVIOUS
<1> QED BY <1>1, <1>2

\* The start of a call.
LEMMA AtCall ==
  ASSUME Basic, TestNext, pc = "idle", call \in 1 .. 20
  PROVE  Call
<1>1. DOMAIN Script = 1 .. 20 /\ Len(Script) = 20
  BY ScriptIs
<1> QED BY <1>1 DEF TestNext, test_best_fit_allocator, Begin, Finish, Run, my_malloc,
   TryNext, MallocFails, TakeWhole, Split, SplitNothing, SplitCrashes, Return, Goto, my_free, Forward, TurnBack,
   Backward, Merge

LEMMA MallocBegins ==
  ASSUME RoomForTest, Basic, TestNext, pc = "idle", call \in 1 .. 20, NEW n,
         NEW k \in Nat,
         Mallocs(call, n, k), k + 1 <= PoolSize
  PROVE  /\ pc' = "fit" /\ cursor' = 0 /\ block_size' = k + 1
         /\ pool' = pool /\ mem' = mem /\ allocated' = allocated /\ fault' = fault
         /\ call' = call /\ ptr' = ptr /\ target' = target
         /\ merge_size' = merge_size /\ next_buf' = next_buf
<1>1. Call
  BY AtCall
<1>2. /\ MallocCall /\ call' = call /\ ptr' = ptr
      /\ block_size' = BlockSize(k)
  BY <1>1 DEF Call, Mallocs
<1>3. BlockSize(k) = k + 1
  BY BlockSizeIs
<1> QED BY <1>2, <1>3 DEF MallocCall, Goto, free_locals

LEMMA FreeBegins ==
  ASSUME Basic, TestNext, pc = "idle", call \in 1 .. 20, NEW i1,
         Frees(call, i1), NEW t \in Places, ptr[i1] = t,
         NEW s \in Nat, NEW n \in Places \cup {-1}, NEW p \in Places \cup {-1},
         Busy(mem, t, s, n, p)
  PROVE  /\ pc' = "forward" /\ cursor' = t /\ target' = t /\ merge_size' = s
         /\ allocated' = allocated \ {t}
         /\ Spare(mem', t, s, n, p) /\ Differ(mem', mem, t)
         /\ pool' = pool /\ fault' = fault /\ call' = call /\ ptr' = ptr
         /\ block_size' = block_size /\ next_buf' = next_buf
<1>1. Call
  BY AtCall
<1>2. FreeCall /\ call' = call /\ ptr' = ptr /\ target' = t
  BY <1>1 DEF Call, Frees
<1>3. /\ pc' = "forward" /\ cursor' = t /\ merge_size' = size(t)
      /\ allocated' = allocated \ {t} /\ mem' = MarkFree(mem, t)
  BY <1>2 DEF FreeCall, Goto, MarkFree
<1>4. size(t) = s /\ mem \in Memories
  BY DEF Busy, size, Basic
<1>5. Spare(mem', t, s, n, p) /\ Differ(mem', mem, t)
  BY <1>3, <1>4, BusyFields
<1> QED BY <1>2, <1>3, <1>4, <1>5 DEF FreeCall

\* The walks over the free blocks around the one that was freed.
LEMMA InMerge ==
  ASSUME Basic, TestNext, pc \in {"forward", "backward"}
  PROVE  Run /\ my_free
BY DEF TestNext, test_best_fit_allocator, Begin, MapPool, Call, MallocCall, FreeCall,
   Goto, Finish, UnmapPool, Run, my_malloc, TryNext, MallocFails, TakeWhole, Split, SplitNothing, SplitCrashes,
   Return

LEMMA GoesOn ==
  ASSUME Basic, TestNext, pc = "forward",
         NEW s, NEW n, NEW p, Spare(mem, cursor, s, n, p), n # -1,
         NEW s2, NEW n2, NEW p2, Spare(mem, n, s2, n2, p2)
  PROVE  /\ Stays(n) /\ merge_size' = merge_size + s2 /\ target' = target
         /\ block_size' = block_size /\ next_buf' = next_buf
<1>1. Run /\ my_free
  BY InMerge
<1>2. NextIsFree /\ next(cursor) = n /\ size(n) = s2
  BY DEF Spare, NextIsFree, is_free, next, NULL, size
<1>3. Forward
  BY <1>1, <1>2 DEF my_free, TurnBack, Backward, Merge, Return, Goto
<1> QED BY <1>1, <1>2, <1>3 DEF Forward, Run, Stays

Stops(n) == n = -1 \/ \E s, k, p : Busy(mem, n, s, k, p)

LEMMA TurnsBack ==
  ASSUME Basic, TestNext, pc = "forward",
         NEW s, NEW n, NEW p, Spare(mem, cursor, s, n, p), Stops(n)
  PROVE  /\ pc' = "backward" /\ next_buf' = n /\ cursor' = target
         /\ pool' = pool /\ mem' = mem /\ allocated' = allocated /\ fault' = fault
         /\ call' = call /\ ptr' = ptr /\ block_size' = block_size
         /\ target' = target /\ merge_size' = merge_size
<1>1. Run /\ my_free
  BY InMerge
<1>2. ~NextIsFree /\ next(cursor) = n
  <2>1. next(cursor) = n
    BY DEF Spare, next
  <2>2. CASE n = -1
    BY <2>1, <2>2 DEF NextIsFree, NULL
  <2>3. CASE n # -1
    <3>1. PICK s2, n2, p2 : Busy(mem, n, s2, n2, p2)
      BY <2>3 DEF Stops
    <3>2. ~is_free(n)
      BY <3>1 DEF Busy, is_free
    <3> QED BY <2>1, <3>2 DEF NextIsFree
  <2> QED BY <2>1, <2>2, <2>3
<1>3. TurnBack
  BY <1>1, <1>2 DEF my_free, Forward, Backward, Merge, Return, Goto
<1> QED BY <1>1, <1>2, <1>3 DEF TurnBack, Goto, Run

LEMMA GoesBack ==
  ASSUME Basic, TestNext, pc = "backward",
         NEW s, NEW n, NEW p \in Places, Spare(mem, cursor, s, n, p),
         NEW s2 \in Nat, NEW p2 \in Places \cup {-1}, Spare(mem, p, s2, cursor, p2)
  PROVE  /\ Stays(p) /\ merge_size' = merge_size + s2 /\ target' = target
         /\ block_size' = block_size /\ next_buf' = next_buf
<1>1. Run /\ my_free
  BY InMerge
<1>2. prev(cursor) = p /\ p # -1
  BY DEF Spare, prev, Places
<1>3. cursor \in Places \cup {-1}
  BY DEF Basic
<1>4. mem[p] # Data
  <2>1. PICK h : /\ h = mem[p]
               /\ h = [is_free |-> TRUE, size |-> s2, next |-> cursor, prev |-> p2]
    BY DEF Spare
  <2>2. h \in Headers
    BY <1>3, <2>1, HeaderTypes
  <2> QED BY <2>1, <2>2, DataAssumption
<1>5. size(p) = s2 /\ is_free(p) /\ next(p) = cursor
  BY DEF Spare, size, is_free, next
<1>6. PrevIsFree = {is_free(p)}
  BY <1>2, <1>4 DEF PrevIsFree, NULL
<1>7. FALSE \notin PrevIsFree
  BY <1>5, <1>6
<1>8. Backward
  BY <1>1, <1>7 DEF my_free, Forward, TurnBack, Merge, Goto
<1>9. Leads(p, cursor)
  BY <1>2, <1>5 DEF Leads, NULL
<1>10. /\ merge_size' = merge_size + s2 /\ cursor' = p /\ fault' = fault
       /\ pool' = pool /\ mem' = mem /\ pc' = pc /\ allocated' = allocated
       /\ block_size' = block_size /\ target' = target
       /\ next_buf' = next_buf
  BY <1>2, <1>4, <1>5, <1>8, <1>9 DEF Backward
<1> QED BY <1>1, <1>10 DEF Run, Stays

PrevStops(p) ==
  p # -1 => \E s2 \in Nat, n2, p2 \in Places \cup {-1} : Busy(mem, p, s2, n2, p2)

LEMMA MergeStores ==
  ASSUME Basic, TestNext, pc = "backward", Script[call].name # "malloc",
         cursor \in Places, NEW s \in Nat, NEW n \in Places \cup {-1},
         NEW p \in Places \cup {-1}, Spare(mem, cursor, s, n, p),
         PrevStops(p)
  PROVE  /\ pc' = "idle" /\ AtRest' /\ pool' = pool /\ fault' = fault
         /\ allocated' = allocated /\ call' = call + 1 /\ ptr' = ptr
         /\ \E m : /\ Spare(m, cursor, merge_size, next_buf, p) /\ Differ(m, mem, cursor)
                   /\ mem' = IF next_buf = -1 THEN m ELSE SetPrev(m, next_buf, cursor)
<1>1. Run /\ my_free
  BY InMerge
<1>2. prev(cursor) = p
  BY DEF Spare, prev
<1>3. TRUE \notin PrevIsFree
  <2>1. CASE p = -1
    BY <1>2, <2>1 DEF PrevIsFree, NULL
  <2>2. CASE p # -1
    <3>1. PICK s2 \in Nat, n2, p2 \in Places \cup {-1} : Busy(mem, p, s2, n2, p2)
      BY <2>2 DEF PrevStops
    <3>2. mem[p] \in Headers
      BY <3>1, HeaderTypes DEF Busy
    <3>3. mem[p] # Data
      BY <3>2, DataAssumption
    <3>4. ~is_free(p)
      BY <3>1 DEF Busy, is_free
    <3>5. PrevIsFree = {is_free(p)}
      BY <1>2, <2>2, <3>3 DEF PrevIsFree, NULL
    <3> QED BY <3>4, <3>5
  <2> QED BY <2>1, <2>2
<1>4. Merge
  BY <1>1, <1>3 DEF my_free, Forward, TurnBack, Backward, Goto
<1>5. /\ pc' = "idle" /\ AtRest' /\ pool' = pool /\ fault' = fault
      /\ allocated' = allocated /\ call' = call + 1 /\ ptr' = ptr
  BY <1>1, <1>4 DEF Merge, Return, Goto, AtRest, Run, NULL
<1>6. PICK m1 : m1 = SetNext(mem, cursor, next_buf)
  OBVIOUS
<1>7. PICK m2 : m2 = SetSize(m1, cursor, merge_size)
  OBVIOUS
<1>8. mem' = IF next_buf = -1 THEN m2 ELSE SetPrev(m2, next_buf, cursor)
  BY <1>4, <1>6, <1>7 DEF Merge, NULL, SetNext, SetSize, SetPrev
<1>9. /\ mem \in Memories /\ next_buf \in Places \cup {-1} /\ merge_size \in Nat
      /\ cursor \in Places \cup {-1}
  BY DEF Basic
<1>10. Spare(m1, cursor, s, next_buf, p) /\ Differ(m1, mem, cursor)
  BY <1>6, <1>9, SpareFields
<1>11. Spare(m2, cursor, merge_size, next_buf, p) /\ Differ(m2, m1, cursor)
  <2>1. m1 \in Memories
    BY <1>10 DEF Differ
  <2> QED BY <1>7, <1>9, <1>10, <2>1, SpareFields
<1>12. Differ(m2, mem, cursor)
  BY <1>10, <1>11 DEF Differ
<1> QED BY <1>5, <1>8, <1>11, <1>12

LEMMA MergesLast ==
  ASSUME Basic, TestNext, pc = "backward", Script[call].name # "malloc",
         cursor \in Places, NEW s \in Nat, NEW n \in Places \cup {-1},
         NEW p \in Places \cup {-1}, Spare(mem, cursor, s, n, p), PrevStops(p),
         next_buf = -1
  PROVE  /\ pc' = "idle" /\ AtRest' /\ pool' = pool /\ fault' = fault
         /\ allocated' = allocated /\ call' = call + 1 /\ ptr' = ptr
         /\ Spare(mem', cursor, merge_size, -1, p) /\ Differ(mem', mem, cursor)
<1>1. PICK m : /\ Spare(m, cursor, merge_size, next_buf, p) /\ Differ(m, mem, cursor)
               /\ mem' = IF next_buf = -1 THEN m ELSE SetPrev(m, next_buf, cursor)
  BY MergeStores
<1> QED BY <1>1, MergeStores

LEMMA MergesBefore ==
  ASSUME Basic, TestNext, pc = "backward", Script[call].name # "malloc",
         cursor \in Places, NEW s \in Nat, NEW n \in Places \cup {-1},
         NEW p \in Places \cup {-1}, Spare(mem, cursor, s, n, p), PrevStops(p),
         NEW b \in Places, next_buf = b, b # cursor, NEW s2 \in Nat,
         NEW n2 \in Places \cup {-1}, NEW p2 \in Places \cup {-1}, Busy(mem, b, s2, n2, p2)
  PROVE  /\ pc' = "idle" /\ AtRest' /\ pool' = pool /\ fault' = fault
         /\ allocated' = allocated /\ call' = call + 1 /\ ptr' = ptr
         /\ Spare(mem', cursor, merge_size, b, p) /\ Busy(mem', b, s2, n2, cursor)
         /\ mem' \in Memories
         /\ \A a \in Places : a # cursor /\ a # b => mem'[a] = mem[a]
<1>1. PICK m : /\ Spare(m, cursor, merge_size, next_buf, p) /\ Differ(m, mem, cursor)
               /\ mem' = IF next_buf = -1 THEN m ELSE SetPrev(m, next_buf, cursor)
  BY MergeStores
<1>2. b # -1 /\ cursor \in Places \cup {-1}
  BY DEF Places
<1>3. mem' = SetPrev(m, b, cursor)
  BY <1>1, <1>2
<1>4. m \in Memories /\ Busy(m, b, s2, n2, p2)
  BY <1>1 DEF Differ, Busy
<1>5. Busy(mem', b, s2, n2, cursor) /\ Differ(mem', m, b)
  BY <1>2, <1>3, <1>4, BusyFields
<1>6. Spare(mem', cursor, merge_size, b, p)
  BY <1>1, <1>5 DEF Differ, Spare
<1>7. mem' \in Memories /\ \A a \in Places : a # cursor /\ a # b => mem'[a] = mem[a]
  BY <1>1, <1>5 DEF Differ
<1> QED BY <1>5, <1>6, <1>7, MergeStores

\* The block at c can be merged up to the one at b that is in use.
CanMerge(c, s, n, p, b, s2, n2, p2) ==
  /\ pc = "backward" /\ cursor = c /\ next_buf = b /\ b # c
  /\ c \in Places /\ b \in Places /\ s \in Nat /\ s2 \in Nat
  /\ n \in Places \cup {-1} /\ p \in Places \cup {-1}
  /\ n2 \in Places \cup {-1} /\ p2 \in Places \cup {-1}
  /\ Spare(mem, c, s, n, p) /\ PrevStops(p) /\ Busy(mem, b, s2, n2, p2)

IsMerged(c, p, b, s2, n2) ==
  /\ pc' = "idle" /\ AtRest' /\ pool' = pool /\ fault' = fault
  /\ allocated' = allocated /\ call' = call + 1 /\ ptr' = ptr
  /\ Spare(mem', c, merge_size, b, p) /\ Busy(mem', b, s2, n2, c) /\ mem' \in Memories
  /\ \A a \in Places : a # c /\ a # b => mem'[a] = mem[a]

LEMMA MergesAt ==
  ASSUME Basic, TestNext, Script[call].name # "malloc",
         NEW c, NEW s, NEW n, NEW p, NEW b, NEW s2, NEW n2, NEW p2,
         CanMerge(c, s, n, p, b, s2, n2, p2)
  PROVE  IsMerged(c, p, b, s2, n2)
<1>1. /\ pc = "backward" /\ cursor \in Places /\ s \in Nat /\ n \in Places \cup {-1}
      /\ p \in Places \cup {-1} /\ Spare(mem, cursor, s, n, p) /\ PrevStops(p)
      /\ b \in Places /\ next_buf = b /\ b # cursor /\ s2 \in Nat
      /\ n2 \in Places \cup {-1} /\ p2 \in Places \cup {-1} /\ Busy(mem, b, s2, n2, p2)
      /\ cursor = c
  BY DEF CanMerge
<1> QED BY <1>1, MergesBefore DEF IsMerged

\* A step inside of a call, but for what it says of the progress.
LEMMA Within ==
  ASSUME BestFitTestInv, pool' = pool, mem' = mem, allocated' = allocated,
         fault' = fault, call' = call, ptr' = ptr, Freed' <=> Freed,
         pc' \in {"fit", "forward", "backward"},
         cursor' \in Places \cup {-1}, target' \in Places \cup {-1},
         next_buf' \in Places \cup {-1}, block_size' \in 0 .. SIZE_MAX,
         merge_size' \in Nat
  PROVE  Basic' /\ Layout' /\ InHands' /\ Pointers'
<1>1. Basic'
  BY DEF BestFitTestInv, Basic
<1>2. (\A k : At(k)' <=> At(k)) /\ \A k : In(k)' <=> In(k)
  BY DEF At, In
<1>3. Layout'
  BY <1>2 DEF BestFitTestInv, Layout
<1>4. InHands'
  BY <1>2 DEF BestFitTestInv, InHands
<1>5. Pointers'
  BY DEF BestFitTestInv, Pointers
<1> QED BY <1>1, <1>3, <1>4, <1>5

\* The last step of one.
LEMMA Between ==
  ASSUME RoomForTest, Basic, call \in 1 .. 20, call' = call + 1, pc' = "idle",
         AtRest',
         pool' = pool, fault' = "none", mem' \in Memories, ptr' \in [1 .. 11 -> Int]
  PROVE  Basic'
<1>1. 0 \in 0 .. SIZE_MAX
  BY PlacesOfTest
<1>2. call' \in 0 .. 22 /\ (call' \in 1 .. 21 <=> call \in 1 .. 21)
  OBVIOUS
<1> QED BY <1>1, <1>2 DEF Basic, AtRest

\* Call 1 asks for KiB and gets the block at 0.
LEMMA Call1 ==
  ASSUME RoomForTest, BestFitTestInv, TestNext, call = 1
  PROVE  BestFitTestInv'
<1>1. Basic /\ Mallocs(call, 1, KiB) /\ call \in 1 .. 20
  BY ScriptIs DEF BestFitTestInv
<1>2. /\ pc \in {"idle", "fit"}
      /\ pc = "fit" => block_size = KiB + 1 /\ cursor \in {0}
  <2>1. Progress
    BY DEF BestFitTestInv
  <2>2. SearchAt(KiB + 1, {0})
    BY <2>1 DEF Progress
  <2> QED BY <2>2 DEF SearchAt
<1>3. /\ Spare(mem, 0, PoolSize, -1, -1)
      /\ allocated = {}
  BY <1>2 DEF BestFitTestInv, Layout, InHands, At, In, Freed, FirstTwo, FrontOnly,
     FirstOnly, Front, FrontFreed, Back, Middle
<1>4. CASE pc = "idle"
  <2>1. KiB \in Nat /\ KiB + 1 = KiB + 1 /\ KiB + 1 <= PoolSize
        /\ 0 \in Places /\ PoolSize <= SIZE_MAX
    BY PlacesOfTest DEF Places
  <2>2. /\ pc' = "fit" /\ cursor' = 0 /\ block_size' = KiB + 1
        /\ pool' = pool /\ mem' = mem /\ allocated' = allocated /\ fault' = fault
        /\ call' = call /\ ptr' = ptr /\ target' = target
        /\ merge_size' = merge_size /\ next_buf' = next_buf
    BY <1>1, <1>4, <2>1, MallocBegins
  <2>3. Progress'
    BY <2>2 DEF Progress, SearchAt
  <2>4. block_size' \in 0 .. SIZE_MAX
    BY <2>1, <2>2, PlacesOfTest
  <2>5. Basic' /\ Layout' /\ InHands' /\ Pointers'
    BY <1>1, <1>4, <2>1, <2>2, <2>4, Within DEF Basic, Freed
  <2> QED BY <2>3, <2>5 DEF BestFitTestInv
<1>5. CASE pc = "fit" /\ cursor = 0
  <2>0. /\ 0 \in Places /\ KiB + 1 \in Nat \ {0} /\ PoolSize \in Nat
        /\ -1 \in Places \cup {-1}
        /\ -1 \in Places \cup {-1} /\ Sec \in Places /\ PoolSize - Sec \in Nat \ {0}
        /\ Sec = 0 + (KiB + 1) /\ PoolSize = (KiB + 1) + (PoolSize - Sec)
    BY PlacesOfTest DEF Places
  <2>1. /\ Returns(1, 0) /\ mem' \in Memories
        /\ Busy(mem', 0, KiB + 1, Sec, -1) /\ Spare(mem', Sec, PoolSize - Sec, -1, 0)
        /\ \A a \in Places : a < 0 \/ a > Sec => mem'[a] = mem[a]
    <3>1. Spare(mem, 0, PoolSize, -1, -1)
      BY <1>3
    <3> QED BY <1>1, <1>2, <1>5, <2>0, <3>1, CutsAt
  <2>2. call' = 2 /\ pc' = "idle"
    BY <2>1 DEF Returns
  <2>4. 0 \notin allocated /\ allocated' = {0} /\ 0 \in Int
    BY <1>3, <2>1, PlacesOfTest DEF Returns
  <2>6. Layout'
    BY <2>1, <2>2 DEF Layout, At, In, Freed, FirstTwo, FrontOnly, FirstOnly, Front,
       FrontFreed, Back, Middle
  <2>7. InHands'
    BY <2>1, <2>2, <2>4 DEF InHands, At, In, Freed
  <2>8. Progress'
    BY <2>1, <2>2 DEF Progress, SearchAt, Freeing
  <2>9. ptr' = [ptr EXCEPT ![1] = 0] /\ ptr' \in [1 .. 11 -> Int]
    BY <1>1, <2>1, <2>4 DEF Returns, Basic
  <2>10. Pointers'
    BY <1>1, <2>2, <2>9 DEF Pointers, BestFitTestInv, Basic
  <2>11. Basic'
    BY <1>1, <2>1, <2>4, <2>9, Between DEF Returns
  <2> QED BY <2>6, <2>7, <2>8, <2>10, <2>11 DEF BestFitTestInv
<1> QED BY <1>1, <1>2, <1>4, <1>5 DEF Basic

\* Call 2 asks for KiB and gets the block at Sec.
LEMMA Call2 ==
  ASSUME RoomForTest, BestFitTestInv, TestNext, call = 2
  PROVE  BestFitTestInv'
<1>1. Basic /\ Mallocs(call, 2, KiB) /\ call \in 1 .. 20
  BY ScriptIs DEF BestFitTestInv
<1>2. /\ pc \in {"idle", "fit"}
      /\ pc = "fit" => block_size = KiB + 1 /\ cursor \in {0, Sec}
  <2>1. Progress
    BY DEF BestFitTestInv
  <2>2. SearchAt(KiB + 1, {0, Sec})
    BY <2>1 DEF Progress
  <2> QED BY <2>2 DEF SearchAt
<1>3. /\ Busy(mem, 0, KiB + 1, Sec, -1) /\ Spare(mem, Sec, PoolSize - Sec, -1, 0)
      /\ allocated = {0}
  BY <1>2 DEF BestFitTestInv, Layout, InHands, At, In, Freed, FirstTwo, FrontOnly,
     FirstOnly, Front, FrontFreed, Back, Middle
<1>4. CASE pc = "idle"
  <2>1. KiB \in Nat /\ KiB + 1 = KiB + 1 /\ KiB + 1 <= PoolSize
        /\ 0 \in Places /\ PoolSize <= SIZE_MAX
    BY PlacesOfTest DEF Places
  <2>2. /\ pc' = "fit" /\ cursor' = 0 /\ block_size' = KiB + 1
        /\ pool' = pool /\ mem' = mem /\ allocated' = allocated /\ fault' = fault
        /\ call' = call /\ ptr' = ptr /\ target' = target
        /\ merge_size' = merge_size /\ next_buf' = next_buf
    BY <1>1, <1>4, <2>1, MallocBegins
  <2>3. Progress'
    BY <2>2 DEF Progress, SearchAt
  <2>4. block_size' \in 0 .. SIZE_MAX
    BY <2>1, <2>2, PlacesOfTest
  <2>5. Basic' /\ Layout' /\ InHands' /\ Pointers'
    BY <1>1, <1>4, <2>1, <2>2, <2>4, Within DEF Basic, Freed
  <2> QED BY <2>3, <2>5 DEF BestFitTestInv
<1>5. CASE pc = "fit" /\ cursor = 0
  <2>1. Sec # -1 /\ Sec \in Places
    BY PlacesOfTest DEF Places
  <2>2. /\ Stays(Sec) /\ block_size' = block_size /\ target' = target
        /\ merge_size' = merge_size /\ next_buf' = next_buf
    BY <1>1, <1>3, <1>5, <2>1, Passes
  <2>3. Progress'
    BY <1>2, <1>5, <2>2 DEF Progress, SearchAt, Stays
  <2>4. Basic' /\ Layout' /\ InHands' /\ Pointers'
    BY <1>1, <1>5, <2>1, <2>2, Within DEF Basic, Freed, Stays
  <2> QED BY <2>3, <2>4 DEF BestFitTestInv
<1>6. CASE pc = "fit" /\ cursor = Sec
  <2>0. /\ Sec \in Places /\ KiB + 1 \in Nat \ {0} /\ PoolSize - Sec \in Nat
        /\ -1 \in Places \cup {-1}
        /\ 0 \in Places \cup {-1} /\ Third \in Places /\ PoolSize - Third \in Nat \ {0}
        /\ Third = Sec + (KiB + 1) /\ PoolSize - Sec = (KiB + 1) + (PoolSize - Third)
    BY PlacesOfTest DEF Places
  <2>1. /\ Returns(2, Sec) /\ mem' \in Memories
        /\ Busy(mem', Sec, KiB + 1, Third, 0)
        /\ Spare(mem', Third, PoolSize - Third, -1, Sec)
        /\ \A a \in Places : a < Sec \/ a > Third => mem'[a] = mem[a]
    <3>1. Spare(mem, Sec, PoolSize - Sec, -1, 0)
      BY <1>3
    <3> QED BY <1>1, <1>2, <1>6, <2>0, <3>1, CutsAt
  <2>2. call' = 3 /\ pc' = "idle"
    BY <2>1 DEF Returns
  <2>5. /\ Busy(mem', 0, KiB + 1, Sec, -1)
    BY <1>3, <2>0, <2>1, PlacesOfTest DEF Busy, Spare
  <2>4. Sec \notin allocated /\ allocated' = {0, Sec} /\ Sec \in Int
    BY <1>3, <2>1, PlacesOfTest DEF Returns
  <2>6. Layout'
    BY <2>1, <2>2, <2>5 DEF Layout, At, In, Freed, FirstTwo, FrontOnly, FirstOnly,
       Front, FrontFreed, Back, Middle
  <2>7. InHands'
    BY <2>1, <2>2, <2>4 DEF InHands, At, In, Freed
  <2>8. Progress'
    BY <2>1, <2>2 DEF Progress, SearchAt, Freeing
  <2>9. ptr' = [ptr EXCEPT ![2] = Sec] /\ ptr' \in [1 .. 11 -> Int]
    BY <1>1, <2>1, <2>4 DEF Returns, Basic
  <2>10. Pointers'
    BY <1>1, <2>2, <2>9 DEF Pointers, BestFitTestInv, Basic
  <2>11. Basic'
    BY <1>1, <2>1, <2>4, <2>9, Between DEF Returns
  <2> QED BY <2>6, <2>7, <2>8, <2>10, <2>11 DEF BestFitTestInv
<1> QED BY <1>1, <1>2, <1>4, <1>5, <1>6 DEF Basic

\* Call 3 gives the block at 0 back.
LEMMA Call3 ==
  ASSUME RoomForTest, BestFitTestInv, TestNext, call = 3
  PROVE  BestFitTestInv'
<1>1. Basic /\ Frees(call, 1) /\ call \in 1 .. 20 /\ ptr[1] = 0
  BY ScriptIs DEF BestFitTestInv, Pointers
<1>2. /\ pc \in {"idle", "forward", "backward"}
      /\ pc # "idle" => target = 0
      /\ pc = "forward" => /\ cursor \in {0}
                           /\ merge_size = cursor + mem[cursor].size - 0
      /\ pc = "backward" => /\ cursor \in {0} /\ next_buf = Sec
                            /\ merge_size = Sec - cursor
  <2>1. Progress
    BY DEF BestFitTestInv
  <2>2. Freeing(0, {0}, {0}, Sec, Sec)
    BY <2>1 DEF Progress
  <2> QED BY <2>2 DEF Freeing
<1>3. CASE pc = "idle"
  <2>1. /\ Busy(mem, 0, KiB + 1, Sec, -1) /\ Busy(mem, Sec, KiB + 1, Third, 0)
        /\ Spare(mem, Third, PoolSize - Third, -1, Sec)
        /\ allocated = {0, Sec}
    BY <1>3 DEF BestFitTestInv, Layout, InHands, At, In, Freed, FirstTwo, FrontOnly,
       FirstOnly, Front, FrontFreed, Back, Middle
  <2>2. /\ 0 \in Places /\ KiB + 1 \in Nat /\ Sec \in Places \cup {-1}
        /\ -1 \in Places \cup {-1}
    BY PlacesOfTest DEF Places
  <2>3. /\ pc' = "forward" /\ cursor' = 0 /\ target' = 0
        /\ merge_size' = KiB + 1 /\ allocated' = allocated \ {0}
        /\ Spare(mem', 0, KiB + 1, Sec, -1) /\ Differ(mem', mem, 0)
        /\ pool' = pool /\ fault' = fault /\ call' = call /\ ptr' = ptr
        /\ block_size' = block_size /\ next_buf' = next_buf
    <3>1. Busy(mem, 0, KiB + 1, Sec, -1)
      BY <2>1
    <3> QED BY <1>1, <1>3, <2>2, <3>1, FreeBegins
  <2>4. /\ Busy(mem', Sec, KiB + 1, Third, 0)
        /\ Spare(mem', Third, PoolSize - Third, -1, Sec)
    BY <2>1, <2>3, PlacesOfTest DEF Differ, Busy, Spare
  <2>5. allocated' = {Sec}
    BY <2>1, <2>3, PlacesOfTest
  <2>6. call' = 3 /\ Freed'
    BY <2>3 DEF Freed
  <2>7. Layout'
    BY <2>3, <2>4, <2>6 DEF Layout, At, In, FirstTwo, FrontOnly, FirstOnly, Front,
       FrontFreed, Back, Middle
  <2>8. InHands'
    BY <2>5, <2>6 DEF InHands, At, In
  <2>9. merge_size' = cursor' + mem'[cursor'].size - 0
    <3>1. mem'[0].size = KiB + 1 /\ 0 \in Int
      BY <2>3, PlacesOfTest DEF Spare
    <3> QED BY <2>2, <2>3, <3>1
  <2>10. Progress'
    BY <2>3, <2>6, <2>9 DEF Progress, Freeing, SearchAt
  <2>11. Pointers'
    BY <2>3 DEF Pointers, BestFitTestInv
  <2>12. Basic'
    BY <1>1, <1>3, <2>2, <2>3 DEF Basic, Differ
  <2> QED BY <2>7, <2>8, <2>10, <2>11, <2>12 DEF BestFitTestInv
<1>4. ASSUME pc # "idle"
      PROVE  /\ Spare(mem, 0, KiB + 1, Sec, -1) /\ Busy(mem, Sec, KiB + 1, Third, 0)
             /\ Spare(mem, Third, PoolSize - Third, -1, Sec)
             /\ allocated = {Sec}
  BY <1>2, <1>4 DEF BestFitTestInv, Layout, InHands, At, In, Freed, FirstTwo,
     FrontOnly, FirstOnly, Front, FrontFreed, Back, Middle
<1>5. CASE pc = "forward" /\ cursor = 0
  <2>1. mem[0].size = KiB + 1 /\ merge_size = 0 + KiB + 1 - 0
    <3>1. mem[0].size = KiB + 1
      BY <1>4, <1>5 DEF Spare
    <3>2. merge_size = cursor + mem[cursor].size - 0
      BY <1>2, <1>5
    <3>3. cursor = 0
      BY <1>5
    <3> QED BY <3>1, <3>2, <3>3, PlacesOfTest, NumbersOfTest
  <2>2. 0 + KiB + 1 = Sec /\ 0 \in Places
        /\ Sec \in Places \cup {-1}
    BY PlacesOfTest DEF Places
  <2>3. Stops(Sec)
    BY <1>4, <1>5 DEF Stops
  <2>4. /\ pc' = "backward" /\ next_buf' = Sec /\ cursor' = 0
        /\ pool' = pool /\ mem' = mem /\ allocated' = allocated /\ fault' = fault
        /\ call' = call /\ ptr' = ptr /\ block_size' = block_size
        /\ target' = target /\ merge_size' = merge_size
    BY <1>1, <1>2, <1>4, <1>5, <2>3, TurnsBack
  <2>5. merge_size' = Sec - 0
    BY <2>1, <2>2, <2>4, PlacesOfTest
  <2>6. Progress'
    BY <1>2, <1>5, <2>4, <2>5 DEF Progress, Freeing, SearchAt
  <2>7. Basic' /\ Layout' /\ InHands' /\ Pointers'
    BY <1>1, <1>5, <2>2, <2>4, Within DEF Basic, Freed
  <2> QED BY <2>6, <2>7 DEF BestFitTestInv
<1>6. CASE pc = "backward" /\ cursor = 0
  <2>0. KiB + 1 \in Nat /\ Sec - 0 = KiB + 1
    <3>1. KiB + 1 \in Nat
      BY NumbersOfTest
    <3>2. Sec - 0 = KiB + 1
      BY PlacesOfTest, NumbersOfTest
    <3> QED BY <3>1, <3>2
  <2>1. /\ 0 \in Places /\ Sec \in Places /\ Sec # 0
        /\ Sec \in Places \cup {-1} /\ -1 \in Places \cup {-1}
        /\ Third \in Places \cup {-1} /\ 0 \in Places \cup {-1}
    BY PlacesOfTest DEF Places
  <2>2. PrevStops(-1) /\ Script[call].name # "malloc"
    BY <1>1, <1>4, <1>6, <2>0, <2>1 DEF PrevStops, Frees
  <2>3. merge_size = KiB + 1 /\ next_buf = Sec
    BY <1>2, <1>6, <2>0
  <2>4. /\ pc' = "idle" /\ AtRest' /\ pool' = pool /\ fault' = fault
        /\ allocated' = allocated /\ call' = call + 1 /\ ptr' = ptr
        /\ Spare(mem', 0, KiB + 1, Sec, -1)
        /\ Busy(mem', Sec, KiB + 1, Third, 0)
        /\ mem' \in Memories
        /\ \A x \in Places : x # 0 /\ x # Sec => mem'[x] = mem[x]
    <3>1. PICK v \in Nat : v = KiB + 1
      BY <2>0
    <3>2. PICK w \in Nat : w = KiB + 1
      BY <2>0
    <3>3. CanMerge(0, v, Sec, -1, Sec, w, Third, 0)
      BY <1>4, <1>6, <2>1, <2>2, <2>3, <3>1, <3>2 DEF CanMerge
    <3>4. IsMerged(0, -1, Sec, w, Third)
      BY <1>1, <2>2, <3>3, MergesAt
    <3> QED BY <2>3, <3>2, <3>4 DEF IsMerged
  <2>5. mem' \in Memories /\ Spare(mem', 0, KiB + 1, Sec, -1)
    BY <2>4
  <2>6. /\ Spare(mem', Third, PoolSize - Third, -1, Sec)
    BY <1>4, <1>6, <2>4, PlacesOfTest DEF Differ, Busy, Spare
  <2>7. call' = 4 /\ ~Freed' /\ allocated' = {Sec}
    BY <1>4, <1>6, <2>4 DEF Freed
  <2>8. Layout'
    BY <2>4, <2>5, <2>6, <2>7 DEF Layout, At, In, FirstTwo, FrontOnly, FirstOnly,
       Front, FrontFreed, Back, Middle
  <2>9. InHands'
    BY <2>7 DEF InHands, At, In
  <2>10. Progress'
    BY <2>4, <2>7 DEF Progress, SearchAt, Freeing
  <2>11. Pointers'
    BY <2>4, <2>7 DEF Pointers, BestFitTestInv
  <2>12. Basic'
    BY <1>1, <2>4, <2>5, Between DEF Basic
  <2> QED BY <2>8, <2>9, <2>10, <2>11, <2>12 DEF BestFitTestInv
<1> QED BY <1>2, <1>3, <1>5, <1>6

\* Call 4 asks for KiB and gets the block at 0.
LEMMA Call4 ==
  ASSUME RoomForTest, BestFitTestInv, TestNext, call = 4
  PROVE  BestFitTestInv'
<1>1. Basic /\ Mallocs(call, 3, KiB) /\ call \in 1 .. 20
  BY ScriptIs DEF BestFitTestInv
<1>2. /\ pc \in {"idle", "fit"}
      /\ pc = "fit" => block_size = KiB + 1 /\ cursor \in {0}
  <2>1. Progress
    BY DEF BestFitTestInv
  <2>2. SearchAt(KiB + 1, {0})
    BY <2>1 DEF Progress
  <2> QED BY <2>2 DEF SearchAt
<1>3. /\ Spare(mem, 0, KiB + 1, Sec, -1) /\ Busy(mem, Sec, KiB + 1, Third, 0)
      /\ Spare(mem, Third, PoolSize - Third, -1, Sec)
      /\ allocated = {Sec}
  BY <1>2 DEF BestFitTestInv, Layout, InHands, At, In, Freed, FirstTwo, FrontOnly,
     FirstOnly, Front, FrontFreed, Back, Middle
<1>4. CASE pc = "idle"
  <2>1. KiB \in Nat /\ KiB + 1 = KiB + 1 /\ KiB + 1 <= PoolSize
        /\ 0 \in Places /\ PoolSize <= SIZE_MAX
    BY PlacesOfTest DEF Places
  <2>2. /\ pc' = "fit" /\ cursor' = 0 /\ block_size' = KiB + 1
        /\ pool' = pool /\ mem' = mem /\ allocated' = allocated /\ fault' = fault
        /\ call' = call /\ ptr' = ptr /\ target' = target
        /\ merge_size' = merge_size /\ next_buf' = next_buf
    BY <1>1, <1>4, <2>1, MallocBegins
  <2>3. Progress'
    BY <2>2 DEF Progress, SearchAt
  <2>4. block_size' \in 0 .. SIZE_MAX
    BY <2>1, <2>2, PlacesOfTest
  <2>5. Basic' /\ Layout' /\ InHands' /\ Pointers'
    BY <1>1, <1>4, <2>1, <2>2, <2>4, Within DEF Basic, Freed
  <2> QED BY <2>3, <2>5 DEF BestFitTestInv
<1>5. CASE pc = "fit" /\ cursor = 0
  <2>0. /\ 0 \in Places /\ KiB + 1 \in Nat \ {0} /\ Sec \in Places \cup {-1}
        /\ -1 \in Places \cup {-1}
    BY PlacesOfTest DEF Places
  <2>1. /\ Returns(3, 0) /\ mem' \in Memories /\ Busy(mem', 0, KiB + 1, Sec, -1)
        /\ \A a \in Places : a < 0 \/ a >= 0 + (KiB + 1) => mem'[a] = mem[a]
    BY <1>1, <1>2, <1>3, <1>5, <2>0, WholeTaken DEF Mallocs
  <2>2. call' = 5 /\ pc' = "idle"
    BY <2>1 DEF Returns
  <2>3. /\ Busy(mem', Sec, KiB + 1, Third, 0)
        /\ Spare(mem', Third, PoolSize - Third, -1, Sec)
    BY <1>3, <2>1, PlacesOfTest DEF Busy, Spare
  <2>4. 0 \notin allocated /\ allocated' = {0, Sec} /\ 0 \in Int
    BY <1>3, <2>1, PlacesOfTest DEF Returns
  <2>6. Layout'
    BY <2>1, <2>2, <2>3 DEF Layout, At, In, Freed, FirstTwo, FrontOnly, FirstOnly,
       Front, FrontFreed, Back, Middle
  <2>7. InHands'
    BY <2>1, <2>2, <2>4 DEF InHands, At, In, Freed
  <2>8. Progress'
    BY <2>1, <2>2 DEF Progress, SearchAt, Freeing
  <2>9. ptr' = [ptr EXCEPT ![3] = 0] /\ ptr' \in [1 .. 11 -> Int]
    BY <1>1, <2>1, <2>4 DEF Returns, Basic
  <2>10. Pointers'
    BY <1>1, <2>2, <2>9 DEF Pointers, BestFitTestInv, Basic
  <2>11. Basic'
    BY <1>1, <2>1, <2>4, <2>9, Between DEF Returns
  <2> QED BY <2>6, <2>7, <2>8, <2>10, <2>11 DEF BestFitTestInv
<1> QED BY <1>1, <1>2, <1>4, <1>5 DEF Basic

\* Call 5 asks for 3 * KiB and gets the block at Third.
LEMMA Call5 ==
  ASSUME RoomForTest, BestFitTestInv, TestNext, call = 5
  PROVE  BestFitTestInv'
<1>1. Basic /\ Mallocs(call, 4, 3 * KiB) /\ call \in 1 .. 20
  BY ScriptIs DEF BestFitTestInv
<1>2. /\ pc \in {"idle", "fit"}
      /\ pc = "fit" => block_size = 3 * KiB + 1 /\ cursor \in {0, Sec, Third}
  <2>1. Progress
    BY DEF BestFitTestInv
  <2>2. SearchAt(3 * KiB + 1, {0, Sec, Third})
    BY <2>1 DEF Progress
  <2> QED BY <2>2 DEF SearchAt
<1>3. /\ Busy(mem, 0, KiB + 1, Sec, -1) /\ Busy(mem, Sec, KiB + 1, Third, 0)
      /\ Spare(mem, Third, PoolSize - Third, -1, Sec)
      /\ allocated = {0, Sec}
  BY <1>2 DEF BestFitTestInv, Layout, InHands, At, In, Freed, FirstTwo, FrontOnly,
     FirstOnly, Front, FrontFreed, Back, Middle
<1>4. CASE pc = "idle"
  <2>1. 3 * KiB \in Nat /\ 3 * KiB + 1 = 3 * KiB + 1 /\ 3 * KiB + 1 <= PoolSize
        /\ 0 \in Places /\ PoolSize <= SIZE_MAX
    BY PlacesOfTest DEF Places
  <2>2. /\ pc' = "fit" /\ cursor' = 0 /\ block_size' = 3 * KiB + 1
        /\ pool' = pool /\ mem' = mem /\ allocated' = allocated /\ fault' = fault
        /\ call' = call /\ ptr' = ptr /\ target' = target
        /\ merge_size' = merge_size /\ next_buf' = next_buf
    BY <1>1, <1>4, <2>1, MallocBegins
  <2>3. Progress'
    BY <2>2 DEF Progress, SearchAt
  <2>4. block_size' \in 0 .. SIZE_MAX
    BY <2>1, <2>2, PlacesOfTest
  <2>5. Basic' /\ Layout' /\ InHands' /\ Pointers'
    BY <1>1, <1>4, <2>1, <2>2, <2>4, Within DEF Basic, Freed
  <2> QED BY <2>3, <2>5 DEF BestFitTestInv
<1>5. CASE pc = "fit" /\ cursor = 0
  <2>1. Sec # -1 /\ Sec \in Places
    BY PlacesOfTest DEF Places
  <2>2. /\ Stays(Sec) /\ block_size' = block_size /\ target' = target
        /\ merge_size' = merge_size /\ next_buf' = next_buf
    BY <1>1, <1>3, <1>5, <2>1, Passes
  <2>3. Progress'
    BY <1>2, <1>5, <2>2 DEF Progress, SearchAt, Stays
  <2>4. Basic' /\ Layout' /\ InHands' /\ Pointers'
    BY <1>1, <1>5, <2>1, <2>2, Within DEF Basic, Freed, Stays
  <2> QED BY <2>3, <2>4 DEF BestFitTestInv
<1>6. CASE pc = "fit" /\ cursor = Sec
  <2>1. Third # -1 /\ Third \in Places
    BY PlacesOfTest DEF Places
  <2>2. /\ Stays(Third) /\ block_size' = block_size /\ target' = target
        /\ merge_size' = merge_size /\ next_buf' = next_buf
    BY <1>1, <1>3, <1>6, <2>1, Passes
  <2>3. Progress'
    BY <1>2, <1>6, <2>2 DEF Progress, SearchAt, Stays
  <2>4. Basic' /\ Layout' /\ InHands' /\ Pointers'
    BY <1>1, <1>6, <2>1, <2>2, Within DEF Basic, Freed, Stays
  <2> QED BY <2>3, <2>4 DEF BestFitTestInv
<1>7. CASE pc = "fit" /\ cursor = Third
  <2>0. /\ Third \in Places /\ 3 * KiB + 1 \in Nat \ {0} /\ PoolSize - Third \in Nat
        /\ -1 \in Places \cup {-1}
        /\ Sec \in Places \cup {-1} /\ Fourth \in Places
        /\ PoolSize - Fourth \in Nat \ {0}
        /\ Fourth = Third + (3 * KiB + 1)
        /\ PoolSize - Third = (3 * KiB + 1) + (PoolSize - Fourth)
    BY PlacesOfTest DEF Places
  <2>1. /\ Returns(4, Third) /\ mem' \in Memories
        /\ Busy(mem', Third, 3 * KiB + 1, Fourth, Sec)
        /\ Spare(mem', Fourth, PoolSize - Fourth, -1, Third)
        /\ \A a \in Places : a < Third \/ a > Fourth => mem'[a] = mem[a]
    <3>1. Spare(mem, Third, PoolSize - Third, -1, Sec)
      BY <1>3
    <3> QED BY <1>1, <1>2, <1>7, <2>0, <3>1, CutsAt
  <2>2. call' = 6 /\ pc' = "idle"
    BY <2>1 DEF Returns
  <2>5. /\ Busy(mem', 0, KiB + 1, Sec, -1) /\ Busy(mem', Sec, KiB + 1, Third, 0)
    BY <1>3, <2>0, <2>1, PlacesOfTest DEF Busy, Spare
  <2>4. Third \notin allocated /\ allocated' = {0, Sec, Third} /\ Third \in Int
    BY <1>3, <2>1, PlacesOfTest DEF Returns
  <2>6. Layout'
    BY <2>1, <2>2, <2>5 DEF Layout, At, In, Freed, FirstTwo, FrontOnly, FirstOnly,
       Front, FrontFreed, Back, Middle
  <2>7. InHands'
    BY <2>1, <2>2, <2>4 DEF InHands, At, In, Freed
  <2>8. Progress'
    BY <2>1, <2>2 DEF Progress, SearchAt, Freeing
  <2>9. ptr' = [ptr EXCEPT ![4] = Third] /\ ptr' \in [1 .. 11 -> Int]
    BY <1>1, <2>1, <2>4 DEF Returns, Basic
  <2>10. Pointers'
    BY <1>1, <2>2, <2>9 DEF Pointers, BestFitTestInv, Basic
  <2>11. Basic'
    BY <1>1, <2>1, <2>4, <2>9, Between DEF Returns
  <2> QED BY <2>6, <2>7, <2>8, <2>10, <2>11 DEF BestFitTestInv
<1> QED BY <1>1, <1>2, <1>4, <1>5, <1>6, <1>7 DEF Basic

\* Call 6 asks for 2 * KiB and gets the block at Fourth.
LEMMA Call6 ==
  ASSUME RoomForTest, BestFitTestInv, TestNext, call = 6
  PROVE  BestFitTestInv'
<1>1. Basic /\ Mallocs(call, 5, 2 * KiB) /\ call \in 1 .. 20
  BY ScriptIs DEF BestFitTestInv
<1>2. /\ pc \in {"idle", "fit"}
      /\ pc = "fit" => block_size = 2 * KiB + 1 /\ cursor \in {0, Sec, Third, Fourth}
  <2>1. Progress
    BY DEF BestFitTestInv
  <2>2. SearchAt(2 * KiB + 1, {0, Sec, Third, Fourth})
    BY <2>1 DEF Progress
  <2> QED BY <2>2 DEF SearchAt
<1>3. /\ Busy(mem, 0, KiB + 1, Sec, -1) /\ Busy(mem, Sec, KiB + 1, Third, 0)
      /\ Busy(mem, Third, 3 * KiB + 1, Fourth, Sec)
      /\ Spare(mem, Fourth, PoolSize - Fourth, -1, Third)
      /\ allocated = {0, Sec, Third}
  BY <1>2 DEF BestFitTestInv, Layout, InHands, At, In, Freed, FirstTwo, FrontOnly,
     FirstOnly, Front, FrontFreed, Back, Middle
<1>4. CASE pc = "idle"
  <2>1. 2 * KiB \in Nat /\ 2 * KiB + 1 = 2 * KiB + 1 /\ 2 * KiB + 1 <= PoolSize
        /\ 0 \in Places /\ PoolSize <= SIZE_MAX
    BY PlacesOfTest DEF Places
  <2>2. /\ pc' = "fit" /\ cursor' = 0 /\ block_size' = 2 * KiB + 1
        /\ pool' = pool /\ mem' = mem /\ allocated' = allocated /\ fault' = fault
        /\ call' = call /\ ptr' = ptr /\ target' = target
        /\ merge_size' = merge_size /\ next_buf' = next_buf
    BY <1>1, <1>4, <2>1, MallocBegins
  <2>3. Progress'
    BY <2>2 DEF Progress, SearchAt
  <2>4. block_size' \in 0 .. SIZE_MAX
    BY <2>1, <2>2, PlacesOfTest
  <2>5. Basic' /\ Layout' /\ InHands' /\ Pointers'
    BY <1>1, <1>4, <2>1, <2>2, <2>4, Within DEF Basic, Freed
  <2> QED BY <2>3, <2>5 DEF BestFitTestInv
<1>5. CASE pc = "fit" /\ cursor = 0
  <2>1. Sec # -1 /\ Sec \in Places
    BY PlacesOfTest DEF Places
  <2>2. /\ Stays(Sec) /\ block_size' = block_size /\ target' = target
        /\ merge_size' = merge_size /\ next_buf' = next_buf
    BY <1>1, <1>3, <1>5, <2>1, Passes
  <2>3. Progress'
    BY <1>2, <1>5, <2>2 DEF Progress, SearchAt, Stays
  <2>4. Basic' /\ Layout' /\ InHands' /\ Pointers'
    BY <1>1, <1>5, <2>1, <2>2, Within DEF Basic, Freed, Stays
  <2> QED BY <2>3, <2>4 DEF BestFitTestInv
<1>6. CASE pc = "fit" /\ cursor = Sec
  <2>1. Third # -1 /\ Third \in Places
    BY PlacesOfTest DEF Places
  <2>2. /\ Stays(Third) /\ block_size' = block_size /\ target' = target
        /\ merge_size' = merge_size /\ next_buf' = next_buf
    BY <1>1, <1>3, <1>6, <2>1, Passes
  <2>3. Progress'
    BY <1>2, <1>6, <2>2 DEF Progress, SearchAt, Stays
  <2>4. Basic' /\ Layout' /\ InHands' /\ Pointers'
    BY <1>1, <1>6, <2>1, <2>2, Within DEF Basic, Freed, Stays
  <2> QED BY <2>3, <2>4 DEF BestFitTestInv
<1>7. CASE pc = "fit" /\ cursor = Third
  <2>1. Fourth # -1 /\ Fourth \in Places
    BY PlacesOfTest DEF Places
  <2>2. /\ Stays(Fourth) /\ block_size' = block_size /\ target' = target
        /\ merge_size' = merge_size /\ next_buf' = next_buf
    BY <1>1, <1>3, <1>7, <2>1, Passes
  <2>3. Progress'
    BY <1>2, <1>7, <2>2 DEF Progress, SearchAt, Stays
  <2>4. Basic' /\ Layout' /\ InHands' /\ Pointers'
    BY <1>1, <1>7, <2>1, <2>2, Within DEF Basic, Freed, Stays
  <2> QED BY <2>3, <2>4 DEF BestFitTestInv
<1>8. CASE pc = "fit" /\ cursor = Fourth
  <2>0. /\ Fourth \in Places /\ 2 * KiB + 1 \in Nat \ {0} /\ PoolSize - Fourth \in Nat
        /\ -1 \in Places \cup {-1}
        /\ Third \in Places \cup {-1} /\ Fifth \in Places
        /\ PoolSize - Fifth \in Nat \ {0}
        /\ Fifth = Fourth + (2 * KiB + 1)
        /\ PoolSize - Fourth = (2 * KiB + 1) + (PoolSize - Fifth)
    BY PlacesOfTest DEF Places
  <2>1. /\ Returns(5, Fourth) /\ mem' \in Memories
        /\ Busy(mem', Fourth, 2 * KiB + 1, Fifth, Third)
        /\ Spare(mem', Fifth, PoolSize - Fifth, -1, Fourth)
        /\ \A a \in Places : a < Fourth \/ a > Fifth => mem'[a] = mem[a]
    <3>1. Spare(mem, Fourth, PoolSize - Fourth, -1, Third)
      BY <1>3
    <3> QED BY <1>1, <1>2, <1>8, <2>0, <3>1, CutsAt
  <2>2. call' = 7 /\ pc' = "idle"
    BY <2>1 DEF Returns
  <2>5. /\ Busy(mem', 0, KiB + 1, Sec, -1) /\ Busy(mem', Sec, KiB + 1, Third, 0)
        /\ Busy(mem', Third, 3 * KiB + 1, Fourth, Sec)
    BY <1>3, <2>0, <2>1, PlacesOfTest DEF Busy, Spare
  <2>4. Fourth \notin allocated /\ allocated' = {0, Sec, Third, Fourth} /\ Fourth \in Int
    BY <1>3, <2>1, PlacesOfTest DEF Returns
  <2>6. Layout'
    BY <2>1, <2>2, <2>5 DEF Layout, At, In, Freed, FirstTwo, FrontOnly, FirstOnly,
       Front, FrontFreed, Back, Middle
  <2>7. InHands'
    BY <2>1, <2>2, <2>4 DEF InHands, At, In, Freed
  <2>8. Progress'
    BY <2>1, <2>2 DEF Progress, SearchAt, Freeing
  <2>9. ptr' = [ptr EXCEPT ![5] = Fourth] /\ ptr' \in [1 .. 11 -> Int]
    BY <1>1, <2>1, <2>4 DEF Returns, Basic
  <2>10. Pointers'
    BY <1>1, <2>2, <2>9 DEF Pointers, BestFitTestInv, Basic
  <2>11. Basic'
    BY <1>1, <2>1, <2>4, <2>9, Between DEF Returns
  <2> QED BY <2>6, <2>7, <2>8, <2>10, <2>11 DEF BestFitTestInv
<1> QED BY <1>1, <1>2, <1>4, <1>5, <1>6, <1>7, <1>8 DEF Basic

\* Call 7 asks for 2 * KiB and gets the block at Fifth.
LEMMA Call7 ==
  ASSUME RoomForTest, BestFitTestInv, TestNext, call = 7
  PROVE  BestFitTestInv'
<1>1. Basic /\ Mallocs(call, 6, 2 * KiB) /\ call \in 1 .. 20
  BY ScriptIs DEF BestFitTestInv
<1>2. /\ pc \in {"idle", "fit"}
      /\ pc = "fit" => /\ block_size = 2 * KiB + 1
                       /\ cursor \in {0, Sec, Third, Fourth, Fifth}
  <2>1. Progress
    BY DEF BestFitTestInv
  <2>2. SearchAt(2 * KiB + 1, {0, Sec, Third, Fourth, Fifth})
    BY <2>1 DEF Progress
  <2> QED BY <2>2 DEF SearchAt
<1>3. /\ Busy(mem, 0, KiB + 1, Sec, -1) /\ Busy(mem, Sec, KiB + 1, Third, 0)
      /\ Busy(mem, Third, 3 * KiB + 1, Fourth, Sec)
      /\ Busy(mem, Fourth, 2 * KiB + 1, Fifth, Third)
      /\ Spare(mem, Fifth, PoolSize - Fifth, -1, Fourth)
      /\ allocated = {0, Sec, Third, Fourth}
  BY <1>2 DEF BestFitTestInv, Layout, InHands, At, In, Freed, FirstTwo, FrontOnly,
     FirstOnly, Front, FrontFreed, Back, Middle
<1>4. CASE pc = "idle"
  <2>1. 2 * KiB \in Nat /\ 2 * KiB + 1 = 2 * KiB + 1 /\ 2 * KiB + 1 <= PoolSize
        /\ 0 \in Places /\ PoolSize <= SIZE_MAX
    BY PlacesOfTest DEF Places
  <2>2. /\ pc' = "fit" /\ cursor' = 0 /\ block_size' = 2 * KiB + 1
        /\ pool' = pool /\ mem' = mem /\ allocated' = allocated /\ fault' = fault
        /\ call' = call /\ ptr' = ptr /\ target' = target
        /\ merge_size' = merge_size /\ next_buf' = next_buf
    BY <1>1, <1>4, <2>1, MallocBegins
  <2>3. Progress'
    BY <2>2 DEF Progress, SearchAt
  <2>4. block_size' \in 0 .. SIZE_MAX
    BY <2>1, <2>2, PlacesOfTest
  <2>5. Basic' /\ Layout' /\ InHands' /\ Pointers'
    BY <1>1, <1>4, <2>1, <2>2, <2>4, Within DEF Basic, Freed
  <2> QED BY <2>3, <2>5 DEF BestFitTestInv
<1>5. CASE pc = "fit" /\ cursor = 0
  <2>1. Sec # -1 /\ Sec \in Places
    BY PlacesOfTest DEF Places
  <2>2. /\ Stays(Sec) /\ block_size' = block_size /\ target' = target
        /\ merge_size' = merge_size /\ next_buf' = next_buf
    BY <1>1, <1>3, <1>5, <2>1, Passes
  <2>3. Progress'
    BY <1>2, <1>5, <2>2 DEF Progress, SearchAt, Stays
  <2>4. Basic' /\ Layout' /\ InHands' /\ Pointers'
    BY <1>1, <1>5, <2>1, <2>2, Within DEF Basic, Freed, Stays
  <2> QED BY <2>3, <2>4 DEF BestFitTestInv
<1>6. CASE pc = "fit" /\ cursor = Sec
  <2>1. Third # -1 /\ Third \in Places
    BY PlacesOfTest DEF Places
  <2>2. /\ Stays(Third) /\ block_size' = block_size /\ target' = target
        /\ merge_size' = merge_size /\ next_buf' = next_buf
    BY <1>1, <1>3, <1>6, <2>1, Passes
  <2>3. Progress'
    BY <1>2, <1>6, <2>2 DEF Progress, SearchAt, Stays
  <2>4. Basic' /\ Layout' /\ InHands' /\ Pointers'
    BY <1>1, <1>6, <2>1, <2>2, Within DEF Basic, Freed, Stays
  <2> QED BY <2>3, <2>4 DEF BestFitTestInv
<1>7. CASE pc = "fit" /\ cursor = Third
  <2>1. Fourth # -1 /\ Fourth \in Places
    BY PlacesOfTest DEF Places
  <2>2. /\ Stays(Fourth) /\ block_size' = block_size /\ target' = target
        /\ merge_size' = merge_size /\ next_buf' = next_buf
    BY <1>1, <1>3, <1>7, <2>1, Passes
  <2>3. Progress'
    BY <1>2, <1>7, <2>2 DEF Progress, SearchAt, Stays
  <2>4. Basic' /\ Layout' /\ InHands' /\ Pointers'
    BY <1>1, <1>7, <2>1, <2>2, Within DEF Basic, Freed, Stays
  <2> QED BY <2>3, <2>4 DEF BestFitTestInv
<1>8. CASE pc = "fit" /\ cursor = Fourth
  <2>1. Fifth # -1 /\ Fifth \in Places
    BY PlacesOfTest DEF Places
  <2>2. /\ Stays(Fifth) /\ block_size' = block_size /\ target' = target
        /\ merge_size' = merge_size /\ next_buf' = next_buf
    BY <1>1, <1>3, <1>8, <2>1, Passes
  <2>3. Progress'
    BY <1>2, <1>8, <2>2 DEF Progress, SearchAt, Stays
  <2>4. Basic' /\ Layout' /\ InHands' /\ Pointers'
    BY <1>1, <1>8, <2>1, <2>2, Within DEF Basic, Freed, Stays
  <2> QED BY <2>3, <2>4 DEF BestFitTestInv
<1>9. CASE pc = "fit" /\ cursor = Fifth
  <2>0. /\ Fifth \in Places /\ 2 * KiB + 1 \in Nat \ {0} /\ PoolSize - Fifth \in Nat
        /\ -1 \in Places \cup {-1}
        /\ Fourth \in Places \cup {-1} /\ Last \in Places /\ PoolSize - Last \in Nat \ {0}
        /\ Last = Fifth + (2 * KiB + 1)
        /\ PoolSize - Fifth = (2 * KiB + 1) + (PoolSize - Last)
    BY PlacesOfTest DEF Places
  <2>1. /\ Returns(6, Fifth) /\ mem' \in Memories
        /\ Busy(mem', Fifth, 2 * KiB + 1, Last, Fourth)
        /\ Spare(mem', Last, PoolSize - Last, -1, Fifth)
        /\ \A a \in Places : a < Fifth \/ a > Last => mem'[a] = mem[a]
    <3>1. Spare(mem, Fifth, PoolSize - Fifth, -1, Fourth)
      BY <1>3
    <3> QED BY <1>1, <1>2, <1>9, <2>0, <3>1, CutsAt
  <2>2. call' = 8 /\ pc' = "idle"
    BY <2>1 DEF Returns
  <2>5. /\ Busy(mem', 0, KiB + 1, Sec, -1) /\ Busy(mem', Sec, KiB + 1, Third, 0)
        /\ Busy(mem', Third, 3 * KiB + 1, Fourth, Sec)
        /\ Busy(mem', Fourth, 2 * KiB + 1, Fifth, Third)
    BY <1>3, <2>0, <2>1, PlacesOfTest DEF Busy, Spare
  <2>4. /\ Fifth \notin allocated /\ allocated' = {0, Sec, Third, Fourth, Fifth}
        /\ Fifth \in Int
    BY <1>3, <2>1, PlacesOfTest DEF Returns
  <2>6. Layout'
    BY <2>1, <2>2, <2>5 DEF Layout, At, In, Freed, FirstTwo, FrontOnly, FirstOnly,
       Front, FrontFreed, Back, Middle
  <2>7. InHands'
    BY <2>1, <2>2, <2>4 DEF InHands, At, In, Freed
  <2>8. Progress'
    BY <2>1, <2>2 DEF Progress, SearchAt, Freeing
  <2>9. ptr' = [ptr EXCEPT ![6] = Fifth] /\ ptr' \in [1 .. 11 -> Int]
    BY <1>1, <2>1, <2>4 DEF Returns, Basic
  <2>10. Pointers'
    BY <1>1, <2>2, <2>9 DEF Pointers, BestFitTestInv, Basic
  <2>11. Basic'
    BY <1>1, <2>1, <2>4, <2>9, Between DEF Returns
  <2> QED BY <2>6, <2>7, <2>8, <2>10, <2>11 DEF BestFitTestInv
<1> QED BY <1>1, <1>2, <1>4, <1>5, <1>6, <1>7, <1>8, <1>9 DEF Basic

\* Call 8 gives the block at Fourth back.
LEMMA Call8 ==
  ASSUME RoomForTest, BestFitTestInv, TestNext, call = 8
  PROVE  BestFitTestInv'
<1>1. Basic /\ Frees(call, 5) /\ call \in 1 .. 20 /\ ptr[5] = Fourth
  BY ScriptIs DEF BestFitTestInv, Pointers
<1>2. /\ pc \in {"idle", "forward", "backward"}
      /\ pc # "idle" => target = Fourth
      /\ pc = "forward" => /\ cursor \in {Fourth}
                           /\ merge_size = cursor + mem[cursor].size - Fourth
      /\ pc = "backward" => /\ cursor \in {Fourth} /\ next_buf = Fifth
                            /\ merge_size = Fifth - cursor
  <2>1. Progress
    BY DEF BestFitTestInv
  <2>2. Freeing(Fourth, {Fourth}, {Fourth}, Fifth, Fifth)
    BY <2>1 DEF Progress
  <2> QED BY <2>2 DEF Freeing
<1>3. CASE pc = "idle"
  <2>1. /\ Busy(mem, 0, KiB + 1, Sec, -1) /\ Busy(mem, Sec, KiB + 1, Third, 0)
        /\ Busy(mem, Third, 3 * KiB + 1, Fourth, Sec)
        /\ Busy(mem, Fourth, 2 * KiB + 1, Fifth, Third)
        /\ Busy(mem, Fifth, 2 * KiB + 1, Last, Fourth)
        /\ Spare(mem, Last, PoolSize - Last, -1, Fifth)
        /\ allocated = {0, Sec, Third, Fourth, Fifth}
    BY <1>3 DEF BestFitTestInv, Layout, InHands, At, In, Freed, FirstTwo, FrontOnly,
       FirstOnly, Front, FrontFreed, Back, Middle
  <2>2. /\ Fourth \in Places /\ 2 * KiB + 1 \in Nat /\ Fifth \in Places \cup {-1}
        /\ Third \in Places \cup {-1}
    BY PlacesOfTest DEF Places
  <2>3. /\ pc' = "forward" /\ cursor' = Fourth /\ target' = Fourth
        /\ merge_size' = 2 * KiB + 1 /\ allocated' = allocated \ {Fourth}
        /\ Spare(mem', Fourth, 2 * KiB + 1, Fifth, Third) /\ Differ(mem', mem, Fourth)
        /\ pool' = pool /\ fault' = fault /\ call' = call /\ ptr' = ptr
        /\ block_size' = block_size /\ next_buf' = next_buf
    <3>1. Busy(mem, Fourth, 2 * KiB + 1, Fifth, Third)
      BY <2>1
    <3> QED BY <1>1, <1>3, <2>2, <3>1, FreeBegins
  <2>4. /\ Busy(mem', 0, KiB + 1, Sec, -1) /\ Busy(mem', Sec, KiB + 1, Third, 0)
        /\ Busy(mem', Third, 3 * KiB + 1, Fourth, Sec)
        /\ Busy(mem', Fifth, 2 * KiB + 1, Last, Fourth)
        /\ Spare(mem', Last, PoolSize - Last, -1, Fifth)
    BY <2>1, <2>3, PlacesOfTest DEF Differ, Busy, Spare
  <2>5. allocated' = {0, Sec, Third, Fifth}
    BY <2>1, <2>3, PlacesOfTest
  <2>6. call' = 8 /\ Freed'
    BY <2>3 DEF Freed
  <2>7. Layout'
    BY <2>3, <2>4, <2>6 DEF Layout, At, In, FirstTwo, FrontOnly, FirstOnly, Front,
       FrontFreed, Back, Middle
  <2>8. InHands'
    BY <2>5, <2>6 DEF InHands, At, In
  <2>9. merge_size' = cursor' + mem'[cursor'].size - Fourth
    <3>1. mem'[Fourth].size = 2 * KiB + 1 /\ Fourth \in Int
      BY <2>3, PlacesOfTest DEF Spare
    <3> QED BY <2>2, <2>3, <3>1
  <2>10. Progress'
    BY <2>3, <2>6, <2>9 DEF Progress, Freeing, SearchAt
  <2>11. Pointers'
    BY <2>3 DEF Pointers, BestFitTestInv
  <2>12. Basic'
    BY <1>1, <1>3, <2>2, <2>3 DEF Basic, Differ
  <2> QED BY <2>7, <2>8, <2>10, <2>11, <2>12 DEF BestFitTestInv
<1>4. ASSUME pc # "idle"
      PROVE  /\ Busy(mem, 0, KiB + 1, Sec, -1) /\ Busy(mem, Sec, KiB + 1, Third, 0)
             /\ Busy(mem, Third, 3 * KiB + 1, Fourth, Sec)
             /\ Spare(mem, Fourth, 2 * KiB + 1, Fifth, Third)
             /\ Busy(mem, Fifth, 2 * KiB + 1, Last, Fourth)
             /\ Spare(mem, Last, PoolSize - Last, -1, Fifth)
             /\ allocated = {0, Sec, Third, Fifth}
  BY <1>2, <1>4 DEF BestFitTestInv, Layout, InHands, At, In, Freed, FirstTwo,
     FrontOnly, FirstOnly, Front, FrontFreed, Back, Middle
<1>5. CASE pc = "forward" /\ cursor = Fourth
  <2>1. mem[Fourth].size = 2 * KiB + 1 /\ merge_size = Fourth + 2 * KiB + 1 - Fourth
    <3>1. mem[Fourth].size = 2 * KiB + 1
      BY <1>4, <1>5 DEF Spare
    <3>2. merge_size = cursor + mem[cursor].size - Fourth
      BY <1>2, <1>5
    <3>3. cursor = Fourth
      BY <1>5
    <3> QED BY <3>1, <3>2, <3>3, PlacesOfTest, NumbersOfTest
  <2>2. Fourth + 2 * KiB + 1 = Fifth /\ Fourth \in Places
        /\ Fifth \in Places \cup {-1}
    BY PlacesOfTest DEF Places
  <2>3. Stops(Fifth)
    BY <1>4, <1>5 DEF Stops
  <2>4. /\ pc' = "backward" /\ next_buf' = Fifth /\ cursor' = Fourth
        /\ pool' = pool /\ mem' = mem /\ allocated' = allocated /\ fault' = fault
        /\ call' = call /\ ptr' = ptr /\ block_size' = block_size
        /\ target' = target /\ merge_size' = merge_size
    BY <1>1, <1>2, <1>4, <1>5, <2>3, TurnsBack
  <2>5. merge_size' = Fifth - Fourth
    BY <2>1, <2>2, <2>4, PlacesOfTest
  <2>6. Progress'
    BY <1>2, <1>5, <2>4, <2>5 DEF Progress, Freeing, SearchAt
  <2>7. Basic' /\ Layout' /\ InHands' /\ Pointers'
    BY <1>1, <1>5, <2>2, <2>4, Within DEF Basic, Freed
  <2> QED BY <2>6, <2>7 DEF BestFitTestInv
<1>6. CASE pc = "backward" /\ cursor = Fourth
  <2>0. 2 * KiB + 1 \in Nat /\ 3 * KiB + 1 \in Nat /\ Fifth - Fourth = 2 * KiB + 1
    <3>1. 2 * KiB + 1 \in Nat /\ 3 * KiB + 1 \in Nat
      BY NumbersOfTest
    <3>2. Fifth - Fourth = 2 * KiB + 1
      BY PlacesOfTest, NumbersOfTest
    <3> QED BY <3>1, <3>2
  <2>1. /\ Fourth \in Places /\ Fifth \in Places /\ Fifth # Fourth
        /\ Fifth \in Places \cup {-1} /\ Third \in Places \cup {-1}
        /\ Fourth \in Places \cup {-1} /\ Sec \in Places \cup {-1}
        /\ Last \in Places \cup {-1}
    BY PlacesOfTest DEF Places
  <2>2. PrevStops(Third) /\ Script[call].name # "malloc"
    BY <1>1, <1>4, <1>6, <2>0, <2>1 DEF PrevStops, Frees
  <2>3. merge_size = 2 * KiB + 1 /\ next_buf = Fifth
    BY <1>2, <1>6, <2>0
  <2>4. /\ pc' = "idle" /\ AtRest' /\ pool' = pool /\ fault' = fault
        /\ allocated' = allocated /\ call' = call + 1 /\ ptr' = ptr
        /\ Spare(mem', Fourth, 2 * KiB + 1, Fifth, Third)
        /\ Busy(mem', Fifth, 2 * KiB + 1, Last, Fourth)
        /\ mem' \in Memories
        /\ \A x \in Places : x # Fourth /\ x # Fifth => mem'[x] = mem[x]
    <3>1. PICK v \in Nat : v = 2 * KiB + 1
      BY <2>0
    <3>2. PICK w \in Nat : w = 2 * KiB + 1
      BY <2>0
    <3>3. CanMerge(Fourth, v, Fifth, Third, Fifth, w, Last, Fourth)
      BY <1>4, <1>6, <2>1, <2>2, <2>3, <3>1, <3>2 DEF CanMerge
    <3>4. IsMerged(Fourth, Third, Fifth, w, Last)
      BY <1>1, <2>2, <3>3, MergesAt
    <3> QED BY <2>3, <3>2, <3>4 DEF IsMerged
  <2>5. mem' \in Memories /\ Spare(mem', Fourth, 2 * KiB + 1, Fifth, Third)
    BY <2>4
  <2>6. /\ Busy(mem', 0, KiB + 1, Sec, -1) /\ Busy(mem', Sec, KiB + 1, Third, 0)
        /\ Busy(mem', Third, 3 * KiB + 1, Fourth, Sec)
        /\ Spare(mem', Last, PoolSize - Last, -1, Fifth)
    BY <1>4, <1>6, <2>4, PlacesOfTest DEF Differ, Busy, Spare
  <2>7. call' = 9 /\ ~Freed' /\ allocated' = {0, Sec, Third, Fifth}
    BY <1>4, <1>6, <2>4 DEF Freed
  <2>8. Layout'
    BY <2>4, <2>5, <2>6, <2>7 DEF Layout, At, In, FirstTwo, FrontOnly, FirstOnly,
       Front, FrontFreed, Back, Middle
  <2>9. InHands'
    BY <2>7 DEF InHands, At, In
  <2>10. Progress'
    BY <2>4, <2>7 DEF Progress, SearchAt, Freeing
  <2>11. Pointers'
    BY <2>4, <2>7 DEF Pointers, BestFitTestInv
  <2>12. Basic'
    BY <1>1, <2>4, <2>5, Between DEF Basic
  <2> QED BY <2>8, <2>9, <2>10, <2>11, <2>12 DEF BestFitTestInv
<1> QED BY <1>2, <1>3, <1>5, <1>6

\* Call 9 asks for KiB and gets the block at Fourth.
LEMMA Call9 ==
  ASSUME RoomForTest, BestFitTestInv, TestNext, call = 9
  PROVE  BestFitTestInv'
<1>1. Basic /\ Mallocs(call, 7, KiB) /\ call \in 1 .. 20
  BY ScriptIs DEF BestFitTestInv
<1>2. /\ pc \in {"idle", "fit"}
      /\ pc = "fit" => block_size = KiB + 1 /\ cursor \in {0, Sec, Third, Fourth}
  <2>1. Progress
    BY DEF BestFitTestInv
  <2>2. SearchAt(KiB + 1, {0, Sec, Third, Fourth})
    BY <2>1 DEF Progress
  <2> QED BY <2>2 DEF SearchAt
<1>3. /\ Busy(mem, 0, KiB + 1, Sec, -1) /\ Busy(mem, Sec, KiB + 1, Third, 0)
      /\ Busy(mem, Third, 3 * KiB + 1, Fourth, Sec)
      /\ Spare(mem, Fourth, 2 * KiB + 1, Fifth, Third)
      /\ Busy(mem, Fifth, 2 * KiB + 1, Last, Fourth)
      /\ Spare(mem, Last, PoolSize - Last, -1, Fifth)
      /\ allocated = {0, Sec, Third, Fifth}
  BY <1>2 DEF BestFitTestInv, Layout, InHands, At, In, Freed, FirstTwo, FrontOnly,
     FirstOnly, Front, FrontFreed, Back, Middle
<1>4. CASE pc = "idle"
  <2>1. KiB \in Nat /\ KiB + 1 = KiB + 1 /\ KiB + 1 <= PoolSize
        /\ 0 \in Places /\ PoolSize <= SIZE_MAX
    BY PlacesOfTest DEF Places
  <2>2. /\ pc' = "fit" /\ cursor' = 0 /\ block_size' = KiB + 1
        /\ pool' = pool /\ mem' = mem /\ allocated' = allocated /\ fault' = fault
        /\ call' = call /\ ptr' = ptr /\ target' = target
        /\ merge_size' = merge_size /\ next_buf' = next_buf
    BY <1>1, <1>4, <2>1, MallocBegins
  <2>3. Progress'
    BY <2>2 DEF Progress, SearchAt
  <2>4. block_size' \in 0 .. SIZE_MAX
    BY <2>1, <2>2, PlacesOfTest
  <2>5. Basic' /\ Layout' /\ InHands' /\ Pointers'
    BY <1>1, <1>4, <2>1, <2>2, <2>4, Within DEF Basic, Freed
  <2> QED BY <2>3, <2>5 DEF BestFitTestInv
<1>5. CASE pc = "fit" /\ cursor = 0
  <2>1. Sec # -1 /\ Sec \in Places
    BY PlacesOfTest DEF Places
  <2>2. /\ Stays(Sec) /\ block_size' = block_size /\ target' = target
        /\ merge_size' = merge_size /\ next_buf' = next_buf
    BY <1>1, <1>3, <1>5, <2>1, Passes
  <2>3. Progress'
    BY <1>2, <1>5, <2>2 DEF Progress, SearchAt, Stays
  <2>4. Basic' /\ Layout' /\ InHands' /\ Pointers'
    BY <1>1, <1>5, <2>1, <2>2, Within DEF Basic, Freed, Stays
  <2> QED BY <2>3, <2>4 DEF BestFitTestInv
<1>6. CASE pc = "fit" /\ cursor = Sec
  <2>1. Third # -1 /\ Third \in Places
    BY PlacesOfTest DEF Places
  <2>2. /\ Stays(Third) /\ block_size' = block_size /\ target' = target
        /\ merge_size' = merge_size /\ next_buf' = next_buf
    BY <1>1, <1>3, <1>6, <2>1, Passes
  <2>3. Progress'
    BY <1>2, <1>6, <2>2 DEF Progress, SearchAt, Stays
  <2>4. Basic' /\ Layout' /\ InHands' /\ Pointers'
    BY <1>1, <1>6, <2>1, <2>2, Within DEF Basic, Freed, Stays
  <2> QED BY <2>3, <2>4 DEF BestFitTestInv
<1>7. CASE pc = "fit" /\ cursor = Third
  <2>1. Fourth # -1 /\ Fourth \in Places
    BY PlacesOfTest DEF Places
  <2>2. /\ Stays(Fourth) /\ block_size' = block_size /\ target' = target
        /\ merge_size' = merge_size /\ next_buf' = next_buf
    BY <1>1, <1>3, <1>7, <2>1, Passes
  <2>3. Progress'
    BY <1>2, <1>7, <2>2 DEF Progress, SearchAt, Stays
  <2>4. Basic' /\ Layout' /\ InHands' /\ Pointers'
    BY <1>1, <1>7, <2>1, <2>2, Within DEF Basic, Freed, Stays
  <2> QED BY <2>3, <2>4 DEF BestFitTestInv
<1>8. CASE pc = "fit" /\ cursor = Fourth
  <2>0. /\ Fourth \in Places /\ KiB + 1 \in Nat \ {0} /\ 2 * KiB + 1 \in Nat
        /\ Fifth \in Places \cup {-1}
        /\ Third \in Places \cup {-1} /\ Half \in Places /\ KiB \in Nat \ {0}
        /\ Half = Fourth + (KiB + 1) /\ 2 * KiB + 1 = (KiB + 1) + KiB
    BY PlacesOfTest DEF Places
  <2>1. /\ Returns(7, Fourth) /\ mem' \in Memories
        /\ Busy(mem', Fourth, KiB + 1, Half, Third)
        /\ Spare(mem', Half, KiB, Fifth, Fourth)
        /\ \A a \in Places : a < Fourth \/ a > Half => mem'[a] = mem[a]
    <3>1. Spare(mem, Fourth, 2 * KiB + 1, Fifth, Third)
      BY <1>3
    <3> QED BY <1>1, <1>2, <1>8, <2>0, <3>1, CutsAt
  <2>2. call' = 10 /\ pc' = "idle"
    BY <2>1 DEF Returns
  <2>5. /\ Busy(mem', 0, KiB + 1, Sec, -1) /\ Busy(mem', Sec, KiB + 1, Third, 0)
        /\ Busy(mem', Third, 3 * KiB + 1, Fourth, Sec)
        /\ Busy(mem', Fifth, 2 * KiB + 1, Last, Fourth)
        /\ Spare(mem', Last, PoolSize - Last, -1, Fifth)
    BY <1>3, <2>0, <2>1, PlacesOfTest DEF Busy, Spare
  <2>4. /\ Fourth \notin allocated /\ allocated' = {0, Sec, Third, Fourth, Fifth}
        /\ Fourth \in Int
    BY <1>3, <2>1, PlacesOfTest DEF Returns
  <2>6. Layout'
    BY <2>1, <2>2, <2>5 DEF Layout, At, In, Freed, FirstTwo, FrontOnly, FirstOnly,
       Front, FrontFreed, Back, Middle
  <2>7. InHands'
    BY <2>1, <2>2, <2>4 DEF InHands, At, In, Freed
  <2>8. Progress'
    BY <2>1, <2>2 DEF Progress, SearchAt, Freeing
  <2>9. ptr' = [ptr EXCEPT ![7] = Fourth] /\ ptr' \in [1 .. 11 -> Int]
    BY <1>1, <2>1, <2>4 DEF Returns, Basic
  <2>10. Pointers'
    BY <1>1, <2>2, <2>9 DEF Pointers, BestFitTestInv, Basic
  <2>11. Basic'
    BY <1>1, <2>1, <2>4, <2>9, Between DEF Returns
  <2> QED BY <2>6, <2>7, <2>8, <2>10, <2>11 DEF BestFitTestInv
<1> QED BY <1>1, <1>2, <1>4, <1>5, <1>6, <1>7, <1>8 DEF Basic

\* Call 10 asks for KiB - 1 and gets the block at Half.
LEMMA Call10 ==
  ASSUME RoomForTest, BestFitTestInv, TestNext, call = 10
  PROVE  BestFitTestInv'
<1>1. Basic /\ Mallocs(call, 8, KiB - 1) /\ call \in 1 .. 20
  BY ScriptIs DEF BestFitTestInv
<1>2. /\ pc \in {"idle", "fit"}
      /\ pc = "fit" => block_size = KiB /\ cursor \in {0, Sec, Third, Fourth, Half}
  <2>1. Progress
    BY DEF BestFitTestInv
  <2>2. SearchAt(KiB, {0, Sec, Third, Fourth, Half})
    BY <2>1 DEF Progress
  <2> QED BY <2>2 DEF SearchAt
<1>3. /\ Busy(mem, 0, KiB + 1, Sec, -1) /\ Busy(mem, Sec, KiB + 1, Third, 0)
      /\ Busy(mem, Third, 3 * KiB + 1, Fourth, Sec)
      /\ Busy(mem, Fourth, KiB + 1, Half, Third)
      /\ Spare(mem, Half, KiB, Fifth, Fourth)
      /\ Busy(mem, Fifth, 2 * KiB + 1, Last, Fourth)
      /\ Spare(mem, Last, PoolSize - Last, -1, Fifth)
      /\ allocated = {0, Sec, Third, Fourth, Fifth}
  BY <1>2 DEF BestFitTestInv, Layout, InHands, At, In, Freed, FirstTwo, FrontOnly,
     FirstOnly, Front, FrontFreed, Back, Middle
<1>4. CASE pc = "idle"
  <2>1. KiB - 1 \in Nat /\ KiB - 1 + 1 = KiB /\ KiB - 1 + 1 <= PoolSize
        /\ 0 \in Places /\ PoolSize <= SIZE_MAX
    BY PlacesOfTest DEF Places
  <2>2. /\ pc' = "fit" /\ cursor' = 0 /\ block_size' = KiB
        /\ pool' = pool /\ mem' = mem /\ allocated' = allocated /\ fault' = fault
        /\ call' = call /\ ptr' = ptr /\ target' = target
        /\ merge_size' = merge_size /\ next_buf' = next_buf
    BY <1>1, <1>4, <2>1, MallocBegins
  <2>3. Progress'
    BY <2>2 DEF Progress, SearchAt
  <2>4. block_size' \in 0 .. SIZE_MAX
    BY <2>1, <2>2, PlacesOfTest
  <2>5. Basic' /\ Layout' /\ InHands' /\ Pointers'
    BY <1>1, <1>4, <2>1, <2>2, <2>4, Within DEF Basic, Freed
  <2> QED BY <2>3, <2>5 DEF BestFitTestInv
<1>5. CASE pc = "fit" /\ cursor = 0
  <2>1. Sec # -1 /\ Sec \in Places
    BY PlacesOfTest DEF Places
  <2>2. /\ Stays(Sec) /\ block_size' = block_size /\ target' = target
        /\ merge_size' = merge_size /\ next_buf' = next_buf
    BY <1>1, <1>3, <1>5, <2>1, Passes
  <2>3. Progress'
    BY <1>2, <1>5, <2>2 DEF Progress, SearchAt, Stays
  <2>4. Basic' /\ Layout' /\ InHands' /\ Pointers'
    BY <1>1, <1>5, <2>1, <2>2, Within DEF Basic, Freed, Stays
  <2> QED BY <2>3, <2>4 DEF BestFitTestInv
<1>6. CASE pc = "fit" /\ cursor = Sec
  <2>1. Third # -1 /\ Third \in Places
    BY PlacesOfTest DEF Places
  <2>2. /\ Stays(Third) /\ block_size' = block_size /\ target' = target
        /\ merge_size' = merge_size /\ next_buf' = next_buf
    BY <1>1, <1>3, <1>6, <2>1, Passes
  <2>3. Progress'
    BY <1>2, <1>6, <2>2 DEF Progress, SearchAt, Stays
  <2>4. Basic' /\ Layout' /\ InHands' /\ Pointers'
    BY <1>1, <1>6, <2>1, <2>2, Within DEF Basic, Freed, Stays
  <2> QED BY <2>3, <2>4 DEF BestFitTestInv
<1>7. CASE pc = "fit" /\ cursor = Third
  <2>1. Fourth # -1 /\ Fourth \in Places
    BY PlacesOfTest DEF Places
  <2>2. /\ Stays(Fourth) /\ block_size' = block_size /\ target' = target
        /\ merge_size' = merge_size /\ next_buf' = next_buf
    BY <1>1, <1>3, <1>7, <2>1, Passes
  <2>3. Progress'
    BY <1>2, <1>7, <2>2 DEF Progress, SearchAt, Stays
  <2>4. Basic' /\ Layout' /\ InHands' /\ Pointers'
    BY <1>1, <1>7, <2>1, <2>2, Within DEF Basic, Freed, Stays
  <2> QED BY <2>3, <2>4 DEF BestFitTestInv
<1>8. CASE pc = "fit" /\ cursor = Fourth
  <2>1. Half # -1 /\ Half \in Places
    BY PlacesOfTest DEF Places
  <2>2. /\ Stays(Half) /\ block_size' = block_size /\ target' = target
        /\ merge_size' = merge_size /\ next_buf' = next_buf
    BY <1>1, <1>3, <1>8, <2>1, Passes
  <2>3. Progress'
    BY <1>2, <1>8, <2>2 DEF Progress, SearchAt, Stays
  <2>4. Basic' /\ Layout' /\ InHands' /\ Pointers'
    BY <1>1, <1>8, <2>1, <2>2, Within DEF Basic, Freed, Stays
  <2> QED BY <2>3, <2>4 DEF BestFitTestInv
<1>9. CASE pc = "fit" /\ cursor = Half
  <2>0. /\ Half \in Places /\ KiB \in Nat \ {0} /\ Fifth \in Places \cup {-1}
        /\ Fourth \in Places \cup {-1}
    BY PlacesOfTest DEF Places
  <2>1. /\ Returns(8, Half) /\ mem' \in Memories /\ Busy(mem', Half, KiB, Fifth, Fourth)
        /\ \A a \in Places : a < Half \/ a >= Half + KiB => mem'[a] = mem[a]
    BY <1>1, <1>2, <1>3, <1>9, <2>0, WholeTaken DEF Mallocs
  <2>2. call' = 11 /\ pc' = "idle"
    BY <2>1 DEF Returns
  <2>3. /\ Busy(mem', 0, KiB + 1, Sec, -1) /\ Busy(mem', Sec, KiB + 1, Third, 0)
        /\ Busy(mem', Third, 3 * KiB + 1, Fourth, Sec)
        /\ Busy(mem', Fourth, KiB + 1, Half, Third)
        /\ Busy(mem', Fifth, 2 * KiB + 1, Last, Fourth)
        /\ Spare(mem', Last, PoolSize - Last, -1, Fifth)
    BY <1>3, <2>1, PlacesOfTest DEF Busy, Spare
  <2>4. /\ Half \notin allocated /\ allocated' = {0, Sec, Third, Fourth, Half, Fifth}
        /\ Half \in Int
    BY <1>3, <2>1, PlacesOfTest DEF Returns
  <2>6. Layout'
    BY <2>1, <2>2, <2>3 DEF Layout, At, In, Freed, FirstTwo, FrontOnly, FirstOnly,
       Front, FrontFreed, Back, Middle
  <2>7. InHands'
    BY <2>1, <2>2, <2>4 DEF InHands, At, In, Freed
  <2>8. Progress'
    BY <2>1, <2>2 DEF Progress, SearchAt, Freeing
  <2>9. ptr' = [ptr EXCEPT ![8] = Half] /\ ptr' \in [1 .. 11 -> Int]
    BY <1>1, <2>1, <2>4 DEF Returns, Basic
  <2>10. Pointers'
    BY <1>1, <2>2, <2>9 DEF Pointers, BestFitTestInv, Basic
  <2>11. Basic'
    BY <1>1, <2>1, <2>4, <2>9, Between DEF Returns
  <2> QED BY <2>6, <2>7, <2>8, <2>10, <2>11 DEF BestFitTestInv
<1> QED BY <1>1, <1>2, <1>4, <1>5, <1>6, <1>7, <1>8, <1>9 DEF Basic

\* Call 11 gives the block at Third back.
LEMMA Call11 ==
  ASSUME RoomForTest, BestFitTestInv, TestNext, call = 11
  PROVE  BestFitTestInv'
<1>1. Basic /\ Frees(call, 4) /\ call \in 1 .. 20 /\ ptr[4] = Third
  BY ScriptIs DEF BestFitTestInv, Pointers
<1>2. /\ pc \in {"idle", "forward", "backward"}
      /\ pc # "idle" => target = Third
      /\ pc = "forward" => /\ cursor \in {Third}
                           /\ merge_size = cursor + mem[cursor].size - Third
      /\ pc = "backward" => /\ cursor \in {Third} /\ next_buf = Fourth
                            /\ merge_size = Fourth - cursor
  <2>1. Progress
    BY DEF BestFitTestInv
  <2>2. Freeing(Third, {Third}, {Third}, Fourth, Fourth)
    BY <2>1 DEF Progress
  <2> QED BY <2>2 DEF Freeing
<1>3. CASE pc = "idle"
  <2>1. /\ Busy(mem, 0, KiB + 1, Sec, -1) /\ Busy(mem, Sec, KiB + 1, Third, 0)
        /\ Busy(mem, Third, 3 * KiB + 1, Fourth, Sec)
        /\ Busy(mem, Fourth, KiB + 1, Half, Third)
        /\ Busy(mem, Half, KiB, Fifth, Fourth)
        /\ Busy(mem, Fifth, 2 * KiB + 1, Last, Fourth)
        /\ Spare(mem, Last, PoolSize - Last, -1, Fifth)
        /\ allocated = {0, Sec, Third, Fourth, Half, Fifth}
    BY <1>3 DEF BestFitTestInv, Layout, InHands, At, In, Freed, FirstTwo, FrontOnly,
       FirstOnly, Front, FrontFreed, Back, Middle
  <2>2. /\ Third \in Places /\ 3 * KiB + 1 \in Nat /\ Fourth \in Places \cup {-1}
        /\ Sec \in Places \cup {-1}
    BY PlacesOfTest DEF Places
  <2>3. /\ pc' = "forward" /\ cursor' = Third /\ target' = Third
        /\ merge_size' = 3 * KiB + 1 /\ allocated' = allocated \ {Third}
        /\ Spare(mem', Third, 3 * KiB + 1, Fourth, Sec) /\ Differ(mem', mem, Third)
        /\ pool' = pool /\ fault' = fault /\ call' = call /\ ptr' = ptr
        /\ block_size' = block_size /\ next_buf' = next_buf
    <3>1. Busy(mem, Third, 3 * KiB + 1, Fourth, Sec)
      BY <2>1
    <3> QED BY <1>1, <1>3, <2>2, <3>1, FreeBegins
  <2>4. /\ Busy(mem', 0, KiB + 1, Sec, -1) /\ Busy(mem', Sec, KiB + 1, Third, 0)
        /\ Busy(mem', Fourth, KiB + 1, Half, Third)
        /\ Busy(mem', Half, KiB, Fifth, Fourth)
        /\ Busy(mem', Fifth, 2 * KiB + 1, Last, Fourth)
        /\ Spare(mem', Last, PoolSize - Last, -1, Fifth)
    BY <2>1, <2>3, PlacesOfTest DEF Differ, Busy, Spare
  <2>5. allocated' = {0, Sec, Fourth, Half, Fifth}
    BY <2>1, <2>3, PlacesOfTest
  <2>6. call' = 11 /\ Freed'
    BY <2>3 DEF Freed
  <2>7. Layout'
    BY <2>3, <2>4, <2>6 DEF Layout, At, In, FirstTwo, FrontOnly, FirstOnly, Front,
       FrontFreed, Back, Middle
  <2>8. InHands'
    BY <2>5, <2>6 DEF InHands, At, In
  <2>9. merge_size' = cursor' + mem'[cursor'].size - Third
    <3>1. mem'[Third].size = 3 * KiB + 1 /\ Third \in Int
      BY <2>3, PlacesOfTest DEF Spare
    <3> QED BY <2>2, <2>3, <3>1
  <2>10. Progress'
    BY <2>3, <2>6, <2>9 DEF Progress, Freeing, SearchAt
  <2>11. Pointers'
    BY <2>3 DEF Pointers, BestFitTestInv
  <2>12. Basic'
    BY <1>1, <1>3, <2>2, <2>3 DEF Basic, Differ
  <2> QED BY <2>7, <2>8, <2>10, <2>11, <2>12 DEF BestFitTestInv
<1>4. ASSUME pc # "idle"
      PROVE  /\ Busy(mem, 0, KiB + 1, Sec, -1) /\ Busy(mem, Sec, KiB + 1, Third, 0)
             /\ Spare(mem, Third, 3 * KiB + 1, Fourth, Sec)
             /\ Busy(mem, Fourth, KiB + 1, Half, Third)
             /\ Busy(mem, Half, KiB, Fifth, Fourth)
             /\ Busy(mem, Fifth, 2 * KiB + 1, Last, Fourth)
             /\ Spare(mem, Last, PoolSize - Last, -1, Fifth)
             /\ allocated = {0, Sec, Fourth, Half, Fifth}
  BY <1>2, <1>4 DEF BestFitTestInv, Layout, InHands, At, In, Freed, FirstTwo,
     FrontOnly, FirstOnly, Front, FrontFreed, Back, Middle
<1>5. CASE pc = "forward" /\ cursor = Third
  <2>1. mem[Third].size = 3 * KiB + 1 /\ merge_size = Third + 3 * KiB + 1 - Third
    <3>1. mem[Third].size = 3 * KiB + 1
      BY <1>4, <1>5 DEF Spare
    <3>2. merge_size = cursor + mem[cursor].size - Third
      BY <1>2, <1>5
    <3>3. cursor = Third
      BY <1>5
    <3> QED BY <3>1, <3>2, <3>3, PlacesOfTest, NumbersOfTest
  <2>2. Third + 3 * KiB + 1 = Fourth /\ Third \in Places
        /\ Fourth \in Places \cup {-1}
    BY PlacesOfTest DEF Places
  <2>3. Stops(Fourth)
    BY <1>4, <1>5 DEF Stops
  <2>4. /\ pc' = "backward" /\ next_buf' = Fourth /\ cursor' = Third
        /\ pool' = pool /\ mem' = mem /\ allocated' = allocated /\ fault' = fault
        /\ call' = call /\ ptr' = ptr /\ block_size' = block_size
        /\ target' = target /\ merge_size' = merge_size
    BY <1>1, <1>2, <1>4, <1>5, <2>3, TurnsBack
  <2>5. merge_size' = Fourth - Third
    BY <2>1, <2>2, <2>4, PlacesOfTest
  <2>6. Progress'
    BY <1>2, <1>5, <2>4, <2>5 DEF Progress, Freeing, SearchAt
  <2>7. Basic' /\ Layout' /\ InHands' /\ Pointers'
    BY <1>1, <1>5, <2>2, <2>4, Within DEF Basic, Freed
  <2> QED BY <2>6, <2>7 DEF BestFitTestInv
<1>6. CASE pc = "backward" /\ cursor = Third
  <2>0. 3 * KiB + 1 \in Nat /\ KiB + 1 \in Nat /\ Fourth - Third = 3 * KiB + 1
    <3>1. 3 * KiB + 1 \in Nat /\ KiB + 1 \in Nat
      BY NumbersOfTest
    <3>2. Fourth - Third = 3 * KiB + 1
      BY PlacesOfTest, NumbersOfTest
    <3> QED BY <3>1, <3>2
  <2>1. /\ Third \in Places /\ Fourth \in Places /\ Fourth # Third
        /\ Fourth \in Places \cup {-1} /\ Sec \in Places \cup {-1}
        /\ Third \in Places \cup {-1} /\ 0 \in Places \cup {-1}
        /\ Half \in Places \cup {-1}
    BY PlacesOfTest DEF Places
  <2>2. PrevStops(Sec) /\ Script[call].name # "malloc"
    BY <1>1, <1>4, <1>6, <2>0, <2>1 DEF PrevStops, Frees
  <2>3. merge_size = 3 * KiB + 1 /\ next_buf = Fourth
    BY <1>2, <1>6, <2>0
  <2>4. /\ pc' = "idle" /\ AtRest' /\ pool' = pool /\ fault' = fault
        /\ allocated' = allocated /\ call' = call + 1 /\ ptr' = ptr
        /\ Spare(mem', Third, 3 * KiB + 1, Fourth, Sec)
        /\ Busy(mem', Fourth, KiB + 1, Half, Third)
        /\ mem' \in Memories
        /\ \A x \in Places : x # Third /\ x # Fourth => mem'[x] = mem[x]
    <3>1. PICK v \in Nat : v = 3 * KiB + 1
      BY <2>0
    <3>2. PICK w \in Nat : w = KiB + 1
      BY <2>0
    <3>3. CanMerge(Third, v, Fourth, Sec, Fourth, w, Half, Third)
      BY <1>4, <1>6, <2>1, <2>2, <2>3, <3>1, <3>2 DEF CanMerge
    <3>4. IsMerged(Third, Sec, Fourth, w, Half)
      BY <1>1, <2>2, <3>3, MergesAt
    <3> QED BY <2>3, <3>2, <3>4 DEF IsMerged
  <2>5. mem' \in Memories /\ Spare(mem', Third, 3 * KiB + 1, Fourth, Sec)
    BY <2>4
  <2>6. /\ Busy(mem', 0, KiB + 1, Sec, -1) /\ Busy(mem', Sec, KiB + 1, Third, 0)
        /\ Busy(mem', Half, KiB, Fifth, Fourth)
        /\ Busy(mem', Fifth, 2 * KiB + 1, Last, Fourth)
        /\ Spare(mem', Last, PoolSize - Last, -1, Fifth)
    BY <1>4, <1>6, <2>4, PlacesOfTest DEF Differ, Busy, Spare
  <2>7. call' = 12 /\ ~Freed' /\ allocated' = {0, Sec, Fourth, Half, Fifth}
    BY <1>4, <1>6, <2>4 DEF Freed
  <2>8. Layout'
    BY <2>4, <2>5, <2>6, <2>7 DEF Layout, At, In, FirstTwo, FrontOnly, FirstOnly,
       Front, FrontFreed, Back, Middle
  <2>9. InHands'
    BY <2>7 DEF InHands, At, In
  <2>10. Progress'
    BY <2>4, <2>7 DEF Progress, SearchAt, Freeing
  <2>11. Pointers'
    BY <2>4, <2>7 DEF Pointers, BestFitTestInv
  <2>12. Basic'
    BY <1>1, <2>4, <2>5, Between DEF Basic
  <2> QED BY <2>8, <2>9, <2>10, <2>11, <2>12 DEF BestFitTestInv
<1> QED BY <1>2, <1>3, <1>5, <1>6

\* Call 12 gives the block at Half back.
LEMMA Call12 ==
  ASSUME RoomForTest, BestFitTestInv, TestNext, call = 12
  PROVE  BestFitTestInv'
<1>1. Basic /\ Frees(call, 8) /\ call \in 1 .. 20 /\ ptr[8] = Half
  BY ScriptIs DEF BestFitTestInv, Pointers
<1>2. /\ pc \in {"idle", "forward", "backward"}
      /\ pc # "idle" => target = Half
      /\ pc = "forward" => /\ cursor \in {Half}
                           /\ merge_size = cursor + mem[cursor].size - Half
      /\ pc = "backward" => /\ cursor \in {Half} /\ next_buf = Fifth
                            /\ merge_size = Fifth - cursor
  <2>1. Progress
    BY DEF BestFitTestInv
  <2>2. Freeing(Half, {Half}, {Half}, Fifth, Fifth)
    BY <2>1 DEF Progress
  <2> QED BY <2>2 DEF Freeing
<1>3. CASE pc = "idle"
  <2>1. /\ Busy(mem, 0, KiB + 1, Sec, -1) /\ Busy(mem, Sec, KiB + 1, Third, 0)
        /\ Spare(mem, Third, 3 * KiB + 1, Fourth, Sec)
        /\ Busy(mem, Fourth, KiB + 1, Half, Third)
        /\ Busy(mem, Half, KiB, Fifth, Fourth)
        /\ Busy(mem, Fifth, 2 * KiB + 1, Last, Fourth)
        /\ Spare(mem, Last, PoolSize - Last, -1, Fifth)
        /\ allocated = {0, Sec, Fourth, Half, Fifth}
    BY <1>3 DEF BestFitTestInv, Layout, InHands, At, In, Freed, FirstTwo, FrontOnly,
       FirstOnly, Front, FrontFreed, Back, Middle
  <2>2. /\ Half \in Places /\ KiB \in Nat /\ Fifth \in Places \cup {-1}
        /\ Fourth \in Places \cup {-1}
    BY PlacesOfTest DEF Places
  <2>3. /\ pc' = "forward" /\ cursor' = Half /\ target' = Half
        /\ merge_size' = KiB /\ allocated' = allocated \ {Half}
        /\ Spare(mem', Half, KiB, Fifth, Fourth) /\ Differ(mem', mem, Half)
        /\ pool' = pool /\ fault' = fault /\ call' = call /\ ptr' = ptr
        /\ block_size' = block_size /\ next_buf' = next_buf
    <3>1. Busy(mem, Half, KiB, Fifth, Fourth)
      BY <2>1
    <3> QED BY <1>1, <1>3, <2>2, <3>1, FreeBegins
  <2>4. /\ Busy(mem', 0, KiB + 1, Sec, -1) /\ Busy(mem', Sec, KiB + 1, Third, 0)
        /\ Spare(mem', Third, 3 * KiB + 1, Fourth, Sec)
        /\ Busy(mem', Fourth, KiB + 1, Half, Third)
        /\ Busy(mem', Fifth, 2 * KiB + 1, Last, Fourth)
        /\ Spare(mem', Last, PoolSize - Last, -1, Fifth)
    BY <2>1, <2>3, PlacesOfTest DEF Differ, Busy, Spare
  <2>5. allocated' = {0, Sec, Fourth, Fifth}
    BY <2>1, <2>3, PlacesOfTest
  <2>6. call' = 12 /\ Freed'
    BY <2>3 DEF Freed
  <2>7. Layout'
    BY <2>3, <2>4, <2>6 DEF Layout, At, In, FirstTwo, FrontOnly, FirstOnly, Front,
       FrontFreed, Back, Middle
  <2>8. InHands'
    BY <2>5, <2>6 DEF InHands, At, In
  <2>9. merge_size' = cursor' + mem'[cursor'].size - Half
    <3>1. mem'[Half].size = KiB /\ Half \in Int
      BY <2>3, PlacesOfTest DEF Spare
    <3> QED BY <2>2, <2>3, <3>1
  <2>10. Progress'
    BY <2>3, <2>6, <2>9 DEF Progress, Freeing, SearchAt
  <2>11. Pointers'
    BY <2>3 DEF Pointers, BestFitTestInv
  <2>12. Basic'
    BY <1>1, <1>3, <2>2, <2>3 DEF Basic, Differ
  <2> QED BY <2>7, <2>8, <2>10, <2>11, <2>12 DEF BestFitTestInv
<1>4. ASSUME pc # "idle"
      PROVE  /\ Busy(mem, 0, KiB + 1, Sec, -1) /\ Busy(mem, Sec, KiB + 1, Third, 0)
             /\ Spare(mem, Third, 3 * KiB + 1, Fourth, Sec)
             /\ Busy(mem, Fourth, KiB + 1, Half, Third)
             /\ Spare(mem, Half, KiB, Fifth, Fourth)
             /\ Busy(mem, Fifth, 2 * KiB + 1, Last, Fourth)
             /\ Spare(mem, Last, PoolSize - Last, -1, Fifth)
             /\ allocated = {0, Sec, Fourth, Fifth}
  BY <1>2, <1>4 DEF BestFitTestInv, Layout, InHands, At, In, Freed, FirstTwo,
     FrontOnly, FirstOnly, Front, FrontFreed, Back, Middle
<1>5. CASE pc = "forward" /\ cursor = Half
  <2>1. mem[Half].size = KiB /\ merge_size = Half + KiB - Half
    <3>1. mem[Half].size = KiB
      BY <1>4, <1>5 DEF Spare
    <3>2. merge_size = cursor + mem[cursor].size - Half
      BY <1>2, <1>5
    <3>3. cursor = Half
      BY <1>5
    <3> QED BY <3>1, <3>2, <3>3, PlacesOfTest, NumbersOfTest
  <2>2. Half + KiB = Fifth /\ Half \in Places
        /\ Fifth \in Places \cup {-1}
    BY PlacesOfTest DEF Places
  <2>3. Stops(Fifth)
    BY <1>4, <1>5 DEF Stops
  <2>4. /\ pc' = "backward" /\ next_buf' = Fifth /\ cursor' = Half
        /\ pool' = pool /\ mem' = mem /\ allocated' = allocated /\ fault' = fault
        /\ call' = call /\ ptr' = ptr /\ block_size' = block_size
        /\ target' = target /\ merge_size' = merge_size
    BY <1>1, <1>2, <1>4, <1>5, <2>3, TurnsBack
  <2>5. merge_size' = Fifth - Half
    BY <2>1, <2>2, <2>4, PlacesOfTest
  <2>6. Progress'
    BY <1>2, <1>5, <2>4, <2>5 DEF Progress, Freeing, SearchAt
  <2>7. Basic' /\ Layout' /\ InHands' /\ Pointers'
    BY <1>1, <1>5, <2>2, <2>4, Within DEF Basic, Freed
  <2> QED BY <2>6, <2>7 DEF BestFitTestInv
<1>6. CASE pc = "backward" /\ cursor = Half
  <2>0. KiB \in Nat /\ KiB + 1 \in Nat /\ 2 * KiB + 1 \in Nat /\ Fifth - Half = KiB
    <3>1. KiB \in Nat /\ KiB + 1 \in Nat /\ 2 * KiB + 1 \in Nat
      BY NumbersOfTest
    <3>2. Fifth - Half = KiB
      BY PlacesOfTest, NumbersOfTest
    <3> QED BY <3>1, <3>2
  <2>1. /\ Half \in Places /\ Fifth \in Places /\ Fifth # Half
        /\ Fifth \in Places \cup {-1} /\ Fourth \in Places \cup {-1}
        /\ Half \in Places \cup {-1} /\ Third \in Places \cup {-1}
        /\ Last \in Places \cup {-1}
    BY PlacesOfTest DEF Places
  <2>2. PrevStops(Fourth) /\ Script[call].name # "malloc"
    BY <1>1, <1>4, <1>6, <2>0, <2>1 DEF PrevStops, Frees
  <2>3. merge_size = KiB /\ next_buf = Fifth
    BY <1>2, <1>6, <2>0
  <2>4. /\ pc' = "idle" /\ AtRest' /\ pool' = pool /\ fault' = fault
        /\ allocated' = allocated /\ call' = call + 1 /\ ptr' = ptr
        /\ Spare(mem', Half, KiB, Fifth, Fourth)
        /\ Busy(mem', Fifth, 2 * KiB + 1, Last, Half)
        /\ mem' \in Memories
        /\ \A x \in Places : x # Half /\ x # Fifth => mem'[x] = mem[x]
    <3>1. PICK v \in Nat : v = KiB
      BY <2>0
    <3>2. PICK w \in Nat : w = 2 * KiB + 1
      BY <2>0
    <3>3. CanMerge(Half, v, Fifth, Fourth, Fifth, w, Last, Fourth)
      BY <1>4, <1>6, <2>1, <2>2, <2>3, <3>1, <3>2 DEF CanMerge
    <3>4. IsMerged(Half, Fourth, Fifth, w, Last)
      BY <1>1, <2>2, <3>3, MergesAt
    <3> QED BY <2>3, <3>2, <3>4 DEF IsMerged
  <2>5. mem' \in Memories /\ Spare(mem', Half, KiB, Fifth, Fourth)
    BY <2>4
  <2>6. /\ Busy(mem', 0, KiB + 1, Sec, -1) /\ Busy(mem', Sec, KiB + 1, Third, 0)
        /\ Spare(mem', Third, 3 * KiB + 1, Fourth, Sec)
        /\ Busy(mem', Fourth, KiB + 1, Half, Third)
        /\ Spare(mem', Last, PoolSize - Last, -1, Fifth)
    BY <1>4, <1>6, <2>4, PlacesOfTest DEF Differ, Busy, Spare
  <2>7. call' = 13 /\ ~Freed' /\ allocated' = {0, Sec, Fourth, Fifth}
    BY <1>4, <1>6, <2>4 DEF Freed
  <2>8. Layout'
    BY <2>4, <2>5, <2>6, <2>7 DEF Layout, At, In, FirstTwo, FrontOnly, FirstOnly,
       Front, FrontFreed, Back, Middle
  <2>9. InHands'
    BY <2>7 DEF InHands, At, In
  <2>10. Progress'
    BY <2>4, <2>7 DEF Progress, SearchAt, Freeing
  <2>11. Pointers'
    BY <2>4, <2>7 DEF Pointers, BestFitTestInv
  <2>12. Basic'
    BY <1>1, <2>4, <2>5, Between DEF Basic
  <2> QED BY <2>8, <2>9, <2>10, <2>11, <2>12 DEF BestFitTestInv
<1> QED BY <1>2, <1>3, <1>5, <1>6

\* Call 13 gives the block at Fourth back.
LEMMA Call13 ==
  ASSUME RoomForTest, BestFitTestInv, TestNext, call = 13
  PROVE  BestFitTestInv'
<1>1. Basic /\ Frees(call, 7) /\ call \in 1 .. 20 /\ ptr[7] = Fourth
  BY ScriptIs DEF BestFitTestInv, Pointers
<1>2. /\ pc \in {"idle", "forward", "backward"}
      /\ pc # "idle" => target = Fourth
      /\ pc = "forward" => /\ cursor \in {Fourth, Half}
                           /\ merge_size = cursor + mem[cursor].size - Fourth
      /\ pc = "backward" => /\ cursor \in {Fourth, Third} /\ next_buf = Fifth
                            /\ merge_size = Fifth - cursor
  <2>1. Progress
    BY DEF BestFitTestInv
  <2>2. Freeing(Fourth, {Fourth, Half}, {Fourth, Third}, Fifth, Fifth)
    BY <2>1 DEF Progress
  <2> QED BY <2>2 DEF Freeing
<1>3. CASE pc = "idle"
  <2>1. /\ Busy(mem, 0, KiB + 1, Sec, -1) /\ Busy(mem, Sec, KiB + 1, Third, 0)
        /\ Spare(mem, Third, 3 * KiB + 1, Fourth, Sec)
        /\ Busy(mem, Fourth, KiB + 1, Half, Third)
        /\ Spare(mem, Half, KiB, Fifth, Fourth)
        /\ Busy(mem, Fifth, 2 * KiB + 1, Last, Half)
        /\ Spare(mem, Last, PoolSize - Last, -1, Fifth)
        /\ allocated = {0, Sec, Fourth, Fifth}
    BY <1>3 DEF BestFitTestInv, Layout, InHands, At, In, Freed, FirstTwo, FrontOnly,
       FirstOnly, Front, FrontFreed, Back, Middle
  <2>2. /\ Fourth \in Places /\ KiB + 1 \in Nat /\ Half \in Places \cup {-1}
        /\ Third \in Places \cup {-1}
    BY PlacesOfTest DEF Places
  <2>3. /\ pc' = "forward" /\ cursor' = Fourth /\ target' = Fourth
        /\ merge_size' = KiB + 1 /\ allocated' = allocated \ {Fourth}
        /\ Spare(mem', Fourth, KiB + 1, Half, Third) /\ Differ(mem', mem, Fourth)
        /\ pool' = pool /\ fault' = fault /\ call' = call /\ ptr' = ptr
        /\ block_size' = block_size /\ next_buf' = next_buf
    <3>1. Busy(mem, Fourth, KiB + 1, Half, Third)
      BY <2>1
    <3> QED BY <1>1, <1>3, <2>2, <3>1, FreeBegins
  <2>4. /\ Busy(mem', 0, KiB + 1, Sec, -1) /\ Busy(mem', Sec, KiB + 1, Third, 0)
        /\ Spare(mem', Third, 3 * KiB + 1, Fourth, Sec)
        /\ Spare(mem', Half, KiB, Fifth, Fourth)
        /\ Busy(mem', Fifth, 2 * KiB + 1, Last, Half)
        /\ Spare(mem', Last, PoolSize - Last, -1, Fifth)
    BY <2>1, <2>3, PlacesOfTest DEF Differ, Busy, Spare
  <2>5. allocated' = {0, Sec, Fifth}
    BY <2>1, <2>3, PlacesOfTest
  <2>6. call' = 13 /\ Freed'
    BY <2>3 DEF Freed
  <2>7. Layout'
    BY <2>3, <2>4, <2>6 DEF Layout, At, In, FirstTwo, FrontOnly, FirstOnly, Front,
       FrontFreed, Back, Middle
  <2>8. InHands'
    BY <2>5, <2>6 DEF InHands, At, In
  <2>9. merge_size' = cursor' + mem'[cursor'].size - Fourth
    <3>1. mem'[Fourth].size = KiB + 1 /\ Fourth \in Int
      BY <2>3, PlacesOfTest DEF Spare
    <3> QED BY <2>2, <2>3, <3>1
  <2>10. Progress'
    BY <2>3, <2>6, <2>9 DEF Progress, Freeing, SearchAt
  <2>11. Pointers'
    BY <2>3 DEF Pointers, BestFitTestInv
  <2>12. Basic'
    BY <1>1, <1>3, <2>2, <2>3 DEF Basic, Differ
  <2> QED BY <2>7, <2>8, <2>10, <2>11, <2>12 DEF BestFitTestInv
<1>4. ASSUME pc # "idle"
      PROVE  /\ Busy(mem, 0, KiB + 1, Sec, -1) /\ Busy(mem, Sec, KiB + 1, Third, 0)
             /\ Spare(mem, Third, 3 * KiB + 1, Fourth, Sec)
             /\ Spare(mem, Fourth, KiB + 1, Half, Third)
             /\ Spare(mem, Half, KiB, Fifth, Fourth)
             /\ Busy(mem, Fifth, 2 * KiB + 1, Last, Half)
             /\ Spare(mem, Last, PoolSize - Last, -1, Fifth)
             /\ allocated = {0, Sec, Fifth}
  BY <1>2, <1>4 DEF BestFitTestInv, Layout, InHands, At, In, Freed, FirstTwo,
     FrontOnly, FirstOnly, Front, FrontFreed, Back, Middle
<1>5. CASE pc = "forward" /\ cursor = Fourth
  <2>1. mem[Fourth].size = KiB + 1 /\ merge_size = Fourth + KiB + 1 - Fourth
    <3>1. mem[Fourth].size = KiB + 1
      BY <1>4, <1>5 DEF Spare
    <3>2. merge_size = cursor + mem[cursor].size - Fourth
      BY <1>2, <1>5
    <3>3. cursor = Fourth
      BY <1>5
    <3> QED BY <3>1, <3>2, <3>3, PlacesOfTest, NumbersOfTest
  <2>2. /\ Half \in Places /\ Half # -1 /\ Fourth + KiB + 1 = Half /\ Fourth \in Int
        /\ Fourth \in Int
        /\ KiB \in Nat /\ KiB + 1 \in Int /\ Half + KiB - Fourth \in Nat
    BY PlacesOfTest DEF Places
  <2>3. /\ Stays(Half) /\ merge_size' = merge_size + (KiB)
        /\ target' = target /\ block_size' = block_size
        /\ next_buf' = next_buf
    BY <1>1, <1>4, <1>5, <2>2, GoesOn
  <2>4. mem'[cursor'].size = KiB
    BY <1>4, <1>5, <2>3 DEF Spare, Stays
  <2>5. merge_size' = Half + KiB - Fourth /\ cursor' = Half
    BY <2>1, <2>2, <2>3, PlacesOfTest DEF Stays
  <2>6. Progress'
    <3>1. /\ call' = 13 /\ pc' = "forward" /\ target' = Fourth
          /\ cursor' \in {Fourth, Half}
      BY <1>2, <1>5, <2>3, <2>5 DEF Stays
    <3>2. merge_size' = cursor' + mem'[cursor'].size - Fourth
      BY <2>4, <2>5, PlacesOfTest
    <3> QED BY <3>1, <3>2 DEF Progress, Freeing,
         SearchAt
  <2>7. Basic' /\ Layout' /\ InHands' /\ Pointers'
    BY <1>1, <1>5, <2>2, <2>3, <2>5, Within DEF Basic, Freed, Stays
  <2> QED BY <2>6, <2>7 DEF BestFitTestInv
<1>6. CASE pc = "forward" /\ cursor = Half
  <2>1. mem[Half].size = KiB /\ merge_size = Half + KiB - Fourth
    <3>1. mem[Half].size = KiB
      BY <1>4, <1>6 DEF Spare
    <3>2. merge_size = cursor + mem[cursor].size - Fourth
      BY <1>2, <1>6
    <3>3. cursor = Half
      BY <1>6
    <3> QED BY <3>1, <3>2, <3>3, PlacesOfTest, NumbersOfTest
  <2>2. Half + KiB = Fifth /\ Fourth \in Places
        /\ Fifth \in Places \cup {-1}
    BY PlacesOfTest DEF Places
  <2>3. Stops(Fifth)
    BY <1>4, <1>6 DEF Stops
  <2>4. /\ pc' = "backward" /\ next_buf' = Fifth /\ cursor' = Fourth
        /\ pool' = pool /\ mem' = mem /\ allocated' = allocated /\ fault' = fault
        /\ call' = call /\ ptr' = ptr /\ block_size' = block_size
        /\ target' = target /\ merge_size' = merge_size
    BY <1>1, <1>2, <1>4, <1>6, <2>3, TurnsBack
  <2>5. merge_size' = Fifth - Fourth
    BY <2>1, <2>2, <2>4, PlacesOfTest
  <2>6. Progress'
    BY <1>2, <1>6, <2>4, <2>5 DEF Progress, Freeing, SearchAt
  <2>7. Basic' /\ Layout' /\ InHands' /\ Pointers'
    BY <1>1, <1>6, <2>2, <2>4, Within DEF Basic, Freed
  <2> QED BY <2>6, <2>7 DEF BestFitTestInv
<1>7. CASE pc = "backward" /\ cursor = Fourth
  <2>1. /\ Third \in Places /\ Third + 3 * KiB + 1 = Fourth /\ Fourth \in Int
        /\ 3 * KiB + 1 \in Nat
        /\ Fifth - Third \in Nat /\ Fifth \in Int /\ Sec \in Places \cup {-1}
    BY PlacesOfTest DEF Places
  <2>2. /\ Stays(Third) /\ merge_size' = merge_size + (3 * KiB + 1)
        /\ target' = target /\ block_size' = block_size
        /\ next_buf' = next_buf
    BY <1>1, <1>4, <1>7, <2>1, GoesBack
  <2>3. merge_size' = Fifth - Third /\ cursor' = Third
    BY <1>2, <1>7, <2>1, <2>2, PlacesOfTest DEF Stays
  <2>4. Progress'
    BY <1>2, <1>7, <2>2, <2>3 DEF Progress, Freeing, SearchAt, Stays
  <2>5. Basic' /\ Layout' /\ InHands' /\ Pointers'
    BY <1>1, <1>7, <2>1, <2>2, <2>3, Within DEF Basic, Freed, Stays
  <2> QED BY <2>4, <2>5 DEF BestFitTestInv
<1>8. CASE pc = "backward" /\ cursor = Third
  <2>0. /\ 3 * KiB + 1 \in Nat /\ KiB + 1 \in Nat /\ 2 * KiB + 1 \in Nat
        /\ Fifth - Third = 5 * KiB + 2
    <3>1. 3 * KiB + 1 \in Nat /\ KiB + 1 \in Nat /\ 2 * KiB + 1 \in Nat
      BY NumbersOfTest
    <3>2. Fifth - Third = 5 * KiB + 2
      BY PlacesOfTest, NumbersOfTest
    <3> QED BY <3>1, <3>2
  <2>1. /\ Third \in Places /\ Fifth \in Places /\ Fifth # Third
        /\ Fourth \in Places \cup {-1} /\ Sec \in Places \cup {-1}
        /\ Third \in Places \cup {-1} /\ 0 \in Places \cup {-1}
        /\ Last \in Places \cup {-1} /\ Half \in Places \cup {-1}
    BY PlacesOfTest DEF Places
  <2>2. PrevStops(Sec) /\ Script[call].name # "malloc"
    BY <1>1, <1>4, <1>8, <2>0, <2>1 DEF PrevStops, Frees
  <2>3. merge_size = 5 * KiB + 2 /\ next_buf = Fifth
    BY <1>2, <1>8, <2>0
  <2>4. /\ pc' = "idle" /\ AtRest' /\ pool' = pool /\ fault' = fault
        /\ allocated' = allocated /\ call' = call + 1 /\ ptr' = ptr
        /\ Spare(mem', Third, 5 * KiB + 2, Fifth, Sec)
        /\ Busy(mem', Fifth, 2 * KiB + 1, Last, Third)
        /\ mem' \in Memories
        /\ \A x \in Places : x # Third /\ x # Fifth => mem'[x] = mem[x]
    <3>1. PICK v \in Nat : v = 3 * KiB + 1
      BY <2>0
    <3>2. PICK w \in Nat : w = 2 * KiB + 1
      BY <2>0
    <3>3. CanMerge(Third, v, Fourth, Sec, Fifth, w, Last, Half)
      BY <1>4, <1>8, <2>1, <2>2, <2>3, <3>1, <3>2 DEF CanMerge
    <3>4. IsMerged(Third, Sec, Fifth, w, Last)
      BY <1>1, <2>2, <3>3, MergesAt
    <3> QED BY <2>3, <3>2, <3>4 DEF IsMerged
  <2>5. mem' \in Memories /\ Spare(mem', Third, 5 * KiB + 2, Fifth, Sec)
    BY <2>4
  <2>6. /\ Busy(mem', 0, KiB + 1, Sec, -1) /\ Busy(mem', Sec, KiB + 1, Third, 0)
        /\ Spare(mem', Last, PoolSize - Last, -1, Fifth)
    BY <1>4, <1>8, <2>4, PlacesOfTest DEF Differ, Busy, Spare
  <2>7. call' = 14 /\ ~Freed' /\ allocated' = {0, Sec, Fifth}
    BY <1>4, <1>8, <2>4 DEF Freed
  <2>8. Layout'
    BY <2>4, <2>5, <2>6, <2>7 DEF Layout, At, In, FirstTwo, FrontOnly, FirstOnly,
       Front, FrontFreed, Back, Middle
  <2>9. InHands'
    BY <2>7 DEF InHands, At, In
  <2>10. Progress'
    BY <2>4, <2>7 DEF Progress, SearchAt, Freeing
  <2>11. Pointers'
    BY <2>4, <2>7 DEF Pointers, BestFitTestInv
  <2>12. Basic'
    BY <1>1, <2>4, <2>5, Between DEF Basic
  <2> QED BY <2>8, <2>9, <2>10, <2>11, <2>12 DEF BestFitTestInv
<1> QED BY <1>2, <1>3, <1>5, <1>6, <1>7, <1>8

\* Call 14 asks for 4 * KiB and gets the block at Third.
LEMMA Call14 ==
  ASSUME RoomForTest, BestFitTestInv, TestNext, call = 14
  PROVE  BestFitTestInv'
<1>1. Basic /\ Mallocs(call, 9, 4 * KiB) /\ call \in 1 .. 20
  BY ScriptIs DEF BestFitTestInv
<1>2. /\ pc \in {"idle", "fit"}
      /\ pc = "fit" => block_size = 4 * KiB + 1 /\ cursor \in {0, Sec, Third}
  <2>1. Progress
    BY DEF BestFitTestInv
  <2>2. SearchAt(4 * KiB + 1, {0, Sec, Third})
    BY <2>1 DEF Progress
  <2> QED BY <2>2 DEF SearchAt
<1>3. /\ Busy(mem, 0, KiB + 1, Sec, -1) /\ Busy(mem, Sec, KiB + 1, Third, 0)
      /\ Spare(mem, Third, 5 * KiB + 2, Fifth, Sec)
      /\ Busy(mem, Fifth, 2 * KiB + 1, Last, Third)
      /\ Spare(mem, Last, PoolSize - Last, -1, Fifth)
      /\ allocated = {0, Sec, Fifth}
  BY <1>2 DEF BestFitTestInv, Layout, InHands, At, In, Freed, FirstTwo, FrontOnly,
     FirstOnly, Front, FrontFreed, Back, Middle
<1>4. CASE pc = "idle"
  <2>1. 4 * KiB \in Nat /\ 4 * KiB + 1 = 4 * KiB + 1 /\ 4 * KiB + 1 <= PoolSize
        /\ 0 \in Places /\ PoolSize <= SIZE_MAX
    BY PlacesOfTest DEF Places
  <2>2. /\ pc' = "fit" /\ cursor' = 0 /\ block_size' = 4 * KiB + 1
        /\ pool' = pool /\ mem' = mem /\ allocated' = allocated /\ fault' = fault
        /\ call' = call /\ ptr' = ptr /\ target' = target
        /\ merge_size' = merge_size /\ next_buf' = next_buf
    BY <1>1, <1>4, <2>1, MallocBegins
  <2>3. Progress'
    BY <2>2 DEF Progress, SearchAt
  <2>4. block_size' \in 0 .. SIZE_MAX
    BY <2>1, <2>2, PlacesOfTest
  <2>5. Basic' /\ Layout' /\ InHands' /\ Pointers'
    BY <1>1, <1>4, <2>1, <2>2, <2>4, Within DEF Basic, Freed
  <2> QED BY <2>3, <2>5 DEF BestFitTestInv
<1>5. CASE pc = "fit" /\ cursor = 0
  <2>1. Sec # -1 /\ Sec \in Places
    BY PlacesOfTest DEF Places
  <2>2. /\ Stays(Sec) /\ block_size' = block_size /\ target' = target
        /\ merge_size' = merge_size /\ next_buf' = next_buf
    BY <1>1, <1>3, <1>5, <2>1, Passes
  <2>3. Progress'
    BY <1>2, <1>5, <2>2 DEF Progress, SearchAt, Stays
  <2>4. Basic' /\ Layout' /\ InHands' /\ Pointers'
    BY <1>1, <1>5, <2>1, <2>2, Within DEF Basic, Freed, Stays
  <2> QED BY <2>3, <2>4 DEF BestFitTestInv
<1>6. CASE pc = "fit" /\ cursor = Sec
  <2>1. Third # -1 /\ Third \in Places
    BY PlacesOfTest DEF Places
  <2>2. /\ Stays(Third) /\ block_size' = block_size /\ target' = target
        /\ merge_size' = merge_size /\ next_buf' = next_buf
    BY <1>1, <1>3, <1>6, <2>1, Passes
  <2>3. Progress'
    BY <1>2, <1>6, <2>2 DEF Progress, SearchAt, Stays
  <2>4. Basic' /\ Layout' /\ InHands' /\ Pointers'
    BY <1>1, <1>6, <2>1, <2>2, Within DEF Basic, Freed, Stays
  <2> QED BY <2>3, <2>4 DEF BestFitTestInv
<1>7. CASE pc = "fit" /\ cursor = Third
  <2>0. /\ Third \in Places /\ 4 * KiB + 1 \in Nat \ {0} /\ 5 * KiB + 2 \in Nat
        /\ Fifth \in Places \cup {-1}
        /\ Sec \in Places \cup {-1} /\ Slice \in Places /\ KiB + 1 \in Nat \ {0}
        /\ Slice = Third + (4 * KiB + 1) /\ 5 * KiB + 2 = (4 * KiB + 1) + (KiB + 1)
    BY PlacesOfTest DEF Places
  <2>1. /\ Returns(9, Third) /\ mem' \in Memories
        /\ Busy(mem', Third, 4 * KiB + 1, Slice, Sec)
        /\ Spare(mem', Slice, KiB + 1, Fifth, Third)
        /\ \A a \in Places : a < Third \/ a > Slice => mem'[a] = mem[a]
    <3>1. Spare(mem, Third, 5 * KiB + 2, Fifth, Sec)
      BY <1>3
    <3> QED BY <1>1, <1>2, <1>7, <2>0, <3>1, CutsAt
  <2>2. call' = 15 /\ pc' = "idle"
    BY <2>1 DEF Returns
  <2>5. /\ Busy(mem', 0, KiB + 1, Sec, -1) /\ Busy(mem', Sec, KiB + 1, Third, 0)
        /\ Busy(mem', Fifth, 2 * KiB + 1, Last, Third)
        /\ Spare(mem', Last, PoolSize - Last, -1, Fifth)
    BY <1>3, <2>0, <2>1, PlacesOfTest DEF Busy, Spare
  <2>4. Third \notin allocated /\ allocated' = {0, Sec, Third, Fifth} /\ Third \in Int
    BY <1>3, <2>1, PlacesOfTest DEF Returns
  <2>6. Layout'
    BY <2>1, <2>2, <2>5 DEF Layout, At, In, Freed, FirstTwo, FrontOnly, FirstOnly,
       Front, FrontFreed, Back, Middle
  <2>7. InHands'
    BY <2>1, <2>2, <2>4 DEF InHands, At, In, Freed
  <2>8. Progress'
    BY <2>1, <2>2 DEF Progress, SearchAt, Freeing
  <2>9. ptr' = [ptr EXCEPT ![9] = Third] /\ ptr' \in [1 .. 11 -> Int]
    BY <1>1, <2>1, <2>4 DEF Returns, Basic
  <2>10. Pointers'
    BY <1>1, <2>2, <2>9 DEF Pointers, BestFitTestInv, Basic
  <2>11. Basic'
    BY <1>1, <2>1, <2>4, <2>9, Between DEF Returns
  <2> QED BY <2>6, <2>7, <2>8, <2>10, <2>11 DEF BestFitTestInv
<1> QED BY <1>1, <1>2, <1>4, <1>5, <1>6, <1>7 DEF Basic

\* Call 15 gives the block at Third back.
LEMMA Call15 ==
  ASSUME RoomForTest, BestFitTestInv, TestNext, call = 15
  PROVE  BestFitTestInv'
<1>1. Basic /\ Frees(call, 9) /\ call \in 1 .. 20 /\ ptr[9] = Third
  BY ScriptIs DEF BestFitTestInv, Pointers
<1>2. /\ pc \in {"idle", "forward", "backward"}
      /\ pc # "idle" => target = Third
      /\ pc = "forward" => /\ cursor \in {Third, Slice}
                           /\ merge_size = cursor + mem[cursor].size - Third
      /\ pc = "backward" => /\ cursor \in {Third} /\ next_buf = Fifth
                            /\ merge_size = Fifth - cursor
  <2>1. Progress
    BY DEF BestFitTestInv
  <2>2. Freeing(Third, {Third, Slice}, {Third}, Fifth, Fifth)
    BY <2>1 DEF Progress
  <2> QED BY <2>2 DEF Freeing
<1>3. CASE pc = "idle"
  <2>1. /\ Busy(mem, 0, KiB + 1, Sec, -1) /\ Busy(mem, Sec, KiB + 1, Third, 0)
        /\ Busy(mem, Third, 4 * KiB + 1, Slice, Sec)
        /\ Spare(mem, Slice, KiB + 1, Fifth, Third)
        /\ Busy(mem, Fifth, 2 * KiB + 1, Last, Third)
        /\ Spare(mem, Last, PoolSize - Last, -1, Fifth)
        /\ allocated = {0, Sec, Third, Fifth}
    BY <1>3 DEF BestFitTestInv, Layout, InHands, At, In, Freed, FirstTwo, FrontOnly,
       FirstOnly, Front, FrontFreed, Back, Middle
  <2>2. /\ Third \in Places /\ 4 * KiB + 1 \in Nat /\ Slice \in Places \cup {-1}
        /\ Sec \in Places \cup {-1}
    BY PlacesOfTest DEF Places
  <2>3. /\ pc' = "forward" /\ cursor' = Third /\ target' = Third
        /\ merge_size' = 4 * KiB + 1 /\ allocated' = allocated \ {Third}
        /\ Spare(mem', Third, 4 * KiB + 1, Slice, Sec) /\ Differ(mem', mem, Third)
        /\ pool' = pool /\ fault' = fault /\ call' = call /\ ptr' = ptr
        /\ block_size' = block_size /\ next_buf' = next_buf
    <3>1. Busy(mem, Third, 4 * KiB + 1, Slice, Sec)
      BY <2>1
    <3> QED BY <1>1, <1>3, <2>2, <3>1, FreeBegins
  <2>4. /\ Busy(mem', 0, KiB + 1, Sec, -1) /\ Busy(mem', Sec, KiB + 1, Third, 0)
        /\ Spare(mem', Slice, KiB + 1, Fifth, Third)
        /\ Busy(mem', Fifth, 2 * KiB + 1, Last, Third)
        /\ Spare(mem', Last, PoolSize - Last, -1, Fifth)
    BY <2>1, <2>3, PlacesOfTest DEF Differ, Busy, Spare
  <2>5. allocated' = {0, Sec, Fifth}
    BY <2>1, <2>3, PlacesOfTest
  <2>6. call' = 15 /\ Freed'
    BY <2>3 DEF Freed
  <2>7. Layout'
    BY <2>3, <2>4, <2>6 DEF Layout, At, In, FirstTwo, FrontOnly, FirstOnly, Front,
       FrontFreed, Back, Middle
  <2>8. InHands'
    BY <2>5, <2>6 DEF InHands, At, In
  <2>9. merge_size' = cursor' + mem'[cursor'].size - Third
    <3>1. mem'[Third].size = 4 * KiB + 1 /\ Third \in Int
      BY <2>3, PlacesOfTest DEF Spare
    <3> QED BY <2>2, <2>3, <3>1
  <2>10. Progress'
    BY <2>3, <2>6, <2>9 DEF Progress, Freeing, SearchAt
  <2>11. Pointers'
    BY <2>3 DEF Pointers, BestFitTestInv
  <2>12. Basic'
    BY <1>1, <1>3, <2>2, <2>3 DEF Basic, Differ
  <2> QED BY <2>7, <2>8, <2>10, <2>11, <2>12 DEF BestFitTestInv
<1>4. ASSUME pc # "idle"
      PROVE  /\ Busy(mem, 0, KiB + 1, Sec, -1) /\ Busy(mem, Sec, KiB + 1, Third, 0)
             /\ Spare(mem, Third, 4 * KiB + 1, Slice, Sec)
             /\ Spare(mem, Slice, KiB + 1, Fifth, Third)
             /\ Busy(mem, Fifth, 2 * KiB + 1, Last, Third)
             /\ Spare(mem, Last, PoolSize - Last, -1, Fifth)
             /\ allocated = {0, Sec, Fifth}
  BY <1>2, <1>4 DEF BestFitTestInv, Layout, InHands, At, In, Freed, FirstTwo,
     FrontOnly, FirstOnly, Front, FrontFreed, Back, Middle
<1>5. CASE pc = "forward" /\ cursor = Third
  <2>1. mem[Third].size = 4 * KiB + 1 /\ merge_size = Third + 4 * KiB + 1 - Third
    <3>1. mem[Third].size = 4 * KiB + 1
      BY <1>4, <1>5 DEF Spare
    <3>2. merge_size = cursor + mem[cursor].size - Third
      BY <1>2, <1>5
    <3>3. cursor = Third
      BY <1>5
    <3> QED BY <3>1, <3>2, <3>3, PlacesOfTest, NumbersOfTest
  <2>2. /\ Slice \in Places /\ Slice # -1 /\ Third + 4 * KiB + 1 = Slice
        /\ Third \in Int /\ Third \in Int
        /\ KiB + 1 \in Nat /\ 4 * KiB + 1 \in Int /\ Slice + KiB + 1 - Third \in Nat
    BY PlacesOfTest DEF Places
  <2>3. /\ Stays(Slice) /\ merge_size' = merge_size + (KiB + 1)
        /\ target' = target /\ block_size' = block_size
        /\ next_buf' = next_buf
    BY <1>1, <1>4, <1>5, <2>2, GoesOn
  <2>4. mem'[cursor'].size = KiB + 1
    BY <1>4, <1>5, <2>3 DEF Spare, Stays
  <2>5. merge_size' = Slice + KiB + 1 - Third /\ cursor' = Slice
    BY <2>1, <2>2, <2>3, PlacesOfTest DEF Stays
  <2>6. Progress'
    <3>1. /\ call' = 15 /\ pc' = "forward" /\ target' = Third
          /\ cursor' \in {Third, Slice}
      BY <1>2, <1>5, <2>3, <2>5 DEF Stays
    <3>2. merge_size' = cursor' + mem'[cursor'].size - Third
      BY <2>4, <2>5, PlacesOfTest
    <3> QED BY <3>1, <3>2 DEF Progress, Freeing,
         SearchAt
  <2>7. Basic' /\ Layout' /\ InHands' /\ Pointers'
    BY <1>1, <1>5, <2>2, <2>3, <2>5, Within DEF Basic, Freed, Stays
  <2> QED BY <2>6, <2>7 DEF BestFitTestInv
<1>6. CASE pc = "forward" /\ cursor = Slice
  <2>1. mem[Slice].size = KiB + 1 /\ merge_size = Slice + KiB + 1 - Third
    <3>1. mem[Slice].size = KiB + 1
      BY <1>4, <1>6 DEF Spare
    <3>2. merge_size = cursor + mem[cursor].size - Third
      BY <1>2, <1>6
    <3>3. cursor = Slice
      BY <1>6
    <3> QED BY <3>1, <3>2, <3>3, PlacesOfTest, NumbersOfTest
  <2>2. Slice + KiB + 1 = Fifth /\ Third \in Places
        /\ Fifth \in Places \cup {-1}
    BY PlacesOfTest DEF Places
  <2>3. Stops(Fifth)
    BY <1>4, <1>6 DEF Stops
  <2>4. /\ pc' = "backward" /\ next_buf' = Fifth /\ cursor' = Third
        /\ pool' = pool /\ mem' = mem /\ allocated' = allocated /\ fault' = fault
        /\ call' = call /\ ptr' = ptr /\ block_size' = block_size
        /\ target' = target /\ merge_size' = merge_size
    BY <1>1, <1>2, <1>4, <1>6, <2>3, TurnsBack
  <2>5. merge_size' = Fifth - Third
    BY <2>1, <2>2, <2>4, PlacesOfTest
  <2>6. Progress'
    BY <1>2, <1>6, <2>4, <2>5 DEF Progress, Freeing, SearchAt
  <2>7. Basic' /\ Layout' /\ InHands' /\ Pointers'
    BY <1>1, <1>6, <2>2, <2>4, Within DEF Basic, Freed
  <2> QED BY <2>6, <2>7 DEF BestFitTestInv
<1>7. CASE pc = "backward" /\ cursor = Third
  <2>0. /\ 4 * KiB + 1 \in Nat /\ KiB + 1 \in Nat /\ 2 * KiB + 1 \in Nat
        /\ Fifth - Third = 5 * KiB + 2
    <3>1. 4 * KiB + 1 \in Nat /\ KiB + 1 \in Nat /\ 2 * KiB + 1 \in Nat
      BY NumbersOfTest
    <3>2. Fifth - Third = 5 * KiB + 2
      BY PlacesOfTest, NumbersOfTest
    <3> QED BY <3>1, <3>2
  <2>1. /\ Third \in Places /\ Fifth \in Places /\ Fifth # Third
        /\ Slice \in Places \cup {-1} /\ Sec \in Places \cup {-1}
        /\ Third \in Places \cup {-1} /\ 0 \in Places \cup {-1}
        /\ Last \in Places \cup {-1}
    BY PlacesOfTest DEF Places
  <2>2. PrevStops(Sec) /\ Script[call].name # "malloc"
    BY <1>1, <1>4, <1>7, <2>0, <2>1 DEF PrevStops, Frees
  <2>3. merge_size = 5 * KiB + 2 /\ next_buf = Fifth
    BY <1>2, <1>7, <2>0
  <2>4. /\ pc' = "idle" /\ AtRest' /\ pool' = pool /\ fault' = fault
        /\ allocated' = allocated /\ call' = call + 1 /\ ptr' = ptr
        /\ Spare(mem', Third, 5 * KiB + 2, Fifth, Sec)
        /\ Busy(mem', Fifth, 2 * KiB + 1, Last, Third)
        /\ mem' \in Memories
        /\ \A x \in Places : x # Third /\ x # Fifth => mem'[x] = mem[x]
    <3>1. PICK v \in Nat : v = 4 * KiB + 1
      BY <2>0
    <3>2. PICK w \in Nat : w = 2 * KiB + 1
      BY <2>0
    <3>3. CanMerge(Third, v, Slice, Sec, Fifth, w, Last, Third)
      BY <1>4, <1>7, <2>1, <2>2, <2>3, <3>1, <3>2 DEF CanMerge
    <3>4. IsMerged(Third, Sec, Fifth, w, Last)
      BY <1>1, <2>2, <3>3, MergesAt
    <3> QED BY <2>3, <3>2, <3>4 DEF IsMerged
  <2>5. mem' \in Memories /\ Spare(mem', Third, 5 * KiB + 2, Fifth, Sec)
    BY <2>4
  <2>6. /\ Busy(mem', 0, KiB + 1, Sec, -1) /\ Busy(mem', Sec, KiB + 1, Third, 0)
        /\ Spare(mem', Last, PoolSize - Last, -1, Fifth)
    BY <1>4, <1>7, <2>4, PlacesOfTest DEF Differ, Busy, Spare
  <2>7. call' = 16 /\ ~Freed' /\ allocated' = {0, Sec, Fifth}
    BY <1>4, <1>7, <2>4 DEF Freed
  <2>8. Layout'
    BY <2>4, <2>5, <2>6, <2>7 DEF Layout, At, In, FirstTwo, FrontOnly, FirstOnly,
       Front, FrontFreed, Back, Middle
  <2>9. InHands'
    BY <2>7 DEF InHands, At, In
  <2>10. Progress'
    BY <2>4, <2>7 DEF Progress, SearchAt, Freeing
  <2>11. Pointers'
    BY <2>4, <2>7 DEF Pointers, BestFitTestInv
  <2>12. Basic'
    BY <1>1, <2>4, <2>5, Between DEF Basic
  <2> QED BY <2>8, <2>9, <2>10, <2>11, <2>12 DEF BestFitTestInv
<1> QED BY <1>2, <1>3, <1>5, <1>6, <1>7

\* Call 16 gives the block at Fifth back.
LEMMA Call16 ==
  ASSUME RoomForTest, BestFitTestInv, TestNext, call = 16
  PROVE  BestFitTestInv'
<1>1. Basic /\ Frees(call, 6) /\ call \in 1 .. 20 /\ ptr[6] = Fifth
  BY ScriptIs DEF BestFitTestInv, Pointers
<1>2. /\ pc \in {"idle", "forward", "backward"}
      /\ pc # "idle" => target = Fifth
      /\ pc = "forward" => /\ cursor \in {Fifth, Last}
                           /\ merge_size = cursor + mem[cursor].size - Fifth
      /\ pc = "backward" => /\ cursor \in {Fifth, Third} /\ next_buf = -1
                            /\ merge_size = PoolSize - cursor
  <2>1. Progress
    BY DEF BestFitTestInv
  <2>2. Freeing(Fifth, {Fifth, Last}, {Fifth, Third}, -1, PoolSize)
    BY <2>1 DEF Progress
  <2> QED BY <2>2 DEF Freeing
<1>3. CASE pc = "idle"
  <2>1. /\ Busy(mem, 0, KiB + 1, Sec, -1) /\ Busy(mem, Sec, KiB + 1, Third, 0)
        /\ Spare(mem, Third, 5 * KiB + 2, Fifth, Sec)
        /\ Busy(mem, Fifth, 2 * KiB + 1, Last, Third)
        /\ Spare(mem, Last, PoolSize - Last, -1, Fifth)
        /\ allocated = {0, Sec, Fifth}
    BY <1>3 DEF BestFitTestInv, Layout, InHands, At, In, Freed, FirstTwo, FrontOnly,
       FirstOnly, Front, FrontFreed, Back, Middle
  <2>2. /\ Fifth \in Places /\ 2 * KiB + 1 \in Nat /\ Last \in Places \cup {-1}
        /\ Third \in Places \cup {-1}
    BY PlacesOfTest DEF Places
  <2>3. /\ pc' = "forward" /\ cursor' = Fifth /\ target' = Fifth
        /\ merge_size' = 2 * KiB + 1 /\ allocated' = allocated \ {Fifth}
        /\ Spare(mem', Fifth, 2 * KiB + 1, Last, Third) /\ Differ(mem', mem, Fifth)
        /\ pool' = pool /\ fault' = fault /\ call' = call /\ ptr' = ptr
        /\ block_size' = block_size /\ next_buf' = next_buf
    <3>1. Busy(mem, Fifth, 2 * KiB + 1, Last, Third)
      BY <2>1
    <3> QED BY <1>1, <1>3, <2>2, <3>1, FreeBegins
  <2>4. /\ Busy(mem', 0, KiB + 1, Sec, -1) /\ Busy(mem', Sec, KiB + 1, Third, 0)
        /\ Spare(mem', Third, 5 * KiB + 2, Fifth, Sec)
        /\ Spare(mem', Last, PoolSize - Last, -1, Fifth)
    BY <2>1, <2>3, PlacesOfTest DEF Differ, Busy, Spare
  <2>5. allocated' = {0, Sec}
    BY <2>1, <2>3, PlacesOfTest
  <2>6. call' = 16 /\ Freed'
    BY <2>3 DEF Freed
  <2>7. Layout'
    BY <2>3, <2>4, <2>6 DEF Layout, At, In, FirstTwo, FrontOnly, FirstOnly, Front,
       FrontFreed, Back, Middle
  <2>8. InHands'
    BY <2>5, <2>6 DEF InHands, At, In
  <2>9. merge_size' = cursor' + mem'[cursor'].size - Fifth
    <3>1. mem'[Fifth].size = 2 * KiB + 1 /\ Fifth \in Int
      BY <2>3, PlacesOfTest DEF Spare
    <3> QED BY <2>2, <2>3, <3>1
  <2>10. Progress'
    BY <2>3, <2>6, <2>9 DEF Progress, Freeing, SearchAt
  <2>11. Pointers'
    BY <2>3 DEF Pointers, BestFitTestInv
  <2>12. Basic'
    BY <1>1, <1>3, <2>2, <2>3 DEF Basic, Differ
  <2> QED BY <2>7, <2>8, <2>10, <2>11, <2>12 DEF BestFitTestInv
<1>4. ASSUME pc # "idle"
      PROVE  /\ Busy(mem, 0, KiB + 1, Sec, -1) /\ Busy(mem, Sec, KiB + 1, Third, 0)
             /\ Spare(mem, Third, 5 * KiB + 2, Fifth, Sec)
             /\ Spare(mem, Fifth, 2 * KiB + 1, Last, Third)
             /\ Spare(mem, Last, PoolSize - Last, -1, Fifth)
             /\ allocated = {0, Sec}
  BY <1>2, <1>4 DEF BestFitTestInv, Layout, InHands, At, In, Freed, FirstTwo,
     FrontOnly, FirstOnly, Front, FrontFreed, Back, Middle
<1>5. CASE pc = "forward" /\ cursor = Fifth
  <2>1. mem[Fifth].size = 2 * KiB + 1 /\ merge_size = Fifth + 2 * KiB + 1 - Fifth
    <3>1. mem[Fifth].size = 2 * KiB + 1
      BY <1>4, <1>5 DEF Spare
    <3>2. merge_size = cursor + mem[cursor].size - Fifth
      BY <1>2, <1>5
    <3>3. cursor = Fifth
      BY <1>5
    <3> QED BY <3>1, <3>2, <3>3, PlacesOfTest, NumbersOfTest
  <2>2. /\ Last \in Places /\ Last # -1 /\ Fifth + 2 * KiB + 1 = Last /\ Fifth \in Int
        /\ Fifth \in Int
        /\ PoolSize - Last \in Nat /\ 2 * KiB + 1 \in Int
        /\ Last + PoolSize - Last - Fifth \in Nat
    BY PlacesOfTest DEF Places
  <2>3. /\ Stays(Last) /\ merge_size' = merge_size + (PoolSize - Last)
        /\ target' = target /\ block_size' = block_size
        /\ next_buf' = next_buf
    BY <1>1, <1>4, <1>5, <2>2, GoesOn
  <2>4. mem'[cursor'].size = PoolSize - Last
    BY <1>4, <1>5, <2>3 DEF Spare, Stays
  <2>5. merge_size' = Last + PoolSize - Last - Fifth /\ cursor' = Last
    BY <2>1, <2>2, <2>3, PlacesOfTest DEF Stays
  <2>6. Progress'
    <3>1. /\ call' = 16 /\ pc' = "forward" /\ target' = Fifth
          /\ cursor' \in {Fifth, Last}
      BY <1>2, <1>5, <2>3, <2>5 DEF Stays
    <3>2. merge_size' = cursor' + mem'[cursor'].size - Fifth
      BY <2>4, <2>5, PlacesOfTest
    <3> QED BY <3>1, <3>2 DEF Progress, Freeing,
         SearchAt
  <2>7. Basic' /\ Layout' /\ InHands' /\ Pointers'
    BY <1>1, <1>5, <2>2, <2>3, <2>5, Within DEF Basic, Freed, Stays
  <2> QED BY <2>6, <2>7 DEF BestFitTestInv
<1>6. CASE pc = "forward" /\ cursor = Last
  <2>1. mem[Last].size = PoolSize - Last /\ merge_size = Last + PoolSize - Last - Fifth
    <3>1. mem[Last].size = PoolSize - Last
      BY <1>4, <1>6 DEF Spare
    <3>2. merge_size = cursor + mem[cursor].size - Fifth
      BY <1>2, <1>6
    <3>3. cursor = Last
      BY <1>6
    <3> QED BY <3>1, <3>2, <3>3, PlacesOfTest, NumbersOfTest
  <2>2. Last + PoolSize - Last = PoolSize /\ Fifth \in Places
        /\ -1 \in Places \cup {-1}
    BY PlacesOfTest DEF Places
  <2>3. Stops(-1)
    BY <1>4, <1>6 DEF Stops
  <2>4. /\ pc' = "backward" /\ next_buf' = -1 /\ cursor' = Fifth
        /\ pool' = pool /\ mem' = mem /\ allocated' = allocated /\ fault' = fault
        /\ call' = call /\ ptr' = ptr /\ block_size' = block_size
        /\ target' = target /\ merge_size' = merge_size
    BY <1>1, <1>2, <1>4, <1>6, <2>3, TurnsBack
  <2>5. merge_size' = PoolSize - Fifth
    BY <2>1, <2>2, <2>4, PlacesOfTest
  <2>6. Progress'
    BY <1>2, <1>6, <2>4, <2>5 DEF Progress, Freeing, SearchAt
  <2>7. Basic' /\ Layout' /\ InHands' /\ Pointers'
    BY <1>1, <1>6, <2>2, <2>4, Within DEF Basic, Freed
  <2> QED BY <2>6, <2>7 DEF BestFitTestInv
<1>7. CASE pc = "backward" /\ cursor = Fifth
  <2>1. /\ Third \in Places /\ Third + 5 * KiB + 2 = Fifth /\ Fifth \in Int
        /\ 5 * KiB + 2 \in Nat
        /\ PoolSize - Third \in Nat /\ PoolSize \in Int /\ Sec \in Places \cup {-1}
    BY PlacesOfTest DEF Places
  <2>2. /\ Stays(Third) /\ merge_size' = merge_size + (5 * KiB + 2)
        /\ target' = target /\ block_size' = block_size
        /\ next_buf' = next_buf
    BY <1>1, <1>4, <1>7, <2>1, GoesBack
  <2>3. merge_size' = PoolSize - Third /\ cursor' = Third
    BY <1>2, <1>7, <2>1, <2>2, PlacesOfTest DEF Stays
  <2>4. Progress'
    BY <1>2, <1>7, <2>2, <2>3 DEF Progress, Freeing, SearchAt, Stays
  <2>5. Basic' /\ Layout' /\ InHands' /\ Pointers'
    BY <1>1, <1>7, <2>1, <2>2, <2>3, Within DEF Basic, Freed, Stays
  <2> QED BY <2>4, <2>5 DEF BestFitTestInv
<1>8. CASE pc = "backward" /\ cursor = Third
  <2>0. 5 * KiB + 2 \in Nat /\ KiB + 1 \in Nat /\ PoolSize - Third = PoolSize - Third
    BY PlacesOfTest, NumbersOfTest
  <2>1. /\ Third \in Places
        /\ Fifth \in Places \cup {-1} /\ Sec \in Places \cup {-1}
        /\ Third \in Places \cup {-1} /\ 0 \in Places \cup {-1}
    BY PlacesOfTest DEF Places
  <2>2. PrevStops(Sec) /\ Script[call].name # "malloc"
    BY <1>1, <1>4, <1>8, <2>0, <2>1 DEF PrevStops, Frees
  <2>3. merge_size = PoolSize - Third /\ next_buf = -1
    BY <1>2, <1>8, <2>0
  <2>4. /\ pc' = "idle" /\ AtRest' /\ pool' = pool /\ fault' = fault
        /\ allocated' = allocated /\ call' = call + 1 /\ ptr' = ptr
        /\ Spare(mem', Third, merge_size, -1, Sec) /\ Differ(mem', mem, Third)
    BY <1>1, <1>4, <1>8, <2>0, <2>1, <2>2, <2>3, MergesLast
  <2>5. mem' \in Memories /\ Spare(mem', Third, PoolSize - Third, -1, Sec)
    BY <2>3, <2>4 DEF Differ
  <2>6. /\ Busy(mem', 0, KiB + 1, Sec, -1) /\ Busy(mem', Sec, KiB + 1, Third, 0)
    BY <1>4, <1>8, <2>4, PlacesOfTest DEF Differ, Busy, Spare
  <2>7. call' = 17 /\ ~Freed' /\ allocated' = {0, Sec}
    BY <1>4, <1>8, <2>4 DEF Freed
  <2>8. Layout'
    BY <2>4, <2>5, <2>6, <2>7 DEF Layout, At, In, FirstTwo, FrontOnly, FirstOnly,
       Front, FrontFreed, Back, Middle
  <2>9. InHands'
    BY <2>7 DEF InHands, At, In
  <2>10. Progress'
    BY <2>4, <2>7 DEF Progress, SearchAt, Freeing
  <2>11. Pointers'
    BY <2>4, <2>7 DEF Pointers, BestFitTestInv
  <2>12. Basic'
    BY <1>1, <2>4, <2>5, Between DEF Basic
  <2> QED BY <2>8, <2>9, <2>10, <2>11, <2>12 DEF BestFitTestInv
<1> QED BY <1>2, <1>3, <1>5, <1>6, <1>7, <1>8

\* Call 17 gives the block at Sec back.
LEMMA Call17 ==
  ASSUME RoomForTest, BestFitTestInv, TestNext, call = 17
  PROVE  BestFitTestInv'
<1>1. Basic /\ Frees(call, 2) /\ call \in 1 .. 20 /\ ptr[2] = Sec
  BY ScriptIs DEF BestFitTestInv, Pointers
<1>2. /\ pc \in {"idle", "forward", "backward"}
      /\ pc # "idle" => target = Sec
      /\ pc = "forward" => /\ cursor \in {Sec, Third}
                           /\ merge_size = cursor + mem[cursor].size - Sec
      /\ pc = "backward" => /\ cursor \in {Sec} /\ next_buf = -1
                            /\ merge_size = PoolSize - cursor
  <2>1. Progress
    BY DEF BestFitTestInv
  <2>2. Freeing(Sec, {Sec, Third}, {Sec}, -1, PoolSize)
    BY <2>1 DEF Progress
  <2> QED BY <2>2 DEF Freeing
<1>3. CASE pc = "idle"
  <2>1. /\ Busy(mem, 0, KiB + 1, Sec, -1) /\ Busy(mem, Sec, KiB + 1, Third, 0)
        /\ Spare(mem, Third, PoolSize - Third, -1, Sec)
        /\ allocated = {0, Sec}
    BY <1>3 DEF BestFitTestInv, Layout, InHands, At, In, Freed, FirstTwo, FrontOnly,
       FirstOnly, Front, FrontFreed, Back, Middle
  <2>2. /\ Sec \in Places /\ KiB + 1 \in Nat /\ Third \in Places \cup {-1}
        /\ 0 \in Places \cup {-1}
    BY PlacesOfTest DEF Places
  <2>3. /\ pc' = "forward" /\ cursor' = Sec /\ target' = Sec
        /\ merge_size' = KiB + 1 /\ allocated' = allocated \ {Sec}
        /\ Spare(mem', Sec, KiB + 1, Third, 0) /\ Differ(mem', mem, Sec)
        /\ pool' = pool /\ fault' = fault /\ call' = call /\ ptr' = ptr
        /\ block_size' = block_size /\ next_buf' = next_buf
    <3>1. Busy(mem, Sec, KiB + 1, Third, 0)
      BY <2>1
    <3> QED BY <1>1, <1>3, <2>2, <3>1, FreeBegins
  <2>4. /\ Busy(mem', 0, KiB + 1, Sec, -1)
        /\ Spare(mem', Third, PoolSize - Third, -1, Sec)
    BY <2>1, <2>3, PlacesOfTest DEF Differ, Busy, Spare
  <2>5. allocated' = {0}
    BY <2>1, <2>3, PlacesOfTest
  <2>6. call' = 17 /\ Freed'
    BY <2>3 DEF Freed
  <2>7. Layout'
    BY <2>3, <2>4, <2>6 DEF Layout, At, In, FirstTwo, FrontOnly, FirstOnly, Front,
       FrontFreed, Back, Middle
  <2>8. InHands'
    BY <2>5, <2>6 DEF InHands, At, In
  <2>9. merge_size' = cursor' + mem'[cursor'].size - Sec
    <3>1. mem'[Sec].size = KiB + 1 /\ Sec \in Int
      BY <2>3, PlacesOfTest DEF Spare
    <3> QED BY <2>2, <2>3, <3>1
  <2>10. Progress'
    BY <2>3, <2>6, <2>9 DEF Progress, Freeing, SearchAt
  <2>11. Pointers'
    BY <2>3 DEF Pointers, BestFitTestInv
  <2>12. Basic'
    BY <1>1, <1>3, <2>2, <2>3 DEF Basic, Differ
  <2> QED BY <2>7, <2>8, <2>10, <2>11, <2>12 DEF BestFitTestInv
<1>4. ASSUME pc # "idle"
      PROVE  /\ Busy(mem, 0, KiB + 1, Sec, -1) /\ Spare(mem, Sec, KiB + 1, Third, 0)
             /\ Spare(mem, Third, PoolSize - Third, -1, Sec)
             /\ allocated = {0}
  BY <1>2, <1>4 DEF BestFitTestInv, Layout, InHands, At, In, Freed, FirstTwo,
     FrontOnly, FirstOnly, Front, FrontFreed, Back, Middle
<1>5. CASE pc = "forward" /\ cursor = Sec
  <2>1. mem[Sec].size = KiB + 1 /\ merge_size = Sec + KiB + 1 - Sec
    <3>1. mem[Sec].size = KiB + 1
      BY <1>4, <1>5 DEF Spare
    <3>2. merge_size = cursor + mem[cursor].size - Sec
      BY <1>2, <1>5
    <3>3. cursor = Sec
      BY <1>5
    <3> QED BY <3>1, <3>2, <3>3, PlacesOfTest, NumbersOfTest
  <2>2. /\ Third \in Places /\ Third # -1 /\ Sec + KiB + 1 = Third /\ Sec \in Int
        /\ Sec \in Int
        /\ PoolSize - Third \in Nat /\ KiB + 1 \in Int
        /\ Third + PoolSize - Third - Sec \in Nat
    BY PlacesOfTest DEF Places
  <2>3. /\ Stays(Third) /\ merge_size' = merge_size + (PoolSize - Third)
        /\ target' = target /\ block_size' = block_size
        /\ next_buf' = next_buf
    BY <1>1, <1>4, <1>5, <2>2, GoesOn
  <2>4. mem'[cursor'].size = PoolSize - Third
    BY <1>4, <1>5, <2>3 DEF Spare, Stays
  <2>5. merge_size' = Third + PoolSize - Third - Sec /\ cursor' = Third
    BY <2>1, <2>2, <2>3, PlacesOfTest DEF Stays
  <2>6. Progress'
    <3>1. /\ call' = 17 /\ pc' = "forward" /\ target' = Sec
          /\ cursor' \in {Sec, Third}
      BY <1>2, <1>5, <2>3, <2>5 DEF Stays
    <3>2. merge_size' = cursor' + mem'[cursor'].size - Sec
      BY <2>4, <2>5, PlacesOfTest
    <3> QED BY <3>1, <3>2 DEF Progress, Freeing,
         SearchAt
  <2>7. Basic' /\ Layout' /\ InHands' /\ Pointers'
    BY <1>1, <1>5, <2>2, <2>3, <2>5, Within DEF Basic, Freed, Stays
  <2> QED BY <2>6, <2>7 DEF BestFitTestInv
<1>6. CASE pc = "forward" /\ cursor = Third
  <2>1. mem[Third].size = PoolSize - Third /\ merge_size = Third + PoolSize - Third - Sec
    <3>1. mem[Third].size = PoolSize - Third
      BY <1>4, <1>6 DEF Spare
    <3>2. merge_size = cursor + mem[cursor].size - Sec
      BY <1>2, <1>6
    <3>3. cursor = Third
      BY <1>6
    <3> QED BY <3>1, <3>2, <3>3, PlacesOfTest, NumbersOfTest
  <2>2. Third + PoolSize - Third = PoolSize /\ Sec \in Places
        /\ -1 \in Places \cup {-1}
    BY PlacesOfTest DEF Places
  <2>3. Stops(-1)
    BY <1>4, <1>6 DEF Stops
  <2>4. /\ pc' = "backward" /\ next_buf' = -1 /\ cursor' = Sec
        /\ pool' = pool /\ mem' = mem /\ allocated' = allocated /\ fault' = fault
        /\ call' = call /\ ptr' = ptr /\ block_size' = block_size
        /\ target' = target /\ merge_size' = merge_size
    BY <1>1, <1>2, <1>4, <1>6, <2>3, TurnsBack
  <2>5. merge_size' = PoolSize - Sec
    BY <2>1, <2>2, <2>4, PlacesOfTest
  <2>6. Progress'
    BY <1>2, <1>6, <2>4, <2>5 DEF Progress, Freeing, SearchAt
  <2>7. Basic' /\ Layout' /\ InHands' /\ Pointers'
    BY <1>1, <1>6, <2>2, <2>4, Within DEF Basic, Freed
  <2> QED BY <2>6, <2>7 DEF BestFitTestInv
<1>7. CASE pc = "backward" /\ cursor = Sec
  <2>0. KiB + 1 \in Nat /\ PoolSize - Sec = PoolSize - Sec
    BY PlacesOfTest, NumbersOfTest
  <2>1. /\ Sec \in Places
        /\ Third \in Places \cup {-1} /\ 0 \in Places \cup {-1}
        /\ Sec \in Places \cup {-1} /\ -1 \in Places \cup {-1}
    BY PlacesOfTest DEF Places
  <2>2. PrevStops(0) /\ Script[call].name # "malloc"
    BY <1>1, <1>4, <1>7, <2>0, <2>1 DEF PrevStops, Frees
  <2>3. merge_size = PoolSize - Sec /\ next_buf = -1
    BY <1>2, <1>7, <2>0
  <2>4. /\ pc' = "idle" /\ AtRest' /\ pool' = pool /\ fault' = fault
        /\ allocated' = allocated /\ call' = call + 1 /\ ptr' = ptr
        /\ Spare(mem', Sec, merge_size, -1, 0) /\ Differ(mem', mem, Sec)
    BY <1>1, <1>4, <1>7, <2>0, <2>1, <2>2, <2>3, MergesLast
  <2>5. mem' \in Memories /\ Spare(mem', Sec, PoolSize - Sec, -1, 0)
    BY <2>3, <2>4 DEF Differ
  <2>6. /\ Busy(mem', 0, KiB + 1, Sec, -1)
    BY <1>4, <1>7, <2>4, PlacesOfTest DEF Differ, Busy, Spare
  <2>7. call' = 18 /\ ~Freed' /\ allocated' = {0}
    BY <1>4, <1>7, <2>4 DEF Freed
  <2>8. Layout'
    BY <2>4, <2>5, <2>6, <2>7 DEF Layout, At, In, FirstTwo, FrontOnly, FirstOnly,
       Front, FrontFreed, Back, Middle
  <2>9. InHands'
    BY <2>7 DEF InHands, At, In
  <2>10. Progress'
    BY <2>4, <2>7 DEF Progress, SearchAt, Freeing
  <2>11. Pointers'
    BY <2>4, <2>7 DEF Pointers, BestFitTestInv
  <2>12. Basic'
    BY <1>1, <2>4, <2>5, Between DEF Basic
  <2> QED BY <2>8, <2>9, <2>10, <2>11, <2>12 DEF BestFitTestInv
<1> QED BY <1>2, <1>3, <1>5, <1>6, <1>7

\* Call 18 gives the block at 0 back.
LEMMA Call18 ==
  ASSUME RoomForTest, BestFitTestInv, TestNext, call = 18
  PROVE  BestFitTestInv'
<1>1. Basic /\ Frees(call, 3) /\ call \in 1 .. 20 /\ ptr[3] = 0
  BY ScriptIs DEF BestFitTestInv, Pointers
<1>2. /\ pc \in {"idle", "forward", "backward"}
      /\ pc # "idle" => target = 0
      /\ pc = "forward" => /\ cursor \in {0, Sec}
                           /\ merge_size = cursor + mem[cursor].size - 0
      /\ pc = "backward" => /\ cursor \in {0} /\ next_buf = -1
                            /\ merge_size = PoolSize - cursor
  <2>1. Progress
    BY DEF BestFitTestInv
  <2>2. Freeing(0, {0, Sec}, {0}, -1, PoolSize)
    BY <2>1 DEF Progress
  <2> QED BY <2>2 DEF Freeing
<1>3. CASE pc = "idle"
  <2>1. /\ Busy(mem, 0, KiB + 1, Sec, -1) /\ Spare(mem, Sec, PoolSize - Sec, -1, 0)
        /\ allocated = {0}
    BY <1>3 DEF BestFitTestInv, Layout, InHands, At, In, Freed, FirstTwo, FrontOnly,
       FirstOnly, Front, FrontFreed, Back, Middle
  <2>2. /\ 0 \in Places /\ KiB + 1 \in Nat /\ Sec \in Places \cup {-1}
        /\ -1 \in Places \cup {-1}
    BY PlacesOfTest DEF Places
  <2>3. /\ pc' = "forward" /\ cursor' = 0 /\ target' = 0
        /\ merge_size' = KiB + 1 /\ allocated' = allocated \ {0}
        /\ Spare(mem', 0, KiB + 1, Sec, -1) /\ Differ(mem', mem, 0)
        /\ pool' = pool /\ fault' = fault /\ call' = call /\ ptr' = ptr
        /\ block_size' = block_size /\ next_buf' = next_buf
    <3>1. Busy(mem, 0, KiB + 1, Sec, -1)
      BY <2>1
    <3> QED BY <1>1, <1>3, <2>2, <3>1, FreeBegins
  <2>4. /\ Spare(mem', Sec, PoolSize - Sec, -1, 0)
    BY <2>1, <2>3, PlacesOfTest DEF Differ, Busy, Spare
  <2>5. allocated' = {}
    BY <2>1, <2>3, PlacesOfTest
  <2>6. call' = 18 /\ Freed'
    BY <2>3 DEF Freed
  <2>7. Layout'
    BY <2>3, <2>4, <2>6 DEF Layout, At, In, FirstTwo, FrontOnly, FirstOnly, Front,
       FrontFreed, Back, Middle
  <2>8. InHands'
    BY <2>5, <2>6 DEF InHands, At, In
  <2>9. merge_size' = cursor' + mem'[cursor'].size - 0
    <3>1. mem'[0].size = KiB + 1 /\ 0 \in Int
      BY <2>3, PlacesOfTest DEF Spare
    <3> QED BY <2>2, <2>3, <3>1
  <2>10. Progress'
    BY <2>3, <2>6, <2>9 DEF Progress, Freeing, SearchAt
  <2>11. Pointers'
    BY <2>3 DEF Pointers, BestFitTestInv
  <2>12. Basic'
    BY <1>1, <1>3, <2>2, <2>3 DEF Basic, Differ
  <2> QED BY <2>7, <2>8, <2>10, <2>11, <2>12 DEF BestFitTestInv
<1>4. ASSUME pc # "idle"
      PROVE  /\ Spare(mem, 0, KiB + 1, Sec, -1)
             /\ Spare(mem, Sec, PoolSize - Sec, -1, 0)
             /\ allocated = {}
  BY <1>2, <1>4 DEF BestFitTestInv, Layout, InHands, At, In, Freed, FirstTwo,
     FrontOnly, FirstOnly, Front, FrontFreed, Back, Middle
<1>5. CASE pc = "forward" /\ cursor = 0
  <2>1. mem[0].size = KiB + 1 /\ merge_size = 0 + KiB + 1 - 0
    <3>1. mem[0].size = KiB + 1
      BY <1>4, <1>5 DEF Spare
    <3>2. merge_size = cursor + mem[cursor].size - 0
      BY <1>2, <1>5
    <3>3. cursor = 0
      BY <1>5
    <3> QED BY <3>1, <3>2, <3>3, PlacesOfTest, NumbersOfTest
  <2>2. Sec \in Places /\ Sec # -1 /\ 0 + KiB + 1 = Sec /\ 0 \in Int /\ 0 \in Int
        /\ PoolSize - Sec \in Nat /\ KiB + 1 \in Int /\ Sec + PoolSize - Sec - 0 \in Nat
    BY PlacesOfTest DEF Places
  <2>3. /\ Stays(Sec) /\ merge_size' = merge_size + (PoolSize - Sec)
        /\ target' = target /\ block_size' = block_size
        /\ next_buf' = next_buf
    BY <1>1, <1>4, <1>5, <2>2, GoesOn
  <2>4. mem'[cursor'].size = PoolSize - Sec
    BY <1>4, <1>5, <2>3 DEF Spare, Stays
  <2>5. merge_size' = Sec + PoolSize - Sec - 0 /\ cursor' = Sec
    BY <2>1, <2>2, <2>3, PlacesOfTest DEF Stays
  <2>6. Progress'
    <3>1. /\ call' = 18 /\ pc' = "forward" /\ target' = 0
          /\ cursor' \in {0, Sec}
      BY <1>2, <1>5, <2>3, <2>5 DEF Stays
    <3>2. merge_size' = cursor' + mem'[cursor'].size - 0
      BY <2>4, <2>5, PlacesOfTest
    <3> QED BY <3>1, <3>2 DEF Progress, Freeing,
         SearchAt
  <2>7. Basic' /\ Layout' /\ InHands' /\ Pointers'
    BY <1>1, <1>5, <2>2, <2>3, <2>5, Within DEF Basic, Freed, Stays
  <2> QED BY <2>6, <2>7 DEF BestFitTestInv
<1>6. CASE pc = "forward" /\ cursor = Sec
  <2>1. mem[Sec].size = PoolSize - Sec /\ merge_size = Sec + PoolSize - Sec - 0
    <3>1. mem[Sec].size = PoolSize - Sec
      BY <1>4, <1>6 DEF Spare
    <3>2. merge_size = cursor + mem[cursor].size - 0
      BY <1>2, <1>6
    <3>3. cursor = Sec
      BY <1>6
    <3> QED BY <3>1, <3>2, <3>3, PlacesOfTest, NumbersOfTest
  <2>2. Sec + PoolSize - Sec = PoolSize /\ 0 \in Places
        /\ -1 \in Places \cup {-1}
    BY PlacesOfTest DEF Places
  <2>3. Stops(-1)
    BY <1>4, <1>6 DEF Stops
  <2>4. /\ pc' = "backward" /\ next_buf' = -1 /\ cursor' = 0
        /\ pool' = pool /\ mem' = mem /\ allocated' = allocated /\ fault' = fault
        /\ call' = call /\ ptr' = ptr /\ block_size' = block_size
        /\ target' = target /\ merge_size' = merge_size
    BY <1>1, <1>2, <1>4, <1>6, <2>3, TurnsBack
  <2>5. merge_size' = PoolSize - 0
    BY <2>1, <2>2, <2>4, PlacesOfTest
  <2>6. Progress'
    BY <1>2, <1>6, <2>4, <2>5 DEF Progress, Freeing, SearchAt
  <2>7. Basic' /\ Layout' /\ InHands' /\ Pointers'
    BY <1>1, <1>6, <2>2, <2>4, Within DEF Basic, Freed
  <2> QED BY <2>6, <2>7 DEF BestFitTestInv
<1>7. CASE pc = "backward" /\ cursor = 0
  <2>0. KiB + 1 \in Nat /\ PoolSize - 0 = PoolSize
    <3>1. KiB + 1 \in Nat
      BY NumbersOfTest
    <3>2. PoolSize - 0 = PoolSize
      BY PlacesOfTest, NumbersOfTest
    <3> QED BY <3>1, <3>2
  <2>1. /\ 0 \in Places
        /\ Sec \in Places \cup {-1} /\ -1 \in Places \cup {-1}
    BY PlacesOfTest DEF Places
  <2>2. PrevStops(-1) /\ Script[call].name # "malloc"
    BY <1>1, <1>4, <1>7, <2>0, <2>1 DEF PrevStops, Frees
  <2>3. merge_size = PoolSize /\ next_buf = -1
    BY <1>2, <1>7, <2>0
  <2>4. /\ pc' = "idle" /\ AtRest' /\ pool' = pool /\ fault' = fault
        /\ allocated' = allocated /\ call' = call + 1 /\ ptr' = ptr
        /\ Spare(mem', 0, merge_size, -1, -1) /\ Differ(mem', mem, 0)
    BY <1>1, <1>4, <1>7, <2>0, <2>1, <2>2, <2>3, MergesLast
  <2>5. mem' \in Memories /\ Spare(mem', 0, PoolSize, -1, -1)
    BY <2>3, <2>4 DEF Differ
  <2>7. call' = 19 /\ ~Freed' /\ allocated' = {}
    BY <1>4, <1>7, <2>4 DEF Freed
  <2>8. Layout'
    BY <2>4, <2>5, <2>7 DEF Layout, At, In, FirstTwo, FrontOnly, FirstOnly, Front,
       FrontFreed, Back, Middle
  <2>9. InHands'
    BY <2>7 DEF InHands, At, In
  <2>10. Progress'
    BY <2>4, <2>7 DEF Progress, SearchAt, Freeing
  <2>11. Pointers'
    BY <2>4, <2>7 DEF Pointers, BestFitTestInv
  <2>12. Basic'
    BY <1>1, <2>4, <2>5, Between DEF Basic
  <2> QED BY <2>8, <2>9, <2>10, <2>11, <2>12 DEF BestFitTestInv
<1> QED BY <1>2, <1>3, <1>5, <1>6, <1>7

\* Call 19 asks for PoolSize - 1 and gets the block at 0.
LEMMA Call19 ==
  ASSUME RoomForTest, BestFitTestInv, TestNext, call = 19
  PROVE  BestFitTestInv'
<1>1. Basic /\ Mallocs(call, 10, PoolSize - 1) /\ call \in 1 .. 20
  BY ScriptIs DEF BestFitTestInv
<1>2. /\ pc \in {"idle", "fit"}
      /\ pc = "fit" => block_size = PoolSize /\ cursor \in {0}
  <2>1. Progress
    BY DEF BestFitTestInv
  <2>2. SearchAt(PoolSize, {0})
    BY <2>1 DEF Progress
  <2> QED BY <2>2 DEF SearchAt
<1>3. /\ Spare(mem, 0, PoolSize, -1, -1)
      /\ allocated = {}
  BY <1>2 DEF BestFitTestInv, Layout, InHands, At, In, Freed, FirstTwo, FrontOnly,
     FirstOnly, Front, FrontFreed, Back, Middle
<1>4. CASE pc = "idle"
  <2>1. /\ PoolSize - 1 \in Nat /\ PoolSize - 1 + 1 = PoolSize
        /\ PoolSize - 1 + 1 <= PoolSize
        /\ 0 \in Places /\ PoolSize <= SIZE_MAX
    BY PlacesOfTest DEF Places
  <2>2. /\ pc' = "fit" /\ cursor' = 0 /\ block_size' = PoolSize
        /\ pool' = pool /\ mem' = mem /\ allocated' = allocated /\ fault' = fault
        /\ call' = call /\ ptr' = ptr /\ target' = target
        /\ merge_size' = merge_size /\ next_buf' = next_buf
    BY <1>1, <1>4, <2>1, MallocBegins
  <2>3. Progress'
    BY <2>2 DEF Progress, SearchAt
  <2>4. block_size' \in 0 .. SIZE_MAX
    BY <2>1, <2>2, PlacesOfTest
  <2>5. Basic' /\ Layout' /\ InHands' /\ Pointers'
    BY <1>1, <1>4, <2>1, <2>2, <2>4, Within DEF Basic, Freed
  <2> QED BY <2>3, <2>5 DEF BestFitTestInv
<1>5. CASE pc = "fit" /\ cursor = 0
  <2>0. /\ 0 \in Places /\ PoolSize \in Nat \ {0} /\ -1 \in Places \cup {-1}
        /\ -1 \in Places \cup {-1}
    BY PlacesOfTest DEF Places
  <2>1. /\ Returns(10, 0) /\ mem' \in Memories /\ Busy(mem', 0, PoolSize, -1, -1)
        /\ \A a \in Places : a < 0 \/ a >= 0 + PoolSize => mem'[a] = mem[a]
    BY <1>1, <1>2, <1>3, <1>5, <2>0, WholeTaken DEF Mallocs
  <2>2. call' = 20 /\ pc' = "idle"
    BY <2>1 DEF Returns
  <2>4. 0 \notin allocated /\ allocated' = {0} /\ 0 \in Int
    BY <1>3, <2>1, PlacesOfTest DEF Returns
  <2>6. Layout'
    BY <2>1, <2>2 DEF Layout, At, In, Freed, FirstTwo, FrontOnly, FirstOnly, Front,
       FrontFreed, Back, Middle
  <2>7. InHands'
    BY <2>1, <2>2, <2>4 DEF InHands, At, In, Freed
  <2>8. Progress'
    BY <2>1, <2>2 DEF Progress, SearchAt, Freeing
  <2>9. ptr' = [ptr EXCEPT ![10] = 0] /\ ptr' \in [1 .. 11 -> Int]
    BY <1>1, <2>1, <2>4 DEF Returns, Basic
  <2>10. Pointers'
    BY <1>1, <2>2, <2>9 DEF Pointers, BestFitTestInv, Basic
  <2>11. Basic'
    BY <1>1, <2>1, <2>4, <2>9, Between DEF Returns
  <2> QED BY <2>6, <2>7, <2>8, <2>10, <2>11 DEF BestFitTestInv
<1> QED BY <1>1, <1>2, <1>4, <1>5 DEF Basic

\* Call 20 asks for 1 and gets nothing.
LEMMA Call20 ==
  ASSUME RoomForTest, BestFitTestInv, TestNext, call = 20
  PROVE  BestFitTestInv'
<1>1. Basic /\ Mallocs(call, 11, 1) /\ call \in 1 .. 20
  BY ScriptIs DEF BestFitTestInv
<1>2. /\ pc \in {"idle", "fit"}
      /\ pc = "fit" => block_size = 2 /\ cursor \in {0}
  <2>1. Progress
    BY DEF BestFitTestInv
  <2>2. SearchAt(2, {0})
    BY <2>1 DEF Progress
  <2> QED BY <2>2 DEF SearchAt
<1>3. /\ Busy(mem, 0, PoolSize, -1, -1)
      /\ allocated = {0}
  BY <1>2 DEF BestFitTestInv, Layout, InHands, At, In, Freed, FirstTwo, FrontOnly,
     FirstOnly, Front, FrontFreed, Back, Middle
<1>4. CASE pc = "idle"
  <2>1. 1 \in Nat /\ 1 + 1 = 2 /\ 1 + 1 <= PoolSize
        /\ 0 \in Places /\ PoolSize <= SIZE_MAX
    BY PlacesOfTest DEF Places
  <2>2. /\ pc' = "fit" /\ cursor' = 0 /\ block_size' = 2
        /\ pool' = pool /\ mem' = mem /\ allocated' = allocated /\ fault' = fault
        /\ call' = call /\ ptr' = ptr /\ target' = target
        /\ merge_size' = merge_size /\ next_buf' = next_buf
    BY <1>1, <1>4, <2>1, MallocBegins
  <2>3. Progress'
    BY <2>2 DEF Progress, SearchAt
  <2>4. block_size' \in 0 .. SIZE_MAX
    BY <2>1, <2>2, PlacesOfTest
  <2>5. Basic' /\ Layout' /\ InHands' /\ Pointers'
    BY <1>1, <1>4, <2>1, <2>2, <2>4, Within DEF Basic, Freed
  <2> QED BY <2>3, <2>5 DEF BestFitTestInv
<1>5. CASE pc = "fit" /\ cursor = 0
  <2>1. /\ pc' = "idle" /\ AtRest' /\ pool' = pool /\ fault' = "none" /\ mem' = mem
        /\ call' = call + 1 /\ allocated' = allocated /\ ptr' = [ptr EXCEPT ![11] = -1]
    BY <1>1, <1>3, <1>5, RunsOut DEF Mallocs
  <2>2. call' = 21
    BY <2>1
  <2>3. /\ Busy(mem', 0, PoolSize, -1, -1)
        /\ allocated' = {0}
    BY <1>3, <2>1
  <2>4. mem' \in Memories /\ -1 \in Int
    BY <1>1, <2>1 DEF Basic
  <2>6. Layout'
    BY <2>1, <2>2, <2>3 DEF Layout, At, In, Freed, FirstTwo, FrontOnly, FirstOnly,
       Front, FrontFreed, Back, Middle
  <2>7. InHands'
    BY <2>1, <2>2, <2>3 DEF InHands, At, In, Freed
  <2>8. Progress'
    BY <2>1, <2>2 DEF Progress, SearchAt, Freeing
  <2>9. ptr' = [ptr EXCEPT ![11] = -1] /\ ptr' \in [1 .. 11 -> Int]
    BY <1>1, <2>1, <2>4 DEF Returns, Basic
  <2>10. Pointers'
    BY <1>1, <2>2, <2>9 DEF Pointers, BestFitTestInv, Basic
  <2>11. Basic'
    BY <1>1, <2>1, <2>4, <2>9, Between DEF Returns
  <2> QED BY <2>6, <2>7, <2>8, <2>10, <2>11 DEF BestFitTestInv
<1> QED BY <1>1, <1>2, <1>4, <1>5 DEF Basic

LEMMA BestFitTestInit ==
  ASSUME RoomForTest, TestInit
  PROVE  BestFitTestInv
<1>1. /\ call = 0 /\ pc = "idle" /\ pool = FALSE /\ fault = "none" /\ allocated = {}
      /\ ptr = [n \in 1 .. 11 |-> -1] /\ mem = [a \in Places |-> Zero]
      /\ AtRest
  BY DEF TestInit, Init, NULL, Addresses, Places, AtRest
<1>2. Zero \in Headers
  BY HeaderTypes DEF Zero, NULL
<1>3. mem \in Memories
  BY <1>1, <1>2 DEF Memories
<1>4. ptr \in [1 .. 11 -> Int]
  BY <1>1
<1>5. 0 \in 0 .. SIZE_MAX
  BY PlacesOfTest
<1>6. Basic
  <2>0. 0 \notin 1 .. 21 /\ 0 \in 0 .. 22
    OBVIOUS
  <2>1. pool \in BOOLEAN /\ (pool <=> call \in 1 .. 21) /\ call \in 0 .. 22
    BY <1>1, <2>0, Zenon
  <2>2. cursor = -1 /\ target = -1 /\ next_buf = -1 /\ block_size = 0
        /\ merge_size = 0
    BY <1>1 DEF AtRest
  <2> QED BY <1>1, <1>3, <1>4, <1>5, <2>1, <2>2 DEF Basic
<1>7. Layout /\ InHands /\ Progress /\ Pointers
  BY <1>1 DEF Layout, InHands, Progress, Pointers, At, In, Freed
<1> QED BY <1>6, <1>7 DEF BestFitTestInv

LEMMA TestBegins ==
  ASSUME RoomForTest, BestFitTestInv, TestNext, call = 0
  PROVE  BestFitTestInv'
<1>1. Basic /\ pc = "idle" /\ allocated = {}
  BY DEF BestFitTestInv, Progress, InHands
<1>2. DOMAIN Script = 1 .. 20 /\ Len(Script) = 20
  BY ScriptIs
<1>3. Begin
  BY <1>1, <1>2 DEF TestNext, test_best_fit_allocator, Call, Finish, Run, my_malloc,
     TryNext, MallocFails, TakeWhole, Split, SplitNothing, SplitCrashes, Return, Goto, my_free, Forward, TurnBack,
     Backward, Merge
<1>4. PICK h : h = [Zero EXCEPT !.is_free = TRUE, !.size = PoolSize]
  OBVIOUS
<1>5. h = [is_free |-> TRUE, size |-> PoolSize, next |-> -1, prev |-> -1]
  BY <1>4 DEF Zero, NULL
<1>6. mem' = [a \in Places |-> IF a = 0 THEN h ELSE Zero]
  BY <1>3, <1>4 DEF Begin, MapPool, Addresses, Places
<1>7. Spare(mem', 0, PoolSize, -1, -1)
  BY <1>5, <1>6, PlacesOfTest DEF Spare
<1>8. h \in Headers /\ Zero \in Headers
  <2>1. PoolSize \in Nat /\ 0 \in Nat /\ -1 \in Places \cup {-1}
    BY PoolAssumption
  <2> QED BY <1>5, <2>1, HeaderTypes DEF Zero, NULL
<1>9. mem' \in Memories
  BY <1>6, <1>8 DEF Memories
<1>10. /\ call' = 1 /\ pool' = TRUE /\ pc' = pc /\ cursor' = cursor /\ ptr' = ptr
       /\ block_size' = block_size /\ target' = target
       /\ merge_size' = merge_size /\ next_buf' = next_buf
       /\ allocated' = allocated /\ fault' = fault
  BY <1>3 DEF Begin, MapPool, free_locals
<1>11. Basic'
  BY <1>1, <1>9, <1>10 DEF Basic, AtRest
<1>12. Layout'
  BY <1>1, <1>7, <1>10 DEF Layout, At, In, Freed
<1>13. InHands' /\ Progress' /\ Pointers'
  BY <1>1, <1>10 DEF InHands, Progress, Pointers, SearchAt, At, In, Freed
<1> QED BY <1>11, <1>12, <1>13 DEF BestFitTestInv

LEMMA TestFinishes ==
  ASSUME BestFitTestInv, TestNext, call \in {21, 22}
  PROVE  BestFitTestInv'
<1>1. Basic /\ pc = "idle" /\ Pointers
  BY DEF BestFitTestInv, Progress
<1>2. DOMAIN Script = 1 .. 20 /\ Len(Script) = 20
  BY ScriptIs
<1>3. Finish
  BY <1>1, <1>2 DEF TestNext, test_best_fit_allocator, Call, Begin, Run, my_malloc,
     TryNext, MallocFails, TakeWhole, Split, SplitNothing, SplitCrashes, Return, Goto, my_free, Forward, TurnBack,
     Backward, Merge
<1>4. call = 21
  BY <1>2, <1>3 DEF Finish
<1>5. Zero \in Headers
  BY HeaderTypes DEF Zero, NULL
<1>6. mem' = [a \in Places |-> Zero]
  BY <1>3 DEF Finish, UnmapPool, Addresses, Places
<1>7. mem' \in Memories
  BY <1>5, <1>6 DEF Memories
<1>8. /\ call' = 22 /\ pool' = FALSE /\ pc' = pc /\ cursor' = cursor /\ ptr' = ptr
      /\ block_size' = block_size /\ target' = target
      /\ merge_size' = merge_size /\ next_buf' = next_buf
      /\ allocated' = {} /\ fault' = "none"
  BY <1>3, <1>4 DEF Finish, UnmapPool, free_locals
<1>9. Basic'
  <2>0. 22 \notin 1 .. 21 /\ 22 \in 0 .. 22
    OBVIOUS
  <2>1. pool' \in BOOLEAN /\ (pool' <=> call' \in 1 .. 21) /\ call' \in 0 .. 22
    BY <1>8, <2>0, Zenon
  <2> QED BY <1>1, <1>7, <1>8, <2>1 DEF Basic, AtRest
<1>10. Layout' /\ InHands' /\ Progress'
  BY <1>1, <1>8 DEF Layout, InHands, Progress, At, In, Freed
<1>11. Pointers'
  BY <1>1, <1>4, <1>8 DEF Pointers
<1> QED BY <1>9, <1>10, <1>11 DEF BestFitTestInv

LEMMA BestFitTestNext ==
  ASSUME RoomForTest, BestFitTestInv, TestNext \/ UNCHANGED testvars
  PROVE  BestFitTestInv'
<1>1. CASE UNCHANGED testvars
  <2>1. /\ call' = call /\ ptr' = ptr /\ pool' = pool /\ mem' = mem /\ pc' = pc
        /\ cursor' = cursor /\ block_size' = block_size /\ fault' = fault
        /\ target' = target /\ merge_size' = merge_size
        /\ next_buf' = next_buf /\ allocated' = allocated
    BY <1>1 DEF testvars, vars
  <2>2. (Freed' <=> Freed) /\ (\A k : At(k)' <=> At(k)) /\ \A k : In(k)' <=> In(k)
    BY <2>1 DEF Freed, At, In
  <2>3. Basic'
    BY <2>1 DEF BestFitTestInv, Basic, AtRest
  <2>4. Layout' /\ InHands'
    BY <2>1, <2>2 DEF BestFitTestInv, Layout, InHands
  <2>5. Progress' /\ Pointers'
    BY <2>1 DEF BestFitTestInv, Progress, SearchAt, Freeing, Pointers
  <2> QED BY <2>3, <2>4, <2>5 DEF BestFitTestInv
<1>2. CASE TestNext
  <2>1. call \in 0 .. 22
    BY DEF BestFitTestInv, Basic
  <2>2. \/ call = 0 \/ call = 1 \/ call = 2 \/ call = 3 \/ call = 4 \/ call = 5
        \/ call = 6 \/ call = 7 \/ call = 8 \/ call = 9 \/ call = 10 \/ call = 11
        \/ call = 12 \/ call = 13 \/ call = 14 \/ call = 15 \/ call = 16 \/ call = 17
        \/ call = 18 \/ call = 19 \/ call = 20 \/ call \in {21, 22}
    BY <2>1
  <2> QED BY <1>2, <2>2, TestBegins, Call1, Call2, Call3, Call4, Call5, Call6, Call7,
             Call8, Call9, Call10, Call11, Call12, Call13, Call14, Call15, Call16, Call17,
             Call18, Call19, Call20, TestFinishes
<1> QED BY <1>1, <1>2

LEMMA CheckedAfter ==
  /\ Checked(1) => call > 1
  /\ Checked(2) => call > 2
  /\ Checked(3) => call > 4
  /\ Checked(6) => call > 7
  /\ Checked(7) => call > 9
  /\ Checked(8) => call > 10
  /\ Checked(9) => call > 14
  /\ Checked(10) => call > 19
  /\ Checked(11) => call > 20
<1>1. ASSUME NEW n, Checked(n)
      PROVE  \E k \in 1 .. 20 : /\ Script[k].name = "malloc"
                                /\ Script[k].number = n /\ k < call
  <2>1. PICK k \in 1 .. 20 : Script[k] = malloc(n, Script[k].size) /\ k < call
    BY <1>1, ScriptIs DEF Checked
  <2>2. Script[k].name = "malloc" /\ Script[k].number = n
    BY <2>1 DEF malloc
  <2> QED BY <2>1, <2>2
<1>2. ASSUME NEW k \in 1 .. 20, Script[k].name = "malloc"
      PROVE  /\ Script[k].number = 1 => k = 1
             /\ Script[k].number = 2 => k = 2
             /\ Script[k].number = 3 => k = 4
             /\ Script[k].number = 6 => k = 7
             /\ Script[k].number = 7 => k = 9
             /\ Script[k].number = 8 => k = 10
             /\ Script[k].number = 9 => k = 14
             /\ Script[k].number = 10 => k = 19
             /\ Script[k].number = 11 => k = 20
  BY <1>2, ScriptIs DEF Mallocs, Frees
<1>3. Checked(1) => call > 1
  BY <1>1, <1>2
<1>4. Checked(2) => call > 2
  BY <1>1, <1>2
<1>5. Checked(3) => call > 4
  BY <1>1, <1>2
<1>6. Checked(6) => call > 7
  BY <1>1, <1>2
<1>7. Checked(7) => call > 9
  BY <1>1, <1>2
<1>8. Checked(8) => call > 10
  BY <1>1, <1>2
<1>9. Checked(9) => call > 14
  BY <1>1, <1>2
<1>10. Checked(10) => call > 19
  BY <1>1, <1>2
<1>11. Checked(11) => call > 20
  BY <1>1, <1>2
<1> QED BY <1>3, <1>4, <1>5, <1>6, <1>7, <1>8, <1>9, <1>10, <1>11

LEMMA BestFitTestInvImplies ==
  ASSUME RoomForTest, BestFitTestInv
  PROVE  TypeOK /\ TestPasses
<1>1. Basic /\ InHands /\ Pointers /\ call \in 0 .. 22
  BY DEF BestFitTestInv, Basic
<1>2. allocated \subseteq Places
  BY <1>1, PlacesOfTest DEF InHands, At, In
<1>3. TypeOK
  BY <1>1, <1>2 DEF TypeOK, Basic, Memories, Places, Addresses, NULL
<1>4. TestPasses
  BY <1>1, CheckedAfter, PlacesOfTest DEF TestPasses, Pointers, Basic, NULL, overhead,
     Header
<1> QED BY <1>3, <1>4
=============================================================================
