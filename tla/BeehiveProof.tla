---------------------------- MODULE BeehiveProof ----------------------------
(***************************************************************************)
(* Proofs about Beehive, for every field and every number of bees: the two *)
(* barriers keep all the bees in the same part of the cycle, so the flags  *)
(* that end it cannot change while a bee may still read them, and every    *)
(* flower next to a collected one is known to the queue or to a bee.       *)
(***************************************************************************)
EXTENDS Beehive, TLAPS

---------------------------------------------------------------------------
\* The inductive invariant, by its parts.

\* A bee is inside a wait of a barrier exactly while it waits there.
AtBarriers ==
  \A b \in Bees :
    /\ bear[b] = "out" <=> pc[b] # "bear_wait"
    /\ cycle[b] = "out" <=> pc[b] # "cycle_wait"

\* Between the opening of the bear's barrier and that of the new cycle's.
AfterWork(b) ==
  \/ pc[b] \in {"count_lock", "count", "fight", "destroy_lock", "destroy", "cycle"}
  \/ pc[b] = "bear_wait" /\ bear[b] # "arrived"
  \/ pc[b] = "cycle_wait" /\ cycle[b] = "arrived"

\* All bees are in the same part of the cycle.
SamePart == \A b, c \in Bees : AfterWork(b) => AfterWork(c)

\* Past the test of the flags, on the way to the bear's barrier.
Working(b) ==
  \/ pc[b] \in {"queue_lock", "pop", "field_lock", "collect", "neighbours",
                "report_lock", "push", "field_relock", "bear"}
  \/ pc[b] = "bear_wait" /\ bear[b] = "arrived"

\* Nobody works once a flag is set, and nobody leaves before; all_harvested
\* says the truth.
Flags ==
  /\ \A b \in Bees : Working(b) \/ pc[b] = "none" => ~(all_harvested \/ hive_destroyed)
  /\ \A b \in Bees : pc[b] = "exited" => all_harvested \/ hive_destroyed
  /\ all_harvested => harvested = Positions

\* Among its four neighbours.
Reporting(b) == pc[b] \in {"neighbours", "report_lock", "push", "field_relock"}

\* What a bee carries: the index runs only among the neighbours, a bee that
\* fetches a position has none, one that collects has one of the field, and
\* one that reports has collected the flower there and reports into the field.
Load ==
  \A b \in Bees :
    /\ ~Reporting(b) => n[b] = 0
    /\ pc[b] \in {"queue_lock", "pop"} => state[b] = "WORKING"
    /\ pc[b] \in {"field_lock", "collect"} => state[b] = "COLLECTING"
    /\ state[b] = "COLLECTING" => position[b] \in Positions
    /\ Reporting(b) => state[b] = "COLLECTING" /\ position[b] \in harvested
    /\ pc[b] \in {"report_lock", "push"} =>
         n[b] < 4 /\ Neighbour(position[b], n[b]) \in Positions

Known(p) == Queued(p) \/ Awaited(p)

\* The two clauses of NoFlowerForgotten.
Frontier ==
  /\ \A p \in Positions \ harvested :
       (\E q \in harvested : Adjacent(q, p)) => Known(p)
  /\ harvested = {} => \E p \in Positions : Known(p)

\* The bees that are joined have left.
Joined ==
  /\ main = "join" => \A b \in Bees : b < j => pc[b] = "exited"
  /\ main = "done" => \A b \in Bees : pc[b] = "exited"

IInv ==
  /\ TypeOK
  /\ AtBarriers
  /\ SamePart
  /\ Flags
  /\ Load
  /\ Frontier
  /\ Joined

---------------------------------------------------------------------------
\* Facts the steps need.

\* What Append and Tail do to a queue of positions.
LEMMA QueueStep ==
  ASSUME NEW q \in Seq(Positions)
  PROVE  /\ Len(q) \in Nat
         /\ \A v \in Positions :
              /\ Append(q, v) \in Seq(Positions)
              /\ Len(Append(q, v)) = Len(q) + 1
              /\ Append(q, v)[Len(q) + 1] = v
              /\ \A m \in 1 .. Len(q) : Append(q, v)[m] = q[m]
         /\ q # <<>> =>
              /\ Len(q) >= 1 /\ Head(q) = q[1] /\ Head(q) \in Positions
              /\ Tail(q) \in Seq(Positions)
              /\ Len(Tail(q)) = Len(q) - 1
              /\ \A m \in 1 .. Len(q) - 1 : Tail(q)[m] = q[m + 1]
OBVIOUS

\* The flowers next to collected ones stay known when all known ones do.
LEMMA FrontierStep ==
  ASSUME Frontier, harvested' = harvested,
         \A p \in Positions \ harvested : Known(p) => Known(p)'
  PROVE  Frontier'
BY DEF Frontier

\* A step that touches neither the queue nor what bees carry forgets nothing,
\* as long as no bee stops to report.
LEMMA QuietStep ==
  ASSUME Frontier, UNCHANGED <<harvested, queue, state, position, n>>,
         \A b \in Bees : Reporting(b) => Reporting(b)'
  PROVE  Frontier'
<1>1. ASSUME NEW p \in Positions, Known(p)
      PROVE  Known(p)'
  <2>1. CASE Queued(p)
    BY <2>1 DEF Known, Queued
  <2>2. CASE Awaited(p)
    <3>1. PICK b \in Bees :
            /\ state[b] = "COLLECTING"
            /\ \/ position[b] = p
               \/ /\ Reporting(b)
                  /\ \E d \in n[b] .. 3 : Neighbour(position[b], d) = p
      BY <2>2 DEF Awaited, Reporting
    <3>2. Reporting(b) => pc'[b] \in {"neighbours", "report_lock", "push", "field_relock"}
      BY DEF Reporting
    <3> QED BY <3>1, <3>2 DEF Known, Awaited
  <2> QED BY <1>1, <2>1, <2>2 DEF Known
<1> QED BY <1>1, FrontierStep

LEMMA InitInv == Init => IInv
<1> SUFFICES ASSUME Init PROVE IInv
  OBVIOUS
<1> USE BeehiveAssumption DEF Init, BearBarrier!Init, CycleBarrier!Init
<1>1. PICK p \in Positions : queue = <<p>>
  OBVIOUS
<1>2. TypeOK
  <2>1. queue \in Seq(Positions) /\ j \in Bees
    BY <1>1 DEF Bees
  <2>2. /\ pc \in [Bees -> LockPoints \cup
               {"none", "top", "pop", "collect", "neighbours", "push", "bear",
                "bear_wait", "count", "fight", "destroy", "cycle",
                "cycle_wait", "exited"}]
        /\ state \in [Bees -> {"WORKING", "COLLECTING"}]
        /\ position \in [Bees -> Positions \cup {Nowhere}]
        /\ n \in [Bees -> 0 .. 4]
    OBVIOUS
  <2>3. BearBarrier!TypeOK /\ CycleBarrier!TypeOK
    BY DEF BearBarrier!TypeOK, CycleBarrier!TypeOK, BearBarrier!Phases,
           CycleBarrier!Phases
  <2>4. /\ harvested \subseteq Positions
        /\ all_harvested \in BOOLEAN /\ hive_destroyed \in BOOLEAN
        /\ field_mut \in Bees \cup {None} /\ queue_mut \in Bees \cup {None}
        /\ main \in {"create", "join", "done"}
    OBVIOUS
  <2> QED BY <2>1, <2>2, <2>3, <2>4 DEF TypeOK
<1>3. AtBarriers /\ SamePart
  BY DEF AtBarriers, SamePart, AfterWork
<1>4. Flags
  BY DEF Flags
<1>5. Load /\ Joined
  BY DEF Load, Reporting, Joined
<1>6. Frontier
  <2>1. Known(p)
    <3>1. Len(queue) = 1 /\ queue[1] = p
      BY <1>1
    <3>2. 1 \in 1 .. Len(queue)
      BY <3>1
    <3> QED BY <3>1, <3>2 DEF Known, Queued
  <2> QED BY <2>1 DEF Frontier
<1> QED BY <1>2, <1>3, <1>4, <1>5, <1>6 DEF IInv

LEMMA LockAtTopInv ==
  ASSUME IInv, NEW b \in Bees, LockAtTop(b)
  PROVE  IInv'
<1> USE DEF IInv, LockAtTop, Goto, field, muts, locals, barriers, mains, LockField
<1>1. TypeOK'
  BY DEF TypeOK, LockPoints, BearBarrier!TypeOK, CycleBarrier!TypeOK,
         BearBarrier!Phases, CycleBarrier!Phases, BearBarrier!SERIAL,
         CycleBarrier!SERIAL
<1>2. AtBarriers' /\ SamePart'
  BY DEF AtBarriers, SamePart, AfterWork, TypeOK, BearBarrier!TypeOK,
         CycleBarrier!TypeOK
<1>3. Flags'
  BY DEF Flags, Working, TypeOK, BearBarrier!TypeOK
<1>4. Load'
  BY DEF Load, Reporting, TypeOK
<1>5. Frontier'
  <2>1. \A c \in Bees : Reporting(c) => Reporting(c)'
    BY DEF Reporting, TypeOK
  <2> QED BY <2>1, QuietStep
<1>6. Joined'
  BY DEF Joined, TypeOK
<1> QED BY <1>1, <1>2, <1>3, <1>4, <1>5, <1>6

LEMMA TopInv ==
  ASSUME IInv, NEW b \in Bees, Top(b)
  PROVE  IInv'
<1> USE DEF IInv, Top, Goto, field, muts, locals, barriers, mains
<1>1. TypeOK'
  BY DEF TypeOK, LockPoints, BearBarrier!TypeOK, CycleBarrier!TypeOK,
         BearBarrier!Phases, CycleBarrier!Phases, BearBarrier!SERIAL,
         CycleBarrier!SERIAL
<1>2. AtBarriers' /\ SamePart'
  BY DEF AtBarriers, SamePart, AfterWork, TypeOK, BearBarrier!TypeOK,
         CycleBarrier!TypeOK
<1>3. Flags'
  BY DEF Flags, Working, TypeOK, BearBarrier!TypeOK
<1>4. Load'
  BY DEF Load, Reporting, TypeOK
<1>5. Frontier'
  <2>1. \A c \in Bees : Reporting(c) => Reporting(c)'
    BY DEF Reporting, TypeOK
  <2> QED BY <2>1, QuietStep
<1>6. Joined'
  BY DEF Joined, TypeOK
<1> QED BY <1>1, <1>2, <1>3, <1>4, <1>5, <1>6

LEMMA LockToPopInv ==
  ASSUME IInv, NEW b \in Bees, LockToPop(b)
  PROVE  IInv'
<1> USE DEF IInv, LockToPop, Goto, field, muts, locals, barriers, mains, LockQueue
<1>1. TypeOK'
  BY DEF TypeOK, LockPoints, BearBarrier!TypeOK, CycleBarrier!TypeOK,
         BearBarrier!Phases, CycleBarrier!Phases, BearBarrier!SERIAL,
         CycleBarrier!SERIAL
<1>2. AtBarriers' /\ SamePart'
  BY DEF AtBarriers, SamePart, AfterWork, TypeOK, BearBarrier!TypeOK,
         CycleBarrier!TypeOK
<1>3. Flags'
  BY DEF Flags, Working, TypeOK, BearBarrier!TypeOK
<1>4. Load'
  BY DEF Load, Reporting, TypeOK
<1>5. Frontier'
  <2>1. \A c \in Bees : Reporting(c) => Reporting(c)'
    BY DEF Reporting, TypeOK
  <2> QED BY <2>1, QuietStep
<1>6. Joined'
  BY DEF Joined, TypeOK
<1> QED BY <1>1, <1>2, <1>3, <1>4, <1>5, <1>6

LEMMA LockToCollectInv ==
  ASSUME IInv, NEW b \in Bees, LockToCollect(b)
  PROVE  IInv'
<1> USE DEF IInv, LockToCollect, Goto, field, muts, locals, barriers, mains, LockField
<1>1. TypeOK'
  BY DEF TypeOK, LockPoints, BearBarrier!TypeOK, CycleBarrier!TypeOK,
         BearBarrier!Phases, CycleBarrier!Phases, BearBarrier!SERIAL,
         CycleBarrier!SERIAL
<1>2. AtBarriers' /\ SamePart'
  BY DEF AtBarriers, SamePart, AfterWork, TypeOK, BearBarrier!TypeOK,
         CycleBarrier!TypeOK
<1>3. Flags'
  BY DEF Flags, Working, TypeOK, BearBarrier!TypeOK
<1>4. Load'
  BY DEF Load, Reporting, TypeOK
<1>5. Frontier'
  <2>1. \A c \in Bees : Reporting(c) => Reporting(c)'
    BY DEF Reporting, TypeOK
  <2> QED BY <2>1, QuietStep
<1>6. Joined'
  BY DEF Joined, TypeOK
<1> QED BY <1>1, <1>2, <1>3, <1>4, <1>5, <1>6

LEMMA ReportInv ==
  ASSUME IInv, NEW b \in Bees, Report(b)
  PROVE  IInv'
<1> USE DEF IInv, Report, Goto, field, muts, locals, barriers, mains, IsHarvested
<1>1. TypeOK'
  BY DEF TypeOK, LockPoints, BearBarrier!TypeOK, CycleBarrier!TypeOK,
         BearBarrier!Phases, CycleBarrier!Phases, BearBarrier!SERIAL,
         CycleBarrier!SERIAL
<1>2. AtBarriers' /\ SamePart'
  BY DEF AtBarriers, SamePart, AfterWork, TypeOK, BearBarrier!TypeOK,
         CycleBarrier!TypeOK
<1>3. Flags'
  BY DEF Flags, Working, TypeOK, BearBarrier!TypeOK
<1>4. Load'
  BY DEF Load, Reporting, TypeOK
<1>5. Frontier'
  <2>1. \A c \in Bees : Reporting(c) => Reporting(c)'
    BY DEF Reporting, TypeOK
  <2> QED BY <2>1, QuietStep
<1>6. Joined'
  BY DEF Joined, TypeOK
<1> QED BY <1>1, <1>2, <1>3, <1>4, <1>5, <1>6

LEMMA LockToReportInv ==
  ASSUME IInv, NEW b \in Bees, LockToReport(b)
  PROVE  IInv'
<1> USE DEF IInv, LockToReport, Goto, field, muts, locals, barriers, mains, LockQueue
<1>1. TypeOK'
  BY DEF TypeOK, LockPoints, BearBarrier!TypeOK, CycleBarrier!TypeOK,
         BearBarrier!Phases, CycleBarrier!Phases, BearBarrier!SERIAL,
         CycleBarrier!SERIAL
<1>2. AtBarriers' /\ SamePart'
  BY DEF AtBarriers, SamePart, AfterWork, TypeOK, BearBarrier!TypeOK,
         CycleBarrier!TypeOK
<1>3. Flags'
  BY DEF Flags, Working, TypeOK, BearBarrier!TypeOK
<1>4. Load'
  BY DEF Load, Reporting, TypeOK
<1>5. Frontier'
  <2>1. \A c \in Bees : Reporting(c) => Reporting(c)'
    BY DEF Reporting, TypeOK
  <2> QED BY <2>1, QuietStep
<1>6. Joined'
  BY DEF Joined, TypeOK
<1> QED BY <1>1, <1>2, <1>3, <1>4, <1>5, <1>6

LEMMA LockAgainInv ==
  ASSUME IInv, NEW b \in Bees, LockAgain(b)
  PROVE  IInv'
<1> USE DEF IInv, LockAgain, Goto, field, muts, locals, barriers, mains, LockField
<1>1. TypeOK'
  BY DEF TypeOK, LockPoints, BearBarrier!TypeOK, CycleBarrier!TypeOK,
         BearBarrier!Phases, CycleBarrier!Phases, BearBarrier!SERIAL,
         CycleBarrier!SERIAL
<1>2. AtBarriers' /\ SamePart'
  BY DEF AtBarriers, SamePart, AfterWork, TypeOK, BearBarrier!TypeOK,
         CycleBarrier!TypeOK
<1>3. Flags'
  BY DEF Flags, Working, TypeOK, BearBarrier!TypeOK
<1>4. Load'
  BY DEF Load, Reporting, TypeOK
<1>5. Frontier'
  <2>1. \A c \in Bees : Reporting(c) => Reporting(c)'
    BY DEF Reporting, TypeOK
  <2> QED BY <2>1, QuietStep
<1>6. Joined'
  BY DEF Joined, TypeOK
<1> QED BY <1>1, <1>2, <1>3, <1>4, <1>5, <1>6

LEMMA EnterBearInv ==
  ASSUME IInv, NEW b \in Bees, EnterBear(b)
  PROVE  IInv'
<1> USE DEF IInv, EnterBear, Goto, field, muts, locals, barriers, mains, BearBarrier!Arrive
<1>1. TypeOK'
  BY DEF TypeOK, LockPoints, BearBarrier!TypeOK, CycleBarrier!TypeOK,
         BearBarrier!Phases, CycleBarrier!Phases, BearBarrier!SERIAL,
         CycleBarrier!SERIAL
<1>2. AtBarriers' /\ SamePart'
  BY DEF AtBarriers, SamePart, AfterWork, TypeOK, BearBarrier!TypeOK,
         CycleBarrier!TypeOK
<1>3. Flags'
  BY DEF Flags, Working, TypeOK, BearBarrier!TypeOK
<1>4. Load'
  BY DEF Load, Reporting, TypeOK
<1>5. Frontier'
  <2>1. \A c \in Bees : Reporting(c) => Reporting(c)'
    BY DEF Reporting, TypeOK
  <2> QED BY <2>1, QuietStep
<1>6. Joined'
  BY DEF Joined, TypeOK
<1> QED BY <1>1, <1>2, <1>3, <1>4, <1>5, <1>6

LEMMA LeaveBearInv ==
  ASSUME IInv, NEW b \in Bees, LeaveBear(b)
  PROVE  IInv'
<1> USE DEF IInv, LeaveBear, Goto, field, muts, locals, barriers, mains, BearBarrier!Return
<1>1. TypeOK'
  BY DEF TypeOK, LockPoints, BearBarrier!TypeOK, CycleBarrier!TypeOK,
         BearBarrier!Phases, CycleBarrier!Phases, BearBarrier!SERIAL,
         CycleBarrier!SERIAL
<1>2. AtBarriers' /\ SamePart'
  BY DEF AtBarriers, SamePart, AfterWork, TypeOK, BearBarrier!TypeOK,
         CycleBarrier!TypeOK
<1>3. Flags'
  BY DEF Flags, Working, TypeOK, BearBarrier!TypeOK
<1>4. Load'
  BY DEF Load, Reporting, TypeOK
<1>5. Frontier'
  <2>1. \A c \in Bees : Reporting(c) => Reporting(c)'
    BY DEF Reporting, TypeOK
  <2> QED BY <2>1, QuietStep
<1>6. Joined'
  BY DEF Joined, TypeOK
<1> QED BY <1>1, <1>2, <1>3, <1>4, <1>5, <1>6

LEMMA LockToCountInv ==
  ASSUME IInv, NEW b \in Bees, LockToCount(b)
  PROVE  IInv'
<1> USE DEF IInv, LockToCount, Goto, field, muts, locals, barriers, mains, LockField
<1>1. TypeOK'
  BY DEF TypeOK, LockPoints, BearBarrier!TypeOK, CycleBarrier!TypeOK,
         BearBarrier!Phases, CycleBarrier!Phases, BearBarrier!SERIAL,
         CycleBarrier!SERIAL
<1>2. AtBarriers' /\ SamePart'
  BY DEF AtBarriers, SamePart, AfterWork, TypeOK, BearBarrier!TypeOK,
         CycleBarrier!TypeOK
<1>3. Flags'
  BY DEF Flags, Working, TypeOK, BearBarrier!TypeOK
<1>4. Load'
  BY DEF Load, Reporting, TypeOK
<1>5. Frontier'
  <2>1. \A c \in Bees : Reporting(c) => Reporting(c)'
    BY DEF Reporting, TypeOK
  <2> QED BY <2>1, QuietStep
<1>6. Joined'
  BY DEF Joined, TypeOK
<1> QED BY <1>1, <1>2, <1>3, <1>4, <1>5, <1>6

LEMMA CountInv ==
  ASSUME IInv, NEW b \in Bees, Count(b)
  PROVE  IInv'
<1> USE DEF IInv, Count, Goto, field, muts, locals, barriers, mains
<1>1. TypeOK'
  BY DEF TypeOK, LockPoints, BearBarrier!TypeOK, CycleBarrier!TypeOK,
         BearBarrier!Phases, CycleBarrier!Phases, BearBarrier!SERIAL,
         CycleBarrier!SERIAL
<1>2. AtBarriers' /\ SamePart'
  BY DEF AtBarriers, SamePart, AfterWork, TypeOK, BearBarrier!TypeOK,
         CycleBarrier!TypeOK
<1>3. Flags'
  <2>1. \A c \in Bees : AfterWork(c)
    BY DEF SamePart, AfterWork
  <2>2. \A c \in Bees : c # b =>
          ~Working(c)' /\ pc'[c] \notin {"none", "exited"}
    BY <2>1 DEF AfterWork, Working, TypeOK
  <2>3. ~Working(b)' /\ pc'[b] \notin {"none", "exited"}
    BY DEF Working, TypeOK
  <2>4. all_harvested' => harvested' = Positions
    BY DEF Flags
  <2> QED BY <2>2, <2>3, <2>4 DEF Flags
<1>4. Load'
  BY DEF Load, Reporting, TypeOK
<1>5. Frontier'
  <2>1. \A c \in Bees : Reporting(c) => Reporting(c)'
    BY DEF Reporting, TypeOK
  <2> QED BY <2>1, QuietStep
<1>6. Joined'
  BY DEF Joined, TypeOK
<1> QED BY <1>1, <1>2, <1>3, <1>4, <1>5, <1>6

LEMMA FightInv ==
  ASSUME IInv, NEW b \in Bees, Fight(b)
  PROVE  IInv'
<1> USE DEF IInv, Fight, Goto, field, muts, locals, barriers, mains
<1>1. TypeOK'
  BY DEF TypeOK, LockPoints, BearBarrier!TypeOK, CycleBarrier!TypeOK,
         BearBarrier!Phases, CycleBarrier!Phases, BearBarrier!SERIAL,
         CycleBarrier!SERIAL
<1>2. AtBarriers' /\ SamePart'
  BY DEF AtBarriers, SamePart, AfterWork, TypeOK, BearBarrier!TypeOK,
         CycleBarrier!TypeOK
<1>3. Flags'
  BY DEF Flags, Working, TypeOK, BearBarrier!TypeOK
<1>4. Load'
  BY DEF Load, Reporting, TypeOK
<1>5. Frontier'
  <2>1. \A c \in Bees : Reporting(c) => Reporting(c)'
    BY DEF Reporting, TypeOK
  <2> QED BY <2>1, QuietStep
<1>6. Joined'
  BY DEF Joined, TypeOK
<1> QED BY <1>1, <1>2, <1>3, <1>4, <1>5, <1>6

LEMMA LockToDestroyInv ==
  ASSUME IInv, NEW b \in Bees, LockToDestroy(b)
  PROVE  IInv'
<1> USE DEF IInv, LockToDestroy, Goto, field, muts, locals, barriers, mains, LockField
<1>1. TypeOK'
  BY DEF TypeOK, LockPoints, BearBarrier!TypeOK, CycleBarrier!TypeOK,
         BearBarrier!Phases, CycleBarrier!Phases, BearBarrier!SERIAL,
         CycleBarrier!SERIAL
<1>2. AtBarriers' /\ SamePart'
  BY DEF AtBarriers, SamePart, AfterWork, TypeOK, BearBarrier!TypeOK,
         CycleBarrier!TypeOK
<1>3. Flags'
  BY DEF Flags, Working, TypeOK, BearBarrier!TypeOK
<1>4. Load'
  BY DEF Load, Reporting, TypeOK
<1>5. Frontier'
  <2>1. \A c \in Bees : Reporting(c) => Reporting(c)'
    BY DEF Reporting, TypeOK
  <2> QED BY <2>1, QuietStep
<1>6. Joined'
  BY DEF Joined, TypeOK
<1> QED BY <1>1, <1>2, <1>3, <1>4, <1>5, <1>6

LEMMA DestroyInv ==
  ASSUME IInv, NEW b \in Bees, Destroy(b)
  PROVE  IInv'
<1> USE DEF IInv, Destroy, Goto, field, muts, locals, barriers, mains
<1>1. TypeOK'
  BY DEF TypeOK, LockPoints, BearBarrier!TypeOK, CycleBarrier!TypeOK,
         BearBarrier!Phases, CycleBarrier!Phases, BearBarrier!SERIAL,
         CycleBarrier!SERIAL
<1>2. AtBarriers' /\ SamePart'
  BY DEF AtBarriers, SamePart, AfterWork, TypeOK, BearBarrier!TypeOK,
         CycleBarrier!TypeOK
<1>3. Flags'
  <2>1. \A c \in Bees : AfterWork(c)
    BY DEF SamePart, AfterWork
  <2>2. \A c \in Bees : c # b =>
          ~Working(c)' /\ pc'[c] \notin {"none", "exited"}
    BY <2>1 DEF AfterWork, Working, TypeOK
  <2>3. ~Working(b)' /\ pc'[b] \notin {"none", "exited"}
    BY DEF Working, TypeOK
  <2>4. all_harvested' => harvested' = Positions
    BY DEF Flags
  <2> QED BY <2>2, <2>3, <2>4 DEF Flags
<1>4. Load'
  BY DEF Load, Reporting, TypeOK
<1>5. Frontier'
  <2>1. \A c \in Bees : Reporting(c) => Reporting(c)'
    BY DEF Reporting, TypeOK
  <2> QED BY <2>1, QuietStep
<1>6. Joined'
  BY DEF Joined, TypeOK
<1> QED BY <1>1, <1>2, <1>3, <1>4, <1>5, <1>6

LEMMA EnterCycleInv ==
  ASSUME IInv, NEW b \in Bees, EnterCycle(b)
  PROVE  IInv'
<1> USE DEF IInv, EnterCycle, Goto, field, muts, locals, barriers, mains, CycleBarrier!Arrive
<1>1. TypeOK'
  BY DEF TypeOK, LockPoints, BearBarrier!TypeOK, CycleBarrier!TypeOK,
         BearBarrier!Phases, CycleBarrier!Phases, BearBarrier!SERIAL,
         CycleBarrier!SERIAL
<1>2. AtBarriers' /\ SamePart'
  BY DEF AtBarriers, SamePart, AfterWork, TypeOK, BearBarrier!TypeOK,
         CycleBarrier!TypeOK
<1>3. Flags'
  BY DEF Flags, Working, TypeOK, BearBarrier!TypeOK
<1>4. Load'
  BY DEF Load, Reporting, TypeOK
<1>5. Frontier'
  <2>1. \A c \in Bees : Reporting(c) => Reporting(c)'
    BY DEF Reporting, TypeOK
  <2> QED BY <2>1, QuietStep
<1>6. Joined'
  BY DEF Joined, TypeOK
<1> QED BY <1>1, <1>2, <1>3, <1>4, <1>5, <1>6

LEMMA LeaveCycleInv ==
  ASSUME IInv, NEW b \in Bees, LeaveCycle(b)
  PROVE  IInv'
<1> USE DEF IInv, LeaveCycle, Goto, field, muts, locals, barriers, mains, CycleBarrier!Return
<1>1. TypeOK'
  BY DEF TypeOK, LockPoints, BearBarrier!TypeOK, CycleBarrier!TypeOK,
         BearBarrier!Phases, CycleBarrier!Phases, BearBarrier!SERIAL,
         CycleBarrier!SERIAL
<1>2. AtBarriers' /\ SamePart'
  BY DEF AtBarriers, SamePart, AfterWork, TypeOK, BearBarrier!TypeOK,
         CycleBarrier!TypeOK
<1>3. Flags'
  BY DEF Flags, Working, TypeOK, BearBarrier!TypeOK
<1>4. Load'
  BY DEF Load, Reporting, TypeOK
<1>5. Frontier'
  <2>1. \A c \in Bees : Reporting(c) => Reporting(c)'
    BY DEF Reporting, TypeOK
  <2> QED BY <2>1, QuietStep
<1>6. Joined'
  BY DEF Joined, TypeOK
<1> QED BY <1>1, <1>2, <1>3, <1>4, <1>5, <1>6

---------------------------------------------------------------------------
\* The steps that move flowers between the queue and the bees.

\* The first position of the queue becomes that of the bee.
LEMMA PopInv ==
  ASSUME IInv, NEW b \in Bees, Pop(b)
  PROVE  IInv'
<1> USE DEF IInv
<1>1. /\ pc[b] = "pop" /\ pc' = [pc EXCEPT ![b] = "bear"]
      /\ queue_mut' = None
      /\ UNCHANGED <<harvested, all_harvested, hive_destroyed, field_mut, n,
                     bear, bear_ret, cycle, cycle_ret, main, j>>
      /\ state[b] = "WORKING"
  BY DEF Pop, Goto, field, barriers, mains, Load
<1>2. \/ /\ queue # <<>>
         /\ position' = [position EXCEPT ![b] = Head(queue)]
         /\ state' = [state EXCEPT ![b] = "COLLECTING"]
         /\ queue' = Tail(queue)
      \/ UNCHANGED <<position, state, queue>>
  BY DEF Pop
<1>3. queue # <<>> =>
        /\ Len(queue) >= 1 /\ Len(queue) \in Nat
        /\ Head(queue) = queue[1] /\ Head(queue) \in Positions
        /\ Tail(queue) \in Seq(Positions) /\ Len(Tail(queue)) = Len(queue) - 1
        /\ \A m \in 1 .. Len(queue) - 1 : Tail(queue)[m] = queue[m + 1]
  BY QueueStep DEF TypeOK
<1>4. TypeOK'
  <2>1. queue' \in Seq(Positions)
    BY <1>2, <1>3 DEF TypeOK
  <2>2. position' \in [Bees -> Positions \cup {Nowhere}]
    BY <1>2, <1>3 DEF TypeOK
  <2>3. state' \in [Bees -> {"WORKING", "COLLECTING"}]
    BY <1>2 DEF TypeOK
  <2> QED
    BY <1>1, <2>1, <2>2, <2>3
       DEF TypeOK, BearBarrier!TypeOK, CycleBarrier!TypeOK
<1>5. AtBarriers' /\ SamePart' /\ Joined'
  BY <1>1 DEF AtBarriers, SamePart, AfterWork, Joined, TypeOK
<1>6. Flags'
  BY <1>1 DEF Flags, Working, TypeOK
<1>7. Load'
  <2>1. \A c \in Bees : c # b => position'[c] = position[c] /\ state'[c] = state[c]
    BY <1>2 DEF TypeOK
  <2>2. state'[b] = "COLLECTING" => position'[b] \in Positions
    BY <1>1, <1>2, <1>3 DEF TypeOK
  <2> QED BY <1>1, <2>1, <2>2 DEF Load, Reporting, TypeOK
<1>8. Frontier'
  <2>1. CASE UNCHANGED <<position, state, queue>>
    <3>1. \A c \in Bees : Reporting(c) => Reporting(c)'
      BY <1>1 DEF Reporting, TypeOK
    <3> QED BY <1>1, <2>1, <3>1, QuietStep
  <2>2. CASE /\ queue # <<>>
             /\ position' = [position EXCEPT ![b] = Head(queue)]
             /\ state' = [state EXCEPT ![b] = "COLLECTING"]
             /\ queue' = Tail(queue)
    <3>1. ASSUME NEW p \in Positions, Known(p)
          PROVE  Known(p)'
      <4>1. CASE Queued(p)
        <5>1. PICK m \in 1 .. Len(queue) : queue[m] = p
          BY <4>1 DEF Queued
        <5>2. CASE m = 1
          <6>1. position'[b] = p /\ state'[b] = "COLLECTING"
            BY <1>3, <2>2, <5>1, <5>2 DEF TypeOK
          <6> QED BY <6>1 DEF Known, Awaited
        <5>3. CASE m # 1
          <6>1. m - 1 \in 1 .. Len(queue) - 1 /\ (m - 1) + 1 = m
            BY <1>3, <2>2, <5>1, <5>3
          <6>2. queue'[m - 1] = p /\ m - 1 \in 1 .. Len(queue')
            BY <1>3, <2>2, <5>1, <6>1
          <6> QED BY <6>2 DEF Known, Queued
        <5> QED BY <5>2, <5>3
      <4>2. CASE Awaited(p)
        <5>1. PICK c \in Bees :
                /\ state[c] = "COLLECTING"
                /\ \/ position[c] = p
                   \/ /\ pc[c] \in {"neighbours", "report_lock", "push", "field_relock"}
                      /\ \E d \in n[c] .. 3 : Neighbour(position[c], d) = p
          BY <4>2 DEF Awaited
        <5>2. c # b
          BY <1>1, <5>1
        <5>3. /\ state'[c] = state[c] /\ position'[c] = position[c]
              /\ pc'[c] = pc[c] /\ n'[c] = n[c]
          BY <1>1, <2>2, <5>2 DEF TypeOK
        <5> QED BY <5>1, <5>3 DEF Known, Awaited
      <4> QED BY <3>1, <4>1, <4>2 DEF Known
    <3> QED BY <1>1, <3>1, FrontierStep
  <2> QED BY <1>2, <2>1, <2>2
<1> QED BY <1>4, <1>5, <1>6, <1>7, <1>8

\* The flower collected was known as the bee's position; its neighbours are now
\* on the bee's list, all four of them.
LEMMA CollectInv ==
  ASSUME IInv, NEW b \in Bees, Collect(b)
  PROVE  IInv'
<1> USE DEF IInv, Collect, Goto, muts, locals, barriers, mains
<1>1. position[b] \in Positions /\ state[b] = "COLLECTING" /\ n[b] = 0
  BY DEF Load, Reporting
<1>2. /\ harvested' = harvested \cup {position[b]}
      /\ pc' = [pc EXCEPT ![b] = "neighbours"]
      /\ UNCHANGED <<queue, state, position, n>>
  OBVIOUS
<1>3. TypeOK'
  BY <1>1 DEF TypeOK, BearBarrier!TypeOK, CycleBarrier!TypeOK
<1>4. AtBarriers' /\ SamePart' /\ Joined'
  BY DEF AtBarriers, SamePart, AfterWork, Joined, TypeOK
<1>5. Flags'
  <2>1. all_harvested' => harvested' = Positions
    BY <1>1 DEF Flags
  <2> QED BY <2>1 DEF Flags, Working, TypeOK
<1>6. Load'
  BY <1>1 DEF Load, Reporting, TypeOK
<1>7. Frontier'
  <2>1. ASSUME NEW p \in Positions \ harvested', Known(p)
        PROVE  Known(p)'
    <3>1. CASE Queued(p)
      BY <1>2, <3>1 DEF Known, Queued
    <3>2. CASE Awaited(p)
      <4>1. PICK c \in Bees :
              /\ state[c] = "COLLECTING"
              /\ \/ position[c] = p
                 \/ /\ pc[c] \in {"neighbours", "report_lock", "push", "field_relock"}
                    /\ \E d \in n[c] .. 3 : Neighbour(position[c], d) = p
        BY <3>2 DEF Awaited
      <4>2. pc[c] \in {"neighbours", "report_lock", "push", "field_relock"} =>
              pc'[c] \in {"neighbours", "report_lock", "push", "field_relock"}
        BY <1>2 DEF TypeOK
      <4> QED BY <1>2, <4>1, <4>2 DEF Known, Awaited
    <3> QED BY <2>1, <3>1, <3>2 DEF Known
  <2>2. ASSUME NEW p \in Positions \ harvested', NEW q \in harvested', Adjacent(q, p)
        PROVE  Known(p)'
    <3>1. CASE q \in harvested
      <4>1. p \in Positions \ harvested
        BY <1>2
      <4>2. Known(p)
        BY <2>2, <3>1, <4>1 DEF Frontier
      <4> QED BY <2>1, <4>2
    <3>2. CASE q \notin harvested
      <4>1. q = position[b]
        BY <1>2, <3>2
      <4>2. PICK d \in 0 .. 3 : Neighbour(position[b], d) = p
        BY <2>2, <4>1 DEF Adjacent
      <4>3. /\ state'[b] = "COLLECTING" /\ pc'[b] = "neighbours"
            /\ d \in n'[b] .. 3 /\ Neighbour(position'[b], d) = p
        BY <1>1, <1>2, <4>2 DEF TypeOK
      <4> QED BY <4>3 DEF Known, Awaited
    <3> QED BY <3>1, <3>2
  <2>3. harvested' # {}
    BY <1>2
  <2> QED BY <2>2, <2>3 DEF Frontier
<1> QED BY <1>3, <1>4, <1>5, <1>6, <1>7

\* A bee goes back to the hive when its position is collected and its list is
\* empty.
LEMMA LeaveInv ==
  ASSUME IInv, NEW b \in Bees, NEW from \in {"collect", "neighbours"},
         Leave(b, from), position[b] \in harvested, from = "neighbours" => n[b] = 4
  PROVE  IInv'
<1> USE DEF IInv
<1>1. /\ pc[b] = from /\ pc' = [pc EXCEPT ![b] = "bear"]
      /\ field_mut' = None
      /\ state' = [state EXCEPT ![b] = "WORKING"]
      /\ position' = [position EXCEPT ![b] = Nowhere]
      /\ n' = [n EXCEPT ![b] = 0]
      /\ UNCHANGED <<harvested, all_harvested, hive_destroyed, queue, queue_mut,
                     bear, bear_ret, cycle, cycle_ret, main, j>>
  BY DEF Leave, Goto, field, barriers, mains
<1>2. TypeOK'
  BY <1>1 DEF TypeOK, BearBarrier!TypeOK, CycleBarrier!TypeOK
<1>3. AtBarriers' /\ SamePart' /\ Joined'
  BY <1>1 DEF AtBarriers, SamePart, AfterWork, Joined, TypeOK
<1>4. Flags'
  BY <1>1 DEF Flags, Working, TypeOK
<1>5. Load'
  BY <1>1 DEF Load, Reporting, TypeOK
<1>6. Frontier'
  <2>1. ASSUME NEW p \in Positions \ harvested, Known(p)
        PROVE  Known(p)'
    <3>1. CASE Queued(p)
      BY <1>1, <3>1 DEF Known, Queued
    <3>2. CASE Awaited(p)
      <4>1. PICK c \in Bees :
              /\ state[c] = "COLLECTING"
              /\ \/ position[c] = p
                 \/ /\ pc[c] \in {"neighbours", "report_lock", "push", "field_relock"}
                    /\ \E d \in n[c] .. 3 : Neighbour(position[c], d) = p
        BY <3>2 DEF Awaited
      <4>2. c # b
        <5>1. position[b] # p
          OBVIOUS
        <5>2. from = "neighbours" => \A d \in n[b] .. 3 : FALSE
          OBVIOUS
        <5> QED BY <1>1, <4>1, <5>1, <5>2
      <4>3. /\ state'[c] = state[c] /\ position'[c] = position[c]
            /\ pc'[c] = pc[c] /\ n'[c] = n[c]
        BY <1>1, <4>2 DEF TypeOK
      <4> QED BY <4>1, <4>3 DEF Known, Awaited
    <3> QED BY <2>1, <3>1, <3>2 DEF Known
  <2> QED BY <1>1, <2>1, FrontierStep
<1> QED BY <1>2, <1>3, <1>4, <1>5, <1>6

LEMMA NothingThereInv ==
  ASSUME IInv, NEW b \in Bees, NothingThere(b)
  PROVE  IInv'
<1>1. position[b] \in Positions
  BY DEF IInv, Load, NothingThere
<1>2. position[b] \in harvested
  BY <1>1 DEF NothingThere, IsHarvested
<1> QED BY <1>2, LeaveInv DEF NothingThere

LEMMA AllReportedInv ==
  ASSUME IInv, NEW b \in Bees, AllReported(b)
  PROVE  IInv'
<1>1. position[b] \in harvested
  BY DEF IInv, Load, Reporting, AllReported
<1> QED BY <1>1, LeaveInv DEF AllReported

\* What is skipped is outside of the field or collected.
LEMMA SkipInv ==
  ASSUME IInv, NEW b \in Bees, Skip(b)
  PROVE  IInv'
<1> USE DEF IInv
<1>1. /\ pc[b] = "neighbours" /\ n[b] < 4 /\ IsHarvested(Neighbour(position[b], n[b]))
      /\ n' = [n EXCEPT ![b] = n[b] + 1]
      /\ UNCHANGED <<harvested, all_harvested, hive_destroyed, queue, field_mut,
                     queue_mut, pc, state, position, bear, bear_ret, cycle,
                     cycle_ret, main, j>>
  BY DEF Skip, field, muts, barriers, mains
<1>2. n[b] \in 0 .. 4 /\ n'[b] = n[b] + 1 /\ \A c \in Bees : c # b => n'[c] = n[c]
  BY <1>1 DEF TypeOK
<1>3. TypeOK'
  BY <1>1, <1>2 DEF TypeOK, BearBarrier!TypeOK, CycleBarrier!TypeOK
<1>4. AtBarriers' /\ SamePart' /\ Joined' /\ Flags'
  BY <1>1 DEF AtBarriers, SamePart, AfterWork, Joined, Flags, Working
<1>5. Load'
  BY <1>1, <1>2 DEF Load, Reporting
<1>6. Frontier'
  <2>1. ASSUME NEW p \in Positions \ harvested, Known(p)
        PROVE  Known(p)'
    <3>1. CASE Queued(p)
      BY <1>1, <3>1 DEF Known, Queued
    <3>2. CASE Awaited(p)
      <4>1. PICK c \in Bees :
              /\ state[c] = "COLLECTING"
              /\ \/ position[c] = p
                 \/ /\ pc[c] \in {"neighbours", "report_lock", "push", "field_relock"}
                    /\ \E d \in n[c] .. 3 : Neighbour(position[c], d) = p
        BY <3>2 DEF Awaited
      <4>2. ASSUME NEW d \in n[c] .. 3, Neighbour(position[c], d) = p
            PROVE  d \in n'[c] .. 3
        <5>1. CASE c = b
          <6>1. d # n[b]
            BY <1>1, <2>1, <4>2, <5>1 DEF IsHarvested
          <6> QED BY <1>2, <4>2, <5>1, <6>1
        <5>2. CASE c # b
          BY <1>2, <5>2
        <5> QED BY <5>1, <5>2
      <4> QED BY <1>1, <4>1, <4>2 DEF Known, Awaited
    <3> QED BY <2>1, <3>1, <3>2 DEF Known
  <2> QED BY <1>1, <2>1, FrontierStep
<1> QED BY <1>3, <1>4, <1>5, <1>6

\* What is crossed off the list is in the queue, though the field was given
\* away in between.
LEMMA PushInv ==
  ASSUME IInv, NEW b \in Bees, Push(b)
  PROVE  IInv'
<1> USE DEF IInv
<1> DEFINE v == Neighbour(position[b], n[b])
<1>1. /\ pc[b] = "push" /\ pc' = [pc EXCEPT ![b] = "field_relock"]
      /\ queue' = Append(queue, v) /\ queue_mut' = None
      /\ n' = [n EXCEPT ![b] = n[b] + 1]
      /\ UNCHANGED <<harvested, all_harvested, hive_destroyed, field_mut, state,
                     position, bear, bear_ret, cycle, cycle_ret, main, j>>
  BY DEF Push, Goto, field, barriers, mains
<1>2. n[b] < 4 /\ v \in Positions
  BY <1>1 DEF Load
<1>3. n[b] \in 0 .. 4 /\ n'[b] = n[b] + 1 /\ \A c \in Bees : c # b => n'[c] = n[c]
  BY <1>1 DEF TypeOK
<1> HIDE DEF v
<1>4. /\ queue' \in Seq(Positions) /\ Len(queue) \in Nat
      /\ Len(queue') = Len(queue) + 1 /\ queue'[Len(queue) + 1] = v
      /\ \A m \in 1 .. Len(queue) : queue'[m] = queue[m]
  BY <1>1, <1>2, QueueStep DEF TypeOK
<1>5. TypeOK'
  <2>1. n' \in [Bees -> 0 .. 4]
    BY <1>1, <1>2, <1>3 DEF TypeOK
  <2>2. pc' = [pc EXCEPT ![b] = "field_relock"] /\ "field_relock" \in LockPoints
    BY <1>1 DEF LockPoints
  <2> QED
    BY <1>1, <1>4, <2>1, <2>2 DEF TypeOK, BearBarrier!TypeOK, CycleBarrier!TypeOK
<1>6. AtBarriers' /\ SamePart' /\ Joined'
  BY <1>1 DEF AtBarriers, SamePart, AfterWork, Joined, TypeOK
<1>7. Flags'
  BY <1>1 DEF Flags, Working, TypeOK
<1>8. Load'
  BY <1>1, <1>3 DEF Load, Reporting, TypeOK
<1>9. Frontier'
  <2>1. ASSUME NEW p \in Positions \ harvested, Known(p)
        PROVE  Known(p)'
    <3>1. CASE p = v
      <4>1. Len(queue) + 1 \in 1 .. Len(queue') /\ queue'[Len(queue) + 1] = p
        BY <1>4, <3>1
      <4> QED BY <4>1 DEF Known, Queued
    <3>2. CASE Queued(p)
      <4>1. PICK m \in 1 .. Len(queue) : queue[m] = p
        BY <3>2 DEF Queued
      <4>2. m \in 1 .. Len(queue') /\ queue'[m] = p
        BY <1>4, <4>1
      <4> QED BY <4>2 DEF Known, Queued
    <3>3. CASE Awaited(p) /\ p # v
      <4>1. PICK c \in Bees :
              /\ state[c] = "COLLECTING"
              /\ \/ position[c] = p
                 \/ /\ pc[c] \in {"neighbours", "report_lock", "push", "field_relock"}
                    /\ \E d \in n[c] .. 3 : Neighbour(position[c], d) = p
        BY <3>3 DEF Awaited
      <4>2. ASSUME NEW d \in n[c] .. 3, Neighbour(position[c], d) = p
            PROVE  d \in n'[c] .. 3
        <5>1. CASE c = b
          <6>1. d # n[b]
            BY <3>3, <4>2, <5>1 DEF v
          <6> QED BY <1>3, <4>2, <5>1, <6>1
        <5>2. CASE c # b
          BY <1>3, <5>2
        <5> QED BY <5>1, <5>2
      <4>3. pc[c] \in {"neighbours", "report_lock", "push", "field_relock"} =>
              pc'[c] \in {"neighbours", "report_lock", "push", "field_relock"}
        BY <1>1 DEF TypeOK
      <4> QED BY <1>1, <4>1, <4>2, <4>3 DEF Known, Awaited
    <3> QED BY <2>1, <3>1, <3>2, <3>3 DEF Known
  <2> QED BY <1>1, <2>1, FrontierStep
<1> QED BY <1>5, <1>6, <1>7, <1>8, <1>9

---------------------------------------------------------------------------
\* Barriers and main.

\* All the bees wait at the same barrier when it opens, so they all change to
\* the other part of the cycle.
LEMMA TripInv ==
  ASSUME IInv, Trip
  PROVE  IInv'
<1> USE DEF IInv
<1>1. UNCHANGED <<harvested, all_harvested, hive_destroyed, queue, field_mut,
                  queue_mut, pc, state, position, n, main, j>>
  BY DEF Trip, field, muts, locals, mains
<1>2. Load' /\ Joined'
  BY <1>1 DEF Load, Reporting, Joined
<1>3. Frontier'
  <2>1. \A b \in Bees : Reporting(b) => Reporting(b)'
    BY <1>1 DEF Reporting
  <2> QED BY <1>1, <2>1, QuietStep
<1>4. CASE BearBarrier!AnyTrip /\ UNCHANGED <<cycle, cycle_ret>>
  <2>1. PICK s \in Bees :
          /\ \A t \in Bees : bear[t] = "arrived"
          /\ bear' = [t \in Bees |-> IF t = s THEN "serial" ELSE "released"]
          /\ bear_ret' = bear_ret
    BY <1>4 DEF BearBarrier!AnyTrip, BearBarrier!Trip
  <2>2. \A t \in Bees : pc[t] = "bear_wait" /\ bear'[t] \in {"serial", "released"}
    BY <2>1 DEF AtBarriers
  <2>3. TypeOK'
    BY <1>1, <1>4, <2>1
       DEF TypeOK, BearBarrier!TypeOK, CycleBarrier!TypeOK, BearBarrier!Phases
  <2>4. AtBarriers' /\ SamePart'
    BY <1>1, <1>4, <2>2 DEF AtBarriers, SamePart, AfterWork
  <2>5. Flags'
    BY <1>1, <2>2 DEF Flags, Working
  <2> QED BY <1>2, <1>3, <2>3, <2>4, <2>5
<1>5. CASE CycleBarrier!AnyTrip /\ UNCHANGED <<bear, bear_ret>>
  <2>1. PICK s \in Bees :
          /\ \A t \in Bees : cycle[t] = "arrived"
          /\ cycle' = [t \in Bees |-> IF t = s THEN "serial" ELSE "released"]
          /\ cycle_ret' = cycle_ret
    BY <1>5 DEF CycleBarrier!AnyTrip, CycleBarrier!Trip
  <2>2. \A t \in Bees : pc[t] = "cycle_wait" /\ cycle'[t] \in {"serial", "released"}
    BY <2>1 DEF AtBarriers
  <2>3. TypeOK'
    BY <1>1, <1>5, <2>1
       DEF TypeOK, BearBarrier!TypeOK, CycleBarrier!TypeOK, CycleBarrier!Phases
  <2>4. AtBarriers' /\ SamePart'
    BY <1>1, <1>5, <2>2 DEF AtBarriers, SamePart, AfterWork
  <2>5. Flags'
    BY <1>1, <2>2 DEF Flags, Working
  <2> QED BY <1>2, <1>3, <2>3, <2>4, <2>5
<1> QED BY <1>4, <1>5 DEF Trip

LEMMA CreateInv ==
  ASSUME IInv, Create
  PROVE  IInv'
<1> USE DEF IInv, Goto, field, muts, locals, barriers
<1>1. /\ j \in Bees /\ j' \in Bees /\ main = "create"
      /\ main' \in {"create", "join"} /\ (main' = "join" => j' = 0)
  BY BeehiveAssumption DEF Create, TypeOK, Bees
<1>2. /\ pc[j] = "none" /\ pc' = [pc EXCEPT ![j] = "top_lock"]
      /\ UNCHANGED <<harvested, all_harvested, hive_destroyed, queue, field_mut,
                     queue_mut, state, position, n, bear, bear_ret, cycle,
                     cycle_ret>>
  BY DEF Create
<1>3. TypeOK'
  <2>1. "top_lock" \in LockPoints
    BY DEF LockPoints
  <2> QED
    BY <1>1, <1>2, <2>1 DEF TypeOK, BearBarrier!TypeOK, CycleBarrier!TypeOK
<1>4. AtBarriers' /\ SamePart'
  BY <1>1, <1>2 DEF AtBarriers, SamePart, AfterWork, TypeOK
<1>5. Flags' /\ Load'
  BY <1>1, <1>2 DEF Flags, Working, Load, Reporting, TypeOK
<1>6. Frontier'
  <2>1. \A b \in Bees : Reporting(b) => Reporting(b)'
    BY <1>1, <1>2 DEF Reporting, TypeOK
  <2> QED BY <1>2, <2>1, QuietStep
<1>7. Joined'
  BY <1>1 DEF Joined, Bees
<1> QED BY <1>3, <1>4, <1>5, <1>6, <1>7

LEMMA JoinInv ==
  ASSUME IInv, Join
  PROVE  IInv'
<1> USE DEF IInv, field, muts, locals, barriers
<1>1. j \in Bees /\ j \in Nat /\ j < BeeCount /\ main = "join" /\ pc[j] = "exited"
  BY BeehiveAssumption DEF Join, TypeOK, Bees
<1>2. \/ j = BeeCount - 1 /\ j' = 0 /\ main' = "done"
      \/ j' = j + 1 /\ j' < BeeCount /\ main' = "join"
  BY <1>1, BeehiveAssumption DEF Join
<1>3. UNCHANGED <<harvested, all_harvested, hive_destroyed, queue, field_mut,
                  queue_mut, pc, state, position, n, bear, bear_ret, cycle,
                  cycle_ret>>
  BY DEF Join
<1>4. TypeOK'
  <2>1. j' \in Bees /\ main' \in {"create", "join", "done"}
    BY <1>1, <1>2, BeehiveAssumption DEF Bees
  <2> QED BY <1>3, <2>1 DEF TypeOK, BearBarrier!TypeOK, CycleBarrier!TypeOK
<1>5. AtBarriers' /\ SamePart' /\ Flags' /\ Load'
  BY <1>3 DEF AtBarriers, SamePart, AfterWork, Flags, Working, Load, Reporting
<1>6. Frontier'
  <2>1. \A b \in Bees : Reporting(b) => Reporting(b)'
    BY <1>3 DEF Reporting
  <2> QED BY <1>3, <2>1, QuietStep
<1>7. Joined'
  <2>1. CASE j = BeeCount - 1 /\ main' = "done"
    <3>1. \A b \in Bees : b = j \/ b < j
      BY <2>1, BeehiveAssumption DEF Bees
    <3> QED BY <1>1, <1>3, <2>1, <3>1 DEF Joined
  <2>2. CASE j' = j + 1 /\ main' = "join"
    <3>1. \A b \in Bees : b < j' => b = j \/ b < j
      BY <1>1, <2>2 DEF Bees
    <3> QED BY <1>1, <1>3, <2>2, <3>1 DEF Joined
  <2> QED BY <1>2, <2>1, <2>2
<1> QED BY <1>4, <1>5, <1>6, <1>7

LEMMA StutterInv ==
  ASSUME IInv, UNCHANGED vars
  PROVE  IInv'
<1> USE DEF IInv, vars, field, muts, locals, barriers, mains
<1>1. TypeOK' /\ AtBarriers' /\ SamePart'
  BY DEF TypeOK, BearBarrier!TypeOK, CycleBarrier!TypeOK, AtBarriers, SamePart,
         AfterWork
<1>2. Flags' /\ Load' /\ Joined'
  BY DEF Flags, Working, Load, Reporting, Joined
<1>3. Frontier'
  <2>1. \A b \in Bees : Reporting(b) => Reporting(b)'
    BY DEF Reporting
  <2> QED BY <2>1, QuietStep
<1> QED BY <1>1, <1>2, <1>3

LEMMA NextInv == IInv /\ [Next]_vars => IInv'
<1> SUFFICES ASSUME IInv, [Next]_vars PROVE IInv'
  OBVIOUS
<1>1. ASSUME NEW b \in Bees, bee_work(b)
      PROVE  IInv'
  BY <1>1, LockAtTopInv, TopInv, LockToPopInv, PopInv, LockToCollectInv,
     CollectInv, NothingThereInv, ReportInv, SkipInv, LockToReportInv, PushInv,
     LockAgainInv, AllReportedInv, EnterBearInv, LeaveBearInv, LockToCountInv,
     CountInv, FightInv, LockToDestroyInv, DestroyInv, EnterCycleInv,
     LeaveCycleInv DEF bee_work
<1>2. CASE Trip \/ Create \/ Join
  BY <1>2, TripInv, CreateInv, JoinInv
<1>3. CASE Terminated \/ UNCHANGED vars
  BY <1>3, StutterInv DEF Terminated
<1> QED BY <1>1, <1>2, <1>3 DEF Next

---------------------------------------------------------------------------
\* The invariant holds for every field and every number of bees.
THEOREM Invariance == Spec => []IInv
<1>1. Init => IInv
  BY InitInv
<1>2. IInv /\ [Next]_vars => IInv'
  BY NextInv
<1> QED BY <1>1, <1>2, PTL DEF Spec

\* Every flower next to a collected one is in the queue, or a bee flies to it,
\* or a bee has yet to report it: bee_work may give field_mut away between two
\* neighbours without losing one.
THEOREM NothingForgotten == Spec => []NoFlowerForgotten
<1>1. IInv => NoFlowerForgotten
  BY DEF IInv, Frontier, Known, NoFlowerForgotten
<1> QED BY <1>1, Invariance, PTL

\* No bee is left at a barrier by bees that have seen a flag.
THEOREM AllLeaveTogether == Spec => []LeaveTogether
<1>1. IInv => LeaveTogether
  <2> SUFFICES ASSUME IInv, NEW b \in Bees, pc[b] = "exited"
               PROVE  /\ all_harvested \/ hive_destroyed
                      /\ \A c \in Bees :
                           \/ pc[c] \in {"top_lock", "top", "exited"}
                           \/ /\ pc[c] = "cycle_wait"
                              /\ cycle[c] \in {"released", "serial"}
    BY DEF LeaveTogether
  <2>1. all_harvested \/ hive_destroyed
    BY DEF IInv, Flags
  <2>2. ASSUME NEW c \in Bees
        PROVE  \/ pc[c] \in {"top_lock", "top", "exited"}
               \/ pc[c] = "cycle_wait" /\ cycle[c] \in {"released", "serial"}
    <3>1. ~AfterWork(c) /\ ~Working(c) /\ pc[c] # "none"
      BY <2>1 DEF IInv, SamePart, AfterWork, Flags
    <3>2. pc[c] = "cycle_wait" => cycle[c] # "out"
      BY DEF IInv, AtBarriers
    <3>3. /\ cycle[c] \in {"out", "arrived", "released", "serial"}
          /\ pc[c] \in LockPoints \cup
               {"none", "top", "pop", "collect", "neighbours", "push", "bear",
                "bear_wait", "count", "fight", "destroy", "cycle",
                "cycle_wait", "exited"}
      BY DEF IInv, TypeOK, CycleBarrier!TypeOK, CycleBarrier!Phases
    <3> QED BY <3>1, <3>2, <3>3 DEF AfterWork, Working, LockPoints
  <2> QED BY <2>1, <2>2
<1> QED BY <1>1, Invariance, PTL

\* When the program ends the field is finished or the hive destroyed.
THEOREM FieldIsFinished == Spec => []FieldFinishedUnlessDestroyed
<1>1. IInv => FieldFinishedUnlessDestroyed
  <2> SUFFICES ASSUME IInv, main = "done"
               PROVE  harvested = Positions \/ hive_destroyed
    BY DEF FieldFinishedUnlessDestroyed
  <2>1. 0 \in Bees
    BY BeehiveAssumption DEF Bees
  <2>2. all_harvested \/ hive_destroyed
    BY <2>1 DEF IInv, Joined, Flags
  <2> QED BY <2>2 DEF IInv, Flags
<1> QED BY <1>1, Invariance, PTL

=============================================================================
