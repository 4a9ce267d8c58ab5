------------------------------ MODULE Beehive ------------------------------
(***************************************************************************)
(* The beehive of exercise12: bees take positions from a shared queue,     *)
(* collect the flower there and report its neighbours, in cycles that two  *)
(* barriers separate. Between the barriers the serial bee of the first     *)
(* finds out whether the field is finished, and a bear may destroy the     *)
(* hive. field_mut protects the field and the two flags, queue_mut the     *)
(* queue; a bee that reports a neighbour lets go of the one before it      *)
(* takes the other.                                                        *)
(***************************************************************************)
EXTENDS Integers, Sequences, FiniteSets

CONSTANTS
  Width, Height,    \* the field
  BeeCount,
  None              \* the owner of a free mutex

Bees == 0 .. BeeCount - 1

ASSUME BeehiveAssumption ==
  /\ Width \in Nat /\ Width > 0
  /\ Height \in Nat /\ Height > 0
  /\ BeeCount \in Nat /\ BeeCount > 0
  /\ None \notin Bees

Positions == (0 .. Width - 1) \X (0 .. Height - 1)

VARIABLES
  harvested,        \* field_t: the positions whose flower is collected
  queue,
  all_harvested, hive_destroyed,
  field_mut, queue_mut,
  pc,               \* where each bee is
  state, position,  \* its locals
  n,                \* its index into the four neighbours
  bear, bear_ret,   \* barrier_bear
  cycle, cycle_ret, \* barrier_new_cycle
  main, j           \* the main thread and its loop index

field == <<harvested, all_harvested, hive_destroyed>>
muts == <<field_mut, queue_mut>>
locals == <<state, position, n>>
barriers == <<bear, bear_ret, cycle, cycle_ret>>
mains == <<main, j>>

vars == <<field, queue, muts, pc, locals, barriers, mains>>

BearBarrier == INSTANCE ThreadBarrier
  WITH Threads <- Bees, phase <- bear, ret <- bear_ret

CycleBarrier == INSTANCE ThreadBarrier
  WITH Threads <- Bees, phase <- cycle, ret <- cycle_ret

SERIAL == BearBarrier!SERIAL

\* A local position without a value yet.
Nowhere == <<-1, -1>>

Neighbour(p, d) ==
  CASE d = 0 -> <<p[1] + 1, p[2]>>
    [] d = 1 -> <<p[1] - 1, p[2]>>
    [] d = 2 -> <<p[1], p[2] + 1>>
    [] d = 3 -> <<p[1], p[2] - 1>>

\* field_is_harvested: what lies outside the field counts as harvested.
IsHarvested(p) == p \notin Positions \/ p \in harvested

\* field_random_pos gives the queue its first entry.
Init ==
  /\ harvested = {}
  /\ \E p \in Positions : queue = <<p>>
  /\ all_harvested = FALSE
  /\ hive_destroyed = FALSE
  /\ field_mut = None
  /\ queue_mut = None
  /\ pc = [b \in Bees |-> "none"]
  /\ state = [b \in Bees |-> "WORKING"]
  /\ position = [b \in Bees |-> Nowhere]
  /\ n = [b \in Bees |-> 0]
  /\ BearBarrier!Init
  /\ CycleBarrier!Init
  /\ main = "create"
  /\ j = 0

Goto(b, from, to) ==
  /\ pc[b] = from
  /\ pc' = [pc EXCEPT ![b] = to]

LockField(b, from, to) ==
  /\ Goto(b, from, to)
  /\ field_mut = None
  /\ field_mut' = b
  /\ UNCHANGED <<field, queue, queue_mut, locals, barriers, mains>>

LockQueue(b, from, to) ==
  /\ Goto(b, from, to)
  /\ queue_mut = None
  /\ queue_mut' = b
  /\ UNCHANGED <<field, queue, field_mut, locals, barriers, mains>>

---------------------------------------------------------------------------
\* bee_work, the head of the loop

LockAtTop(b) == LockField(b, "top_lock", "top")

Top(b) ==
  /\ Goto(b, "top", IF all_harvested \/ hive_destroyed THEN "exited"
                    ELSE IF state[b] = "WORKING" THEN "queue_lock"
                    ELSE "field_lock")
  /\ field_mut' = None
  /\ UNCHANGED <<field, queue, queue_mut, locals, barriers, mains>>

---------------------------------------------------------------------------
\* WORKING: fetch a position from the queue, if there is one

LockToPop(b) == LockQueue(b, "queue_lock", "pop")

Pop(b) ==
  /\ Goto(b, "pop", "bear")
  /\ IF queue # <<>>
     THEN /\ position' = [position EXCEPT ![b] = Head(queue)]
          /\ state' = [state EXCEPT ![b] = "COLLECTING"]
          /\ queue' = Tail(queue)
     ELSE UNCHANGED <<position, state, queue>>
  /\ queue_mut' = None
  /\ UNCHANGED <<field, field_mut, n, barriers, mains>>

---------------------------------------------------------------------------
\* COLLECTING: harvest the position and report its neighbours

LockToCollect(b) == LockField(b, "field_lock", "collect")

\* Give the field back and return to the hive; the loop index ends here.
Leave(b, from) ==
  /\ Goto(b, from, "bear")
  /\ field_mut' = None
  /\ state' = [state EXCEPT ![b] = "WORKING"]
  /\ position' = [position EXCEPT ![b] = Nowhere]
  /\ n' = [n EXCEPT ![b] = 0]
  /\ UNCHANGED <<field, queue, queue_mut, barriers, mains>>

Collect(b) ==
  /\ ~IsHarvested(position[b])
  /\ harvested' = harvested \cup {position[b]}
  /\ Goto(b, "collect", "neighbours")
  /\ UNCHANGED <<queue, all_harvested, hive_destroyed, muts, locals, barriers,
                 mains>>

NothingThere(b) ==
  /\ pc[b] = "collect"
  /\ IsHarvested(position[b])
  /\ Leave(b, "collect")

\* Mutant: the bee keeps the field while it takes the queue.
ReportHoldingField(b) ==
  /\ n[b] < 4
  /\ ~IsHarvested(Neighbour(position[b], n[b]))
  /\ Goto(b, "neighbours", "report_lock")
  /\ UNCHANGED <<field, queue, muts, locals, barriers, mains>>

\* A neighbour with nectar: give the field back before taking the queue.
Report(b) ==
  /\ n[b] < 4
  /\ ~IsHarvested(Neighbour(position[b], n[b]))
  /\ Goto(b, "neighbours", "report_lock")
  /\ field_mut' = None
  /\ UNCHANGED <<field, queue, queue_mut, locals, barriers, mains>>

\* Mutant: the last neighbour is left out.
SkipLast(b) ==
  /\ pc[b] = "neighbours"
  /\ n[b] < 4
  /\ n[b] = 3 \/ IsHarvested(Neighbour(position[b], n[b]))
  /\ n' = [n EXCEPT ![b] = @ + 1]
  /\ UNCHANGED <<field, queue, muts, pc, state, position, barriers, mains>>

Skip(b) ==
  /\ pc[b] = "neighbours"
  /\ n[b] < 4
  /\ IsHarvested(Neighbour(position[b], n[b]))
  /\ n' = [n EXCEPT ![b] = @ + 1]
  /\ UNCHANGED <<field, queue, muts, pc, state, position, barriers, mains>>

LockToReport(b) == LockQueue(b, "report_lock", "push")

Push(b) ==
  /\ Goto(b, "push", "field_relock")
  /\ queue' = Append(queue, Neighbour(position[b], n[b]))
  /\ n' = [n EXCEPT ![b] = @ + 1]
  /\ queue_mut' = None
  /\ UNCHANGED <<field, field_mut, state, position, barriers, mains>>

LockAgain(b) == LockField(b, "field_relock", "neighbours")

AllReported(b) ==
  /\ pc[b] = "neighbours"
  /\ n[b] = 4
  /\ Leave(b, "neighbours")

---------------------------------------------------------------------------
\* the two barriers and what the serial bee does between them

EnterBear(b) ==
  /\ Goto(b, "bear", "bear_wait")
  /\ BearBarrier!Arrive(b)
  /\ UNCHANGED <<field, queue, muts, locals, cycle, cycle_ret, mains>>

LeaveBear(b) ==
  /\ BearBarrier!Return(b)
  /\ Goto(b, "bear_wait", IF bear_ret'[b] = SERIAL THEN "count_lock" ELSE "cycle")
  /\ UNCHANGED <<field, queue, muts, locals, cycle, cycle_ret, mains>>

LockToCount(b) == LockField(b, "count_lock", "count")

\* Mutant: the field is taken to be finished once one flower is collected.
CountAny(b) ==
  /\ Goto(b, "count", "fight")
  /\ all_harvested' = (harvested # {})
  /\ field_mut' = None
  /\ UNCHANGED <<harvested, hive_destroyed, queue, queue_mut, locals, barriers,
                 mains>>

Count(b) ==
  /\ Goto(b, "count", "fight")
  /\ all_harvested' = (harvested = Positions)
  /\ field_mut' = None
  /\ UNCHANGED <<harvested, hive_destroyed, queue, queue_mut, locals, barriers,
                 mains>>

\* No bear, or one that is repelled; or one that destroys the hive.
Fight(b) ==
  /\ \/ Goto(b, "fight", "cycle")
     \/ Goto(b, "fight", "destroy_lock")
  /\ UNCHANGED <<field, queue, muts, locals, barriers, mains>>

LockToDestroy(b) == LockField(b, "destroy_lock", "destroy")

Destroy(b) ==
  /\ Goto(b, "destroy", "cycle")
  /\ hive_destroyed' = TRUE
  /\ field_mut' = None
  /\ UNCHANGED <<harvested, all_harvested, queue, queue_mut, locals, barriers,
                 mains>>

\* Mutant: without the second barrier.
EnterCycleAtOnce(b) ==
  /\ Goto(b, "cycle", "top_lock")
  /\ UNCHANGED <<field, queue, muts, locals, barriers, mains>>

EnterCycle(b) ==
  /\ Goto(b, "cycle", "cycle_wait")
  /\ CycleBarrier!Arrive(b)
  /\ UNCHANGED <<field, queue, muts, locals, bear, bear_ret, mains>>

LeaveCycle(b) ==
  /\ CycleBarrier!Return(b)
  /\ Goto(b, "cycle_wait", "top_lock")
  /\ UNCHANGED <<field, queue, muts, locals, bear, bear_ret, mains>>

Trip ==
  /\ \/ BearBarrier!AnyTrip /\ UNCHANGED <<cycle, cycle_ret>>
     \/ CycleBarrier!AnyTrip /\ UNCHANGED <<bear, bear_ret>>
  /\ UNCHANGED <<field, queue, muts, pc, locals, mains>>

---------------------------------------------------------------------------
\* main

Create ==
  /\ main = "create"
  /\ Goto(j, "none", "top_lock")
  /\ j' = (j + 1) % BeeCount
  /\ main' = IF j' = 0 THEN "join" ELSE "create"
  /\ UNCHANGED <<field, queue, muts, locals, barriers>>

Join ==
  /\ main = "join"
  /\ pc[j] = "exited"
  /\ j' = (j + 1) % BeeCount
  /\ main' = IF j' = 0 THEN "done" ELSE "join"
  /\ UNCHANGED <<field, queue, muts, pc, locals, barriers>>

Terminated == main = "done" /\ UNCHANGED vars

---------------------------------------------------------------------------
bee_work(b) ==
  \/ LockAtTop(b) \/ Top(b)
  \/ LockToPop(b) \/ Pop(b)
  \/ LockToCollect(b) \/ Collect(b) \/ NothingThere(b)
  \/ Report(b) \/ Skip(b) \/ LockToReport(b) \/ Push(b) \/ LockAgain(b)
  \/ AllReported(b)
  \/ EnterBear(b) \/ LeaveBear(b)
  \/ LockToCount(b) \/ Count(b) \/ Fight(b) \/ LockToDestroy(b) \/ Destroy(b)
  \/ EnterCycle(b) \/ LeaveCycle(b)

Next ==
  \/ \E b \in Bees : bee_work(b)
  \/ Trip \/ Create \/ Join \/ Terminated

\* Threads run and full barriers open. A bee takes each mutex finitely often
\* in a cycle, so weak fairness is enough for the bees that wait for one.
Fairness ==
  /\ \A b \in Bees : WF_vars(bee_work(b))
  /\ WF_vars(Trip)
  /\ WF_vars(Create \/ Join)

Spec == Init /\ [][Next]_vars /\ Fairness

---------------------------------------------------------------------------
LockPoints == {"top_lock", "queue_lock", "field_lock", "report_lock",
               "field_relock", "count_lock", "destroy_lock"}

\* The types; the queue and the bees know no position outside the field.
TypeOK ==
  /\ harvested \subseteq Positions
  /\ queue \in Seq(Positions)
  /\ all_harvested \in BOOLEAN /\ hive_destroyed \in BOOLEAN
  /\ field_mut \in Bees \cup {None} /\ queue_mut \in Bees \cup {None}
  /\ pc \in [Bees -> LockPoints \cup
               {"none", "top", "pop", "collect", "neighbours", "push", "bear",
                "bear_wait", "count", "fight", "destroy", "cycle",
                "cycle_wait", "exited"}]
  /\ state \in [Bees -> {"WORKING", "COLLECTING"}]
  /\ position \in [Bees -> Positions \cup {Nowhere}]
  /\ n \in [Bees -> 0 .. 4]
  /\ BearBarrier!TypeOK /\ CycleBarrier!TypeOK
  /\ main \in {"create", "join", "done"} /\ j \in Bees

Adjacent(p, q) == \E d \in 0 .. 3 : Neighbour(p, d) = q

Queued(p) == \E m \in 1 .. Len(queue) : queue[m] = p

\* A bee flies to p, or has p among the neighbours it has yet to look at.
Awaited(p) ==
  \E b \in Bees :
    /\ state[b] = "COLLECTING"
    /\ \/ position[b] = p
       \/ /\ pc[b] \in {"neighbours", "report_lock", "push", "field_relock"}
          /\ \E d \in n[b] .. 3 : Neighbour(position[b], d) = p

\* No flower is forgotten: one that is next to a collected one is in the
\* queue or on some bee's list, also while the field is given away between
\* two neighbours and other bees collect around it. Nothing is lost either
\* before the first flower is collected. (And no bee is sent out of the field:
\* the types hold.)
NoFlowerForgotten ==
  /\ TypeOK
  /\ \A p \in Positions \ harvested :
       (\E q \in harvested : Adjacent(q, p)) => Queued(p) \/ Awaited(p)
  /\ harvested = {} => \E p \in Positions : Queued(p) \/ Awaited(p)

\* The bees leave the loop in the same cycle: when one has, the flags say so
\* and the others cannot see anything else, nor wait at a barrier any more.
LeaveTogether ==
  (\E b \in Bees : pc[b] = "exited") =>
    /\ all_harvested \/ hive_destroyed
    /\ \A b \in Bees :
         \/ pc[b] \in {"top_lock", "top", "exited"}
         \/ pc[b] = "cycle_wait" /\ cycle[b] \in {"released", "serial"}

\* The bees stop early for the bear only.
FieldFinishedUnlessDestroyed ==
  main = "done" => harvested = Positions \/ hive_destroyed

\* The program ends: the field is finished, or the hive destroyed, and all the
\* bees are joined.
Termination == <>(main = "done")
=============================================================================
