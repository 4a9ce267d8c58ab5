------------------------- MODULE SmallProgramsProof -------------------------
(***************************************************************************)
(* Proofs about the small programs, for all values of their parameters.    *)
(***************************************************************************)
EXTENDS SmallPrograms, NaturalsInduction, WellFoundedInduction, FiniteSetTheorems,
        SequenceTheorems, TLAPS

---------------------------------------------------------------------------
(* The programs side by side.                                              *)

\* While only program p can be running, a step is one of p's, or none.
LEMMA StepOfOne ==
  ASSUME [Next]_allvars
  PROVE  /\ Checks(1)' => Checks(1) /\ (Sched!Next \/ UNCHANGED sched)
         /\ Checks(2)' => Checks(2) /\ (Signals!Next \/ UNCHANGED signals)
         /\ Checks(3)' => Checks(3) /\ (Forked!Next \/ UNCHANGED forks)
         /\ Checks(4)' => Checks(4) /\ (Adding!Next \/ UNCHANGED adds)
         /\ Checks(5)' => Checks(5) /\ (Spin!Next \/ UNCHANGED spins)
         /\ Checks(6)' => Checks(6) /\ (Life!Next \/ UNCHANGED lives)
         /\ Checks(7)' => Checks(7) /\ (Sort!Next \/ UNCHANGED sorts)
         /\ Checks(8)' => Checks(8) /\ (Bench!Next \/ UNCHANGED benches)
         /\ Checks(9)' => Checks(9) /\ (FreeListTest!Next \/ UNCHANGED free_list_test)
         /\ Checks(10)' => Checks(10) /\ (BestFitTest!TestNext \/ UNCHANGED best_fit_test)
<1>1. CASE UNCHANGED allvars
  BY <1>1 DEF allvars, Checks
<1>2. CASE Next
  BY <1>2 DEF Next, Runs, Checks
<1> QED BY <1>1, <1>2

---------------------------------------------------------------------------
(* The spin mutex. TLC counts five ones, the program pushes ten millions.  *)

\* The zero has left the queue, and sum has seen it or is about to.
ZeroIsOut == at["sum"] = "exited" \/ (at["sum"] = "unlock" /\ buf = 0)
ZeroIsQueued == pushed > Ones /\ ~ZeroIsOut

NotYetStarted == kind = "none" => \A t \in Spin!Threads : at[t] = "none"

\* populate goes on as long as it has not pushed the zero.
ZeroIsLast ==
  at["populate"] \in {"none", "lock", "yield", "critical"} => pushed <= Ones

\* The zero is where it should be, behind all ones and nowhere else.
QueueIsOnes ==
  /\ \A k \in 1 .. Len(fifo) : fifo[k] = 0 <=> ZeroIsQueued /\ k = Len(fifo)
  /\ ZeroIsQueued => Len(fifo) >= 1
  /\ ZeroIsOut => pushed > Ones /\ Len(fifo) = 0

\* The ones that sum has taken from the queue and has not added yet.
Popped == IF at["sum"] = "unlock" THEN buf ELSE 0

OnesAdded ==
  overall + Popped + Len(fifo) - (IF ZeroIsQueued THEN 1 ELSE 0)
    = IF pushed > Ones THEN Ones ELSE pushed

SpinInv ==
  /\ Spin!TypeOK
  /\ Spin!MutualExclusion
  /\ NotYetStarted
  /\ ZeroIsLast
  /\ QueueIsOnes
  /\ OnesAdded

---------------------------------------------------------------------------
LEMMA SpinInvImplies ==
  ASSUME SpinInv
  PROVE  Spin!EveryOneCounts
<1> DEFINE zeros == {k \in DOMAIN fifo : fifo[k] = 0}
<1> USE SpinAssumption DEF SpinInv, Spin!TypeOK
<1>1. fifo \in Seq({0, 1}) /\ DOMAIN fifo = 1 .. Len(fifo) /\ Len(fifo) \in Nat
  OBVIOUS
<1>2. zeros = IF ZeroIsQueued THEN {Len(fifo)} ELSE {}
  <2>1. CASE ZeroIsQueued
    <3>0. Len(fifo) >= 1
      BY <2>1 DEF QueueIsOnes
    <3>1. Len(fifo) \in 1 .. Len(fifo)
      BY <1>1, <3>0
    <3>2. \A k \in 1 .. Len(fifo) : fifo[k] = 0 <=> k = Len(fifo)
      BY <2>1 DEF QueueIsOnes
    <3>3. zeros = {Len(fifo)}
      BY <1>1, <3>1, <3>2
    <3> QED BY <2>1, <3>3
  <2>2. CASE ~ZeroIsQueued
    BY <1>1, <2>2 DEF QueueIsOnes
  <2> QED BY <2>1, <2>2
<1>3. zeros = {} <=> ~ZeroIsQueued
  BY <1>2
<1>4. overall + Popped + (Len(fifo) - IF zeros = {} THEN 0 ELSE 1)
        = IF pushed > Ones THEN Ones ELSE pushed
  <2>1. Popped \in Nat /\ overall \in Nat
    BY DEF Popped
  <2> QED BY <1>1, <1>3, <2>1 DEF OnesAdded
<1>5. at["sum"] = "exited" => overall = Ones /\ fifo = <<>>
  <2> SUFFICES ASSUME at["sum"] = "exited" PROVE overall = Ones /\ fifo = <<>>
    OBVIOUS
  <2>1. ZeroIsOut /\ ~ZeroIsQueued /\ Popped = 0
    BY DEF ZeroIsOut, ZeroIsQueued, Popped
  <2>2. pushed > Ones /\ Len(fifo) = 0
    BY <2>1 DEF QueueIsOnes
  <2>3. fifo = <<>>
    BY <1>1, <2>2
  <2> QED BY <1>1, <2>1, <2>2, <2>3 DEF OnesAdded
<1> QED BY <1>2, <1>4, <1>5 DEF Spin!EveryOneCounts, Popped

LEMMA SpinInit == Spin!Init => SpinInv
<1> SUFFICES ASSUME Spin!Init PROVE SpinInv
  OBVIOUS
<1> USE SpinAssumption DEF Spin!Init
<1>1. Spin!TypeOK
  <2>1. pushed \in 0 .. Ones + 1 /\ overall \in Nat /\ buf \in {0, 1}
    OBVIOUS
  <2>2. fifo \in Seq({0, 1})
    OBVIOUS
  <2> QED BY <2>1, <2>2 DEF Spin!TypeOK
<1> USE SpinAssumption DEF Spin!Threads
<1>2. Spin!MutualExclusion /\ NotYetStarted
  BY DEF Spin!MutualExclusion, NotYetStarted, Spin!Inside
<1>3. ~ZeroIsOut /\ ~ZeroIsQueued /\ Popped = 0 /\ Len(fifo) = 0
  BY DEF ZeroIsOut, ZeroIsQueued, Popped
<1>4. ZeroIsLast /\ QueueIsOnes /\ OnesAdded
  BY <1>3 DEF ZeroIsLast, QueueIsOnes, OnesAdded
<1> QED BY <1>1, <1>2, <1>4 DEF SpinInv

---------------------------------------------------------------------------
\* Where the threads are outside "unlock" and "exited" makes no difference to
\* the counting: the steps around the mutex leave it alone.
LEMMA CountingKept ==
  ASSUME UNCHANGED <<fifo, pushed, buf, overall>>,
         at["sum"] \notin {"unlock", "exited"}, at'["sum"] \notin {"unlock", "exited"},
         QueueIsOnes, OnesAdded
  PROVE  QueueIsOnes' /\ OnesAdded'
<1>1. ~ZeroIsOut /\ ~ZeroIsOut' /\ Popped = 0 /\ Popped' = 0
  BY DEF ZeroIsOut, Popped
<1>2. ZeroIsQueued' <=> ZeroIsQueued
  BY <1>1 DEF ZeroIsQueued
<1> QED BY <1>1, <1>2 DEF QueueIsOnes, OnesAdded

LEMMA CountingKeptByPopulate ==
  ASSUME UNCHANGED <<fifo, pushed, buf, overall>>, at'["sum"] = at["sum"],
         QueueIsOnes, OnesAdded
  PROVE  QueueIsOnes' /\ OnesAdded'
<1>1. (ZeroIsOut' <=> ZeroIsOut) /\ Popped' = Popped
  BY DEF ZeroIsOut, Popped
<1>2. ZeroIsQueued' <=> ZeroIsQueued
  BY <1>1 DEF ZeroIsQueued
<1> QED BY <1>1, <1>2 DEF QueueIsOnes, OnesAdded

LEMMA SpinStart == ASSUME SpinInv, Spin!Start PROVE SpinInv'
<1> USE SpinAssumption DEF SpinInv, Spin!Start
<1>1. Spin!TypeOK'
  BY DEF Spin!TypeOK
<1>2. at["populate"] = "none" /\ at["sum"] = "none"
  BY DEF NotYetStarted, Spin!Threads
<1>3. at'["populate"] = "lock" /\ at'["sum"] = "lock"
  BY DEF Spin!Threads
<1>4. Spin!MutualExclusion' /\ NotYetStarted'
  BY <1>2, <1>3 DEF Spin!MutualExclusion, NotYetStarted, Spin!Inside, Spin!Threads
<1>5. ZeroIsLast'
  BY <1>2, <1>3 DEF ZeroIsLast
<1>6. QueueIsOnes' /\ OnesAdded'
  BY <1>2, <1>3, CountingKept
<1> QED BY <1>1, <1>4, <1>5, <1>6

\* The mutex: only its flag and where the thread is change, and no thread gets
\* in while another is.
LEMMA SpinLock ==
  ASSUME SpinInv, NEW t \in Spin!Threads, Spin!lock(t)
  PROVE  SpinInv'
<1> USE SpinAssumption DEF SpinInv, Spin!TestAndSet, Spin!Fail, Spin!Yield, Spin!Goto
<1>0. /\ at[t] \in {"lock", "yield"} /\ at'[t] \in {"lock", "yield", "critical"}
      /\ \A u \in Spin!Threads \ {t} : at'[u] = at[u]
      /\ UNCHANGED <<kind, fifo, pushed, buf, overall>>
  BY DEF Spin!lock, Spin!TypeOK
<1>1. Spin!TypeOK'
  BY DEF Spin!lock, Spin!TypeOK
<1>2. Spin!MutualExclusion'
  <2>1. CASE Spin!TestAndSet(t)
    BY <2>1 DEF Spin!MutualExclusion, Spin!Inside, Spin!TypeOK, Spin!Threads
  <2>2. CASE Spin!Fail(t) \/ Spin!Yield(t)
    <3>1. \A u \in Spin!Threads : Spin!Inside(u)' <=> Spin!Inside(u)
      BY <1>0, <2>2 DEF Spin!Inside, Spin!TypeOK
    <3>2. locked' = locked
      BY <2>2
    <3> QED BY <3>1, <3>2 DEF Spin!MutualExclusion, Spin!Threads
  <2> QED BY <2>1, <2>2 DEF Spin!lock
<1>3. NotYetStarted'
  BY <1>0 DEF NotYetStarted
<1>4. ZeroIsLast'
  BY <1>0 DEF ZeroIsLast, Spin!Threads
<1>5. QueueIsOnes' /\ OnesAdded'
  <2>1. CASE t = "sum"
    BY <1>0, <2>1, CountingKept
  <2>2. CASE t = "populate"
    BY <1>0, <2>2, CountingKeptByPopulate DEF Spin!Threads
  <2> QED BY <2>1, <2>2 DEF Spin!Threads
<1> QED BY <1>1, <1>2, <1>3, <1>4, <1>5

LEMMA SpinPush == ASSUME SpinInv, Spin!Push PROVE SpinInv'
<1> USE SpinAssumption DEF SpinInv, Spin!Push, Spin!Goto
<1> DEFINE e == IF pushed < Ones THEN 1 ELSE 0
<1>1. /\ at["populate"] = "critical" /\ at'["populate"] = "unlock"
      /\ at'["sum"] = at["sum"]
      /\ pushed \in Nat /\ pushed <= Ones /\ pushed' = pushed + 1
      /\ fifo' = Append(fifo, e) /\ fifo \in Seq({0, 1}) /\ e \in {0, 1}
      /\ UNCHANGED <<kind, locked, buf, overall>>
  BY DEF Spin!TypeOK, ZeroIsLast, Spin!Threads
<1>2. Spin!TypeOK'
  BY <1>1 DEF Spin!TypeOK
<1>3. Spin!MutualExclusion' /\ NotYetStarted'
  BY <1>1 DEF Spin!MutualExclusion, NotYetStarted, Spin!Inside, Spin!Threads
<1>4. ZeroIsLast'
  BY <1>1 DEF ZeroIsLast
<1>5. ~ZeroIsOut /\ ~ZeroIsOut' /\ ~ZeroIsQueued /\ Popped' = Popped
  BY <1>1 DEF QueueIsOnes, ZeroIsOut, ZeroIsQueued, Popped
<1>6. ZeroIsQueued' <=> e = 0
  BY <1>1, <1>5 DEF ZeroIsQueued
<1>7. /\ Len(fifo) \in Nat /\ Len(fifo') = Len(fifo) + 1
      /\ \A k \in 1 .. Len(fifo) : fifo'[k] = fifo[k]
      /\ fifo'[Len(fifo) + 1] = e
  BY <1>1
<1>8. QueueIsOnes'
  <2>1. \A k \in 1 .. Len(fifo) : fifo[k] # 0
    BY <1>5 DEF QueueIsOnes
  <2>2. \A k \in 1 .. Len(fifo') : fifo'[k] = 0 <=> e = 0 /\ k = Len(fifo')
    BY <1>7, <2>1
  <2> QED BY <1>5, <1>6, <1>7, <2>2 DEF QueueIsOnes
<1>9. OnesAdded'
  <2>1. Popped \in Nat /\ overall \in Nat
    BY DEF Popped, Spin!TypeOK
  <2> QED BY <1>1, <1>5, <1>6, <1>7, <2>1, SMTT(30) DEF OnesAdded
<1> QED BY <1>2, <1>3, <1>4, <1>8, <1>9

LEMMA SpinPushed == ASSUME SpinInv, Spin!Pushed PROVE SpinInv'
<1> USE SpinAssumption DEF SpinInv, Spin!Pushed, Spin!Goto
<1>1. /\ at["populate"] = "unlock" /\ at'["sum"] = at["sum"]
      /\ at'["populate"] = IF pushed > Ones THEN "exited" ELSE "lock"
      /\ pushed \in Nat
      /\ UNCHANGED <<kind, fifo, pushed, buf, overall>>
  BY DEF Spin!TypeOK, Spin!Threads
<1>2. Spin!TypeOK'
  BY <1>1 DEF Spin!TypeOK
<1>3. Spin!MutualExclusion' /\ NotYetStarted'
  BY <1>1 DEF Spin!MutualExclusion, NotYetStarted, Spin!Inside, Spin!Threads
<1>4. ZeroIsLast'
  BY <1>1 DEF ZeroIsLast
<1>5. QueueIsOnes' /\ OnesAdded'
  BY <1>1, CountingKeptByPopulate
<1> QED BY <1>2, <1>3, <1>4, <1>5

LEMMA SpinEmpty == ASSUME SpinInv, Spin!Empty PROVE SpinInv'
<1> USE SpinAssumption DEF SpinInv, Spin!Empty, Spin!Goto
<1>1. /\ at["sum"] = "critical" /\ at'["sum"] = "lock"
      /\ at'["populate"] = at["populate"]
      /\ UNCHANGED <<kind, fifo, pushed, buf, overall>>
  BY DEF Spin!TypeOK, Spin!Threads
<1>2. Spin!TypeOK'
  BY <1>1 DEF Spin!TypeOK
<1>3. Spin!MutualExclusion' /\ NotYetStarted'
  BY <1>1 DEF Spin!MutualExclusion, NotYetStarted, Spin!Inside, Spin!Threads
<1>4. ZeroIsLast'
  BY <1>1 DEF ZeroIsLast
<1>5. QueueIsOnes' /\ OnesAdded'
  BY <1>1, CountingKept
<1> QED BY <1>2, <1>3, <1>4, <1>5

LEMMA SpinPop == ASSUME SpinInv, Spin!Pop PROVE SpinInv'
<1> USE SpinAssumption DEF SpinInv, Spin!Pop, Spin!Goto
<1>1. /\ at["sum"] = "critical" /\ at'["sum"] = "unlock"
      /\ at'["populate"] = at["populate"]
      /\ buf' = fifo[1] /\ fifo' = Tail(fifo) /\ fifo # <<>> /\ fifo \in Seq({0, 1})
      /\ UNCHANGED <<kind, locked, pushed, overall>>
  BY DEF Spin!TypeOK, Spin!Threads
<1>2. /\ Len(fifo) \in Nat \ {0} /\ Len(fifo') = Len(fifo) - 1
      /\ \A k \in 1 .. Len(fifo') : fifo'[k] = fifo[k + 1]
      /\ fifo' \in Seq({0, 1}) /\ fifo[1] \in {0, 1}
  BY <1>1
<1>3. Spin!TypeOK'
  BY <1>1, <1>2 DEF Spin!TypeOK
<1>4. Spin!MutualExclusion' /\ NotYetStarted'
  BY <1>1 DEF Spin!MutualExclusion, NotYetStarted, Spin!Inside, Spin!Threads
<1>5. ZeroIsLast'
  BY <1>1 DEF ZeroIsLast
<1>6. ~ZeroIsOut /\ Popped = 0 /\ Popped' = fifo[1]
  BY <1>1 DEF ZeroIsOut, Popped
<1>7. fifo[1] = 0 <=> ZeroIsQueued /\ Len(fifo) = 1
  <2>1. 1 \in 1 .. Len(fifo)
    BY <1>2
  <2>2. \A k \in 1 .. Len(fifo) : fifo[k] = 0 <=> ZeroIsQueued /\ k = Len(fifo)
    BY DEF QueueIsOnes
  <2> QED BY <2>1, <2>2
<1>8. (ZeroIsOut' <=> fifo[1] = 0) /\ (ZeroIsQueued' <=> ZeroIsQueued /\ fifo[1] # 0)
  BY <1>1, <1>6 DEF ZeroIsOut, ZeroIsQueued
<1>9. QueueIsOnes'
  <2>1. \A k \in 1 .. Len(fifo') : fifo'[k] = 0 <=> ZeroIsQueued' /\ k = Len(fifo')
    <3> SUFFICES ASSUME NEW k \in 1 .. Len(fifo')
                 PROVE  fifo'[k] = 0 <=> ZeroIsQueued' /\ k = Len(fifo')
      OBVIOUS
    <3>1. k + 1 \in 1 .. Len(fifo) /\ fifo'[k] = fifo[k + 1] /\ Len(fifo) # 1
      BY <1>2
    <3>2. fifo[k + 1] = 0 <=> ZeroIsQueued /\ k + 1 = Len(fifo)
      BY <3>1 DEF QueueIsOnes
    <3>3. k + 1 = Len(fifo) <=> k = Len(fifo')
      BY <1>2
    <3>4. ZeroIsQueued' <=> ZeroIsQueued
      BY <1>7, <1>8, <3>1
    <3> QED BY <3>1, <3>2, <3>3, <3>4
  <2>2. ZeroIsQueued' => Len(fifo') >= 1
    BY <1>2, <1>7, <1>8
  <2>3. ZeroIsOut' => pushed' > Ones /\ Len(fifo') = 0
    BY <1>1, <1>2, <1>7, <1>8 DEF ZeroIsQueued
  <2> QED BY <2>1, <2>2, <2>3 DEF QueueIsOnes
<1>10. OnesAdded'
  <2>1. overall \in Nat /\ pushed \in Nat
    BY DEF Spin!TypeOK
  <2>2. CASE fifo[1] = 0
    BY <1>1, <1>2, <1>6, <1>7, <1>8, <2>1, <2>2 DEF OnesAdded
  <2>3. CASE fifo[1] = 1
    <3>1. Popped' = 1 /\ (ZeroIsQueued' <=> ZeroIsQueued)
      BY <1>6, <1>8, <2>3
    <3> QED BY <1>1, <1>2, <1>6, <2>1, <3>1 DEF OnesAdded
  <2> QED BY <1>2, <2>2, <2>3
<1> QED BY <1>3, <1>4, <1>5, <1>9, <1>10

LEMMA SpinAdd == ASSUME SpinInv, Spin!Add PROVE SpinInv'
<1> USE SpinAssumption DEF SpinInv, Spin!Add, Spin!Goto
<1>1. /\ at["sum"] = "unlock" /\ at'["sum"] = IF buf = 0 THEN "exited" ELSE "lock"
      /\ at'["populate"] = at["populate"]
      /\ overall' = overall + buf /\ overall \in Nat /\ buf \in {0, 1}
      /\ UNCHANGED <<kind, fifo, pushed, buf>>
  BY DEF Spin!TypeOK, Spin!Threads
<1>2. Spin!TypeOK'
  <2>1. overall' \in Nat
    BY <1>1
  <2>2. (IF buf = 0 THEN "exited" ELSE "lock") \in {"exited", "lock"}
    OBVIOUS
  <2>3. at' \in [Spin!Threads -> {"none", "lock", "yield", "critical", "unlock", "exited"}]
    BY <2>2 DEF Spin!TypeOK
  <2> QED BY <1>1, <2>1, <2>3 DEF Spin!TypeOK
<1>3. Spin!MutualExclusion' /\ NotYetStarted'
  BY <1>1 DEF Spin!MutualExclusion, NotYetStarted, Spin!Inside, Spin!Threads
<1>4. ZeroIsLast'
  BY <1>1 DEF ZeroIsLast
<1>5. (ZeroIsOut' <=> ZeroIsOut) /\ Popped = buf /\ Popped' = 0
  BY <1>1 DEF ZeroIsOut, Popped
<1>6. ZeroIsQueued' <=> ZeroIsQueued
  BY <1>1, <1>5 DEF ZeroIsQueued
<1>7. QueueIsOnes'
  BY <1>1, <1>5, <1>6 DEF QueueIsOnes
<1>8. OnesAdded'
  BY <1>1, <1>5, <1>6 DEF OnesAdded, Spin!TypeOK
<1> QED BY <1>2, <1>3, <1>4, <1>7, <1>8

LEMMA SpinNext == ASSUME SpinInv, Spin!Next \/ UNCHANGED spins PROVE SpinInv'
<1>1. CASE Spin!Start
  BY <1>1, SpinStart
<1>2. ASSUME NEW t \in Spin!Threads, Spin!lock(t) PROVE SpinInv'
  BY <1>2, SpinLock
<1>3. CASE Spin!populate
  BY <1>3, SpinPush, SpinPushed DEF Spin!populate
<1>4. CASE Spin!sum
  BY <1>4, SpinEmpty, SpinPop, SpinAdd DEF Spin!sum
<1>5. CASE UNCHANGED spins
  BY <1>5 DEF spins, SpinInv, Spin!TypeOK, Spin!MutualExclusion, NotYetStarted, ZeroIsLast,
     QueueIsOnes, OnesAdded, Spin!Inside, ZeroIsOut, ZeroIsQueued, Popped
<1> QED BY <1>1, <1>2, <1>3, <1>4, <1>5 DEF Spin!Next

\* The flag keeps two threads from being inside together, no one is lost or
\* counted twice, and the sum that is printed is the number of ones: with the
\* program's constant, 10000000.
THEOREM SumIsExact == Spec => []EveryOneCounts
<1> DEFINE Inv == Checks(5) => SpinInv
<1>1. Init => Inv
  BY SpinInit DEF Init
<1>2. Inv /\ [Next]_allvars => Inv'
  BY StepOfOne, SpinNext
<1>3. Inv => EveryOneCounts
  BY SpinInvImplies DEF EveryOneCounts, SpinInv
<1> QED BY <1>1, <1>2, <1>3, PTL DEF Spec

---------------------------------------------------------------------------
(* Finite sets.                                                            *)

LEMMA MovedElement ==
  ASSUME NEW S, IsFiniteSet(S), NEW x \in S, NEW y, y \notin S
  PROVE  Cardinality((S \ {x}) \cup {y}) = Cardinality(S)
<1>1. IsFiniteSet(S \ {x}) /\ Cardinality(S \ {x}) = Cardinality(S) - 1
  BY FS_RemoveElement
<1>2. Cardinality((S \ {x}) \cup {y}) = Cardinality(S \ {x}) + 1
  BY <1>1, FS_AddElement
<1> QED BY <1>1, <1>2, FS_CardinalityType

\* The modules of the programs have their own instances of FiniteSets.
LEMMA SameCardinality ==
  /\ \A S : Sort!Cardinality(S) = Cardinality(S)
  /\ \A S : Forked!Cardinality(S) = Cardinality(S)
  /\ \A S : Life!Cardinality(S) = Cardinality(S)
  /\ \A S : Bench!Cardinality(S) = Cardinality(S)
  /\ \A S : Sched!Cardinality(S) = Cardinality(S)
  BY DEF Sort!Cardinality, Forked!Cardinality, Life!Cardinality, Bench!Cardinality,
         Sched!Cardinality, Cardinality

---------------------------------------------------------------------------
(* The signal reporter.                                                    *)

\* A line is printed before its signal is counted down, so an increment that is
\* lost between the two is made up for by the line.
LinePrinted == reporter \in {"load", "store"} => printed[sig] >= 1

\* The seconds are put back before the counters are looked at, the fraction
\* never is.
SleepLeft ==
  /\ tv_sec \in {0, 1} /\ tv_nsec \in 0 .. Second - 1
  /\ reporter \in {"test", "print", "load", "store"} => tv_sec = 1

ReporterInv ==
  /\ Signals!TypeOK
  /\ Signals!NoPhantomLine
  /\ LinePrinted
  /\ SleepLeft

LEMMA ReporterInvImplies == ReporterInv => Signals!SleepIsBounded
  BY SignalAssumption DEF ReporterInv, SleepLeft, Signals!SleepIsBounded

LEMMA ReporterInit == Signals!Init => ReporterInv
  BY SignalAssumption DEF Signals!Init, ReporterInv, Signals!TypeOK, LinePrinted,
     Signals!NoPhantomLine, SleepLeft, Signals!Signals, Signals!SIGINT,
     Signals!SIGUSR2

\* A signal is counted once for the handler and once for the loop to come; the
\* loop's counter keeps below the handler's.
LEMMA SignalCounted ==
  ASSUME ReporterInv, NEW s \in Signals!Signals, handled[s] < MaxSignals,
         handled' = [handled EXCEPT ![s] = @ + 1], res' = [res EXCEPT ![s] = @ + 1],
         UNCHANGED <<reporter, sig, loaded, disposition, printed>>
  PROVE  Signals!TypeOK' /\ Signals!NoPhantomLine' /\ LinePrinted'
<1> USE SignalAssumption DEF ReporterInv
<1>1. /\ sig \in Signals!Signals
      /\ \A r \in Signals!Signals :
           /\ res[r] \in 0 .. MaxSignals /\ handled[r] \in 0 .. MaxSignals
           /\ printed[r] \in 0 .. MaxSignals
           /\ res'[r] = IF r = s THEN res[r] + 1 ELSE res[r]
           /\ handled'[r] = IF r = s THEN handled[r] + 1 ELSE handled[r]
  BY DEF Signals!TypeOK
<1>2. Signals!NoPhantomLine' /\ LinePrinted'
  BY <1>1 DEF Signals!NoPhantomLine, LinePrinted
<1>3. res[s] <= handled[s]
  BY <1>1 DEF Signals!NoPhantomLine, LinePrinted
<1>4. res[s] + 1 \in 0 .. MaxSignals /\ handled[s] + 1 \in 0 .. MaxSignals
  BY <1>1, <1>3
<1>5. res' \in [Signals!Signals -> 0 .. MaxSignals]
        /\ handled' \in [Signals!Signals -> 0 .. MaxSignals]
  BY <1>4 DEF Signals!TypeOK
<1>6. reporter' \in {"print", "load"} => res'[sig'] > 0
  BY <1>1 DEF Signals!TypeOK
<1>7. reporter' = "store" => loaded' \in 1 .. res'[sig']
  BY <1>1 DEF Signals!TypeOK
<1> QED BY <1>2, <1>5, <1>6, <1>7 DEF Signals!TypeOK

LEMMA HandleInv ==
  ASSUME ReporterInv, NEW s \in Signals!Signals, Signals!Handle(s)
  PROVE  ReporterInv'
<1>1. Signals!TypeOK' /\ Signals!NoPhantomLine' /\ LinePrinted'
  BY SignalCounted DEF Signals!Handle
<1>2. SleepLeft'
  BY DEF ReporterInv, SleepLeft, Signals!Handle, Signals!work_duration
<1> QED BY <1>1, <1>2 DEF ReporterInv

\* What is left of less than two seconds is less than two seconds.
LEMMA InterruptInv ==
  ASSUME ReporterInv, NEW s \in Signals!Signals, Signals!Interrupt(s)
  PROVE  ReporterInv'
<1>1. Signals!TypeOK' /\ Signals!NoPhantomLine' /\ LinePrinted'
  BY SignalCounted DEF Signals!Interrupt
<1>2. PICK left \in 0 .. Second * tv_sec + tv_nsec :
        tv_sec' = left \div Second /\ tv_nsec' = left % Second
  BY DEF Signals!Interrupt
<1>3. left \in Nat /\ left < 2 * Second
  BY SignalAssumption DEF ReporterInv, SleepLeft
<1>4. left \div Second \in {0, 1} /\ left % Second \in 0 .. Second - 1
  BY <1>3, SignalAssumption
<1>5. SleepLeft'
  BY <1>2, <1>4 DEF SleepLeft, Signals!Interrupt
<1> QED BY <1>1, <1>5 DEF ReporterInv

LEMMA MainInv == ASSUME ReporterInv, Signals!main PROVE ReporterInv'
<1> USE SignalAssumption DEF ReporterInv, Signals!Goto, Signals!work_duration
<1>0. /\ Signals!Signals = {1, 2, 3, 4} /\ Signals!SIGINT = 1 /\ Signals!SIGUSR2 = 4
      /\ sig \in {1, 2, 3, 4}
      /\ \A r \in Signals!Signals :
           /\ res[r] \in 0 .. MaxSignals /\ handled[r] \in 0 .. MaxSignals
           /\ printed[r] \in 0 .. MaxSignals
  BY DEF Signals!TypeOK, Signals!Signals, Signals!SIGINT, Signals!SIGUSR2
<1>1. CASE Signals!Setup
  BY <1>0, <1>1 DEF Signals!Setup, Signals!TypeOK, Signals!NoPhantomLine,
     LinePrinted, SleepLeft
<1>2. CASE Signals!WakeUp
  BY <1>0, <1>2 DEF Signals!WakeUp, Signals!TypeOK, Signals!NoPhantomLine,
     LinePrinted, SleepLeft
<1>3. CASE Signals!LoopEnds
  BY <1>0, <1>3 DEF Signals!LoopEnds, Signals!TypeOK, Signals!NoPhantomLine,
     LinePrinted, SleepLeft
<1>4. CASE Signals!Switch
  <2>1. disposition' \in [Signals!Signals -> {"default", "handle", "ignore"}]
    <3>1. CASE sig = 1
      BY <1>0, <1>4, <3>1 DEF Signals!Switch, Signals!TypeOK, Signals!Switched,
         Signals!SIGINT
    <3>2. CASE sig = 2
      BY <1>0, <1>4, <3>2 DEF Signals!Switch, Signals!TypeOK, Signals!Switched,
         Signals!SIGCONT
    <3>3. CASE sig = 3
      BY <1>0, <1>4, <3>3 DEF Signals!Switch, Signals!TypeOK, Signals!Switched,
         Signals!SIGUSR1
    <3>4. CASE sig = 4
      BY <1>0, <1>4, <3>4 DEF Signals!Switch, Signals!TypeOK, Signals!Switched,
         Signals!SIGUSR2
    <3> QED BY <1>0, <3>1, <3>2, <3>3, <3>4
  <2> QED BY <1>0, <1>4, <2>1 DEF Signals!Switch, Signals!TypeOK,
     Signals!NoPhantomLine, LinePrinted, SleepLeft
<1>5. CASE Signals!PrintLine
  <2>1. /\ reporter = "print" /\ reporter' = "load"
        /\ printed' = [printed EXCEPT ![sig] = @ + 1]
        /\ UNCHANGED <<sig, loaded, disposition, res, handled, tv_sec, tv_nsec>>
    BY <1>5 DEF Signals!PrintLine
  <2>2. \A r \in Signals!Signals :
          printed'[r] = IF r = sig THEN printed[r] + 1 ELSE printed[r]
    BY <2>1 DEF Signals!TypeOK
  <2>3. printed[sig] + 1 \in 0 .. MaxSignals
    BY <1>0, <2>1 DEF Signals!TypeOK, Signals!NoPhantomLine
  <2>4. Signals!NoPhantomLine' /\ LinePrinted'
    BY <1>0, <2>1, <2>2 DEF Signals!NoPhantomLine, LinePrinted
  <2>5. Signals!TypeOK'
    BY <2>1, <2>3 DEF Signals!TypeOK
  <2>6. SleepLeft'
    BY <2>1 DEF SleepLeft
  <2> QED BY <2>4, <2>5, <2>6
<1>6. CASE Signals!Load
  BY <1>0, <1>6 DEF Signals!Load, Signals!TypeOK, Signals!NoPhantomLine,
     LinePrinted, SleepLeft
<1>7. CASE Signals!Store
  <2>1. /\ reporter = "store" /\ reporter' = "test" /\ loaded' = 0
        /\ res' = [res EXCEPT ![sig] = loaded - 1]
        /\ loaded \in 1 .. res[sig]
        /\ UNCHANGED <<sig, disposition, handled, printed, tv_sec, tv_nsec>>
    BY <1>7 DEF Signals!Store, Signals!TypeOK
  <2>2. \A r \in Signals!Signals :
          res'[r] = IF r = sig THEN loaded - 1 ELSE res[r]
    BY <2>1 DEF Signals!TypeOK
  <2>3. loaded - 1 \in 0 .. MaxSignals
    BY <1>0, <2>1
  <2>4. Signals!NoPhantomLine' /\ LinePrinted'
    BY <1>0, <2>1, <2>2 DEF Signals!NoPhantomLine, LinePrinted
  <2>5. Signals!TypeOK'
    BY <2>1, <2>3 DEF Signals!TypeOK
  <2>6. SleepLeft'
    BY <2>1 DEF SleepLeft
  <2> QED BY <2>4, <2>5, <2>6
<1> QED BY <1>1, <1>2, <1>3, <1>4, <1>5, <1>6, <1>7
        DEF Signals!main, Signals!print_recieved_signals

LEMMA ReporterNext ==
  ASSUME ReporterInv, Signals!Next \/ UNCHANGED signals PROVE ReporterInv'
<1> USE DEF ReporterInv
<1>1. CASE Signals!Start
  BY <1>1 DEF Signals!Start, Signals!Goto, Signals!TypeOK, Signals!NoPhantomLine,
     LinePrinted, SleepLeft, Signals!work_duration
<1>2. CASE Signals!Terminate
  BY <1>2 DEF Signals!Terminate, Signals!TypeOK, Signals!NoPhantomLine,
     LinePrinted, SleepLeft, Signals!work_duration
<1>3. CASE UNCHANGED signals
  BY <1>3 DEF signals, Signals!TypeOK, Signals!NoPhantomLine, LinePrinted, SleepLeft
<1> QED BY <1>1, <1>2, <1>3, MainInv, HandleInv, InterruptInv DEF Signals!Next

\* However signals and the main loop interleave, no line is printed for a signal
\* that did not come, and no sleep grows to two seconds by being interrupted.
THEOREM NoLineIsMadeUp == Spec => []NoPhantomLine
<1> DEFINE Inv == Checks(2) => ReporterInv
<1>1. Init => Inv
  BY ReporterInit DEF Init
<1>2. Inv /\ [Next]_allvars => Inv'
  BY StepOfOne, ReporterNext
<1>3. Inv => NoPhantomLine
  BY ReporterInvImplies DEF NoPhantomLine, ReporterInv
<1> QED BY <1>1, <1>2, <1>3, PTL DEF Spec

---------------------------------------------------------------------------
(* The scheduler.                                                          *)

\* What is received is a request.
SchedulerInv == queue \in Seq(DOMAIN Request) /\ Sched!StaleRoundIsLast

LEMMA SchedulerInit == Sched!Init => SchedulerInv
  BY DEF Sched!Init, SchedulerInv, Sched!StaleRoundIsLast, Sched!InRound

LEMMA RoundInv == ASSUME SchedulerInv, Sched!work PROVE SchedulerInv'
<1> USE DEF SchedulerInv, Sched!StaleRoundIsLast, Sched!InRound, Sched!Goto, Sched!round
<1>1. CASE Sched!Call \/ Sched!Slept \/ Sched!Report \/ Sched!NoToken
  BY <1>1 DEF Sched!Call, Sched!Slept, Sched!Report, Sched!NoToken
<1>2. CASE Sched!Receive
  <2>1. PICK k \in DOMAIN queue :
          /\ task' = queue[k]
          /\ queue' = SubSeq(queue, 1, k - 1) \o SubSeq(queue, k + 1, Len(queue))
    BY <1>2 DEF Sched!Receive
  <2>2. task' # None
    BY <2>1, SchedulerAssumption
  <2>3. queue' \in Seq(DOMAIN Request)
    BY <2>1
  <2>4. scheduler' = "parse"
    BY <1>2 DEF Sched!Receive
  <2> QED BY <2>2, <2>3, <2>4
<1>3. CASE Sched!Parse
  BY <1>3 DEF Sched!Parse
<1>4. CASE Sched!Token
  <2>1. /\ scheduler = "token" /\ scheduler' = "sleep"
        /\ UNCHANGED <<shutdown, queue, task>>
    BY <1>4 DEF Sched!Token
  <2> QED BY <2>1
<1>5. CASE Sched!Test
  BY <1>5 DEF Sched!Test
<1>6. CASE Sched!Close
  BY <1>6 DEF Sched!Close
<1> QED BY <1>1, <1>2, <1>3, <1>4, <1>5, <1>6 DEF Sched!work

LEMMA SchedulerNext ==
  ASSUME SchedulerInv, Sched!Next \/ UNCHANGED sched PROVE SchedulerInv'
<1> USE DEF SchedulerInv, Sched!StaleRoundIsLast, Sched!InRound, Sched!Goto, Sched!round
<1>1. CASE Sched!Start \/ Sched!StartFails
  BY <1>1 DEF Sched!Start, Sched!StartFails
<1>2. CASE Sched!work
  BY <1>2, RoundInv
<1>3. CASE Sched!Signal \/ Sched!SignalInReceive \/ Sched!SignalInSleep
  BY <1>3 DEF Sched!Signal, Sched!SignalInReceive, Sched!SignalInSleep,
     Sched!handle_signal
<1>4. ASSUME NEW s \in Sched!Services, Sched!Open(s) \/ Sched!Send(s)
      PROVE  SchedulerInv'
  BY <1>4 DEF Sched!Open, Sched!Send, Sched!Services
<1>5. CASE UNCHANGED sched
  BY <1>5 DEF sched
<1> QED BY <1>1, <1>2, <1>3, <1>4, <1>5 DEF Sched!Next

\* Whatever the services send and whenever SIGINT comes, the buffer of an older
\* task is taken for a message in one round at most, the last.
THEOREM StaleRoundEndsIt == Spec => []StaleRoundIsLast
<1> DEFINE Inv == Checks(1) => SchedulerInv
<1>1. Init => Inv
  BY SchedulerInit DEF Init
<1>2. Inv /\ [Next]_allvars => Inv'
  BY StepOfOne, SchedulerNext
<1>3. Inv => StaleRoundIsLast
  BY DEF StaleRoundIsLast, SchedulerInv
<1> QED BY <1>1, <1>2, <1>3, PTL DEF Spec

---------------------------------------------------------------------------
(* The sort.                                                               *)

\* After each pass one more number, the largest of the others, is in its place.
LargestLast ==
  \A k, l \in 0 .. size - 1 : k < l /\ size - pass <= l => numbers[k] <= numbers[l]

\* A pass has carried the largest number it has met to its place, and what is
\* behind it ascends unless something was exchanged.
PassSoFar ==
  sorting = "inner" =>
    /\ pass < size - 1
    /\ place <= size - pass - 1
    /\ \A k \in 0 .. place - 1 : numbers[k] <= numbers[place]
    /\ ~swapped => \A k \in 0 .. place - 1 : numbers[k] <= numbers[k + 1]

SortInv ==
  /\ Sort!TypeOK
  /\ sorting = "none" => pass = 0
  /\ sorting = "outer" => pass = 0 \/ pass < size
  /\ LargestLast
  /\ PassSoFar
  /\ Sort!SortedInTheEnd

LEMMA SortInit == Sort!Init => SortInv
<1> SUFFICES ASSUME Sort!Init PROVE SortInv
  OBVIOUS
<1> USE SortAssumption DEF Sort!Init
<1>1. 0 .. size - 1 = {} /\ size \in 0 .. MaxSize
  OBVIOUS
<1>2. input \in [0 .. size - 1 -> Numbers] /\ numbers \in [0 .. size - 1 -> Numbers]
  BY <1>1
<1>3. Sort!TypeOK
  BY <1>1, <1>2 DEF Sort!TypeOK
<1>4. Sort!SortedInTheEnd
  BY DEF Sort!SortedInTheEnd
<1> QED BY <1>1, <1>3, <1>4 DEF SortInv, LargestLast, PassSoFar

LEMMA SortStart == ASSUME SortInv, Sort!Start PROVE SortInv'
<1> USE SortAssumption
<1>1. /\ sorting = "none" /\ sorting' = "outer"
      /\ size' \in 0 .. MaxSize /\ input' \in [0 .. size' - 1 -> Numbers]
      /\ numbers' = input'
      /\ pass' = 0 /\ place' = place /\ swapped' = swapped
  BY DEF SortInv, Sort!Start, Sort!Goto
<1>2. Sort!TypeOK'
  BY <1>1 DEF SortInv, Sort!TypeOK
<1>3. Sort!SortedInTheEnd'
  BY <1>1 DEF Sort!SortedInTheEnd
<1>4. size' \in Nat
  BY <1>1
<1>5. LargestLast'
  <2>1. pass' = 0
    BY <1>1
  <2>2. PICK n \in Nat : size' = n
    BY <1>4
  <2>3. \A l \in 0 .. n - 1 : ~ (n - 0 <= l)
    OBVIOUS
  <2> QED BY <2>1, <2>2, <2>3 DEF LargestLast
<1>6. PassSoFar'
  BY <1>1 DEF PassSoFar
<1> QED BY <1>1, <1>2, <1>3, <1>5, <1>6 DEF SortInv

LEMMA SortOuter == ASSUME SortInv, Sort!Outer PROVE SortInv'
<1> USE SortAssumption DEF SortInv
<1>1. /\ sorting = "outer" /\ sorting' = "inner" /\ pass < size - 1 /\ place' = 0
      /\ swapped' = FALSE
      /\ UNCHANGED <<input, numbers, size, pass>>
      /\ pass \in Nat /\ size \in Nat
  BY DEF Sort!Outer, Sort!Goto, Sort!TypeOK
<1>2. Sort!TypeOK'
  <2>1. swapped' \in BOOLEAN
    BY <1>1
  <2>2. sorting' \in {"none", "outer", "inner", "sorted"} /\ place' \in Nat
    BY <1>1
  <2> QED BY <1>1, <2>1, <2>2 DEF Sort!TypeOK
<1>3. Sort!SortedInTheEnd' /\ LargestLast'
  BY <1>1 DEF Sort!SortedInTheEnd, LargestLast, Sort!Occurrences
<1>4. PassSoFar'
  BY <1>1 DEF PassSoFar
<1> QED BY <1>1, <1>2, <1>3, <1>4

\* Exchanging two different numbers leaves as many of each as there were.
LEMMA ExchangeKeepsAll ==
  ASSUME NEW n \in Nat, NEW f, NEW g, DOMAIN f = 0 .. n - 1, DOMAIN g = 0 .. n - 1,
         NEW j \in 0 .. n - 2, f[j] # f[j + 1],
         \A k \in 0 .. n - 1 : g[k] = IF k = j THEN f[j + 1]
                                      ELSE IF k = j + 1 THEN f[j] ELSE f[k],
         NEW v
  PROVE  Sort!Occurrences(g, v) = Sort!Occurrences(f, v)
<1> DEFINE S == {k \in 0 .. n - 1 : f[k] = v}
           T == {k \in 0 .. n - 1 : g[k] = v}
<1>1. j \in 0 .. n - 1 /\ j + 1 \in 0 .. n - 1 /\ j # j + 1
  OBVIOUS
<1>2. IsFiniteSet(S)
  <2>1. IsFiniteSet(0 .. n - 1)
    <3>1. 0 \in Int /\ n - 1 \in Int
      OBVIOUS
    <3> QED BY <3>1, FS_Interval
  <2>2. S \subseteq 0 .. n - 1
    OBVIOUS
  <2> QED BY <2>1, <2>2, FS_Subset
<1>3. Cardinality(T) = Cardinality(S)
  <2>1. CASE v # f[j] /\ v # f[j + 1]
    <3>1. T = S
      BY <1>1, <2>1
    <3> QED BY <3>1
  <2>2. CASE v = f[j]
    <3>1. T = (S \ {j}) \cup {j + 1} /\ j \in S /\ j + 1 \notin S
      BY <1>1, <2>2
    <3> HIDE DEF S, T
    <3> QED BY <1>2, <3>1, MovedElement
  <2>3. CASE v = f[j + 1]
    <3>1. T = (S \ {j + 1}) \cup {j} /\ j + 1 \in S /\ j \notin S
      BY <1>1, <2>3
    <3> HIDE DEF S, T
    <3> QED BY <1>2, <3>1, MovedElement
  <2> QED BY <2>1, <2>2, <2>3
<1>4. Sort!Occurrences(g, v) = Cardinality(T)
  <2>1. {k \in DOMAIN g : g[k] = v} = T
    OBVIOUS
  <2> QED BY <2>1, SameCardinality DEF Sort!Occurrences
<1>5. Sort!Occurrences(f, v) = Cardinality(S)
  <2>1. {k \in DOMAIN f : f[k] = v} = S
    OBVIOUS
  <2> QED BY <2>1, SameCardinality DEF Sort!Occurrences
<1> QED BY <1>3, <1>4, <1>5

LEMMA SortInner == ASSUME SortInv, Sort!Inner PROVE SortInv'
<1> USE SortAssumption DEF SortInv
<1> DEFINE wrong == numbers[place] > numbers[place + 1]
<1>1. /\ sorting = "inner" /\ sorting' = "inner" /\ place < size - pass - 1
      /\ numbers' = IF wrong THEN [numbers EXCEPT ![place] = numbers[place + 1],
                                                  ![place + 1] = numbers[place]]
                    ELSE numbers
      /\ swapped' = (swapped \/ wrong)
      /\ place' = place + 1
      /\ UNCHANGED <<input, size, pass>>
  BY DEF Sort!Inner
<1>2. /\ pass \in Nat /\ place \in Nat /\ size \in Nat
      /\ place \in 0 .. size - 1 /\ place + 1 \in 0 .. size - 1
      /\ numbers \in [0 .. size - 1 -> Numbers]
      /\ \A k \in 0 .. size - 1 : numbers[k] \in Int
  <2>1. /\ pass \in Nat /\ place \in Nat /\ size \in Nat
        /\ numbers \in [0 .. size - 1 -> Numbers]
    BY DEF Sort!TypeOK
  <2>2. place \in 0 .. size - 1 /\ place + 1 \in 0 .. size - 1
    BY <1>1, <2>1
  <2>3. \A k \in 0 .. size - 1 : numbers[k] \in Int
    BY <2>1
  <2> QED BY <2>1, <2>2, <2>3
<1>3. /\ numbers' \in [0 .. size - 1 -> Numbers]
      /\ \A k \in 0 .. size - 1 :
           numbers'[k] = IF wrong /\ k = place THEN numbers[place + 1]
                         ELSE IF wrong /\ k = place + 1 THEN numbers[place]
                         ELSE numbers[k]
  BY <1>1, <1>2
<1>4. Sort!TypeOK'
  BY <1>1, <1>2, <1>3 DEF Sort!TypeOK
<1>5. Sort!SortedInTheEnd'
  <2>1. ASSUME NEW n \in Numbers
        PROVE  Sort!Occurrences(numbers', n) = Sort!Occurrences(numbers, n)
    <3>1. CASE wrong
      <4>1. place \in 0 .. size - 2 /\ numbers[place] # numbers[place + 1]
        BY <1>1, <1>2, <3>1
      <4>2. \A k \in 0 .. size - 1 :
              numbers'[k] = IF k = place THEN numbers[place + 1]
                            ELSE IF k = place + 1 THEN numbers[place] ELSE numbers[k]
        BY <1>3, <3>1
      <4>3. DOMAIN numbers = 0 .. size - 1 /\ DOMAIN numbers' = 0 .. size - 1
        BY <1>2, <1>3
      <4> HIDE DEF wrong
      <4> QED BY <1>2, <4>1, <4>2, <4>3, ExchangeKeepsAll, SMTT(30)
    <3>2. CASE ~wrong
      BY <1>1, <3>2
    <3> QED BY <3>1, <3>2
  <2> QED BY <1>1, <2>1 DEF Sort!SortedInTheEnd
<1>6. LargestLast'
  <2> SUFFICES ASSUME NEW k \in 0 .. size - 1, NEW l \in 0 .. size - 1,
                      k < l, size - pass <= l
               PROVE  numbers'[k] <= numbers'[l]
    BY <1>1 DEF LargestLast
  <2>1. place + 1 < l
    BY <1>1, <1>2
  <2>2. numbers'[l] = numbers[l]
    BY <1>2, <1>3, <2>1
  <2>3. PICK h \in 0 .. size - 1 : h < l /\ numbers'[k] = numbers[h]
    BY <1>2, <1>3, <2>1
  <2> QED BY <2>2, <2>3 DEF LargestLast
<1>7. PassSoFar'
  <2>1. \A k \in 0 .. place - 1 : numbers'[k] = numbers[k] /\ k \in 0 .. size - 1
    BY <1>2, <1>3
  <2>2. numbers[place] <= numbers'[place + 1] /\ numbers'[place] <= numbers'[place + 1]
    BY <1>2, <1>3
  <2>3. \A k \in 0 .. place : numbers'[k] <= numbers'[place + 1]
    <3> SUFFICES ASSUME NEW k \in 0 .. place PROVE numbers'[k] <= numbers'[place + 1]
      OBVIOUS
    <3>1. CASE k = place
      BY <2>2, <3>1
    <3>2. CASE k # place
      <4>1. k \in 0 .. place - 1
        BY <1>2, <3>2
      <4>2. numbers[k] <= numbers[place]
        BY <1>1, <4>1 DEF PassSoFar
      <4>3. numbers'[k] = numbers[k] /\ numbers[k] \in Int /\ numbers[place] \in Int
              /\ numbers'[place + 1] \in Int
        BY <1>2, <1>3, <2>1, <4>1
      <4> QED BY <2>2, <4>2, <4>3
    <3> QED BY <3>1, <3>2
  <2>4. ~swapped' => \A k \in 0 .. place : numbers'[k] <= numbers'[k + 1]
    <3> SUFFICES ASSUME ~swapped', NEW k \in 0 .. place
                 PROVE  numbers'[k] <= numbers'[k + 1]
      OBVIOUS
    <3>1. ~swapped /\ ~wrong /\ numbers' = numbers
      BY <1>1
    <3>2. CASE k = place
      BY <1>2, <3>1, <3>2
    <3>3. CASE k # place
      BY <1>1, <1>2, <3>1, <3>3 DEF PassSoFar
    <3> QED BY <3>2, <3>3
  <2>5. 0 .. place' - 1 = 0 .. place
    BY <1>1, <1>2
  <2>6. pass' < size' - 1 /\ place' <= size' - pass' - 1
    BY <1>1, <1>2 DEF PassSoFar
  <2> HIDE DEF wrong
  <2> QED BY <1>1, <2>3, <2>4, <2>5, <2>6 DEF PassSoFar
<1> HIDE DEF wrong
<1> QED BY <1>1, <1>4, <1>5, <1>6, <1>7

LEMMA SortInnerEnds == ASSUME SortInv, Sort!InnerEnds PROVE SortInv'
<1> USE SortAssumption DEF SortInv
<1>1. /\ sorting = "inner" /\ place >= size - pass - 1 /\ pass' = pass + 1
      /\ sorting' = IF swapped THEN "outer" ELSE "sorted"
      /\ UNCHANGED <<input, numbers, size, place, swapped>>
  BY DEF Sort!InnerEnds, Sort!Goto
<1>2. /\ pass \in Nat /\ place \in Nat /\ size \in Nat /\ pass < size - 1
      /\ place = size - pass - 1 /\ place \in 0 .. size - 1
      /\ \A k \in 0 .. size - 1 : numbers[k] \in Int
  <2>1. /\ pass \in Nat /\ place \in Nat /\ size \in Nat
        /\ numbers \in [0 .. size - 1 -> Numbers]
    BY DEF Sort!TypeOK
  <2>2. pass < size - 1 /\ place = size - pass - 1
    BY <1>1, <2>1 DEF PassSoFar
  <2>3. \A k \in 0 .. size - 1 : numbers[k] \in Int
    BY <2>1
  <2> QED BY <2>1, <2>2, <2>3
<1>3. Sort!TypeOK'
  BY <1>1, <1>2 DEF Sort!TypeOK
<1>4. LargestLast'
  <2> SUFFICES ASSUME NEW k \in 0 .. size - 1, NEW l \in 0 .. size - 1,
                      k < l, size - (pass + 1) <= l
               PROVE  numbers[k] <= numbers[l]
    BY <1>1 DEF LargestLast
  <2>1. CASE l = place
    BY <1>1, <1>2, <2>1 DEF PassSoFar
  <2>2. CASE l # place
    BY <1>2, <2>2 DEF LargestLast
  <2> QED BY <2>1, <2>2
<1>5. ~swapped => \A k \in 1 .. size - 1 : numbers[k - 1] <= numbers[k]
  <2> SUFFICES ASSUME ~swapped, NEW k \in 1 .. size - 1
               PROVE  numbers[k - 1] <= numbers[k]
    OBVIOUS
  <2>1. CASE k <= place
    <3>1. k - 1 \in 0 .. place - 1 /\ (k - 1) + 1 = k
      BY <1>2, <2>1
    <3> QED BY <1>1, <3>1 DEF PassSoFar
  <2>2. CASE k > place
    BY <1>2, <2>2 DEF LargestLast
  <2> QED BY <1>2, <2>1, <2>2
<1>6. Sort!SortedInTheEnd'
  BY <1>1, <1>5 DEF Sort!SortedInTheEnd, Sort!Occurrences
<1>7. PassSoFar' /\ sorting' # "none" /\ pass' < size'
  BY <1>1, <1>2 DEF PassSoFar
<1> QED BY <1>3, <1>4, <1>6, <1>7

LEMMA SortOuterEnds == ASSUME SortInv, Sort!OuterEnds PROVE SortInv'
<1> USE SortAssumption DEF SortInv
<1>1. /\ sorting = "outer" /\ sorting' = "sorted" /\ pass >= size - 1
      /\ UNCHANGED <<input, numbers, size, pass, place, swapped>>
      /\ pass \in Nat /\ size \in Nat
  BY DEF Sort!OuterEnds, Sort!Goto, Sort!TypeOK
<1>2. \A k \in 1 .. size - 1 : numbers[k - 1] <= numbers[k]
  BY <1>1 DEF LargestLast
<1> QED BY <1>1, <1>2 DEF Sort!TypeOK, LargestLast, PassSoFar, Sort!SortedInTheEnd,
        Sort!Occurrences

LEMMA SortNext == ASSUME SortInv, Sort!Next \/ UNCHANGED sorts PROVE SortInv'
<1>1. CASE UNCHANGED sorts
  BY <1>1 DEF sorts, SortInv, Sort!TypeOK, LargestLast, PassSoFar,
     Sort!SortedInTheEnd, Sort!Occurrences
<1> QED BY <1>1, SortStart, SortOuter, SortInner, SortInnerEnds, SortOuterEnds
        DEF Sort!Next, Sort!bubble_sort

\* bubble_sort sorts any number of numbers, and neither loses nor doubles one at
\* any moment; a pass without an exchange is rightly taken for the last.
THEOREM SortIsOne == Spec => []SortedInTheEnd
<1> DEFINE Inv == Checks(7) => SortInv
<1>1. Init => Inv
  BY SortInit DEF Init
<1>2. Inv /\ [Next]_allvars => Inv'
  BY StepOfOne, SortNext
<1>3. Inv => SortedInTheEnd
  BY DEF SortedInTheEnd, SortInv
<1> QED BY <1>1, <1>2, <1>3, PTL DEF Spec

---------------------------------------------------------------------------
(* Sums.                                                                   *)

\* A set of numbers that has 0 and every successor has all the numbers. (The
\* library's induction takes an operator; a least counterexample does not.)
LEMMA AllUpTo ==
  ASSUME NEW n \in Nat, NEW S, 0 \in S,
         \A k \in Nat : k < n /\ k \in S => k + 1 \in S
  PROVE  \A k \in 0 .. n : k \in S
<1> DEFINE Missing == {k \in 0 .. n : k \notin S}
<1> SUFFICES ASSUME Missing # {} PROVE FALSE
  OBVIOUS
<1>1. Missing \subseteq Nat
  OBVIOUS
<1>2. PICK m \in Missing : \A k \in Missing : ~ (<<k, m>> \in OpToRel(<, Nat))
  <2> HIDE DEF Missing
  <2> QED BY <1>1, NatLessThanWellFounded, WFMin
<1>3. m \in Nat /\ m # 0 /\ m <= n /\ m \notin S
  OBVIOUS
<1>4. m - 1 \notin Missing
  <2> HIDE DEF Missing
  <2>1. m - 1 \in Missing => <<m - 1, m>> \in OpToRel(<, Nat)
    BY <1>1, <1>3 DEF OpToRel
  <2> QED BY <1>2, <2>1
<1>5. m - 1 \in S /\ m - 1 \in Nat /\ m - 1 < n /\ (m - 1) + 1 = m
  BY <1>3, <1>4
<1> QED BY <1>3, <1>5

\* A set of numbers that is not empty has a least one.
LEMMA LeastOne ==
  ASSUME NEW S, S \subseteq Nat, S # {} PROVE \E m \in S : \A k \in S : m <= k
<1>1. PICK m \in S : \A k \in S : ~ (<<k, m>> \in OpToRel(<, Nat))
  BY NatLessThanWellFounded, WFMin
<1>2. ASSUME NEW k \in S PROVE m <= k
  <2>1. k \in Nat /\ m \in Nat
    OBVIOUS
  <2>2. k < m => <<k, m>> \in OpToRel(<, Nat)
    BY <2>1 DEF OpToRel
  <2>3. ~ (k < m)
    BY <1>1, <2>2
  <2> QED BY <2>1, <2>3
<1> QED BY <1>2

\* Sums is a function: the sum up to each number is there.
LEMMA SumsExist ==
  ASSUME NEW f, NEW n \in Nat
  PROVE  Adding!Sums(f, n) =
           [m \in 0 .. n |-> IF m = 0 THEN 0 ELSE Adding!Sums(f, n)[m - 1] + f[m]]
<1> DEFINE Adds(k, u) ==
             u = [m \in 0 .. k |-> IF m = 0 THEN 0 ELSE u[m - 1] + f[m]]
           S == {k \in 0 .. n : \E u : Adds(k, u)}
<1>1. 0 \in S
  <2>1. Adds(0, [m \in 0 .. 0 |-> 0])
    OBVIOUS
  <2> HIDE DEF Adds
  <2>2. 0 \in 0 .. n
    OBVIOUS
  <2> QED BY <2>1, <2>2
<1>2. ASSUME NEW k \in Nat, k < n, k \in S
      PROVE  k + 1 \in S
  <2>1. PICK u : Adds(k, u)
    BY <1>2
  <2> DEFINE g == [m \in 0 .. k + 1 |-> IF m = k + 1 THEN u[k] + f[k + 1] ELSE u[m]]
  <2>2. ASSUME NEW m \in 0 .. k + 1
        PROVE  g[m] = IF m = 0 THEN 0 ELSE g[m - 1] + f[m]
    <3> HIDE DEF S
    <3>1. CASE m = k + 1
      <4>1. m # 0 /\ m - 1 = k /\ k # k + 1 /\ k \in 0 .. k + 1
        BY <1>2, <3>1
      <4>2. g[k] = u[k] /\ g[m] = u[k] + f[k + 1]
        BY <3>1, <4>1
      <4> QED BY <3>1, <4>1, <4>2
    <3>2. CASE m # k + 1
      <4>1. m \in 0 .. k
        BY <1>2, <3>2
      <4>2. g[m] = u[m]
        BY <3>2
      <4>3. u[m] = IF m = 0 THEN 0 ELSE u[m - 1] + f[m]
        BY <2>1, <4>1
      <4>4. m # 0 => g[m - 1] = u[m - 1]
        BY <1>2, <4>1
      <4> QED BY <4>2, <4>3, <4>4
    <3> QED BY <3>1, <3>2
  <2>3. g = [m \in 0 .. k + 1 |-> g[m]]
    OBVIOUS
  <2> HIDE DEF g
  <2>4. Adds(k + 1, g)
    BY <2>2, <2>3
  <2> HIDE DEF Adds
  <2> QED BY <1>2, <2>4
<1>3. PICK u : Adds(n, u)
  <2> HIDE DEF Adds
  <2>1. \A k \in 0 .. n : k \in S
    <3> HIDE DEF S
    <3> QED BY <1>1, <1>2, AllUpTo
  <2> QED BY <2>1
<1> QED BY <1>3 DEF Adding!Sums

LEMMA SumsSteps ==
  ASSUME NEW f, NEW n \in Nat
  PROVE  /\ Adding!Sums(f, n)[0] = 0
         /\ \A m \in Nat : m < n =>
              Adding!Sums(f, n)[m + 1] = Adding!Sums(f, n)[m] + f[m + 1]
<1>1. ASSUME NEW m \in 0 .. n
      PROVE  Adding!Sums(f, n)[m] = IF m = 0 THEN 0 ELSE Adding!Sums(f, n)[m - 1] + f[m]
  BY SumsExist
<1>2. 0 \in 0 .. n /\ \A m \in Nat : m < n => m + 1 \in 0 .. n /\ m + 1 # 0 /\ (m + 1) - 1 = m
  OBVIOUS
<1> QED BY <1>1, <1>2

\* Sums of integers are integers.
LEMMA SumsAreInt ==
  ASSUME NEW f, NEW n \in Nat, \A m \in 1 .. n : f[m] \in Int
  PROVE  \A k \in 0 .. n : Adding!Sums(f, n)[k] \in Int
<1> DEFINE s == Adding!Sums(f, n)
           S == {k \in 0 .. n : s[k] \in Int}
<1>0. s[0] = 0 /\ \A m \in Nat : m < n => s[m + 1] = s[m] + f[m + 1]
  BY SumsSteps
<1> HIDE DEF s
<1>1. 0 \in S
  BY <1>0
<1>2. ASSUME NEW k \in Nat, k < n, k \in S
      PROVE  k + 1 \in S
  <2>1. s[k] \in Int /\ f[k + 1] \in Int /\ s[k + 1] = s[k] + f[k + 1]
    BY <1>0, <1>2
  <2> QED BY <1>2, <2>1
<1>3. \A k \in 0 .. n : k \in S
  <2> HIDE DEF S
  <2> QED BY <1>1, <1>2, AllUpTo
<1> QED BY <1>3 DEF s

\* Where two functions differ, by d, in one place at most, so do their sums from
\* there on. One of them may be longer.
LEMMA SumsDiffer ==
  ASSUME NEW f, NEW g, NEW n \in Nat, NEW m \in Nat, n <= m,
         NEW t \in Nat \ {0}, NEW d \in Int,
         \A j \in 1 .. n : f[j] \in Int /\ g[j] = IF j = t THEN f[j] + d ELSE f[j]
  PROVE  \A k \in 0 .. n :
           Adding!Sums(g, m)[k] = Adding!Sums(f, n)[k] + IF t <= k THEN d ELSE 0
<1> DEFINE s == Adding!Sums(f, n)
           r == Adding!Sums(g, m)
           S == {k \in 0 .. n : r[k] = s[k] + IF t <= k THEN d ELSE 0}
<1>0. /\ s[0] = 0 /\ \A k \in Nat : k < n => s[k + 1] = s[k] + f[k + 1]
      /\ r[0] = 0 /\ \A k \in Nat : k < m => r[k + 1] = r[k] + g[k + 1]
      /\ \A k \in 0 .. n : s[k] \in Int
  BY SumsSteps, SumsAreInt
<1> HIDE DEF s, r
<1>1. 0 \in S
  BY <1>0
<1>2. ASSUME NEW k \in Nat, k < n, k \in S
      PROVE  k + 1 \in S
  <2>1. /\ s[k] \in Int /\ f[k + 1] \in Int
        /\ r[k] = s[k] + IF t <= k THEN d ELSE 0
        /\ s[k + 1] = s[k] + f[k + 1] /\ r[k + 1] = r[k] + g[k + 1]
        /\ g[k + 1] = IF k + 1 = t THEN f[k + 1] + d ELSE f[k + 1]
    BY <1>0, <1>2
  <2>2. r[k + 1] = s[k + 1] + IF t <= k + 1 THEN d ELSE 0
    <3>1. CASE t <= k
      BY <2>1, <3>1
    <3>2. CASE t = k + 1
      BY <2>1, <3>2
    <3>3. CASE t > k + 1
      BY <2>1, <3>3
    <3> QED BY <3>1, <3>2, <3>3
  <2> QED BY <1>2, <2>2
<1>3. \A k \in 0 .. n : k \in S
  <2> HIDE DEF S
  <2> QED BY <1>1, <1>2, AllUpTo
<1> QED BY <1>3 DEF s, r

\* Where one summand grows by d, so does the sum.
LEMMA TotalGrows ==
  ASSUME NEW f, NEW g, NEW n \in Nat, NEW t \in 1 .. n, NEW d \in Int,
         \A j \in 1 .. n : f[j] \in Int /\ g[j] = IF j = t THEN f[j] + d ELSE f[j]
  PROVE  Adding!Total(g, n) = Adding!Total(f, n) + d
<1>1. Adding!Sums(g, n)[n] = Adding!Sums(f, n)[n] + IF t <= n THEN d ELSE 0
  <2>1. t \in Nat \ {0} /\ n <= n /\ n \in 0 .. n
    OBVIOUS
  <2> QED BY <2>1, SumsDiffer
<1> QED BY <1>1 DEF Adding!Total

\* A sum of zeros is zero.
LEMMA SumOfZeros ==
  ASSUME NEW f, NEW n \in Nat, \A m \in 1 .. n : f[m] = 0
  PROVE  Adding!Total(f, n) = 0
<1> DEFINE s == Adding!Sums(f, n)
           S == {k \in 0 .. n : s[k] = 0}
<1>0. s[0] = 0 /\ \A m \in Nat : m < n => s[m + 1] = s[m] + f[m + 1]
  BY SumsSteps
<1> HIDE DEF s
<1>1. 0 \in S
  BY <1>0
<1>2. ASSUME NEW k \in Nat, k < n, k \in S
      PROVE  k + 1 \in S
  <2>1. s[k] = 0 /\ f[k + 1] = 0 /\ s[k + 1] = s[k] + f[k + 1]
    BY <1>0, <1>2
  <2> QED BY <1>2, <2>1
<1>3. \A k \in 0 .. n : k \in S
  <2> HIDE DEF S
  <2> QED BY <1>1, <1>2, AllUpTo
<1> QED BY <1>3 DEF s, Adding!Total

---------------------------------------------------------------------------
(* The shared counter and the files that are added up.                     *)

\* Only the owner of the mutex is between its load and its store.
InsideLocked ==
  \A t \in Adding!Threads :
    adder[t] \in {"load", "store"} => lock = t /\ adding = "mutex"

\* A thread's sum is that of the lines it has read.
SumOfRead ==
  adding = "files" =>
    \A t \in Adding!Threads :
      IF Files[t] = NoFile THEN sum[t] = 0
      ELSE /\ i[t] <= Len(Files[t])
           /\ sum[t] = Adding!Sums(Files[t], Len(Files[t]))[i[t]]
           /\ adder[t] = "exited" => i[t] = Len(Files[t])

\* main's is that of the threads it has joined.
SumOfJoined ==
  adding = "files" => total_sum = Adding!Sums(Adding!Contents, NUM_THREADS)[joined]

\* A thread that is not there has read nothing, and main has not come past it.
NotThere ==
  \A t \in Adding!Threads :
    /\ adder[t] \in {"none", "unborn"} => i[t] = 0 /\ sum[t] = 0
    /\ joiner = "create" /\ t > created => adder[t] = "none"

\* main creates all threads before it joins the first.
CreatesThenJoins ==
  /\ joiner = "create" => created < NUM_THREADS /\ joined = 0
  /\ joiner = "join" => created = NUM_THREADS /\ joined < NUM_THREADS
  /\ joiner = "done" => joined = NUM_THREADS

AddingInv ==
  /\ Adding!TypeOK
  /\ adding = "none" => Adding!Init
  /\ InsideLocked /\ SumOfRead /\ SumOfJoined /\ NotThere /\ CreatesThenJoins
  /\ Adding!NothingLost

LEMMA AddingInit == ASSUME Adding!Init PROVE AddingInv
<1>1. Adding!TypeOK
  BY AddingAssumption DEF Adding!Init, Adding!TypeOK, Adding!Threads
<1> QED BY <1>1 DEF Adding!Init, AddingInv, InsideLocked, SumOfRead, SumOfJoined,
        NotThere, CreatesThenJoins, Adding!NothingLost

\* There is as much to read while no thread fails to be created.
LEMMA ContentsStay ==
  ASSUME \A t \in Adding!Threads : adder'[t] = "unborn" <=> adder[t] = "unborn"
  PROVE  Adding!Contents' = Adding!Contents
BY DEF Adding!Contents

\* The total is exact when the last thread is joined.
LEMMA AddingInvImplies ==
  ASSUME AddingInv PROVE Adding!TypeOK /\ Adding!NothingLost /\ Adding!TotalIsExact
BY DEF AddingInv, SumOfJoined, CreatesThenJoins, Adding!TotalIsExact, Adding!Total

\* What a turn adds, and that turns amount to integers.
LEMMA TurnAdds ==
  ASSUME NEW n \in Nat
  PROVE  /\ Adding!Step(n) \in Int /\ Adding!Added(n) \in Int
         /\ Adding!Added(n + 1) = Adding!Added(n) + Adding!Step(n)
BY DEF Adding!Step, Adding!Added

\* A whole turn, which leaves the counter with one more step in it.
LEMMA TurnCounts ==
  ASSUME AddingInv, adding \in {"mutex", "atomic"}, NEW t \in Adding!Threads,
         counter' = counter + Adding!Step(i[t]),
         i' = [i EXCEPT ![t] = @ + 1]
  PROVE  counter' \in Int
         /\ counter' = Adding!Total([u \in Adding!Threads |-> Adding!Added(i'[u])],
                                    NUM_THREADS)
<1> DEFINE f == [u \in Adding!Threads |-> Adding!Added(i[u])]
           g == [u \in Adding!Threads |-> Adding!Added(i'[u])]
<1>1. /\ NUM_THREADS \in Nat /\ t \in 1 .. NUM_THREADS /\ counter \in Int
      /\ \A u \in Adding!Threads : i[u] \in Nat
      /\ \A u \in Adding!Threads : i'[u] = IF u = t THEN i[u] + 1 ELSE i[u]
  BY AddingAssumption DEF AddingInv, Adding!TypeOK, Adding!Threads
<1>2. PICK d \in Int : d = Adding!Step(i[t])
  BY <1>1, TurnAdds
<1>3. \A u \in 1 .. NUM_THREADS : f[u] \in Int /\ g[u] = IF u = t THEN f[u] + d ELSE f[u]
  BY <1>1, <1>2, TurnAdds DEF Adding!Threads
<1>4. counter = Adding!Total(f, NUM_THREADS)
  BY DEF AddingInv, Adding!NothingLost
<1> HIDE DEF f, g
<1>5. Adding!Total(g, NUM_THREADS) = Adding!Total(f, NUM_THREADS) + d
  <2>1. t \in 1 .. NUM_THREADS /\ NUM_THREADS \in Nat
    BY <1>1
  <2> QED BY <2>1, <1>3, TotalGrows, ZenonT(30)
<1> QED BY <1>1, <1>2, <1>4, <1>5 DEF g

\* The loop of the two counters.
LEMMA LoopInv ==
  ASSUME AddingInv, NEW t \in Adding!Threads,
         Adding!Lock(t) \/ Adding!thread_function(t)
  PROVE  AddingInv'
<1>0. /\ Adding!TypeOK /\ InsideLocked /\ CreatesThenJoins /\ Adding!NothingLost
      /\ NotThere
      /\ t \in Adding!Threads /\ None \notin Adding!Threads
  BY AddingAssumption DEF AddingInv, Adding!Threads
<1>1. CASE Adding!Lock(t)
  BY <1>0, <1>1 DEF AddingInv, Adding!Lock, Adding!Goto, Adding!TypeOK, Adding!mains,
     InsideLocked, SumOfRead, SumOfJoined, NotThere, CreatesThenJoins,
     Adding!NothingLost
<1>2. CASE Adding!Load(t)
  BY <1>0, <1>2 DEF AddingInv, Adding!Load, Adding!Goto, Adding!TypeOK, Adding!mains,
     InsideLocked, SumOfRead, SumOfJoined, NotThere, CreatesThenJoins,
     Adding!NothingLost
<1>3. CASE Adding!Store(t)
  <2>1. /\ adding = "mutex" /\ adder[t] = "store" /\ adding' = adding
        /\ register[t] = counter /\ lock = t
        /\ counter' = counter + Adding!Step(i[t])
        /\ i' = [i EXCEPT ![t] = @ + 1] /\ lock' = None
        /\ adder' = [adder EXCEPT ![t] = "loop"]
        /\ register' = [register EXCEPT ![t] = 0]
        /\ UNCHANGED <<sum, joiner, created, joined, total_sum>>
    BY <1>0, <1>3 DEF Adding!Store, Adding!Goto, Adding!NothingLost, Adding!mains
  <2>2. counter' \in Int
        /\ counter' = Adding!Total([u \in Adding!Threads |-> Adding!Added(i'[u])],
                                   NUM_THREADS)
    BY <2>1, TurnCounts
  <2>3. Adding!TypeOK'
    BY <1>0, <2>1, <2>2 DEF Adding!TypeOK
  <2>4. InsideLocked' /\ CreatesThenJoins' /\ \A u \in Adding!Threads : adder'[u] # "store"
    BY <1>0, <2>1 DEF InsideLocked, CreatesThenJoins, Adding!TypeOK
  <2>5. Adding!NothingLost'
    BY <2>1, <2>2, <2>4 DEF Adding!NothingLost
  <2>6. NotThere'
    BY <1>0, <2>1 DEF NotThere, Adding!TypeOK
  <2> QED BY <2>1, <2>3, <2>4, <2>5, <2>6 DEF AddingInv, SumOfRead, SumOfJoined
<1>4. CASE Adding!FetchAdd(t)
  <2>1. /\ adding = "atomic" /\ adder[t] = "loop" /\ adding' = adding
        /\ counter' = counter + Adding!Step(i[t])
        /\ i' = [i EXCEPT ![t] = @ + 1]
        /\ adder' = adder
        /\ UNCHANGED <<register, lock, sum, joiner, created, joined, total_sum>>
    BY <1>0, <1>4 DEF Adding!FetchAdd, Adding!Goto, Adding!TypeOK, Adding!mains
  <2>2. counter' \in Int
        /\ counter' = Adding!Total([u \in Adding!Threads |-> Adding!Added(i'[u])],
                                   NUM_THREADS)
    BY <2>1, TurnCounts
  <2>3. Adding!TypeOK'
    BY <1>0, <2>1, <2>2 DEF Adding!TypeOK
  <2>4. InsideLocked' /\ CreatesThenJoins' /\ \A u \in Adding!Threads : adder'[u] # "store"
    BY <1>0, <2>1 DEF InsideLocked, CreatesThenJoins, Adding!TypeOK
  <2>5. Adding!NothingLost'
    BY <2>1, <2>2, <2>4 DEF Adding!NothingLost
  <2>6. NotThere'
    BY <1>0, <2>1 DEF NotThere, Adding!TypeOK
  <2> QED BY <2>1, <2>3, <2>4, <2>5, <2>6 DEF AddingInv, SumOfRead, SumOfJoined
<1>5. CASE Adding!LoopEnds(t)
  BY <1>0, <1>5 DEF AddingInv, Adding!LoopEnds, Adding!Goto, Adding!TypeOK, Adding!mains,
     InsideLocked, SumOfRead, SumOfJoined, NotThere, CreatesThenJoins,
     Adding!NothingLost
<1> QED BY <1>1, <1>2, <1>3, <1>4, <1>5 DEF Adding!thread_function

\* The lines of a file are integers, and so are their sums.
LEMMA FileSums ==
  ASSUME NEW t \in Adding!Threads, Files[t] # NoFile
  PROVE  /\ Len(Files[t]) \in Nat
         /\ \A m \in 1 .. Len(Files[t]) : Files[t][m] \in Int
         /\ \A m \in 0 .. Len(Files[t]) :
              Adding!Sums(Files[t], Len(Files[t]))[m] \in Int
<1>1. PICK f \in Seq(Int) : f = Files[t]
  BY AddingAssumption DEF Adding!Threads
<1>2. Len(f) \in Nat /\ \A m \in 1 .. Len(f) : f[m] \in Int
  OBVIOUS
<1>3. \A m \in 0 .. Len(f) : Adding!Sums(f, Len(f))[m] \in Int
  BY <1>2, SumsAreInt
<1> QED BY <1>1, <1>2, <1>3

\* A thread that reads its file.
LEMMA FileInv ==
  ASSUME AddingInv, NEW t \in Adding!Threads, Adding!sum_file(t)
  PROVE  AddingInv'
<1>0. /\ Adding!TypeOK /\ InsideLocked /\ CreatesThenJoins
      /\ SumOfRead /\ SumOfJoined /\ NotThere /\ t \in Adding!Threads
  BY DEF AddingInv
<1>1. CASE Adding!CannotOpen(t)
  <2>1. Adding!Contents' = Adding!Contents
    BY <1>0, <1>1, ContentsStay DEF Adding!CannotOpen, Adding!Goto, Adding!TypeOK
  <2> QED BY <1>0, <1>1, <2>1 DEF AddingInv, Adding!CannotOpen, Adding!Goto, Adding!TypeOK,
          Adding!mains, InsideLocked, SumOfRead, SumOfJoined, NotThere,
          CreatesThenJoins, Adding!NothingLost
<1>2. CASE Adding!EndOfFile(t)
  <2>1. Adding!Contents' = Adding!Contents
    BY <1>0, <1>2, ContentsStay DEF Adding!EndOfFile, Adding!Goto, Adding!TypeOK
  <2> QED BY <1>0, <1>2, <2>1 DEF AddingInv, Adding!EndOfFile, Adding!Goto, Adding!TypeOK,
          Adding!mains, InsideLocked, SumOfRead, SumOfJoined, NotThere,
          CreatesThenJoins, Adding!NothingLost
<1>3. CASE Adding!ReadLine(t)
  <2>1. /\ adding = "files" /\ adding' = adding /\ adder[t] = "loop" /\ adder' = adder
        /\ Files[t] # NoFile /\ i[t] < Len(Files[t])
        /\ sum' = [sum EXCEPT ![t] = @ + Files[t][i[t] + 1]]
        /\ i' = [i EXCEPT ![t] = @ + 1]
        /\ UNCHANGED <<register, counter, lock, joiner, created, joined, total_sum>>
    BY <1>0, <1>3 DEF Adding!ReadLine, Adding!Goto, Adding!TypeOK, Adding!mains
  <2>2. PICK k \in Nat : k = i[t]
    BY <1>0 DEF Adding!TypeOK
  <2>3. /\ Len(Files[t]) \in Nat /\ k + 1 \in 1 .. Len(Files[t])
        /\ Files[t][k + 1] \in Int
        /\ sum[t] \in Int
        /\ sum[t] = Adding!Sums(Files[t], Len(Files[t]))[k]
    BY <1>0, <2>1, <2>2, FileSums DEF SumOfRead, Adding!TypeOK
  <2>4. /\ sum'[t] = sum[t] + Files[t][k + 1] /\ i'[t] = k + 1
        /\ sum'[t] = Adding!Sums(Files[t], Len(Files[t]))[k + 1]
    BY <1>0, <2>1, <2>2, <2>3, SumsSteps DEF Adding!TypeOK
  <2>5. sum'[t] \in Int /\ i'[t] \in Nat /\ i'[t] <= Len(Files[t])
    BY <2>3, <2>4
  <2>6. \A u \in Adding!Threads : u # t => sum'[u] = sum[u] /\ i'[u] = i[u]
    BY <1>0, <2>1 DEF Adding!TypeOK
  <2>7. Adding!TypeOK'
    BY <1>0, <2>1, <2>5, <2>6 DEF Adding!TypeOK
  <2>8. SumOfRead'
    BY <1>0, <2>1, <2>4, <2>5, <2>6 DEF SumOfRead
  <2>9. Adding!Contents' = Adding!Contents
    BY <2>1, ContentsStay
  <2>10. NotThere'
    BY <1>0, <2>1, <2>6 DEF NotThere
  <2> QED BY <1>0, <2>1, <2>7, <2>8, <2>9, <2>10 DEF AddingInv, InsideLocked, SumOfJoined,
             CreatesThenJoins, Adding!NothingLost
<1> QED BY <1>1, <1>2, <1>3 DEF Adding!sum_file

\* When the process ends, what has been added up is what it was.
LEMMA KilledInv ==
  ASSUME AddingInv, joiner \in {"create", "join"}, joiner' = "failed",
         adder' = Adding!Killed,
         UNCHANGED <<adding, i, register, counter, lock, sum, created, joined, total_sum>>
  PROVE  AddingInv'
<1>0. /\ Adding!TypeOK /\ SumOfRead /\ SumOfJoined /\ NotThere /\ Adding!NothingLost
      /\ adding # "none"
  BY DEF AddingInv, Adding!Init
<1>1. /\ adder' \in [Adding!Threads -> {"unborn", "killed"}]
      /\ \A t \in Adding!Threads : adder'[t] = "unborn" <=> adder[t] = "unborn"
  BY DEF Adding!Killed
<1>2. Adding!Contents' = Adding!Contents
  BY <1>1, ContentsStay
<1>3. Adding!TypeOK'
  BY <1>0, <1>1 DEF Adding!TypeOK
<1>4. InsideLocked' /\ NotThere' /\ CreatesThenJoins'
  BY <1>0, <1>1 DEF InsideLocked, NotThere, CreatesThenJoins
<1>5. SumOfRead' /\ SumOfJoined' /\ Adding!NothingLost'
  BY <1>0, <1>1, <1>2 DEF SumOfRead, SumOfJoined, Adding!NothingLost
<1> QED BY <1>0, <1>3, <1>4, <1>5 DEF AddingInv

\* A thread that main joins has read the whole of its file, or was never there.
LEMMA JoinInv == ASSUME AddingInv, Adding!Join \/ Adding!JoinUnborn PROVE AddingInv'
<1>0. /\ Adding!TypeOK /\ InsideLocked /\ CreatesThenJoins
      /\ SumOfRead /\ SumOfJoined /\ NotThere /\ NUM_THREADS \in Nat
  BY AddingAssumption DEF AddingInv
<1>1. CASE /\ joiner = "join" /\ adder[joined + 1] \in {"exited", "unborn"}
           /\ joined' = joined + 1 /\ total_sum' = total_sum + sum[joined + 1]
           /\ joiner' = IF joined + 1 = NUM_THREADS THEN "done" ELSE "join"
           /\ UNCHANGED <<adding, adder, i, register, counter, lock, sum, created>>
  <2>1. /\ joined \in Nat /\ joined < NUM_THREADS /\ created = NUM_THREADS
        /\ joined + 1 \in Adding!Threads
    BY <1>0, <1>1 DEF Adding!TypeOK, CreatesThenJoins, Adding!Threads
  <2>2. Adding!TypeOK' /\ CreatesThenJoins'
    BY <1>0, <1>1, <2>1 DEF Adding!TypeOK, CreatesThenJoins
  <2>3. SumOfJoined'
    <3>1. ASSUME adding = "files"
          PROVE  sum[joined + 1] = Adding!Contents[joined + 1]
      BY <1>0, <1>1, <2>1, <3>1 DEF SumOfRead, NotThere, Adding!Contents, Adding!Total
    <3>2. Adding!Sums(Adding!Contents, NUM_THREADS)[joined + 1] =
            Adding!Sums(Adding!Contents, NUM_THREADS)[joined] + Adding!Contents[joined + 1]
      BY <1>0, <2>1, SumsSteps
    <3>3. Adding!Contents' = Adding!Contents
      BY <1>1, ContentsStay
    <3> QED BY <1>0, <1>1, <3>1, <3>2, <3>3 DEF SumOfJoined
  <2>4. InsideLocked' /\ SumOfRead' /\ NotThere' /\ Adding!NothingLost'
    BY <1>0, <1>1 DEF AddingInv, InsideLocked, SumOfRead, NotThere, Adding!NothingLost
  <2> QED BY <1>1, <2>2, <2>3, <2>4 DEF AddingInv, Adding!Init
<1>2. CASE /\ joiner = "join" /\ joiner' = "failed" /\ adder' = Adding!Killed
           /\ UNCHANGED <<adding, i, register, counter, lock, sum, created, joined,
                          total_sum>>
  BY <1>2, KilledInv
<1> QED BY <1>1, <1>2 DEF Adding!Join, Adding!JoinUnborn

LEMMA AddingNext ==
  ASSUME AddingInv, Adding!Next \/ UNCHANGED adds PROVE AddingInv'
<1>0. /\ Adding!TypeOK /\ InsideLocked /\ CreatesThenJoins
      /\ SumOfRead /\ SumOfJoined /\ NotThere /\ NUM_THREADS \in Nat \ {0}
  BY AddingAssumption DEF AddingInv
<1>1. CASE \E p \in {"mutex", "atomic", "files"} : Adding!Start(p)
  <2>1. PICK p \in {"mutex", "atomic", "files"} : Adding!Start(p)
    BY <1>1
  <2>2. /\ Adding!Init /\ adding' = p /\ joiner' = "create"
        /\ UNCHANGED <<adder, i, register, counter, lock, sum, created, joined, total_sum>>
    BY <2>1 DEF Adding!Start, AddingInv
  <2>3. Adding!TypeOK' /\ InsideLocked' /\ NotThere' /\ CreatesThenJoins'
    BY <1>0, <2>2 DEF Adding!TypeOK, InsideLocked, NotThere, CreatesThenJoins, Adding!Init
  <2>4. Adding!NothingLost'
    <3> DEFINE f == [t \in Adding!Threads |-> Adding!Added(i'[t])]
    <3>1. \A t \in 1 .. NUM_THREADS : f[t] = 0
      <4>1. Adding!Added(0) = 0
        BY DEF Adding!Added
      <4> QED BY <2>2, <4>1 DEF Adding!Init, Adding!Threads
    <3>2. Adding!Total(f, NUM_THREADS) = 0
      <4> HIDE DEF f
      <4> QED BY <1>0, <3>1, SumOfZeros
    <3> QED BY <2>2, <3>2 DEF Adding!NothingLost, Adding!Init
  <2>5. SumOfRead' /\ SumOfJoined'
    <3>1. \A t \in Adding!Threads : Files[t] # NoFile =>
            /\ 0 <= Len(Files[t])
            /\ Adding!Sums(Files[t], Len(Files[t]))[0] = 0
      BY FileSums, SumsSteps
    <3>2. Adding!Sums(Adding!Contents, NUM_THREADS)[0] = 0
      BY <1>0, SumsSteps
    <3>3. Adding!Contents' = Adding!Contents
      BY <2>2, ContentsStay
    <3> QED BY <2>2, <3>1, <3>2, <3>3 DEF Adding!Init, SumOfRead, SumOfJoined
  <2> QED BY <2>2, <2>3, <2>4, <2>5 DEF AddingInv
<1>2. CASE Adding!Create \/ Adding!CreateUnnoticed
  <2>1. PICK there \in {"loop", "unborn"} :
          adder' = [adder EXCEPT ![created + 1] = there]
    BY <1>2 DEF Adding!Create, Adding!CreateUnnoticed
  <2>2. /\ joiner = "create" /\ created < NUM_THREADS /\ created' = created + 1
        /\ joined = 0 /\ created \in Nat
        /\ joiner' = IF created + 1 = NUM_THREADS THEN "join" ELSE "create"
        /\ UNCHANGED <<adding, i, register, counter, lock, sum, joined, total_sum>>
        /\ adding # "none"
    BY <1>0, <1>2 DEF Adding!Create, Adding!CreateUnnoticed, CreatesThenJoins,
       Adding!TypeOK, AddingInv, Adding!Init
  <2>3. PICK c \in 1 .. NUM_THREADS : c = created + 1
    BY <1>0, <2>2
  <2>4. /\ created' = c /\ joined' = 0 /\ joined' \in 0 .. created'
        /\ created' \in 0 .. NUM_THREADS
        /\ joiner' \in {"create", "join"}
        /\ joiner' = "create" => c # NUM_THREADS
        /\ joiner' = "join" => c = NUM_THREADS
    BY <1>0, <2>2, <2>3
  <2>5. /\ c \in Adding!Threads /\ adder[c] = "none"
        /\ adder' = [adder EXCEPT ![c] = there]
        /\ \A t \in Adding!Threads : adder'[t] = IF t = c THEN there ELSE adder[t]
    BY <1>0, <2>1, <2>2, <2>3 DEF NotThere, Adding!Threads, Adding!TypeOK
  <2>6. Adding!TypeOK'
    BY <1>0, <2>2, <2>4, <2>5 DEF Adding!TypeOK
  <2>7. CreatesThenJoins'
    BY <1>0, <2>4 DEF CreatesThenJoins
  <2>8. InsideLocked' /\ SumOfRead' /\ Adding!NothingLost'
    BY <1>0, <2>2, <2>5 DEF AddingInv, InsideLocked, SumOfRead, Adding!NothingLost
  <2>9. NotThere'
    BY <1>0, <2>2, <2>3, <2>4, <2>5 DEF NotThere, Adding!Threads
  <2>10. SumOfJoined'
    <3>1. /\ Adding!Sums(Adding!Contents, NUM_THREADS)[0] = 0
          /\ Adding!Sums(Adding!Contents', NUM_THREADS)[0] = 0
      BY <1>0, SumsSteps
    <3> QED BY <1>0, <2>2, <2>4, <3>1 DEF SumOfJoined
  <2> QED BY <2>2, <2>6, <2>7, <2>8, <2>9, <2>10 DEF AddingInv
<1>3. CASE Adding!CreateFails
  BY <1>3, KilledInv DEF Adding!CreateFails
<1>4. CASE UNCHANGED adds
  <2>1. Adding!Contents' = Adding!Contents
    BY <1>4, ContentsStay DEF adds
  <2> QED BY <1>4, <2>1 DEF adds, AddingInv, Adding!TypeOK, Adding!Init, InsideLocked,
          SumOfRead, SumOfJoined, NotThere, CreatesThenJoins, Adding!NothingLost
<1> QED BY <1>1, <1>2, <1>3, <1>4, LoopInv, FileInv, JoinInv DEF Adding!Next

\* However many threads there are, however often they turn and whatever is in the
\* files: under the mutex, with the atomic operations and through the joins
\* nothing that is added is lost.
THEOREM NoAdditionIsLost == Spec => []NothingLost
<1> DEFINE Inv == Checks(4) => AddingInv
<1>1. Init => Inv
  BY AddingInit DEF Init
<1>2. Inv /\ [Next]_allvars => Inv'
  BY StepOfOne, AddingNext
<1>3. Inv => NothingLost
  BY AddingInvImplies DEF NothingLost, AddingInv
<1> QED BY <1>1, <1>2, <1>3, PTL DEF Spec

---------------------------------------------------------------------------
(* The programs that fork.                                                 *)

\* What a child of string_shift_right starts from is where the character two
\* places before ended up, counted around.
LEMMA OnePlaceBefore ==
  ASSUME NEW n \in Nat \ {0}, NEW k \in 1 .. n, NEW j \in 1 .. n,
         j = IF k > 2 THEN k - 2 ELSE IF n = 1 THEN 1 ELSE k + n - 2
  PROVE  /\ (j + 1) % n = k - 1
         /\ \A x \in 1 .. n : (x + 1) % n = k - 1 => x = j
<1>1. ASSUME NEW x \in 1 .. n
      PROVE  (x + 1) % n = IF x + 1 < n THEN x + 1 ELSE IF n = 1 THEN 0 ELSE x + 1 - n
  OBVIOUS
<1> QED BY <1>1

\* The string that is made is the old one with its last two characters in front.
LEMMA ShiftedIsRotation ==
  ASSUME NEW s \in Seq(Nat)
  PROVE  LET m == Len(s) - (IF s = <<>> THEN 0 ELSE 2 % Len(s))
         IN Forked!Shifted(s) = SubSeq(s, m + 1, Len(s)) \o SubSeq(s, 1, m)
<1>1. PICK n \in Nat : n = Len(s)
  OBVIOUS
<1>2. /\ s = <<>> => n = 0
      /\ n = 0 => s = <<>>
      /\ \A j \in 1 .. n : s[j] \in Nat
  BY <1>1
<1>3. PICK m \in 0 .. n :
        /\ m = n - (IF s = <<>> THEN 0 ELSE 2 % n)
        /\ m = IF n = 0 THEN 0 ELSE IF n = 1 THEN 1 ELSE IF n = 2 THEN 2 ELSE n - 2
  <2>1. CASE n = 0
    BY <1>2, <2>1
  <2>2. CASE n = 1
    BY <1>2, <2>2
  <2>3. CASE n = 2
    BY <1>2, <2>3
  <2>4. CASE n > 2
    <3>1. 2 % n = 2 /\ n # 0 /\ n # 1 /\ n # 2 /\ n - 2 \in 0 .. n
      BY <2>4
    <3> QED BY <1>2, <3>1
  <2> QED BY <2>1, <2>2, <2>3, <2>4
<1>4. PICK f : f = SubSeq(s, m + 1, n)
  OBVIOUS
<1>5. PICK b : b = SubSeq(s, 1, m)
  OBVIOUS
<1>6. /\ f \in Seq(Nat) /\ Len(f) = n - m
      /\ \A j \in 1 .. n - m : f[j] = s[m + j]
  BY <1>2, <1>4, SubSeqProperties
<1>7. b \in Seq(Nat) /\ Len(b) = m /\ \A j \in 1 .. m : b[j] = s[j]
  BY <1>2, <1>5, SubSeqProperties
<1>8. /\ f \o b \in Seq(Nat) /\ Len(f \o b) = n
      /\ \A j \in 1 .. n : (f \o b)[j] = IF j <= n - m THEN s[m + j] ELSE s[j - (n - m)]
  <2>1. /\ f \o b \in Seq(Nat) /\ Len(f \o b) = Len(f) + Len(b)
        /\ \A j \in 1 .. Len(f) + Len(b) :
             (f \o b)[j] = IF j <= Len(f) THEN f[j] ELSE b[j - Len(f)]
    BY <1>6, <1>7, ConcatProperties
  <2> QED BY <1>6, <1>7, <2>1
<1>9. Forked!Shifted(s) = [k \in 1 .. n |-> s[CHOOSE j \in 1 .. n : (j + 1) % n = k - 1]]
  BY <1>1 DEF Forked!Shifted
<1>10. ASSUME NEW k \in 1 .. n
       PROVE  Forked!Shifted(s)[k] = (f \o b)[k]
  <2>0. n \in Nat \ {0}
    BY <1>10
  <2>1. PICK j : j = IF k > 2 THEN k - 2 ELSE IF n = 1 THEN 1 ELSE k + n - 2
    OBVIOUS
  <2>2. j \in 1 .. n
    BY <2>0, <2>1
  <2>3. (j + 1) % n = k - 1 /\ \A x \in 1 .. n : (x + 1) % n = k - 1 => x = j
    BY <1>10, <2>0, <2>1, <2>2, OnePlaceBefore, ZenonT(30)
  <2>4. (CHOOSE x \in 1 .. n : (x + 1) % n = k - 1) = j
    BY <2>2, <2>3
  <2>5. Forked!Shifted(s)[k] = s[j]
    BY <1>9, <2>4
  <2>6. j = IF k <= n - m THEN m + k ELSE k - (n - m)
    BY <1>2, <1>3, <2>0, <2>1
  <2>7. (f \o b)[k] = IF k <= n - m THEN s[m + k] ELSE s[k - (n - m)]
    BY <1>8, <1>10
  <2> QED BY <2>5, <2>6, <2>7
<1>11. Forked!Shifted(s) = f \o b
  <2>1. f \o b = [k \in 1 .. n |-> (f \o b)[k]]
    BY <1>8, LenProperties
  <2> QED BY <1>9, <1>10, <2>1
<1> QED BY <1>1, <1>3, <1>4, <1>5, <1>11

\* The programs, and how many children they may have.
LEMMA ProgramsAre ==
  /\ Forked!Programs = {"odds", "strings", "accumulate"}
  /\ Forked!Forks["odds"] = 2 * Eyes - 1
  /\ Forked!Forks["strings"] = Len(Argv)
  /\ Forked!Forks["accumulate"] = 1
  /\ \A p \in Forked!Programs : Forked!Forks[p] \in Nat
<1>1. Eyes \in Nat \ {0} /\ Len(Argv) \in Nat
  BY ForkAssumption
<1> QED BY <1>1 DEF Forked!Programs, Forked!Forks

LEMMA ChildrenAre ==
  /\ IsFiniteSet(Forked!Children)
  /\ Forked!Children \subseteq Nat \ {0}
  /\ \A p \in Forked!Programs :
       /\ 1 .. Forked!Forks[p] \subseteq Forked!Children
       /\ Forked!Forks[p] <= Cardinality(Forked!Children)
<1>1. PICK a \in Nat, b \in Nat :
        a = Forked!Forks["odds"] /\ b = Forked!Forks["strings"]
  BY ProgramsAre
<1>2. Forked!Children = ((1 .. a) \cup (1 .. b)) \cup (1 .. 1)
  BY <1>1, ProgramsAre DEF Forked!Children
<1>3. IsFiniteSet(1 .. a) /\ IsFiniteSet(1 .. b) /\ IsFiniteSet(1 .. 1)
  BY a \in Int, b \in Int, 1 \in Int, FS_Interval
<1>4. IsFiniteSet(Forked!Children)
  <2>1. IsFiniteSet((1 .. a) \cup (1 .. b))
    BY <1>3, FS_Union
  <2> QED BY <1>2, <1>3, <2>1, FS_Union
<1>5. ASSUME NEW p \in Forked!Programs
      PROVE  /\ 1 .. Forked!Forks[p] \subseteq Forked!Children
             /\ Forked!Forks[p] <= Cardinality(Forked!Children)
  <2>1. PICK n \in Nat : n = Forked!Forks[p]
    BY ProgramsAre
  <2>2. (1 .. n) \in SUBSET Forked!Children
    BY <2>1 DEF Forked!Children
  <2>3. Cardinality(1 .. n) <= Cardinality(Forked!Children)
    BY <1>4, <2>2, FS_Subset
  <2>4. Cardinality(1 .. n) = n
    <3>1. Cardinality(1 .. n) = IF 1 > n THEN 0 ELSE n - 1 + 1
      BY 1 \in Int, n \in Int, FS_Interval
    <3> QED BY <3>1
  <2> QED BY <2>1, <2>2, <2>3, <2>4
<1>6. Forked!Children \subseteq Nat \ {0}
  BY <1>2
<1> QED BY <1>4, <1>5, <1>6

\* Where the parent is in its program.
ParentIsAt ==
  /\ forking = "none" => Forked!Init
  /\ forking # "none" => parent # "none" /\ forked <= Forked!Forks[forking]
  /\ parent \in {"wait", "join", "done", "no_thread"} =>
       forked = Forked!Forks[forking]
  /\ parent = "fork" => target = forked + IF forking = "odds" THEN 1 ELSE 0
  /\ parent = "join" => forking = "accumulate"

\* Its memory, which only its thread adds to, when there is no fork to come.
MemoryIs ==
  /\ thread \in 0 .. N
  /\ memory = [strings |-> Argv, global |-> Forked!Accumulated(thread)]
  /\ thread # 0 => parent \in {"join", "done"}
  /\ parent = "done" =>
       thread = IF forking = "accumulate" THEN N ELSE 0

\* What child c has when it begins: a copy of the parent's memory, and the loop
\* variable as it was at the c-th fork.
Inherited(c) ==
  [target |-> c - 1 + IF forking = "odds" THEN 1 ELSE 0,
   memory |-> [strings |-> Argv, global |-> 0],
   shifted |-> <<>>]

ChildrenHave ==
  \A c \in Forked!Children :
    /\ c > forked => child[c] = "none"
    /\ child[c] = "running" => copied[c] = Inherited(c)
    /\ c \in Forked!Worked => copied[c] = Forked!Result(Inherited(c))

\* The children that are not collected and the waits that are over are no more
\* than the forks.
Uncollected == {c \in Forked!Children : child[c] \in {"running", "exited"}}

WaitsSuffice ==
  parent # "failed" => Cardinality(Uncollected) + waited <= forked

ForksInv ==
  /\ Forked!TypeOK
  /\ DOMAIN copied = Forked!Children
  /\ ParentIsAt /\ MemoryIs /\ ChildrenHave /\ WaitsSuffice
  /\ Forked!DoneIsLast

\* The loop of accumulate, step by step.
LEMMA AccumulatedSteps ==
  /\ Forked!Accumulated(0) = 0
  /\ \A n \in Nat : /\ Forked!Accumulated(n) \in Int
                    /\ Forked!Accumulated(n + 1) = Forked!Accumulated(n) + n
<1>1. Forked!Accumulated(0) = 0
  BY DEF Forked!Accumulated
<1>2. ASSUME NEW n \in Nat
      PROVE  /\ Forked!Accumulated(n) \in Int
             /\ Forked!Accumulated(n + 1) = Forked!Accumulated(n) + n
  <2>1. PICK p \in Int : p = n * (n - 1)
    OBVIOUS
  <2>2. (n + 1) * ((n + 1) - 1) = p + 2 * n
    BY <2>1
  <2>3. (p + 2 * n) \div 2 = p \div 2 + n /\ p \div 2 \in Int
    OBVIOUS
  <2> QED BY <2>1, <2>2, <2>3 DEF Forked!Accumulated
<1> QED BY <1>1, <1>2

\* From 1 to n it is more by n than from 0 to n - 1.
LEMMA SumToN ==
  ASSUME NEW n \in Nat
  PROVE  Forked!Accumulated(n) + n = Forked!DocumentedSum(n)
<1>1. PICK p \in Int : p = n * (n - 1)
  OBVIOUS
<1>2. n * (n + 1) = p + 2 * n
  BY <1>1
<1>3. (p + 2 * n) \div 2 = p \div 2 + n
  OBVIOUS
<1> QED BY <1>1, <1>2, <1>3 DEF Forked!Accumulated, Forked!DocumentedSum

LEMMA ForksInit == ASSUME Forked!Init PROVE ForksInv
<1>1. /\ Uncollected = {} /\ forked = 0 /\ waited = 0
      /\ \A c \in Forked!Children : child[c] = "none"
  BY DEF Forked!Init, Uncollected
<1>2. WaitsSuffice
  BY <1>1, FS_EmptySet DEF WaitsSuffice
<1>3. Forked!TypeOK
  <2>1. Cardinality(Forked!Children) \in Nat
    BY ChildrenAre, FS_CardinalityType
  <2>2. Forked!Cardinality(Forked!Children) \in Nat
    BY <2>1, SameCardinality
  <2> QED BY <2>2 DEF Forked!Init, Forked!TypeOK
<1>4. MemoryIs
  BY AccumulatedSteps, ForkAssumption DEF Forked!Init, MemoryIs
<1>5. ParentIsAt /\ Forked!DoneIsLast /\ ChildrenHave
  BY <1>1 DEF Forked!Init, ParentIsAt, Forked!DoneIsLast, ChildrenHave, Forked!Worked
<1>6. DOMAIN copied = Forked!Children
  BY DEF Forked!Init
<1> QED BY <1>2, <1>3, <1>4, <1>5, <1>6 DEF ForksInv

\* What a child that has worked has made: it has a target of its own, or its
\* string shifted, or the sum.
LEMMA WorkedHas ==
  ASSUME ForksInv, NEW c \in Forked!Worked
  PROVE  /\ c \in Forked!Children /\ forking \in Forked!Programs
         /\ c \in 1 .. Forked!Forks[forking]
         /\ forking = "odds" => copied[c].target = c + 1
         /\ forking = "strings" => copied[c].shifted = Forked!Shifted(Argv[c])
         /\ forking = "accumulate" => copied[c].memory.global = Forked!Accumulated(N)
<1>1. /\ Forked!TypeOK /\ ParentIsAt /\ ChildrenHave
      /\ c \in Forked!Children /\ child[c] \in {"exited", "collected"}
      /\ c \in Nat \ {0}
  BY ChildrenAre DEF ForksInv, Forked!Worked
<1>2. /\ child[c] # "none" /\ forked \in Int /\ c <= forked
      /\ copied[c] = Forked!Result(Inherited(c))
  <2>1. forked \in Int
    BY <1>1 DEF Forked!TypeOK
  <2> QED BY <1>1, <2>1 DEF ChildrenHave
<1>3. forking \in Forked!Programs
  BY <1>1, <1>2 DEF ParentIsAt, Forked!Init, Forked!TypeOK
<1>4. c \in 1 .. Forked!Forks[forking]
  <2>1. PICK n \in Nat : n = Forked!Forks[forking]
    BY <1>3, ProgramsAre
  <2>2. forking # "none"
    BY <1>3, ProgramsAre
  <2>3. forked <= n
    BY <1>1, <2>1, <2>2 DEF ParentIsAt
  <2> QED BY <1>1, <1>2, <2>1, <2>3
<1>5. ASSUME forking = "odds" PROVE copied[c].target = c + 1
  BY <1>1, <1>2, <1>5 DEF Forked!Result, Inherited
<1>6. ASSUME forking = "strings" PROVE copied[c].shifted = Forked!Shifted(Argv[c])
  <2>1. Inherited(c).target + 1 = c
    BY <1>1, <1>6 DEF Inherited
  <2>2. Inherited(c).memory.strings = Argv
    BY DEF Inherited
  <2>3. copied[c] = Forked!string_shift_right(Inherited(c), c)
    BY <1>2, <1>6, <2>1 DEF Forked!Result
  <2>4. Forked!string_shift_right(Inherited(c), c).shifted = Forked!Shifted(Argv[c])
    BY <2>2 DEF Forked!string_shift_right, Inherited
  <2> QED BY <2>3, <2>4
<1>7. ASSUME forking = "accumulate" PROVE copied[c].memory.global = Forked!Accumulated(N)
  <2>1. copied[c].memory.global = 0 + Forked!Accumulated(N)
    BY <1>2, <1>7 DEF Forked!Result, Inherited
  <2> QED BY <2>1, AccumulatedSteps, ForkAssumption
<1> QED BY <1>1, <1>3, <1>4, <1>5, <1>6, <1>7

LEMMA ForksInvImplies ==
  ASSUME ForksInv
  PROVE  /\ Forked!TypeOK /\ Forked!EachDoesItsOwn
         /\ Forked!DoneIsLast /\ Forked!ParentUntouched
<1> DEFINE W == Forked!Worked
<1>1. ASSUME forking = "odds"
      PROVE  LET targets == {copied[c].target : c \in W}
             IN /\ targets \subseteq 2 .. 2 * Eyes
                /\ Forked!Cardinality(targets) = Forked!Cardinality(W)
  <2>1. /\ W \subseteq Nat
        /\ \A c \in W : c \in 1 .. 2 * Eyes - 1 /\ copied[c].target = c + 1
        /\ Eyes \in Nat
    BY <1>1, WorkedHas, ProgramsAre, ForkAssumption
  <2>2. IsFiniteSet(W)
    <3>1. W \in SUBSET Forked!Children
      BY DEF Forked!Worked
    <3> QED BY <3>1, ChildrenAre, FS_Subset
  <2> DEFINE T == {copied[c].target : c \in W}
             f == [c \in W |-> c + 1]
  <2> HIDE DEF W
  <2>3. T = {c + 1 : c \in W}
    BY <2>1
  <2>4. f \in Bijection(W, T)
    <3>1. f \in [W -> T]
      BY <2>3
    <3>2. \A a, b \in W : f[a] = f[b] => a = b
      BY <2>1
    <3>3. \A t \in T : \E c \in W : f[c] = t
      BY <2>3
    <3> HIDE DEF f, T
    <3> QED BY <3>1, <3>2, <3>3, Zenon DEF Bijection, Injection, Surjection, IsInjective
  <2>5. Cardinality(T) = Cardinality(W)
    <3>1. ExistsBijection(W, T)
      <4> HIDE DEF f, T
      <4> QED BY <2>4 DEF ExistsBijection
    <3> HIDE DEF T
    <3> QED BY <2>2, <3>1, FS_Bijection
  <2>6. T \subseteq 2 .. 2 * Eyes
    BY <2>1
  <2> QED BY <2>5, <2>6, SameCardinality
<1>2. ASSUME forking = "strings", NEW c \in W
      PROVE  LET s == Argv[c]
                 m == Len(s) - (IF s = <<>> THEN 0 ELSE 2 % Len(s))
             IN copied[c].shifted = SubSeq(s, m + 1, Len(s)) \o SubSeq(s, 1, m)
  <2>1. Argv[c] \in Seq(Nat)
    <3>1. c \in 1 .. Len(Argv)
      BY <1>2, WorkedHas, ProgramsAre
    <3> QED BY <3>1, ForkAssumption
  <2>2. copied[c].shifted = Forked!Shifted(Argv[c])
    BY <1>2, WorkedHas
  <2> HIDE DEF W
  <2> QED BY <2>1, <2>2, ShiftedIsRotation
<1>3. ASSUME forking = "accumulate", NEW c \in W
      PROVE  copied[c].memory.global = Forked!Accumulated(N)
  BY <1>3, WorkedHas
<1>4. Forked!EachDoesItsOwn
  <2>1. Forked!Accumulated(N) + N = Forked!DocumentedSum(N)
    BY ForkAssumption, SumToN
  <2> HIDE DEF W
  <2>2. forking = "accumulate" =>
          \A c \in W : /\ copied[c].memory.global = Forked!Accumulated(N)
                       /\ copied[c].memory.global + N = Forked!DocumentedSum(N)
    BY <1>3, <2>1
  <2> QED BY <1>1, <1>2, <2>2 DEF Forked!EachDoesItsOwn, W
<1>5. Forked!ParentUntouched
  BY DEF ForksInv, MemoryIs, Forked!ParentUntouched
<1> QED BY <1>4, <1>5 DEF ForksInv

\* The children that are not collected can be counted.
LEMMA UncollectedIs ==
  /\ IsFiniteSet(Uncollected) /\ Cardinality(Uncollected) \in Nat
  /\ Cardinality(Uncollected) = 0 => Uncollected = {}
<1>1. Uncollected \in SUBSET Forked!Children
  BY DEF Uncollected
<1>2. IsFiniteSet(Uncollected)
  BY <1>1, ChildrenAre, FS_Subset
<1> QED BY <1>2, FS_CardinalityType, FS_EmptySet

LEMMA ForkInv == ASSUME ForksInv, Forked!Fork PROVE ForksInv'
<1>0. /\ Forked!TypeOK /\ ParentIsAt /\ ChildrenHave /\ MemoryIs /\ WaitsSuffice
      /\ DOMAIN copied = Forked!Children
  BY DEF ForksInv
<1>1. /\ parent = "fork" /\ forked < Forked!Forks[forking]
      /\ forked' = forked + 1 /\ target' = target + 1
      /\ child' = [child EXCEPT ![forked + 1] = "running"]
      /\ copied' = [copied EXCEPT ![forked + 1] =
                      [target |-> target, memory |-> memory, shifted |-> <<>>]]
      /\ UNCHANGED <<forking, parent, waited, memory, thread>>
  BY DEF Forked!Fork
<1>2. forking \in Forked!Programs /\ forking # "none"
  BY <1>0, <1>1, ProgramsAre DEF ParentIsAt, Forked!Init, Forked!TypeOK
<1>3. PICK n \in Nat : n = Forked!Forks[forking] /\ n <= Cardinality(Forked!Children)
                       /\ 1 .. n \subseteq Forked!Children
  BY <1>2, ProgramsAre, ChildrenAre
<1>4. PICK d \in 1 .. n : d = forked + 1
  BY <1>0, <1>1, <1>3 DEF Forked!TypeOK
<1>5. /\ d \in Forked!Children /\ child[d] = "none" /\ d \notin Uncollected
      /\ waited \in Nat /\ waited <= forked /\ forked \in Nat
  BY <1>0, <1>3, <1>4, ChildrenAre DEF ChildrenHave, Uncollected, Forked!TypeOK
<1>6. \A c \in Forked!Children :
        /\ child'[c] = IF c = d THEN "running" ELSE child[c]
        /\ c # d => copied'[c] = copied[c]
  BY <1>0, <1>1, <1>4 DEF Forked!TypeOK
<1>7. Forked!TypeOK'
  <2>1. Forked!Cardinality(Forked!Children) = Cardinality(Forked!Children)
    BY SameCardinality
  <2>2. Cardinality(Forked!Children) \in Nat
    BY ChildrenAre, FS_CardinalityType
  <2>3. forked' \in 0 .. Forked!Cardinality(Forked!Children) /\ waited' \in 0 .. forked'
    BY <1>1, <1>3, <1>4, <1>5, <2>1, <2>2
  <2>4. child' \in [Forked!Children -> {"none", "running", "exited", "collected"}]
    BY <1>0, <1>1 DEF Forked!TypeOK
  <2> QED BY <1>0, <1>1, <2>3, <2>4 DEF Forked!TypeOK
<1>8. ParentIsAt'
  <2>1. forked' <= n /\ target' = forked' + IF forking' = "odds" THEN 1 ELSE 0
    BY <1>0, <1>1, <1>3, <1>4, <1>5 DEF ParentIsAt
  <2> QED BY <1>0, <1>1, <1>2, <1>3, <2>1 DEF ParentIsAt
<1>9. ChildrenHave'
  <2>1. copied'[d] = Inherited(d)'
    <3>1. memory = [strings |-> Argv, global |-> 0]
      BY <1>0, <1>1, AccumulatedSteps DEF MemoryIs
    <3>2. target = d - 1 + IF forking = "odds" THEN 1 ELSE 0
      BY <1>0, <1>1, <1>4, <1>5 DEF ParentIsAt
    <3> QED BY <1>0, <1>1, <1>4, <1>5, <3>1, <3>2 DEF Inherited
  <2>2. ASSUME NEW c \in Forked!Children
        PROVE  /\ c > forked' => child'[c] = "none"
               /\ child'[c] = "running" => copied'[c] = Inherited(c)'
               /\ c \in Forked!Worked' => copied'[c] = Forked!Result(Inherited(c))'
    <3>1. c \in Nat
      BY ChildrenAre
    <3>2. CASE c = d
      BY <1>4, <1>5, <1>6, <2>1, <3>2, <1>1, <3>1 DEF Forked!Worked
    <3>3. CASE c # d
      <4>1. child'[c] = child[c] /\ copied'[c] = copied[c]
        BY <1>6, <3>3
      <4>2. c > forked' => c > forked
        BY <1>1, <1>5, <3>1
      <4>3. /\ Inherited(c)' = Inherited(c)
            /\ Forked!Result(Inherited(c))' = Forked!Result(Inherited(c))
        BY <1>1 DEF Inherited, Forked!Result
      <4>4. c \in Forked!Worked' => c \in Forked!Worked
        BY <4>1 DEF Forked!Worked
      <4> QED BY <1>0, <4>1, <4>2, <4>3, <4>4 DEF ChildrenHave
    <3> QED BY <3>2, <3>3
  <2> QED BY <2>2 DEF ChildrenHave
<1>10. WaitsSuffice'
  <2>1. Uncollected' = Uncollected \cup {d}
    BY <1>5, <1>6 DEF Uncollected
  <2>2. Cardinality(Uncollected') = Cardinality(Uncollected) + 1
    BY <1>5, <2>1, UncollectedIs, FS_AddElement
  <2> QED BY <1>0, <1>1, <1>5, <2>2, UncollectedIs DEF WaitsSuffice
<1>11. MemoryIs' /\ Forked!DoneIsLast' /\ DOMAIN copied' = Forked!Children
  BY <1>0, <1>1 DEF MemoryIs, Forked!DoneIsLast
<1> QED BY <1>7, <1>8, <1>9, <1>10, <1>11 DEF ForksInv

LEMMA ForkFailsInv == ASSUME ForksInv, Forked!ForkFails PROVE ForksInv'
<1>0. /\ Forked!TypeOK /\ ParentIsAt /\ ChildrenHave /\ MemoryIs /\ WaitsSuffice
      /\ DOMAIN copied = Forked!Children
  BY DEF ForksInv
<1>1. /\ parent = "fork" /\ forked < Forked!Forks[forking]
      /\ forked' = forked + 1
      /\ IF forking = "odds"
         THEN target' = target + 1 /\ parent' = parent
         ELSE target' = target /\ parent' = "failed"
      /\ UNCHANGED <<forking, waited, memory, child, copied, thread>>
  BY DEF Forked!ForkFails
<1>2. forking \in Forked!Programs /\ forking # "none"
  BY <1>0, <1>1, ProgramsAre DEF ParentIsAt, Forked!Init, Forked!TypeOK
<1>3. PICK n \in Nat : n = Forked!Forks[forking] /\ n <= Cardinality(Forked!Children)
  BY <1>2, ProgramsAre, ChildrenAre
<1>4. PICK d \in 1 .. n : d = forked + 1
  BY <1>0, <1>1, <1>3 DEF Forked!TypeOK
<1>5. waited \in Nat /\ waited <= forked /\ forked \in Nat
  BY <1>0 DEF Forked!TypeOK
<1>6. Forked!TypeOK'
  <2>1. Forked!Cardinality(Forked!Children) = Cardinality(Forked!Children)
    BY SameCardinality
  <2>2. Cardinality(Forked!Children) \in Nat
    BY ChildrenAre, FS_CardinalityType
  <2>3. forked' \in 0 .. Forked!Cardinality(Forked!Children) /\ waited' \in 0 .. forked'
    BY <1>1, <1>3, <1>4, <1>5, <2>1, <2>2
  <2> QED BY <1>0, <1>1, <2>3 DEF Forked!TypeOK
<1>7. ParentIsAt'
  <2>1. /\ forked' <= n
        /\ forking' = "odds" => target' = forked' + 1
    BY <1>0, <1>1, <1>3, <1>4, <1>5 DEF ParentIsAt
  <2>2. parent' \in {"fork", "failed"} /\ (parent' = "fork" => forking' = "odds")
    BY <1>1
  <2> QED BY <1>1, <1>2, <1>3, <2>1, <2>2 DEF ParentIsAt
<1>8. ChildrenHave'
  <2>1. \A c \in Forked!Children : c > forked' => c > forked
    BY <1>1, <1>5, ChildrenAre
  <2>2. /\ \A c \in Forked!Children : child'[c] = child[c] /\ copied'[c] = copied[c]
        /\ Forked!Worked' = Forked!Worked
        /\ \A c : /\ Inherited(c)' = Inherited(c)
                  /\ Forked!Result(Inherited(c))' = Forked!Result(Inherited(c))
    BY <1>1 DEF Forked!Worked, Inherited, Forked!Result
  <2> QED BY <1>0, <2>1, <2>2 DEF ChildrenHave
<1>9. WaitsSuffice'
  <2>1. Uncollected' = Uncollected
    BY <1>1 DEF Uncollected
  <2> QED BY <1>0, <1>1, <1>5, <2>1, UncollectedIs DEF WaitsSuffice
<1>10. MemoryIs' /\ Forked!DoneIsLast' /\ DOMAIN copied' = Forked!Children
  BY <1>0, <1>1 DEF MemoryIs, Forked!DoneIsLast
<1> QED BY <1>6, <1>7, <1>8, <1>9, <1>10 DEF ForksInv

\* Nothing is different for the children when they, what they have, and the
\* number of forks are as before.
LEMMA ChildrenKept ==
  ASSUME ForksInv, UNCHANGED <<forking, forked, child, copied>>
  PROVE  ChildrenHave' /\ Uncollected' = Uncollected /\ DOMAIN copied' = Forked!Children
<1>1. /\ Forked!Worked' = Forked!Worked
      /\ \A c : /\ Inherited(c)' = Inherited(c)
                /\ Forked!Result(Inherited(c))' = Forked!Result(Inherited(c))
  BY DEF Forked!Worked, Inherited, Forked!Result
<1> QED BY <1>1 DEF ForksInv, ChildrenHave, Uncollected

LEMMA ForksStart ==
  ASSUME ForksInv, NEW p \in Forked!Programs, Forked!Start(p) PROVE ForksInv'
<1>1. /\ Forked!Init /\ forking' = p /\ parent' = "fork"
      /\ target' = IF p = "odds" THEN 1 ELSE 0
      /\ UNCHANGED <<forked, waited, memory, child, copied, thread>>
  BY DEF ForksInv, ParentIsAt, Forked!Start
<1>2. p # "none" /\ Forked!Forks[p] \in Nat
  BY ProgramsAre
<1>3. Forked!TypeOK'
  BY <1>1 DEF ForksInv, Forked!TypeOK
<1>4. ParentIsAt'
  BY <1>1, <1>2 DEF Forked!Init, ParentIsAt
<1>5. MemoryIs' /\ Forked!DoneIsLast'
  BY <1>1 DEF Forked!Init, ForksInv, MemoryIs, Forked!DoneIsLast
<1>6. ChildrenHave'
  BY <1>1 DEF Forked!Init, ChildrenHave, Forked!Worked
<1>7. WaitsSuffice'
  <2>1. Uncollected' = {}
    BY <1>1 DEF Forked!Init, Uncollected
  <2> QED BY <1>1, <2>1, FS_EmptySet DEF Forked!Init, WaitsSuffice
<1> QED BY <1>1, <1>3, <1>4, <1>5, <1>6, <1>7 DEF ForksInv

LEMMA WaitInv == ASSUME ForksInv, Forked!Wait PROVE ForksInv'
<1>0. /\ Forked!TypeOK /\ ParentIsAt /\ ChildrenHave /\ MemoryIs /\ WaitsSuffice
      /\ DOMAIN copied = Forked!Children
  BY DEF ForksInv
<1>1. /\ parent = "wait" /\ ~(waited >= Forked!Forks[forking])
      /\ waited' = waited + 1
      /\ UNCHANGED <<forking, parent, forked, target, memory, copied, thread>>
  BY DEF Forked!Wait, Forked!Enough
<1>2. /\ waited \in Nat /\ forked \in Nat /\ waited < forked
      /\ Cardinality(Uncollected) + waited <= forked
  BY <1>0, <1>1 DEF Forked!TypeOK, ParentIsAt, WaitsSuffice
<1>3. ParentIsAt' /\ MemoryIs' /\ Forked!DoneIsLast'
  BY <1>0, <1>1 DEF ParentIsAt, MemoryIs, Forked!DoneIsLast, Forked!Init
<1>4. \A c : /\ Inherited(c)' = Inherited(c)
             /\ Forked!Result(Inherited(c))' = Forked!Result(Inherited(c))
  BY <1>1 DEF Inherited, Forked!Result
<1>5. waited' \in 0 .. forked'
  BY <1>1, <1>2
<1>6. CASE \E c \in Forked!Children :
             child[c] = "exited" /\ child' = [child EXCEPT ![c] = "collected"]
  <2>1. PICK c \in Forked!Children :
          child[c] = "exited" /\ child' = [child EXCEPT ![c] = "collected"]
    BY <1>6
  <2>2. \A b \in Forked!Children : child'[b] = IF b = c THEN "collected" ELSE child[b]
    BY <1>0, <2>1 DEF Forked!TypeOK
  <2>3. Forked!TypeOK'
    BY <1>0, <1>1, <1>5, <2>1 DEF Forked!TypeOK
  <2>4. ChildrenHave'
    <3>1. Forked!Worked' = Forked!Worked
      BY <2>1, <2>2 DEF Forked!Worked
    <3> QED BY <1>0, <1>1, <1>4, <2>1, <2>2, <3>1 DEF ChildrenHave
  <2>5. WaitsSuffice'
    <3>1. c \in Uncollected /\ Uncollected' = Uncollected \ {c}
      BY <2>1, <2>2 DEF Uncollected
    <3>2. Cardinality(Uncollected') = Cardinality(Uncollected) - 1
      BY <3>1, UncollectedIs, FS_RemoveElement
    <3> QED BY <1>1, <1>2, <3>2, UncollectedIs DEF WaitsSuffice
  <2> QED BY <1>0, <1>1, <1>3, <2>3, <2>4, <2>5 DEF ForksInv
<1>7. CASE (\A c \in Forked!Children : child[c] \in {"none", "collected"}) /\ child' = child
  <2>1. Uncollected = {}
    BY <1>7 DEF Uncollected
  <2>2. ChildrenHave' /\ Uncollected' = Uncollected /\ DOMAIN copied' = Forked!Children
    BY <1>1, <1>7, ChildrenKept
  <2>3. Forked!TypeOK'
    BY <1>0, <1>1, <1>5, <1>7 DEF Forked!TypeOK
  <2>4. WaitsSuffice'
    BY <1>1, <1>2, <2>1, <2>2, FS_EmptySet DEF WaitsSuffice
  <2> QED BY <1>3, <2>2, <2>3, <2>4 DEF ForksInv
<1> QED BY <1>6, <1>7 DEF Forked!Wait

LEMMA MainForksInv ==
  ASSUME ForksInv,
         Forked!AllForked \/ Forked!AllWaited \/ Forked!NoThread \/ Forked!Join
  PROVE  ForksInv'
<1>0. /\ Forked!TypeOK /\ ParentIsAt /\ ChildrenHave /\ MemoryIs /\ WaitsSuffice
      /\ Forked!DoneIsLast /\ forking \in Forked!Programs \cup {"none"}
  BY DEF ForksInv, Forked!TypeOK
<1>1. /\ UNCHANGED <<forking, forked, target, waited, memory, child, copied, thread>>
      /\ parent \in {"fork", "wait", "join"} /\ forking # "none"
      /\ parent' \in {"wait", "join", "done", "no_thread", "failed"}
  BY <1>0 DEF Forked!AllForked, Forked!AllWaited, Forked!NoThread, Forked!Join,
     ParentIsAt, Forked!Init
<1>2. /\ ChildrenHave' /\ Uncollected' = Uncollected
      /\ DOMAIN copied' = Forked!Children
  BY <1>1, ChildrenKept
<1>3. Forked!TypeOK'
  BY <1>0, <1>1 DEF Forked!TypeOK
<1>4. WaitsSuffice'
  BY <1>0, <1>1, <1>2 DEF WaitsSuffice
<1>5. CASE Forked!AllForked
  <2>1. parent = "fork" /\ forked = Forked!Forks[forking] /\ parent' = "wait"
    BY <1>5 DEF Forked!AllForked
  <2> QED BY <1>0, <1>1, <1>2, <1>3, <1>4, <2>1
          DEF ForksInv, ParentIsAt, MemoryIs, Forked!DoneIsLast
<1>6. CASE Forked!AllWaited \/ Forked!NoThread
  <2>1. /\ parent = "wait" /\ waited >= forked /\ forked = Forked!Forks[forking]
        /\ parent' \in {"join", "done", "no_thread", "failed"}
        /\ parent' = "join" => forking = "accumulate"
        /\ parent' = "done" => forking # "accumulate"
    BY <1>0, <1>6 DEF Forked!AllWaited, Forked!NoThread, Forked!Enough, ParentIsAt
  <2>2. Cardinality(Uncollected) + waited <= forked /\ waited \in Nat /\ forked \in Nat
    BY <1>0, <2>1 DEF WaitsSuffice, Forked!TypeOK
  <2>3. Uncollected = {}
    BY <2>1, <2>2, UncollectedIs
  <2>4. Forked!DoneIsLast'
    BY <1>0, <1>1, <2>3 DEF Forked!DoneIsLast, Uncollected, Forked!TypeOK
  <2>5. ParentIsAt' /\ MemoryIs'
    BY <1>0, <1>1, <2>1 DEF ParentIsAt, MemoryIs
  <2> QED BY <1>1, <1>2, <1>3, <1>4, <2>4, <2>5 DEF ForksInv
<1>7. CASE Forked!Join
  <2>1. /\ parent = "join" /\ thread = N /\ parent' = "done" /\ forking = "accumulate"
    BY <1>0, <1>7 DEF Forked!Join, ParentIsAt
  <2> QED BY <1>0, <1>1, <1>2, <1>3, <1>4, <2>1
          DEF ForksInv, ParentIsAt, MemoryIs, Forked!DoneIsLast
<1> QED BY <1>5, <1>6, <1>7

LEMMA WorkInv ==
  ASSUME ForksInv, NEW c \in Forked!Children, Forked!Work(c) PROVE ForksInv'
<1>0. /\ Forked!TypeOK /\ ParentIsAt /\ ChildrenHave /\ MemoryIs /\ WaitsSuffice
      /\ Forked!DoneIsLast /\ DOMAIN copied = Forked!Children
  BY DEF ForksInv
<1>1. /\ child[c] = "running" /\ child' = [child EXCEPT ![c] = "exited"]
      /\ copied' = [copied EXCEPT ![c] = Forked!Result(copied[c])]
      /\ UNCHANGED <<forking, parent, forked, target, waited, memory, thread>>
  BY DEF Forked!Work
<1>2. \A b \in Forked!Children :
        /\ child'[b] = IF b = c THEN "exited" ELSE child[b]
        /\ copied'[b] = IF b = c THEN Forked!Result(Inherited(c)) ELSE copied[b]
  BY <1>0, <1>1 DEF Forked!TypeOK, ChildrenHave
<1>3. \A b : /\ Inherited(b)' = Inherited(b)
             /\ Forked!Result(Inherited(b))' = Forked!Result(Inherited(b))
  BY <1>1 DEF Inherited, Forked!Result
<1>4. Forked!Worked' = Forked!Worked \cup {c} /\ Uncollected' = Uncollected
  BY <1>1, <1>2 DEF Forked!Worked, Uncollected
<1>5. ChildrenHave'
  BY <1>0, <1>1, <1>2, <1>3, <1>4 DEF ChildrenHave
<1>6. Forked!TypeOK'
  BY <1>0, <1>1 DEF Forked!TypeOK
<1>7. Forked!DoneIsLast' /\ WaitsSuffice' /\ MemoryIs'
  BY <1>0, <1>1, <1>4 DEF Forked!DoneIsLast, WaitsSuffice, MemoryIs
<1>8. ParentIsAt'
  BY <1>0, <1>1 DEF ParentIsAt, Forked!Init
<1> QED BY <1>0, <1>1, <1>5, <1>6, <1>7, <1>8 DEF ForksInv

LEMMA AccumulateInv == ASSUME ForksInv, Forked!Accumulate PROVE ForksInv'
<1>0. /\ Forked!TypeOK /\ ParentIsAt /\ ChildrenHave /\ MemoryIs /\ WaitsSuffice
      /\ Forked!DoneIsLast
  BY DEF ForksInv
<1>1. /\ parent = "join" /\ thread < N /\ thread' = thread + 1
      /\ memory' = [memory EXCEPT !.global = @ + thread]
      /\ UNCHANGED <<forking, parent, forked, target, waited, child, copied>>
  BY DEF Forked!Accumulate
<1>2. /\ ChildrenHave' /\ Uncollected' = Uncollected
      /\ DOMAIN copied' = Forked!Children
  BY <1>1, ChildrenKept
<1>3. PICK n \in Nat : n = thread /\ n + 1 \in 0 .. N /\ n + 1 # 0
  BY <1>0, <1>1, ForkAssumption DEF MemoryIs
<1>4. MemoryIs'
  <2>1. memory' = [strings |-> Argv, global |-> Forked!Accumulated(n) + n]
    BY <1>0, <1>1, <1>3 DEF MemoryIs
  <2>2. memory' = [strings |-> Argv, global |-> Forked!Accumulated(n + 1)]
    BY <2>1, AccumulatedSteps
  <2> QED BY <1>1, <1>3, <2>2 DEF MemoryIs
<1> QED BY <1>0, <1>1, <1>2, <1>4
        DEF ForksInv, Forked!TypeOK, ParentIsAt, Forked!Init, WaitsSuffice, Forked!DoneIsLast

LEMMA ForksNext ==
  ASSUME ForksInv, Forked!Next \/ UNCHANGED forks PROVE ForksInv'
<1>1. CASE UNCHANGED forks
  <2>1. UNCHANGED <<forking, parent, forked, target, waited, memory, child, copied, thread>>
    BY <1>1 DEF forks
  <2>2. ChildrenHave' /\ Uncollected' = Uncollected /\ DOMAIN copied' = Forked!Children
    BY <2>1, ChildrenKept
  <2> QED BY <2>1, <2>2 DEF ForksInv, Forked!TypeOK, ParentIsAt, Forked!Init, MemoryIs,
             WaitsSuffice, Forked!DoneIsLast
<1> QED BY <1>1, ForksStart, ForkInv, ForkFailsInv, MainForksInv, WaitInv, WorkInv,
        AccumulateInv DEF Forked!Next, Forked!main

\* Whatever forks fail and however the children run: each works on a target, a
\* string or a sum of its own, none is left behind, and the parent's memory is
\* what only the parent and its thread make of it.
THEOREM NobodySharesWork == Spec => []EachDoesItsOwn
<1> DEFINE Inv == Checks(3) => ForksInv
<1>1. Init => Inv
  BY ForksInit DEF Init
<1>2. Inv /\ [Next]_allvars => Inv'
  BY StepOfOne, ForksNext
<1>3. Inv => EachDoesItsOwn
  BY ForksInvImplies DEF EachDoesItsOwn, ForksInv
<1> QED BY <1>1, <1>2, <1>3, PTL DEF Spec

---------------------------------------------------------------------------
(* The game of life.                                                       *)

\* The bytes of a field are its rows, one after the other.
LEMMA RowAfterRow ==
  ASSUME NEW w \in Nat \ {0}, NEW h \in Nat \ {0}, NEW r \in 1 .. h, NEW q \in 1 .. w
  PROVE  /\ (r - 1) * w + q - 1 \in 0 .. w * h - 1
         /\ ((r - 1) * w + q - 1) % w = q - 1
         /\ ((r - 1) * w + q - 1) \div w = r - 1
<1>1. PICK p \in Nat : p = (r - 1) * w
  OBVIOUS
<1>2. w * h - p = (h - r) * w + w /\ (h - r) * w >= 0
  BY <1>1
<1>3. p + q - 1 \in 0 .. w * h - 1
  BY <1>1, <1>2
<1>4. (p + q - 1) % w = q - 1 /\ (p + q - 1) \div w = r - 1
  BY <1>1
<1> QED BY <1>1, <1>3, <1>4

LEMMA PairOf ==
  ASSUME NEW S, NEW T, NEW v \in S \X T
  PROVE  v = <<v[1], v[2]>> /\ v[1] \in S /\ v[2] \in T
  OBVIOUS

LEMMA DirectionsAre ==
  Life!directions = {d \in (-1 .. 1) \X (-1 .. 1) : d # <<0, 0>>}
<1>1. ASSUME NEW d \in (-1 .. 1) \X (-1 .. 1), d # <<0, 0>>
      PROVE  d \in Life!directions
  <2>1. d = <<d[1], d[2]>> /\ d[1] \in {-1, 0, 1} /\ d[2] \in {-1, 0, 1}
    OBVIOUS
  <2> QED BY <1>1, <2>1 DEF Life!directions
<1>2. ASSUME NEW d \in Life!directions
      PROVE  d \in (-1 .. 1) \X (-1 .. 1) /\ d # <<0, 0>>
  BY DEF Life!directions
<1> QED BY <1>1, <1>2

\* The cells alive in a field, as the file shows them.
AliveIn(d) ==
  {cell \in (1 .. height) \X (1 .. width) : d[(cell[1] - 1) * width + cell[2] - 1]}

\* The neighbours that are counted are the cells alive around the cell.
LEMMA NeighboursAre ==
  ASSUME NEW d, width \in Nat \ {0}, height \in Nat \ {0},
         NEW r \in 1 .. height, NEW q \in 1 .. width
  PROVE  /\ Life!alive_neighbours_field(d, q - 1, r - 1)
              = Life!Cardinality(Life!Around(<<r, q>>) \cap AliveIn(d))
         /\ Life!alive_neighbours_field(d, q - 1, r - 1) \in Nat
<1> DEFINE D == {v \in Life!directions :
                   Life!get_value_field(d, (q - 1) + v[1], (r - 1) + v[2])}
           T == Life!Around(<<r, q>>) \cap AliveIn(d)
           f == [v \in D |-> <<r + v[2], q + v[1]>>]
<1>1. \A c : c \in T <=>
        /\ c \in (r - 1 .. r + 1) \X (q - 1 .. q + 1) /\ c # <<r, q>>
        /\ c \in (1 .. height) \X (1 .. width)
        /\ d[(c[1] - 1) * width + c[2] - 1]
  BY DEF Life!Around, AliveIn
<1>2. \A v : v \in D <=>
        /\ v \in (-1 .. 1) \X (-1 .. 1) /\ v # <<0, 0>>
        /\ <<r + v[2], q + v[1]>> \in (1 .. height) \X (1 .. width)
        /\ d[(q - 1) + v[1] + ((r - 1) + v[2]) * width]
  <2>1. ASSUME NEW v \in (-1 .. 1) \X (-1 .. 1)
        PROVE  Life!InBounds((q - 1) + v[1], (r - 1) + v[2])
                 <=> <<r + v[2], q + v[1]>> \in (1 .. height) \X (1 .. width)
    BY DEF Life!InBounds
  <2> QED BY <2>1, DirectionsAre DEF Life!get_value_field
<1>3. ASSUME NEW a \in -1 .. 1, NEW b \in -1 .. 1
      PROVE  (q - 1) + a + ((r - 1) + b) * width = ((r + b) - 1) * width + (q + a) - 1
  <2>1. PICK n \in Int : n = ((r - 1) + b) * width
    BY width \in Int
  <2>2. (r - 1) + b = (r + b) - 1
    OBVIOUS
  <2> QED BY <2>1, <2>2
<1>4. ASSUME NEW v \in D PROVE f[v] \in T
  <2>1. /\ v = <<v[1], v[2]>> /\ v[1] \in -1 .. 1 /\ v[2] \in -1 .. 1
        /\ ~(v[1] = 0 /\ v[2] = 0)
    <3>1. v \in (-1 .. 1) \X (-1 .. 1) /\ v # <<0, 0>>
      BY <1>2
    <3> HIDE DEF D, T, f
    <3> QED BY <3>1, PairOf
  <2>2. PICK c : c = <<r + v[2], q + v[1]>>
    OBVIOUS
  <2>3. c[1] = r + v[2] /\ c[2] = q + v[1] /\ c # <<r, q>>
    BY <2>1, <2>2
  <2>4. c \in (r - 1 .. r + 1) \X (q - 1 .. q + 1)
    BY <2>1, <2>2
  <2>5. d[(c[1] - 1) * width + c[2] - 1] /\ c \in (1 .. height) \X (1 .. width)
    BY <1>2, <1>3, <2>1, <2>2, <2>3
  <2>6. f[v] = c
    BY <2>2
  <2> HIDE DEF D, T, f
  <2> QED BY <1>1, <2>3, <2>4, <2>5, <2>6
<1>5. ASSUME NEW c \in T PROVE \E v \in D : f[v] = c
  <2>1. /\ c = <<c[1], c[2]>> /\ c[1] \in r - 1 .. r + 1 /\ c[2] \in q - 1 .. q + 1
        /\ ~(c[1] = r /\ c[2] = q) /\ c \in (1 .. height) \X (1 .. width)
        /\ d[(c[1] - 1) * width + c[2] - 1]
    BY <1>1
  <2>2. PICK v : v = <<c[2] - q, c[1] - r>>
    OBVIOUS
  <2>3. /\ v[1] = c[2] - q /\ v[2] = c[1] - r
        /\ v[1] \in -1 .. 1 /\ v[2] \in -1 .. 1
        /\ r + v[2] = c[1] /\ q + v[1] = c[2]
        /\ v # <<0, 0>> /\ v \in (-1 .. 1) \X (-1 .. 1)
    <3>1. v[1] = c[2] - q /\ v[2] = c[1] - r
      BY <2>2
    <3> HIDE DEF D, T, f
    <3>0. PICK x \in Int, y \in Int :
            x = c[1] /\ y = c[2] /\ x - r \in -1 .. 1 /\ y - q \in -1 .. 1
      BY <2>1
    <3>2. PICK a \in -1 .. 1, b \in -1 .. 1 :
            a = c[2] - q /\ b = c[1] - r /\ r + b = c[1] /\ q + a = c[2]
      BY <3>0
    <3>3. v = <<a, b>> /\ ~(a = 0 /\ b = 0)
      BY <2>1, <2>2, <3>2
    <3> QED BY <3>1, <3>2, <3>3
  <2>4. v \in D
    BY <1>2, <1>3, <2>1, <2>3
  <2> QED BY <2>1, <2>3, <2>4
<1>6. ASSUME NEW u \in D, NEW v \in D, f[u] = f[v] PROVE u = v
  <2>1. /\ u = <<u[1], u[2]>> /\ u[1] \in Int /\ u[2] \in Int
        /\ v = <<v[1], v[2]>> /\ v[1] \in Int /\ v[2] \in Int
    <3>1. u \in (-1 .. 1) \X (-1 .. 1) /\ v \in (-1 .. 1) \X (-1 .. 1)
      BY <1>2
    <3> HIDE DEF D, T, f
    <3> QED BY <3>1, PairOf
  <2>2. r + u[2] = r + v[2] /\ q + u[1] = q + v[1]
    BY <1>6
  <2> QED BY <2>1, <2>2
<1>7. DOMAIN f = D /\ f = [v \in D |-> f[v]]
  OBVIOUS
<1>8. IsFiniteSet(D)
  <2>1. IsFiniteSet(-1 .. 1)
    BY -1 \in Int, 1 \in Int, FS_Interval
  <2>2. IsFiniteSet((-1 .. 1) \X (-1 .. 1))
    BY <2>1, FS_Product
  <2>3. D \in SUBSET ((-1 .. 1) \X (-1 .. 1))
    BY <1>2
  <2> HIDE DEF D
  <2> QED BY <2>2, <2>3, FS_Subset
<1>9. Life!alive_neighbours_field(d, q - 1, r - 1) = Cardinality(D)
  BY SameCardinality DEF Life!alive_neighbours_field
<1>10. Cardinality(T) = Cardinality(D) /\ Cardinality(D) \in Nat
  <2> HIDE DEF D, T, f
  <2>1. f \in Bijection(D, T)
    <3>1. f \in [D -> T]
      BY <1>4, <1>7
    <3> QED BY <1>5, <1>6, <3>1, Zenon DEF Bijection, Injection, Surjection, IsInjective
  <2>2. ExistsBijection(D, T)
    BY <2>1 DEF ExistsBijection
  <2> QED BY <1>8, <2>2, FS_Bijection, FS_CardinalityType
<1>11. Life!Cardinality(T) = Cardinality(T)
  BY SameCardinality
<1> HIDE DEF D, T
<1> QED BY <1>9, <1>10, <1>11 DEF T

\* What step_field makes of cell c of field d; the frame that follows.
Makes(d, c) ==
  Life!Lives(Life!get_value_field(d, c % width, c \div width),
             Life!alive_neighbours_field(d, c % width, c \div width))

Follows(d, e) == \A c \in Life!Cells : e[c] <=> Makes(d, c)

\* A frame that follows another shows the next generation.
LEMMA FollowsIsGeneration ==
  ASSUME NEW d, NEW e, width \in Nat \ {0}, height \in Nat \ {0}, Follows(d, e)
  PROVE  AliveIn(e) = Life!Generation((1 .. height) \X (1 .. width), AliveIn(d))
<1> DEFINE board == (1 .. height) \X (1 .. width)
<1>1. ASSUME NEW r \in 1 .. height, NEW q \in 1 .. width
      PROVE  <<r, q>> \in AliveIn(e)
               <=> <<r, q>> \in Life!Generation(board, AliveIn(d))
  <2>1. PICK c : c = (r - 1) * width + q - 1
    OBVIOUS
  <2>2. c \in Life!Cells /\ c % width = q - 1 /\ c \div width = r - 1
    BY <2>1, RowAfterRow DEF Life!Cells
  <2>3. /\ <<r, q>> \in AliveIn(e) <=> e[c]
        /\ <<r, q>> \in AliveIn(d) <=> d[c]
    BY <2>1 DEF AliveIn
  <2>4. e[c] <=> Life!Lives(Life!get_value_field(d, q - 1, r - 1),
                            Life!alive_neighbours_field(d, q - 1, r - 1))
    BY <2>2 DEF Follows, Makes
  <2>5. Life!get_value_field(d, q - 1, r - 1) <=> d[c]
    <3>1. Life!InBounds(q - 1, r - 1)
      BY DEF Life!InBounds
    <3>2. (q - 1) + (r - 1) * width = c
      <4>1. PICK p \in Int : p = (r - 1) * width
        OBVIOUS
      <4> QED BY <2>1, <4>1
    <3> QED BY <3>1, <3>2 DEF Life!get_value_field
  <2>6. PICK n \in Nat :
          /\ n = Life!alive_neighbours_field(d, q - 1, r - 1)
          /\ n = Life!Cardinality(Life!Around(<<r, q>>) \cap AliveIn(d))
    BY NeighboursAre
  <2>7. Life!Lives(Life!get_value_field(d, q - 1, r - 1), n)
          <=> n = 3 \/ (d[c] /\ n = 2)
    <3>1. CASE d[c]
      <4>1. ~(n < 2 \/ 3 < n) <=> n = 3 \/ n = 2
        OBVIOUS
      <4> QED BY <2>5, <3>1, <4>1 DEF Life!Lives
    <3>2. CASE ~d[c]
      BY <2>5, <3>2 DEF Life!Lives
    <3> QED BY <3>1, <3>2
  <2>8. <<r, q>> \in Life!Generation(board, AliveIn(d)) <=> n = 3 \/ (d[c] /\ n = 2)
    BY <2>3, <2>6 DEF Life!Generation
  <2> QED BY <2>3, <2>4, <2>6, <2>7, <2>8
<1>2. AliveIn(e) \subseteq board /\ Life!Generation(board, AliveIn(d)) \subseteq board
  BY DEF AliveIn, Life!Generation
<1>3. ASSUME NEW cell \in board
      PROVE  cell \in AliveIn(e) <=> cell \in Life!Generation(board, AliveIn(d))
  <2>1. cell = <<cell[1], cell[2]>> /\ cell[1] \in 1 .. height /\ cell[2] \in 1 .. width
    BY PairOf
  <2> HIDE DEF board
  <2> QED BY <1>1, <2>1
<1> HIDE DEF board
<1>4. AliveIn(e) = Life!Generation(board, AliveIn(d))
  BY <1>2, <1>3
<1> QED BY <1>4 DEF board

BothFields == field[1] # None /\ field[2] # None

\* The arguments are read before anything else happens, and a field is there
\* only if it has a cell.
FieldsAre ==
  /\ life = "none" => Life!Init
  /\ life = "usage" => field[1] = None
  /\ DOMAIN field = {1, 2}
  /\ BothFields => width \in Nat \ {0} /\ height \in Nat \ {0}

\* The frames, each after the one before; while the next is computed, the columns
\* on the left are done.
Frame ==
  [number : Nat, width : {width}, height : {height}, bits : [Life!Cells -> BOOLEAN]]

FramesFollow ==
  BothFields =>
    /\ files \in Seq(Frame)
    /\ Len(files) = frame + IF life = "step" THEN 1 ELSE 0
    /\ \A n \in 1 .. Len(files) - 1 : Follows(files[n].bits, files[n + 1].bits)
    /\ life = "write" /\ frame > 0 => Follows(files[frame].bits, field[source])
    /\ life = "step" =>
         /\ files[frame + 1].bits = field[source]
         /\ column <= width
         /\ \A c \in Life!Cells : c % width < column =>
              (field[3 - source][c] <=> Makes(field[source], c))

FramesCounted ==
  /\ frame <= steps + 1 \/ frame = 0
  /\ life = "step" => frame <= steps
  /\ life = "exited" => frame > steps

LifeInv ==
  Life!TypeOK /\ FieldsAre /\ FramesFollow /\ FramesCounted

LEMMA LifeInit == ASSUME Life!Init PROVE LifeInv
  BY DEF Life!Init, LifeInv, Life!TypeOK, FieldsAre, FramesFollow, FramesCounted,
     BothFields

LEMMA LifeInvImplies ==
  ASSUME LifeInv PROVE Life!TypeOK /\ Life!FramesAreGenerations
<1>1. ASSUME BothFields, NEW n \in 1 .. Len(files) - 1
      PROVE  Life!Picture(files[n + 1])
               = Life!Generation((1 .. height) \X (1 .. width), Life!Picture(files[n]))
  <2>1. /\ files[n] \in Frame /\ files[n + 1] \in Frame
        /\ width \in Nat \ {0} /\ height \in Nat \ {0}
        /\ Follows(files[n].bits, files[n + 1].bits)
    BY <1>1 DEF LifeInv, FieldsAre, FramesFollow
  <2>2. /\ Life!Picture(files[n + 1]) = AliveIn(files[n + 1].bits)
        /\ Life!Picture(files[n]) = AliveIn(files[n].bits)
    BY <2>1 DEF Life!Picture, AliveIn, Frame
  <2> QED BY <2>1, <2>2, FollowsIsGeneration
<1>2. ASSUME BothFields, life = "exited", steps >= 0
      PROVE  Len(files) = steps + 1
  BY <1>2 DEF LifeInv, FramesFollow, FramesCounted, Life!TypeOK
<1> QED BY <1>1, <1>2 DEF Life!FramesAreGenerations, LifeInv, BothFields

\* What the rule makes of a field depends on its size only.
LEMMA RuleIsSame ==
  ASSUME UNCHANGED <<width, height>>
  PROVE  /\ \A d, c : Makes(d, c)' = Makes(d, c)
         /\ \A d, e : Follows(d, e)' = Follows(d, e)
         /\ Frame' = Frame /\ Life!Cells' = Life!Cells
BY DEF Makes, Follows, Frame, Life!Cells, Life!get_value_field, Life!InBounds,
   Life!alive_neighbours_field

LEMMA LifeStart == ASSUME LifeInv, Life!Start PROVE LifeInv'
<1>1. PICK s \in FieldSizes, t \in Steps :
        /\ width' = s[1] /\ height' = s[2] /\ steps' = t
        /\ \E one, two \in Life!init_field(s[1], s[2]) :
             \E populated \in IF one = None THEN {None} ELSE [DOMAIN one -> BOOLEAN] :
               field' = <<populated, two>>
  BY DEF Life!Start
<1>2. PICK one \in Life!init_field(s[1], s[2]), two \in Life!init_field(s[1], s[2]) :
        \E populated \in IF one = None THEN {None} ELSE [DOMAIN one -> BOOLEAN] :
          field' = <<populated, two>>
  BY <1>1
<1>3. PICK populated \in IF one = None THEN {None} ELSE [DOMAIN one -> BOOLEAN] :
        field' = <<populated, two>>
  BY <1>2
<1>4. /\ life = "none" /\ life' = "write" /\ UNCHANGED <<source, frame, column, files>>
      /\ Life!Init
  BY DEF Life!Start, LifeInv, FieldsAre
<1>5. width' \in Int /\ height' \in Int /\ steps' \in Int
  BY <1>1, LifeAssumption
<1>6. \A b \in Life!init_field(s[1], s[2]) :
        \/ b = None
        \/ /\ width' >= 1 /\ height' >= 1
           /\ b \in [Life!Cells' -> BOOLEAN]
  BY <1>1, <1>5 DEF Life!init_field, Life!Cells
<1>7. /\ DOMAIN field' = {1, 2} /\ field'[1] = populated /\ field'[2] = two
      /\ populated = None \/ populated \in [Life!Cells' -> BOOLEAN]
  BY <1>3, <1>6
<1>8. BothFields' => width' \in Nat \ {0} /\ height' \in Nat \ {0}
  BY <1>5, <1>6, <1>7 DEF BothFields
<1>9. Life!TypeOK'
  BY <1>4, <1>5, <1>6, <1>7 DEF Life!Init, Life!TypeOK
<1>10. FieldsAre' /\ FramesFollow' /\ FramesCounted'
  BY <1>4, <1>5, <1>7, <1>8 DEF Life!Init, FieldsAre, FramesFollow, FramesCounted
<1> QED BY <1>9, <1>10 DEF LifeInv

LEMMA WriteFieldInv == ASSUME LifeInv, Life!write_field PROVE LifeInv'
<1>0. Life!TypeOK /\ FieldsAre /\ FramesFollow /\ FramesCounted
  BY DEF LifeInv
<1>1. /\ life = "write" /\ life' = "step" /\ frame <= steps /\ column' = 0
      /\ UNCHANGED <<width, height, steps, field, source, frame>>
      /\ field[source] # None =>
           files' = Append(files, [number |-> frame, width |-> width,
                                   height |-> height, bits |-> field[source]])
  BY DEF Life!write_field, Life!arguments
<1>2. Life!TypeOK'
  BY <1>0, <1>1 DEF Life!TypeOK, Life!Cells
<1>3. FieldsAre' /\ FramesCounted'
  BY <1>0, <1>1 DEF FieldsAre, FramesCounted, BothFields, Life!TypeOK
<1>4. ASSUME BothFields' PROVE FramesFollow'
  <2>1. /\ BothFields /\ field[source] \in [Life!Cells -> BOOLEAN]
        /\ width \in Nat \ {0} /\ source \in {1, 2} /\ frame \in Nat
    BY <1>0, <1>1, <1>4 DEF BothFields, Life!TypeOK, FieldsAre
  <2>2. PICK f : f = [number |-> frame, width |-> width,
                      height |-> height, bits |-> field[source]]
    OBVIOUS
  <2>3. f \in Frame /\ f.bits = field[source]
    BY <2>1, <2>2 DEF Frame
  <2>4. files \in Seq(Frame) /\ Len(files) = frame /\ files' = Append(files, f)
    BY <1>0, <1>1, <2>1, <2>2 DEF FramesFollow, BothFields
  <2>5. /\ files' \in Seq(Frame) /\ Len(files') = frame + 1
        /\ files'[frame + 1] = f
        /\ \A n \in 1 .. frame : files'[n] = files[n]
    BY <2>1, <2>3, <2>4, AppendProperties
  <2>6. ASSUME NEW n \in 1 .. Len(files') - 1
        PROVE  Follows(files'[n].bits, files'[n + 1].bits)
    <3>1. n \in 1 .. frame
      BY <2>1, <2>5
    <3>2. CASE n = frame
      BY <1>0, <1>1, <2>1, <2>3, <2>5, <3>1, <3>2 DEF FramesFollow
    <3>3. CASE n # frame
      <4>1. n + 1 \in 1 .. frame /\ n \in 1 .. Len(files) - 1
        BY <2>1, <2>4, <3>1, <3>3
      <4> QED BY <1>0, <2>1, <2>5, <3>1, <4>1 DEF FramesFollow
    <3> QED BY <3>2, <3>3
  <2>7. \A c \in Life!Cells : ~(c % width < 0)
    BY <2>1 DEF Life!Cells
  <2> QED BY <1>1, <2>1, <2>3, <2>5, <2>6, <2>7, RuleIsSame DEF FramesFollow
<1>5. FramesFollow'
  BY <1>4 DEF FramesFollow
<1> QED BY <1>2, <1>3, <1>5 DEF LifeInv

\* One more column is done.
LEMMA StepColumnInv == ASSUME LifeInv, Life!StepColumn PROVE LifeInv'
<1>0. /\ Life!TypeOK /\ FieldsAre /\ FramesFollow /\ FramesCounted
      /\ BothFields /\ life = "step" /\ column < width /\ column' = column + 1
      /\ UNCHANGED <<life, width, height, steps, source, frame, files>>
  BY DEF LifeInv, Life!StepColumn, Life!arguments, BothFields
<1>1. /\ Life!From = source /\ Life!To = 3 - source
      /\ source \in {1, 2} /\ 3 - source \in {1, 2} /\ 3 - source # source
      /\ column \in Nat /\ width \in Nat \ {0} /\ DOMAIN field = {1, 2}
  BY <1>0 DEF BothFields, Life!From, Life!To, Life!TypeOK, FieldsAre
<1> DEFINE old == field[3 - source]
           new == [c \in Life!Cells |->
                     LET x == c % width
                         y == c \div width
                     IN IF x = column
                        THEN Life!Lives(Life!get_value_field(field[source], x, y),
                                        Life!alive_neighbours_field(field[source], x, y))
                        ELSE old[c]]
<1>2. field' = [field EXCEPT ![3 - source] = new]
  BY <1>1 DEF Life!StepColumn
<1>3. old \in [Life!Cells -> BOOLEAN]
  BY <1>0, <1>1 DEF Life!TypeOK, BothFields
<1>4. ASSUME NEW c \in Life!Cells
      PROVE  /\ new[c] \in BOOLEAN
             /\ c % width = column => (new[c] <=> Makes(field[source], c))
             /\ c % width # column => new[c] = old[c]
  <2>1. CASE c % width = column
    <3>1. new[c] = Life!Lives(Life!get_value_field(field[source], c % width, c \div width),
                     Life!alive_neighbours_field(field[source], c % width, c \div width))
      BY <2>1
    <3> HIDE DEF new
    <3> QED BY <2>1, <3>1 DEF Makes, Life!Lives
  <2>2. CASE c % width # column
    <3>1. new[c] = old[c]
      BY <2>2
    <3> HIDE DEF new, old
    <3> QED BY <1>3, <2>2, <3>1
  <2> QED BY <2>1, <2>2
<1>5. new \in [Life!Cells -> BOOLEAN]
  <2>1. new = [c \in Life!Cells |-> new[c]]
    OBVIOUS
  <2> HIDE DEF new
  <2> QED BY <1>4, <2>1
<1>6. field'[3 - source] = new /\ field'[source] = field[source] /\ DOMAIN field' = {1, 2}
  <2> HIDE DEF new
  <2> QED BY <1>1, <1>2
<1> HIDE DEF new
<1>7. \A k \in {1, 2} : field'[k] = None \/ field'[k] \in [Life!Cells -> BOOLEAN]
  <2>1. \A k \in {1, 2} : k = source \/ k = 3 - source
    BY <1>1
  <2> QED BY <1>0, <1>1, <1>5, <1>6, <2>1 DEF Life!TypeOK
<1>8. Life!TypeOK'
  BY <1>0, <1>1, <1>7 DEF Life!TypeOK, Life!Cells
<1>9. ASSUME NEW c \in Life!Cells, c % width < column'
      PROVE  new[c] <=> Makes(field[source], c)
  <2>1. c % width \in Int
    BY <1>1 DEF Life!Cells
  <2>2. CASE c % width = column
    BY <1>4, <2>2
  <2>3. CASE c % width # column
    <3>1. c % width < column
      BY <1>0, <1>1, <1>9, <2>1, <2>3
    <3> QED BY <1>0, <1>4, <2>3, <3>1 DEF FramesFollow
  <2> QED BY <2>2, <2>3
<1>10. FramesFollow'
  <2>1. column' <= width
    BY <1>0, <1>1
  <2>2. /\ files \in Seq(Frame)
        /\ Len(files) = frame + 1
        /\ \A n \in 1 .. Len(files) - 1 : Follows(files[n].bits, files[n + 1].bits)
        /\ files[frame + 1].bits = field[source]
    BY <1>0 DEF FramesFollow
  <2> QED BY <1>0, <1>6, <1>9, <2>1, <2>2, RuleIsSame DEF FramesFollow
<1>11. FieldsAre' /\ FramesCounted'
  BY <1>0, <1>1, <1>6 DEF FieldsAre, FramesCounted
<1> QED BY <1>8, <1>10, <1>11 DEF LifeInv

\* The fields change places: the one that is written next follows the one that
\* was written last.
LEMMA SwapInv == ASSUME LifeInv, Life!Swap PROVE LifeInv'
<1>0. /\ Life!TypeOK /\ FieldsAre /\ FramesFollow /\ FramesCounted
      /\ life = "step" /\ life' = "write" /\ frame' = frame + 1 /\ source' = Life!To
      /\ ~BothFields \/ column = width
      /\ UNCHANGED <<width, height, steps, field, column, files>>
      /\ frame \in Nat /\ steps \in Int
  BY DEF LifeInv, Life!Swap, Life!arguments, BothFields, Life!TypeOK
<1>1. source' \in {1, 2}
  BY <1>0 DEF Life!To, Life!From, Life!TypeOK
<1>2. Life!TypeOK'
  BY <1>0, <1>1 DEF Life!TypeOK, Life!Cells
<1>3. FieldsAre' /\ FramesCounted'
  BY <1>0 DEF FieldsAre, FramesCounted, BothFields
<1>4. ASSUME BothFields' PROVE FramesFollow'
  <2>1. /\ BothFields /\ column = width /\ source' = 3 - source
        /\ width \in Nat \ {0}
    BY <1>0, <1>4 DEF BothFields, Life!To, Life!From, FieldsAre
  <2>2. /\ files \in Seq(Frame) /\ Len(files) = frame + 1
        /\ \A n \in 1 .. Len(files) - 1 : Follows(files[n].bits, files[n + 1].bits)
        /\ files[frame + 1].bits = field[source]
    BY <1>0, <2>1 DEF FramesFollow
  <2>3. Follows(field[source], field[3 - source])
    <3>1. \A c \in Life!Cells : c % width < column
      BY <2>1 DEF Life!Cells
    <3> QED BY <1>0, <2>1, <3>1 DEF FramesFollow, Follows
  <2>4. Follows(files[frame'].bits, field[source'])
    BY <1>0, <2>1, <2>2, <2>3
  <2> QED BY <1>0, <2>2, <2>4, RuleIsSame DEF FramesFollow
<1>5. FramesFollow'
  BY <1>4 DEF FramesFollow
<1> QED BY <1>2, <1>3, <1>5 DEF LifeInv

LEMMA LifeNext ==
  ASSUME LifeInv, Life!Next \/ UNCHANGED lives PROVE LifeInv'
<1>1. ASSUME UNCHANGED <<width, height, steps, field, source, frame, column, files>>,
             life' = life \/ (life = "write" /\ life' \in {"exited", "crashed"}),
             life' = "exited" => frame > steps
      PROVE  LifeInv'
  <2>1. Life!TypeOK' /\ FieldsAre' /\ FramesCounted'
    BY <1>1 DEF LifeInv, Life!TypeOK, Life!Cells, FieldsAre, FramesCounted, BothFields,
       Life!Init
  <2>2. FramesFollow'
    BY <1>1, RuleIsSame DEF LifeInv, FramesFollow, BothFields
  <2> QED BY <2>1, <2>2 DEF LifeInv
<1>2. CASE UNCHANGED lives
  <2>1. life' = life
        /\ UNCHANGED <<width, height, steps, field, source, frame, column, files>>
    BY <1>2 DEF lives
  <2>2. life' = "exited" => frame > steps
    BY <2>1 DEF LifeInv, FramesCounted
  <2> QED BY <1>1, <2>1, <2>2
<1>3. CASE Life!free_field
  BY <1>1, <1>3 DEF Life!free_field, Life!arguments
<1>4. CASE Life!Usage
  BY <1>4 DEF Life!Usage, Life!arguments, LifeInv, Life!Init, Life!TypeOK, Life!Cells,
     FieldsAre, FramesCounted, FramesFollow, BothFields
<1> QED BY <1>2, <1>3, <1>4, LifeStart, WriteFieldInv, StepColumnInv, SwapInv
        DEF Life!Next, Life!main, Life!step_field

\* For fields of any size, whatever they begin with and whatever garbage is in the
\* second buffer: every frame is the generation after the one before it.
THEOREM FramesFollowTheRule == Spec => []FramesAreGenerations
<1> DEFINE Inv == Checks(6) => LifeInv
<1>1. Init => Inv
  BY LifeInit DEF Init
<1>2. Inv /\ [Next]_allvars => Inv'
  BY StepOfOne, LifeNext
<1>3. Inv => FramesAreGenerations
  BY LifeInvImplies DEF FramesAreGenerations, LifeInv
<1> QED BY <1>1, <1>2, <1>3, PTL DEF Spec

---------------------------------------------------------------------------
(* The free list as a sequence.                                            *)

Increasing(f) == \A j, k \in DOMAIN f : j < k => f[j] < f[k]

On(f, b) == \E k \in DOMAIN f : f[k] = b

\* Blocks from 1 to n, in order.
Listing(f, n) == f \in Seq(1 .. n) /\ Increasing(f)

AnyPool == [mapped : BOOLEAN, free : Seq(Nat)]

\* The walk along the list ends somewhere.
LEMMA WalkEnds ==
  ASSUME NEW f \in Seq(Nat), NEW b \in Nat
  PROVE  LET k == Bench!Passed(f, b)
         IN /\ k \in 0 .. Len(f)
            /\ \A j \in 1 .. k : f[j] <= b
            /\ k = Len(f) \/ f[k + 1] > b
<1>1. PICK n \in Nat : n = Len(f)
  OBVIOUS
<1> DEFINE Ends(k) == /\ \A j \in 1 .. k : f[j] <= b
                      /\ k = n \/ f[k + 1] > b
           S == {k \in 0 .. n : \A j \in 1 .. k : f[j] <= b}
<1>2. \E k \in 0 .. n : Ends(k)
  <2> SUFFICES ASSUME \A k \in 0 .. n : ~Ends(k) PROVE FALSE
    OBVIOUS
  <2>1. 0 \in S
    OBVIOUS
  <2>2. ASSUME NEW k \in Nat, k < n, k \in S PROVE k + 1 \in S
    <3>1. f[k + 1] <= b
      <4>1. f[k + 1] \in Nat
        BY <1>1, <2>2
      <4> QED BY <2>2, <4>1
    <3> QED BY <2>2, <3>1
  <2>3. \A k \in 0 .. n : k \in S
    <3> HIDE DEF S, Ends
    <3> QED BY <2>1, <2>2, AllUpTo
  <2>4. n \in S
    BY <2>3
  <2> QED BY <2>4
<1>3. Bench!Passed(f, b) = CHOOSE k \in 0 .. n : Ends(k)
  BY <1>1 DEF Bench!Passed
<1>4. Ends(Bench!Passed(f, b)) /\ Bench!Passed(f, b) \in 0 .. n
  <2> HIDE DEF Ends
  <2> QED BY <1>2, <1>3
<1> QED BY <1>1, <1>4

\* One sequence after another.
LEMMA Joined ==
  ASSUME NEW S, NEW x \in Seq(S), NEW y \in Seq(S), NEW z, z = x \o y
  PROVE  /\ z \in Seq(S) /\ Len(z) = Len(x) + Len(y)
         /\ \A j \in 1 .. Len(x) : z[j] = x[j]
         /\ \A j \in 1 .. Len(y) : z[Len(x) + j] = y[j]
<1>1. /\ z \in Seq(S) /\ Len(z) = Len(x) + Len(y)
      /\ \A j \in 1 .. Len(x) + Len(y) :
           z[j] = IF j <= Len(x) THEN x[j] ELSE y[j - Len(x)]
  BY ConcatProperties
<1>2. PICK m \in Nat : m = Len(x)
  OBVIOUS
<1>3. PICK k \in Nat : k = Len(y)
  OBVIOUS
<1>4. ASSUME NEW j \in 1 .. m PROVE z[j] = x[j]
  <2>1. j \in 1 .. m + k /\ j <= m
    OBVIOUS
  <2> QED BY <1>1, <1>2, <1>3, <2>1
<1>5. ASSUME NEW j \in 1 .. k PROVE z[m + j] = y[j]
  <2>1. m + j \in 1 .. m + k /\ ~(m + j <= m) /\ (m + j) - m = j
    OBVIOUS
  <2> QED BY <1>1, <1>2, <1>3, <2>1
<1> QED BY <1>1, <1>2, <1>3, <1>4, <1>5

\* A block that is not on the list is put in its place.
LEMMA InsertedInList ==
  ASSUME NEW n \in Int, NEW f \in Seq(1 .. n), Increasing(f),
         NEW b \in 1 .. n, \A j \in DOMAIN f : f[j] # b
  PROVE  \E k, z :
           /\ k = Bench!Passed(f, b) /\ ~(k > 0 /\ f[k] = b)
           /\ z = SubSeq(f, 1, k) \o <<b>> \o SubSeq(f, k + 1, Len(f))
           /\ Listing(z, n) /\ \A c : On(z, c) <=> c = b \/ On(f, c)
<1>1. f \in Seq(Nat) /\ b \in Nat
  BY SeqMonotonic
<1>2. PICK m \in Nat : m = Len(f) /\ DOMAIN f = 1 .. m /\ \A k \in 1 .. m : f[k] \in 1 .. n
  OBVIOUS
<1>3. PICK k \in 0 .. m :
        /\ k = Bench!Passed(f, b)
        /\ \A j \in 1 .. k : f[j] <= b
        /\ k = m \/ f[k + 1] > b
  BY <1>1, <1>2, WalkEnds
<1>4. /\ \A j \in 1 .. k : f[j] < b
      /\ \A j \in k + 1 .. m : f[j] > b
  <2>1. ASSUME NEW j \in 1 .. k PROVE f[j] < b
    <3>1. f[j] # b /\ f[j] \in Nat /\ f[j] <= b
      BY <1>2, <1>3
    <3> QED BY <3>1
  <2>2. ASSUME NEW j \in k + 1 .. m PROVE f[j] > b
    <3>1. /\ k + 1 \in 1 .. m /\ j \in 1 .. m /\ f[k + 1] > b
          /\ f[j] \in Nat /\ f[k + 1] \in Nat
      BY <1>2, <1>3
    <3>2. j = k + 1 \/ f[k + 1] < f[j]
      BY <1>2, <3>1, SMTT(30) DEF Increasing
    <3> QED BY <3>1, <3>2
  <2> QED BY <2>1, <2>2
<1>5. PICK x : x = SubSeq(f, 1, k)
  OBVIOUS
<1>6. PICK y : y = SubSeq(f, k + 1, m)
  OBVIOUS
<1>7. PICK z : z = (x \o <<b>>) \o y
  OBVIOUS
<1>8. /\ x \in Seq(1 .. n) /\ Len(x) = k /\ \A j \in 1 .. k : x[j] = f[j]
      /\ y \in Seq(1 .. n) /\ Len(y) = m - k /\ \A j \in 1 .. m - k : y[j] = f[k + j]
  <2>1. /\ x \in Seq(1 .. n) /\ Len(x) = k /\ \A j \in 1 .. k : x[j] = f[j]
    BY <1>2, <1>5, SubSeqProperties
  <2>2. /\ y \in Seq(1 .. n) /\ Len(y) = m - k /\ \A j \in 1 .. m - k : y[j] = f[k + j]
    BY <1>2, <1>6, SubSeqProperties
  <2> QED BY <2>1, <2>2
<1>9. /\ x \o <<b>> \in Seq(1 .. n) /\ Len(x \o <<b>>) = k + 1
      /\ \A j \in 1 .. k : (x \o <<b>>)[j] = f[j]
      /\ (x \o <<b>>)[k + 1] = b
  <2>1. <<b>> \in Seq(1 .. n) /\ Len(<<b>>) = 1 /\ <<b>>[1] = b
    OBVIOUS
  <2>2. PICK w : w = x \o <<b>>
    OBVIOUS
  <2>3. PICK u : u = <<b>>
    OBVIOUS
  <2>4. u \in Seq(1 .. n) /\ Len(u) = 1 /\ u[1] = b /\ w = x \o u
    BY <2>1, <2>2, <2>3
  <2>5. /\ w \in Seq(1 .. n) /\ Len(w) = Len(x) + Len(u)
        /\ \A j \in 1 .. Len(x) : w[j] = x[j]
        /\ \A j \in 1 .. Len(u) : w[Len(x) + j] = u[j]
    <3> x \in Seq(1 .. n) /\ u \in Seq(1 .. n) /\ w = x \o u
      BY <1>8, <2>4
    <3> QED BY Joined
  <2>6. /\ Len(w) = k + 1 /\ \A j \in 1 .. k : w[j] = f[j]
        /\ w[k + 1] = b
    BY <1>8, <2>4, <2>5
  <2> QED BY <2>2, <2>5, <2>6
<1>10. /\ z \in Seq(1 .. n) /\ Len(z) = m + 1 /\ DOMAIN z = 1 .. m + 1
       /\ \A j \in 1 .. m + 1 :
            z[j] = IF j <= k THEN f[j] ELSE IF j = k + 1 THEN b ELSE f[j - 1]
  <2> PICK w : w = x \o <<b>>
    OBVIOUS
  <2>0. /\ w \in Seq(1 .. n) /\ Len(w) = k + 1
        /\ (\A j \in 1 .. k : w[j] = f[j]) /\ w[k + 1] = b
    BY <1>9
  <2>1. /\ z \in Seq(1 .. n) /\ Len(z) = Len(w) + Len(y)
        /\ \A j \in 1 .. Len(w) : z[j] = w[j]
        /\ \A j \in 1 .. Len(y) : z[Len(w) + j] = y[j]
    <3> w \in Seq(1 .. n) /\ y \in Seq(1 .. n) /\ z = w \o y
      BY <1>7, <1>8, <2>0
    <3> QED BY Joined, SMTT(30)
  <2>2. Len(z) = m + 1 /\ DOMAIN z = 1 .. m + 1
    <3>1. Len(z) = (k + 1) + (m - k)
      BY <1>8, <2>0, <2>1
    <3>2. Len(z) = m + 1
      BY <3>1
    <3>3. z \in Seq(1 .. n)
      BY <2>1
    <3>4. DOMAIN z = 1 .. Len(z)
      BY <3>3
    <3> QED BY <3>2, <3>4
  <2>3. \A j \in 1 .. k + 1 : z[j] = w[j]
    BY <2>0, <2>1
  <2>4. \A j \in 1 .. m - k : z[(k + 1) + j] = f[k + j]
    <3>1. \A j \in 1 .. m - k : z[(k + 1) + j] = y[j]
      BY <1>8, <2>0, <2>1
    <3> QED BY <1>8, <3>1
  <2>5. ASSUME NEW j \in 1 .. m + 1
        PROVE  z[j] = IF j <= k THEN f[j] ELSE IF j = k + 1 THEN b ELSE f[j - 1]
    <3>1. CASE j <= k
      BY <2>0, <2>3, <3>1
    <3>2. CASE j = k + 1
      BY <2>0, <2>3, <3>2
    <3>3. CASE j > k + 1
      <4>1. PICK l \in Int : l = j - (k + 1)
        OBVIOUS
      <4>2. l \in 1 .. m - k /\ (k + 1) + l = j /\ k + l = j - 1
        BY <3>3, <4>1
      <4>3. z[j] = f[j - 1]
        BY <2>4, <4>2
      <4> QED BY <3>3, <4>3
    <3> QED BY <3>1, <3>2, <3>3
  <2> QED BY <2>1, <2>2, <2>5
<1>11. Increasing(z)
  <2> SUFFICES ASSUME NEW i1 \in 1 .. m + 1, NEW i2 \in 1 .. m + 1, i1 < i2
               PROVE  z[i1] < z[i2]
    BY <1>10 DEF Increasing
  <2>1. CASE i2 <= k
    <3>1. /\ z[i1] = f[i1] /\ z[i2] = f[i2]
          /\ i1 \in 1 .. m /\ i2 \in 1 .. m
      BY <1>10, <2>1
    <3> QED BY <1>2, <3>1 DEF Increasing
  <2>2. CASE i2 = k + 1
    <3>1. z[i1] = f[i1] /\ z[i2] = b /\ i1 \in 1 .. k
      BY <1>10, <2>2
    <3> QED BY <1>4, <3>1
  <2>3. CASE i2 > k + 1
    <3>1. i2 - 1 \in k + 1 .. m /\ z[i2] = f[i2 - 1] /\ i2 - 1 \in 1 .. m
      BY <1>10, <2>3
    <3>2. CASE i1 <= k
      <4>1. i1 \in 1 .. m /\ i1 < i2 - 1 /\ z[i1] = f[i1]
        BY <1>10, <2>3, <3>2
      <4> QED BY <1>2, <3>1, <4>1 DEF Increasing
    <3>3. CASE i1 = k + 1
      BY <1>4, <1>10, <3>1, <3>3
    <3>4. CASE i1 > k + 1
      <4>1. i1 - 1 \in 1 .. m /\ i1 - 1 < i2 - 1 /\ z[i1] = f[i1 - 1]
        BY <1>10, <2>3, <3>4
      <4> QED BY <1>2, <3>1, <4>1 DEF Increasing
    <3> QED BY <3>2, <3>3, <3>4
  <2> QED BY <2>1, <2>2, <2>3
<1>12. ASSUME NEW c
       PROVE  (\E j \in DOMAIN z : z[j] = c) <=> c = b \/ \E j \in DOMAIN f : f[j] = c
  <2>1. ASSUME NEW j \in 1 .. m PROVE \E l \in 1 .. m + 1 : z[l] = f[j]
    <3>1. CASE j <= k
      <4>1. j \in 1 .. m + 1 /\ z[j] = f[j]
        BY <1>10, <3>1
      <4> QED BY <4>1
    <3>2. CASE j > k
      <4>1. j + 1 \in 1 .. m + 1 /\ ~(j + 1 <= k) /\ j + 1 # k + 1 /\ (j + 1) - 1 = j
        BY <3>2
      <4>2. z[j + 1] = f[j]
        BY <1>10, <4>1
      <4> QED BY <4>1, <4>2
    <3> QED BY <3>1, <3>2
  <2>2. z[k + 1] = b /\ k + 1 \in 1 .. m + 1
    BY <1>10
  <2>3. ASSUME NEW j \in 1 .. m + 1, z[j] # b PROVE \E l \in 1 .. m : z[j] = f[l]
    <3>1. CASE j <= k
      <4>1. j \in 1 .. m /\ z[j] = f[j]
        BY <1>10, <3>1
      <4> QED BY <4>1
    <3>2. CASE j > k + 1
      <4>1. j - 1 \in 1 .. m /\ z[j] = f[j - 1]
        BY <1>10, <3>2
      <4> QED BY <4>1
    <3>3. CASE j = k + 1
      BY <2>2, <2>3, <3>3
    <3> QED BY <3>1, <3>2, <3>3
  <2>4. ASSUME NEW j \in 1 .. m + 1, z[j] = c
        PROVE  c = b \/ \E l \in 1 .. m : f[l] = c
    BY <2>3, <2>4
  <2>5. ASSUME c = b \/ \E l \in 1 .. m : f[l] = c
        PROVE  \E j \in 1 .. m + 1 : z[j] = c
    BY <2>1, <2>2, <2>5
  <2> QED BY <1>2, <1>10, <2>4, <2>5
<1>13. Listing(z, n)
  BY <1>10, <1>11 DEF Listing
<1>14. \A c : On(z, c) <=> c = b \/ On(f, c)
  BY <1>12 DEF On
<1>15. ~(k > 0 /\ f[k] = b)
  BY <1>2, <1>3
<1>16. z = SubSeq(f, 1, k) \o <<b>> \o SubSeq(f, k + 1, Len(f))
  BY <1>2, <1>5, <1>6, <1>7
<1> QED BY <1>3, <1>13, <1>14, <1>15, <1>16

LEMMA FreeInserts ==
  ASSUME NEW n \in Int, NEW pl \in AnyPool, pl.mapped, Listing(pl.free, n),
         NEW b \in 1 .. n, ~On(pl.free, b)
  PROVE  \E q : /\ q = Bench!my_free(pl, b)
               /\ q \in AnyPool /\ q.mapped /\ Listing(q.free, n)
               /\ \A c : On(q.free, c) <=> c = b \/ On(pl.free, c)
<1>1. PICK f : f = pl.free
  OBVIOUS
<1>2. f \in Seq(1 .. n) /\ Increasing(f) /\ \A j \in DOMAIN f : f[j] # b
  BY <1>1 DEF Listing, On
<1>3. PICK k, z :
        /\ k = Bench!Passed(f, b) /\ ~(k > 0 /\ f[k] = b)
        /\ z = SubSeq(f, 1, k) \o <<b>> \o SubSeq(f, k + 1, Len(f))
        /\ Listing(z, n) /\ \A c : On(z, c) <=> c = b \/ On(f, c)
  BY <1>2, InsertedInList
<1>4. z \in Seq(Nat)
  <2>1. z \in Seq(1 .. n) /\ (1 .. n) \subseteq Nat
    BY <1>3, SMTT(30) DEF Listing
  <2> QED BY <2>1, SeqMonotonic
<1>5. PICK q : q = [pl EXCEPT !.free = z]
  OBVIOUS
<1>6. q \in AnyPool /\ q.mapped /\ q.free = z
  BY <1>4, <1>5 DEF AnyPool
<1>7. q = Bench!my_free(pl, b)
  BY <1>1, <1>3, <1>5 DEF Bench!my_free
<1> QED BY <1>1, <1>3, <1>6, <1>7

\* The rest of a list: all but its first block, in the same order.
LEMMA RestOfList ==
  ASSUME NEW n \in Int, NEW f \in Seq(1 .. n), Increasing(f), f # <<>>
  PROVE  \E b, z : /\ b = Head(f) /\ z = Tail(f)
                  /\ b \in 1 .. n /\ Listing(z, n) /\ ~On(z, b)
                  /\ \A c : On(f, c) <=> c = b \/ On(z, c)
<1>1. PICK z : z = Tail(f)
  OBVIOUS
<1>2. PICK m \in Nat : m = Len(f) /\ DOMAIN f = 1 .. m /\ \A k \in 1 .. m : f[k] \in 1 .. n
  OBVIOUS
<1>3. m # 0
  BY <1>2
<1>4. PICK b : b = f[1]
  OBVIOUS
<1>5. /\ z \in Seq(1 .. n) /\ Len(z) = m - 1 /\ DOMAIN z = 1 .. m - 1
      /\ \A k \in 1 .. m - 1 : z[k] = f[k + 1]
  <2>1. /\ z \in Seq(1 .. n) /\ Len(z) = Len(f) - 1
        /\ \A k \in 1 .. Len(z) : z[k] = f[k + 1]
    BY <1>1, HeadTailProperties
  <2> QED BY <1>2, <1>3, <2>1
<1>10. b \in 1 .. n
  BY <1>2, <1>3, <1>4
<1>11. Increasing(z)
  <2> SUFFICES ASSUME NEW j \in 1 .. m - 1, NEW k \in 1 .. m - 1, j < k
               PROVE  z[j] < z[k]
    BY <1>5 DEF Increasing
  <2>1. j + 1 \in 1 .. m /\ k + 1 \in 1 .. m /\ j + 1 < k + 1
    OBVIOUS
  <2>2. f[j + 1] < f[k + 1]
    BY <1>2, <2>1 DEF Increasing
  <2> QED BY <1>5, <2>2
<1>12. ASSUME NEW k \in 1 .. m - 1 PROVE z[k] # b
  <2>1. 1 \in 1 .. m /\ k + 1 \in 1 .. m /\ 1 < k + 1
    OBVIOUS
  <2>2. f[1] < f[k + 1]
    BY <1>2, <2>1 DEF Increasing
  <2>3. f[1] \in Int /\ f[k + 1] \in Int
    BY <1>2, <2>1
  <2> QED BY <1>4, <1>5, <2>2, <2>3, SMTT(30)
<1>13. ASSUME NEW c
       PROVE  (\E k \in 1 .. m : f[k] = c) <=> c = b \/ \E k \in 1 .. m - 1 : z[k] = c
  <2>1. ASSUME NEW k \in 1 .. m, f[k] = c, c # b PROVE \E j \in 1 .. m - 1 : z[j] = c
    <3>1. k # 1
      BY <1>4, <2>1
    <3>2. k - 1 \in 1 .. m - 1 /\ (k - 1) + 1 = k
      BY <3>1
    <3>3. z[k - 1] = f[k]
      BY <1>5, <3>2
    <3> QED BY <2>1, <3>2, <3>3
  <2>2. ASSUME c = b PROVE \E k \in 1 .. m : f[k] = c
    <3>1. 1 \in 1 .. m
      BY <1>3
    <3> QED BY <1>4, <2>2, <3>1
  <2>3. ASSUME NEW k \in 1 .. m - 1, z[k] = c PROVE \E j \in 1 .. m : f[j] = c
    <3>1. k + 1 \in 1 .. m /\ f[k + 1] = c
      BY <1>5, <2>3
    <3> QED BY <3>1
  <2> QED BY <2>1, <2>2, <2>3
<1>14. Listing(z, n)
  BY <1>5, <1>11 DEF Listing
<1>15. ~On(z, b)
  BY <1>5, <1>12 DEF On
<1>16. \A c : On(f, c) <=> c = b \/ On(z, c)
  <2> TAKE c
  <2>1. On(f, c) <=> \E k \in 1 .. m : f[k] = c
    BY <1>2 DEF On
  <2>2. On(z, c) <=> \E k \in 1 .. m - 1 : z[k] = c
    BY <1>5 DEF On
  <2> QED BY <1>13, <2>1, <2>2
<1>17. b = Head(f)
  BY <1>4
<1> QED BY <1>1, <1>10, <1>14, <1>15, <1>16, <1>17

\* What an allocation returns, and the pool after it.
Takes(pl, b, q) ==
  b = Bench!my_malloc(pl, TRUE) /\ q = Bench!AfterMalloc(pl, TRUE)

\* The first block of the list is taken off it.
LEMMA MallocTakes ==
  ASSUME NEW n \in Int, NEW pl \in AnyPool, pl.mapped, Listing(pl.free, n),
         pl.free # <<>>
  PROVE  \E q, b : /\ Takes(pl, b, q)
                  /\ q \in AnyPool /\ q.mapped /\ b \in 1 .. n
                  /\ Listing(q.free, n) /\ ~On(q.free, b)
                  /\ \A c : On(pl.free, c) <=> c = b \/ On(q.free, c)
<1>1. PICK f : f = pl.free
  OBVIOUS
<1>2. f \in Seq(1 .. n) /\ Increasing(f) /\ f # <<>>
  BY <1>1 DEF Listing
<1>3. PICK b, z :
        /\ b = Head(f) /\ z = Tail(f)
        /\ b \in 1 .. n /\ Listing(z, n) /\ ~On(z, b)
        /\ \A c : On(f, c) <=> c = b \/ On(z, c)
  BY <1>2, RestOfList
<1>4. z \in Seq(Nat)
  BY <1>3, SeqMonotonic DEF Listing
<1>5. PICK q : q = [pl EXCEPT !.free = z]
  OBVIOUS
<1>6. q \in AnyPool /\ q.mapped /\ q.free = z
  BY <1>4, <1>5 DEF AnyPool
<1>7. Takes(pl, b, q)
  BY <1>1, <1>2, <1>3, <1>5
     DEF Takes, Bench!AfterMalloc, Bench!my_malloc, Bench!Available
<1> QED BY <1>1, <1>3, <1>6, <1>7

---------------------------------------------------------------------------
(* The benchmark's invariant: each block of a pool is on its list or with  *)
(* one thread.                                                             *)

OnList(p, b) == On(pools[p].free, b)

Held(p, b) ==
  \E t \in Bench!Threads, s \in Bench!Slots : Bench!PoolOf(t) = p /\ ptrs[t][s] = b

\* A pool exists while those who use it do, and its list is in order.
PoolsAre ==
  /\ pools \in [Bench!Threads \cup {0} -> AnyPool]
  /\ \A p \in Bench!Threads \cup {0} : pools[p].mapped =>
       /\ ~Bench!system /\ stage = "join"
       /\ 1 <= Bench!Blocks
       /\ Listing(pools[p].free, Bench!Blocks - 1)
       /\ IF Bench!init_per_thread
          THEN p # 0 /\ bencher[p] \in {"loop", "drain"}
          ELSE p = 0

\* What a thread holds is a block of its pool, that no other slot holds, and that
\* is not on the list.
BlocksAre ==
  /\ \A t \in Bench!Threads, s \in Bench!Slots : ptrs[t][s] >= 0 =>
       pools[Bench!PoolOf(t)].mapped /\ ptrs[t][s] \in 1 .. Bench!Blocks - 1
  /\ \A t, u \in Bench!Threads, s, v \in Bench!Slots :
       ptrs[t][s] >= 0 /\ ptrs[t][s] = ptrs[u][v] /\ Bench!PoolOf(t) = Bench!PoolOf(u) =>
         t = u /\ s = v
  /\ \A p \in Bench!Threads \cup {0} : pools[p].mapped =>
       \A b \in 1 .. Bench!Blocks - 1 : OnList(p, b) <=> ~Held(p, b)

\* A thread holds nothing before its loop and after it.
ThreadsAre ==
  /\ \A t \in Bench!Threads :
       /\ bencher[t] \in {"none", "init", "exited"} =>
            \A s \in Bench!Slots : ptrs[t][s] = Bench!NULL
       /\ bencher[t] = "drain" =>
            \A s \in Bench!Slots : s < slot[t] => ptrs[t][s] = Bench!NULL
       /\ bencher[t] = "loop" => slot[t] \in Bench!Slots
       /\ stage = "join" /\ t > Bench!num_threads => bencher[t] = "none"
  /\ stage # "join" => bencher = Bench!Idle
  /\ build = "none" => stage = "none"

BenchInv == Bench!TypeOK /\ PoolsAre /\ BlocksAre /\ ThreadsAre

\* The threads are numbered from 1 on, and no round has none of them.
LEMMA BenchSizes ==
  /\ Bench!Threads \subseteq Nat \ {0}
  /\ Bench!TypeOK => /\ Bench!num_threads \in Nat \ {0}
                     /\ Bench!Blocks \in 0 .. PoolBlocks
<1>1. \A k \in 1 .. Len(Configs) : Configs[k] \in Nat \ {0}
  BY BenchAssumption
<1>2. Bench!Threads \subseteq Nat \ {0}
  <2>1. Bench!Threads = UNION {1 .. Configs[k] : k \in 1 .. Len(Configs)}
    BY BenchAssumption DEF Bench!Threads
  <2> QED BY <1>1, <2>1
<1>3. ASSUME Bench!TypeOK PROVE Bench!num_threads \in Nat \ {0}
  <2>1. PICK l \in Nat : l = Len(Configs)
    BY BenchAssumption
  <2>2. round \in 1 .. 2 * l
    BY <1>3, <2>1 DEF Bench!TypeOK
  <2>3. (round + 1) \div 2 \in 1 .. l
    BY <2>2
  <2> QED BY <1>1, <2>1, <2>3 DEF Bench!num_threads
<1>4. ASSUME NEW m \in Nat \ {0} PROVE PoolBlocks \div m \in 0 .. PoolBlocks
  <2>1. PICK d \in Int : d = PoolBlocks \div m
    BY BenchAssumption
  <2>2. m * d <= PoolBlocks /\ PoolBlocks < m * d + m
    BY <2>1, BenchAssumption
  <2>3. d >= 0
    BY <2>2, BenchAssumption
  <2>4. d <= PoolBlocks
    BY <2>2, <2>3, BenchAssumption
  <2> QED BY <2>1, <2>3, <2>4, BenchAssumption
<1>5. ASSUME Bench!TypeOK PROVE Bench!Blocks \in 0 .. PoolBlocks
  BY <1>3, <1>4, <1>5, BenchAssumption DEF Bench!Blocks
<1> QED BY <1>2, <1>3, <1>5

\* Nothing that the size of a pool depends on changes while threads run.
LEMMA SamePools ==
  ASSUME UNCHANGED <<build, round>>
  PROVE  /\ Bench!system' <=> Bench!system
         /\ Bench!init_per_thread' <=> Bench!init_per_thread
         /\ Bench!num_threads' = Bench!num_threads
         /\ Bench!Blocks' = Bench!Blocks
         /\ \A t : Bench!PoolOf(t)' = Bench!PoolOf(t)
BY DEF Bench!system, Bench!init_per_thread, Bench!num_threads, Bench!Blocks,
       Bench!PoolOf

LEMMA BenchInit == Bench!Init => BenchInv
<1> SUFFICES ASSUME Bench!Init PROVE BenchInv
  OBVIOUS
<1>1. /\ build = "none" /\ stage = "none" /\ round = 1 /\ bencher = Bench!Idle
      /\ slot = [t \in Bench!Threads |-> 1]
      /\ ptrs = [t \in Bench!Threads |-> [s \in Bench!Slots |-> Bench!NULL]]
      /\ allocations_left = [t \in Bench!Threads |-> 0]
      /\ pools = [p \in Bench!Threads \cup {0} |-> Bench!Unmapped]
  BY DEF Bench!Init, Bench!Main
<1>2. Bench!TypeOK
  <2>1. Len(Configs) \in Nat /\ Len(Configs) # 0
    BY BenchAssumption
  <2>2. round \in 1 .. 2 * Len(Configs)
    BY <1>1, <2>1
  <2>3. slot \in [Bench!Threads -> 1 .. ALLOCATION_BUFFER_SIZE + 1]
    BY <1>1, BenchAssumption
  <2>4. allocations_left \in [Bench!Threads -> 0 .. NumAllocations]
    BY <1>1, BenchAssumption
  <2>5. ptrs \in [Bench!Threads -> [Bench!Slots -> {Bench!NULL, Bench!Heap} \cup 1 .. PoolBlocks]]
    BY <1>1
  <2> QED BY <1>1, <2>2, <2>3, <2>4, <2>5 DEF Bench!TypeOK, Bench!Idle
<1>3. <<>> \in Seq(Nat)
  OBVIOUS
<1>4. PoolsAre
  BY <1>1, <1>3 DEF PoolsAre, AnyPool, Bench!Unmapped
<1>5. BlocksAre
  <2>1. \A p \in Bench!Threads \cup {0} : ~pools[p].mapped
    BY <1>1 DEF Bench!Unmapped
  <2>2. \A t \in Bench!Threads, s \in Bench!Slots : ~(ptrs[t][s] >= 0)
    BY <1>1 DEF Bench!NULL
  <2> QED BY <2>1, <2>2 DEF BlocksAre
<1>6. ThreadsAre
  BY <1>1 DEF ThreadsAre, Bench!Idle
<1> QED BY <1>2, <1>4, <1>5, <1>6 DEF BenchInv

\* Freeing what the slot holds.
LEMMA FreeKeeps ==
  ASSUME BenchInv, NEW t \in Bench!Threads, slot[t] \in Bench!Slots, Bench!FreeHeld(t),
         UNCHANGED <<build, stage, round, bencher>>
  PROVE  /\ PoolsAre' /\ BlocksAre'
         /\ ptrs' \in [Bench!Threads -> [Bench!Slots -> {Bench!NULL, Bench!Heap} \cup 1 .. PoolBlocks]]
         /\ \A u \in Bench!Threads, s \in Bench!Slots :
              ptrs'[u][s] = IF u = t /\ s = slot[t] THEN Bench!NULL ELSE ptrs[u][s]
<1>1. ptrs' = [ptrs EXCEPT ![t][slot[t]] = Bench!NULL]
  BY DEF Bench!FreeHeld
<1>2. \A u \in Bench!Threads, s \in Bench!Slots :
        ptrs'[u][s] = IF u = t /\ s = slot[t] THEN Bench!NULL ELSE ptrs[u][s]
  BY <1>1 DEF BenchInv, Bench!TypeOK
<1>3. ptrs' \in [Bench!Threads -> [Bench!Slots -> {Bench!NULL, Bench!Heap} \cup 1 .. PoolBlocks]]
  BY <1>1 DEF BenchInv, Bench!TypeOK
<1>4. PICK b : b = ptrs[t][slot[t]]
  OBVIOUS
<1>5. b \in {-1, -2} \cup 1 .. PoolBlocks
  BY <1>4 DEF BenchInv, Bench!TypeOK, Bench!NULL, Bench!Heap
<1>6. \A u \in Bench!Threads : Bench!PoolOf(u) \in Bench!Threads \cup {0}
  BY DEF Bench!PoolOf, Bench!Main
<1>7. \A p, c : OnList(p, c)' <=> On(pools'[p].free, c)
  BY DEF OnList
<1>8. \A p, c : Held(p, c)' <=>
        \E u \in Bench!Threads, s \in Bench!Slots : Bench!PoolOf(u) = p /\ ptrs'[u][s] = c
  BY SamePools DEF Held
<1>9. \A p \in Bench!Threads \cup {0}, c \in Nat :
        Held(p, c)' <=> Held(p, c) /\ ~(p = Bench!PoolOf(t) /\ c = b)
  <2> TAKE p \in Bench!Threads \cup {0}, c \in Nat
  <2>1. ASSUME Held(p, c)' PROVE Held(p, c) /\ ~(p = Bench!PoolOf(t) /\ c = b)
    <3>1. PICK u \in Bench!Threads, s \in Bench!Slots : Bench!PoolOf(u) = p /\ ptrs'[u][s] = c
      BY <1>8, <2>1
    <3>2. ~(u = t /\ s = slot[t]) /\ ptrs[u][s] = c
      BY <1>2, <3>1 DEF Bench!NULL
    <3>3. ~(p = Bench!PoolOf(t) /\ c = b)
      BY <1>4, <3>1, <3>2 DEF BenchInv, BlocksAre
    <3> QED BY <3>1, <3>2, <3>3 DEF Held
  <2>2. ASSUME Held(p, c), ~(p = Bench!PoolOf(t) /\ c = b) PROVE Held(p, c)'
    <3>1. PICK u \in Bench!Threads, s \in Bench!Slots : Bench!PoolOf(u) = p /\ ptrs[u][s] = c
      BY <2>2 DEF Held
    <3>2. ptrs'[u][s] = c
      BY <1>2, <1>4, <2>2, <3>1
    <3> QED BY <1>8, <3>1, <3>2
  <2> QED BY <2>1, <2>2
<1>10. CASE b \in {-1, -2}
  <2>1. pools' = pools
    BY <1>4, <1>10 DEF Bench!FreeHeld, Bench!held, Bench!NULL, Bench!Heap
  <2>2. PoolsAre'
    BY <2>1, SamePools DEF BenchInv, PoolsAre
  <2>3. BlocksAre'
    <3>1. \A u \in Bench!Threads, s \in Bench!Slots : ptrs'[u][s] >= 0 =>
            ptrs'[u][s] = ptrs[u][s]
      BY <1>2 DEF Bench!NULL
    <3>2. \A p, c : OnList(p, c)' <=> OnList(p, c)
      BY <1>7, <2>1 DEF OnList
    <3>3. \A p \in Bench!Threads \cup {0}, c \in Nat : Held(p, c)' <=> Held(p, c)
      BY <1>9, <1>10
    <3>4. \A c \in 1 .. Bench!Blocks - 1 : c \in Nat
      BY BenchSizes DEF BenchInv
    <3>5. \A u \in Bench!Threads, s \in Bench!Slots : ptrs'[u][s] >= 0 =>
            pools'[Bench!PoolOf(u)'].mapped /\ ptrs'[u][s] \in 1 .. Bench!Blocks' - 1
      BY <2>1, <3>1, SamePools DEF BenchInv, BlocksAre
    <3>6. \A u, w \in Bench!Threads, s, v \in Bench!Slots :
            ptrs'[u][s] >= 0 /\ ptrs'[u][s] = ptrs'[w][v]
              /\ Bench!PoolOf(u)' = Bench!PoolOf(w)' => u = w /\ s = v
      BY <3>1, SamePools DEF BenchInv, BlocksAre
    <3>7. \A p \in Bench!Threads \cup {0} : pools'[p].mapped =>
            \A c \in 1 .. Bench!Blocks' - 1 : OnList(p, c)' <=> ~Held(p, c)'
      BY <2>1, <3>2, <3>3, <3>4, SamePools DEF BenchInv, BlocksAre
    <3> QED BY <3>5, <3>6, <3>7 DEF BlocksAre
  <2> QED BY <1>2, <1>3, <2>2, <2>3
<1>11. CASE b \in 1 .. PoolBlocks
  <2>1. PICK o : o = Bench!PoolOf(t)
    OBVIOUS
  <2>2. /\ o \in Bench!Threads \cup {0} /\ pools[o].mapped
        /\ b \in 1 .. Bench!Blocks - 1
    BY <1>4, <1>6, <1>11, <2>1 DEF BenchInv, BlocksAre
  <2>5. Held(o, b)
    BY <1>4, <2>1 DEF Held
  <2>13. PICK pl : pl = pools[o]
    OBVIOUS
  <2>12. /\ pl \in AnyPool /\ pl.mapped /\ Listing(pl.free, Bench!Blocks - 1)
         /\ Bench!Blocks - 1 \in Int
         /\ ~On(pl.free, b)
    BY <2>2, <2>5, <2>13, BenchSizes DEF BenchInv, PoolsAre, BlocksAre, OnList
  <2>8. PICK q :
        /\ q = Bench!my_free(pl, b)
        /\ q \in AnyPool /\ q.mapped /\ Listing(q.free, Bench!Blocks - 1)
        /\ \A c : On(q.free, c) <=> c = b \/ On(pl.free, c)
    BY <2>2, <2>12, FreeInserts
  <2>4. pools' = [pools EXCEPT ![o] = q]
    BY <1>4, <1>11, <2>1, <2>8, <2>13 DEF Bench!FreeHeld, Bench!held, Bench!NULL, Bench!Heap
  <2>9. \A p \in Bench!Threads \cup {0} : pools'[p] = IF p = o THEN q ELSE pools[p]
    BY <2>2, <2>4 DEF BenchInv, PoolsAre
  <2>10. PoolsAre'
    <3>1. pools' \in [Bench!Threads \cup {0} -> AnyPool]
      BY <2>4, <2>8 DEF BenchInv, PoolsAre
    <3>2. ASSUME NEW p \in Bench!Threads \cup {0}, pools'[p].mapped
          PROVE  /\ ~Bench!system /\ stage = "join"
                 /\ 1 <= Bench!Blocks
                 /\ Listing(pools'[p].free, Bench!Blocks - 1)
                 /\ IF Bench!init_per_thread
                    THEN p # 0 /\ bencher[p] \in {"loop", "drain"}
                    ELSE p = 0
      BY <2>2, <2>8, <2>9, <3>2 DEF BenchInv, PoolsAre
    <3> QED BY <3>1, <3>2, SamePools DEF PoolsAre
  <2>11. BlocksAre'
    <3>1. \A u \in Bench!Threads, s \in Bench!Slots : ptrs'[u][s] >= 0 =>
            ptrs'[u][s] = ptrs[u][s]
      BY <1>2 DEF Bench!NULL
    <3>2. \A p \in Bench!Threads \cup {0} : pools'[p].mapped <=> pools[p].mapped
      BY <2>2, <2>8, <2>9
    <3>3. \A p \in Bench!Threads \cup {0} : \A c :
            OnList(p, c)' <=> OnList(p, c) \/ (p = o /\ c = b)
      <4> TAKE p \in Bench!Threads \cup {0}
      <4> TAKE c
      <4>1. CASE p = o
        <5>1. pools'[p].free = q.free
          BY <2>9, <4>1
        <5>2. OnList(p, c)' <=> On(q.free, c)
          BY <1>7, <5>1
        <5>3. OnList(p, c) <=> On(pl.free, c)
          BY <2>13, <4>1 DEF OnList
        <5> QED BY <2>8, <4>1, <5>2, <5>3
      <4>2. CASE p # o
        BY <1>7, <2>9, <4>2 DEF OnList
      <4> QED BY <4>1, <4>2
    <3>4. \A c \in 1 .. Bench!Blocks - 1 : c \in Nat
      BY BenchSizes DEF BenchInv
    <3>5. \A u \in Bench!Threads, s \in Bench!Slots : ptrs'[u][s] >= 0 =>
            pools'[Bench!PoolOf(u)'].mapped /\ ptrs'[u][s] \in 1 .. Bench!Blocks' - 1
      BY <1>6, <3>1, <3>2, SamePools DEF BenchInv, BlocksAre
    <3>6. \A u, w \in Bench!Threads, s, v \in Bench!Slots :
            ptrs'[u][s] >= 0 /\ ptrs'[u][s] = ptrs'[w][v]
              /\ Bench!PoolOf(u)' = Bench!PoolOf(w)' => u = w /\ s = v
      BY <3>1, SamePools DEF BenchInv, BlocksAre
    <3>7. ASSUME NEW p \in Bench!Threads \cup {0}, pools'[p].mapped,
                 NEW c \in 1 .. Bench!Blocks - 1
          PROVE  OnList(p, c)' <=> ~Held(p, c)'
      <4>1. OnList(p, c) <=> ~Held(p, c)
        BY <3>2, <3>7 DEF BenchInv, BlocksAre
      <4>2. OnList(p, c)' <=> OnList(p, c) \/ (p = o /\ c = b)
        BY <3>3
      <4>3. Held(p, c)' <=> Held(p, c) /\ ~(p = o /\ c = b)
        BY <1>9, <2>1, <3>4
      <4> QED BY <4>1, <4>2, <4>3
    <3>8. \A p \in Bench!Threads \cup {0} : pools'[p].mapped =>
            \A c \in 1 .. Bench!Blocks' - 1 : OnList(p, c)' <=> ~Held(p, c)'
      BY <3>7, SamePools
    <3> QED BY <3>5, <3>6, <3>8 DEF BlocksAre
  <2> QED BY <1>2, <1>3, <2>10, <2>11
<1> QED BY <1>5, <1>10, <1>11

\* An allocation to an empty slot.
LEMMA AllocateKeeps ==
  ASSUME BenchInv, NEW t \in Bench!Threads, Bench!Allocate(t)
  PROVE  /\ PoolsAre' /\ BlocksAre'
         /\ ptrs' \in [Bench!Threads -> [Bench!Slots -> {Bench!NULL, Bench!Heap} \cup 1 .. PoolBlocks]]
         /\ \A u \in Bench!Threads, s \in Bench!Slots :
              ~(u = t /\ s = slot[t]) => ptrs'[u][s] = ptrs[u][s]
<1>1. PICK b : b = IF Bench!system THEN Bench!Heap
                   ELSE Bench!my_malloc(pools[Bench!PoolOf(t)], TRUE)
  OBVIOUS
<1>2. /\ ptrs' = [ptrs EXCEPT ![t][slot[t]] = b]
      /\ pools' = IF Bench!system THEN pools
                  ELSE [pools EXCEPT ![Bench!PoolOf(t)] = Bench!AfterMalloc(@, TRUE)]
      /\ UNCHANGED <<build, stage, round, bencher>>
  BY <1>1 DEF Bench!Allocate
<1>3. bencher[t] = "loop" /\ slot[t] \in Bench!Slots
  BY DEF Bench!Allocate, Bench!Looping, BenchInv, ThreadsAre
<1>4. ptrs[t][slot[t]] = -1
  BY DEF Bench!Allocate, Bench!held, Bench!NULL
<1>5. \A u \in Bench!Threads, s \in Bench!Slots :
        ptrs'[u][s] = IF u = t /\ s = slot[t] THEN b ELSE ptrs[u][s]
  BY <1>2, <1>3 DEF BenchInv, Bench!TypeOK
<1>6. PICK o : o = Bench!PoolOf(t)
  OBVIOUS
<1>7. o \in Bench!Threads \cup {0}
  BY <1>6 DEF Bench!PoolOf, Bench!Main
<1>8. PICK pl : pl = pools[o]
  OBVIOUS
<1>9. pl \in AnyPool
  BY <1>7, <1>8 DEF BenchInv, PoolsAre
<1>10. \A p, c : OnList(p, c)' <=> On(pools'[p].free, c)
  BY DEF OnList
<1>11. \A p, c : Held(p, c)' <=>
         \E u \in Bench!Threads, s \in Bench!Slots : Bench!PoolOf(u) = p /\ ptrs'[u][s] = c
  BY <1>2, SamePools DEF Held
<1>12. \A p \in Bench!Threads \cup {0}, c \in Nat :
         Held(p, c)' <=> Held(p, c) \/ (p = o /\ c = b)
  <2> TAKE p \in Bench!Threads \cup {0}, c \in Nat
  <2>1. ASSUME Held(p, c)' PROVE Held(p, c) \/ (p = o /\ c = b)
    <3>1. PICK u \in Bench!Threads, s \in Bench!Slots : Bench!PoolOf(u) = p /\ ptrs'[u][s] = c
      BY <1>11, <2>1
    <3>2. CASE u = t /\ s = slot[t]
      BY <1>5, <1>6, <3>1, <3>2
    <3>3. CASE ~(u = t /\ s = slot[t])
      BY <1>5, <3>1, <3>3 DEF Held
    <3> QED BY <3>2, <3>3
  <2>2. ASSUME Held(p, c) PROVE Held(p, c)'
    <3>1. PICK u \in Bench!Threads, s \in Bench!Slots : Bench!PoolOf(u) = p /\ ptrs[u][s] = c
      BY <2>2 DEF Held
    <3>2. ptrs'[u][s] = c
      BY <1>4, <1>5, <3>1
    <3> QED BY <1>11, <3>1, <3>2
  <2>3. ASSUME p = o, c = b PROVE Held(p, c)'
    BY <1>3, <1>5, <1>6, <1>11, <2>3
  <2> QED BY <2>1, <2>2, <2>3
<1>13. \A c \in 1 .. Bench!Blocks - 1 : c \in Nat
  BY BenchSizes DEF BenchInv
\* Nothing is taken from a pool.
<1>14. CASE Bench!system \/ ~pl.mapped \/ pl.free = <<>>
  <2>1. b \in {-1, -2}
    BY <1>1, <1>6, <1>8, <1>14
       DEF Bench!my_malloc, Bench!Available, Bench!NULL, Bench!Heap
  <2>2. pools' = pools
    <3>1. CASE Bench!system
      BY <1>2, <3>1
    <3>2. CASE ~Bench!system
      <4>1. Bench!AfterMalloc(pl, TRUE) = pl
        BY <1>14, <3>2 DEF Bench!AfterMalloc, Bench!Available
      <4> QED BY <1>2, <1>6, <1>7, <1>8, <3>2, <4>1 DEF BenchInv, PoolsAre
    <3> QED BY <3>1, <3>2
  <2>3. ptrs' \in [Bench!Threads -> [Bench!Slots -> {Bench!NULL, Bench!Heap} \cup 1 .. PoolBlocks]]
    BY <1>2, <2>1 DEF BenchInv, Bench!TypeOK, Bench!NULL, Bench!Heap
  <2>4. PoolsAre'
    BY <1>2, <2>2, SamePools DEF BenchInv, PoolsAre
  <2>5. BlocksAre'
    <3>1. \A u \in Bench!Threads, s \in Bench!Slots : ptrs'[u][s] >= 0 =>
            ptrs'[u][s] = ptrs[u][s]
      BY <1>5, <2>1
    <3>2. \A p, c : OnList(p, c)' <=> OnList(p, c)
      BY <1>10, <2>2 DEF OnList
    <3>3. \A p \in Bench!Threads \cup {0}, c \in Nat : Held(p, c)' <=> Held(p, c)
      BY <1>12, <2>1
    <3>5. \A u \in Bench!Threads, s \in Bench!Slots : ptrs'[u][s] >= 0 =>
            pools'[Bench!PoolOf(u)'].mapped /\ ptrs'[u][s] \in 1 .. Bench!Blocks' - 1
      BY <1>2, <2>2, <3>1, SamePools DEF BenchInv, BlocksAre
    <3>6. \A u, w \in Bench!Threads, s, v \in Bench!Slots :
            ptrs'[u][s] >= 0 /\ ptrs'[u][s] = ptrs'[w][v]
              /\ Bench!PoolOf(u)' = Bench!PoolOf(w)' => u = w /\ s = v
      BY <1>2, <3>1, SamePools DEF BenchInv, BlocksAre
    <3>7. \A p \in Bench!Threads \cup {0} : pools'[p].mapped =>
            \A c \in 1 .. Bench!Blocks' - 1 : OnList(p, c)' <=> ~Held(p, c)'
      BY <1>2, <1>13, <2>2, <3>2, <3>3, SamePools DEF BenchInv, BlocksAre
    <3> QED BY <3>5, <3>6, <3>7 DEF BlocksAre
  <2> QED BY <1>5, <2>3, <2>4, <2>5
\* The head of its list is.
<1>15. CASE ~Bench!system /\ pl.mapped /\ pl.free # <<>>
  <2>1. Listing(pl.free, Bench!Blocks - 1) /\ Bench!Blocks - 1 \in Int
    <3>1. Bench!TypeOK /\ PoolsAre
      BY DEF BenchInv
    <3>2. Listing(pl.free, Bench!Blocks - 1)
      BY <1>7, <1>8, <1>15, <3>1 DEF PoolsAre
    <3>3. Bench!Blocks - 1 \in Int
      BY <3>1, BenchSizes
    <3> QED BY <3>2, <3>3
  <2>2. PICK q, d :
        /\ Takes(pl, d, q)
        /\ q \in AnyPool /\ q.mapped /\ d \in 1 .. Bench!Blocks - 1
        /\ Listing(q.free, Bench!Blocks - 1) /\ ~On(q.free, d)
        /\ \A c : On(pl.free, c) <=> c = d \/ On(q.free, c)
    BY <1>9, <1>15, <2>1, MallocTakes
  <2>11. q = Bench!AfterMalloc(pl, TRUE) /\ d = Bench!my_malloc(pl, TRUE)
    BY <2>2 DEF Takes
  <2>3. d = b
    BY <1>1, <1>6, <1>8, <1>15, <2>11
  <2>4. b \in 1 .. Bench!Blocks - 1 /\ b \in Nat /\ b \in 1 .. PoolBlocks
    <3> PICK n \in 0 .. PoolBlocks : n = Bench!Blocks
      BY BenchSizes DEF BenchInv
    <3>1. b \in 1 .. n - 1 /\ PoolBlocks \in Nat
      BY <2>2, <2>3, BenchAssumption
    <3>2. b \in Nat /\ b \in 1 .. PoolBlocks
      BY <3>1
    <3> QED BY <3>1, <3>2
  <2>5. pools' = [pools EXCEPT ![o] = q]
    BY <1>2, <1>6, <1>8, <1>15, <2>11
  <2>6. \A p \in Bench!Threads \cup {0} : pools'[p] = IF p = o THEN q ELSE pools[p]
    BY <1>7, <2>5 DEF BenchInv, PoolsAre
  <2>7. ptrs' \in [Bench!Threads -> [Bench!Slots -> {Bench!NULL, Bench!Heap} \cup 1 .. PoolBlocks]]
    BY <1>2, <2>4 DEF BenchInv, Bench!TypeOK
  <2>8. ~Held(o, b)
    <3>1. OnList(o, b)
      BY <1>8, <2>2, <2>3 DEF OnList
    <3> QED BY <1>7, <1>8, <1>15, <2>4, <3>1 DEF BenchInv, BlocksAre
  <2>9. PoolsAre'
    <3>1. pools' \in [Bench!Threads \cup {0} -> AnyPool]
      BY <2>2, <2>5 DEF BenchInv, PoolsAre
    <3>2. ASSUME NEW p \in Bench!Threads \cup {0}, pools'[p].mapped
          PROVE  /\ ~Bench!system /\ stage = "join"
                 /\ 1 <= Bench!Blocks
                 /\ Listing(pools'[p].free, Bench!Blocks - 1)
                 /\ IF Bench!init_per_thread
                    THEN p # 0 /\ bencher[p] \in {"loop", "drain"}
                    ELSE p = 0
      BY <1>7, <1>8, <1>15, <2>2, <2>6, <3>2 DEF BenchInv, PoolsAre
    <3> QED BY <1>2, <3>1, <3>2, SamePools DEF PoolsAre
  <2>10. BlocksAre'
    <3>1. \A p \in Bench!Threads \cup {0} : pools'[p].mapped <=> pools[p].mapped
      BY <1>8, <1>15, <2>2, <2>6
    <3>2. \A u \in Bench!Threads : Bench!PoolOf(u) \in Bench!Threads \cup {0}
      BY DEF Bench!PoolOf, Bench!Main
    <3>3. \A p \in Bench!Threads \cup {0} : \A c :
            OnList(p, c)' <=> OnList(p, c) /\ ~(p = o /\ c = b)
      <4> TAKE p \in Bench!Threads \cup {0}
      <4> TAKE c
      <4>1. CASE p = o
        <5>1. pools'[p].free = q.free
          BY <2>6, <4>1
        <5>2. OnList(p, c)' <=> On(q.free, c)
          BY <1>10, <5>1
        <5>3. OnList(p, c) <=> On(pl.free, c)
          BY <1>8, <4>1 DEF OnList
        <5> QED BY <2>2, <2>3, <4>1, <5>2, <5>3
      <4>2. CASE p # o
        BY <1>10, <2>6, <4>2 DEF OnList
      <4> QED BY <4>1, <4>2
    <3>4. ASSUME NEW u \in Bench!Threads, NEW s \in Bench!Slots, ptrs'[u][s] >= 0
          PROVE  pools'[Bench!PoolOf(u)].mapped /\ ptrs'[u][s] \in 1 .. Bench!Blocks - 1
      <4>1. CASE u = t /\ s = slot[t]
        BY <1>5, <1>6, <1>7, <1>8, <1>15, <2>4, <3>1, <4>1
      <4>2. CASE ~(u = t /\ s = slot[t])
        BY <1>5, <3>1, <3>2, <3>4, <4>2 DEF BenchInv, BlocksAre
      <4> QED BY <4>1, <4>2
    <3>5. ASSUME NEW u \in Bench!Threads, NEW w \in Bench!Threads,
                 NEW s \in Bench!Slots, NEW v \in Bench!Slots,
                 ptrs'[u][s] >= 0, ptrs'[u][s] = ptrs'[w][v],
                 Bench!PoolOf(u) = Bench!PoolOf(w)
          PROVE  u = w /\ s = v
      <4>1. CASE (u = t /\ s = slot[t]) /\ ~(w = t /\ v = slot[t])
        <5>1. ptrs[w][v] = b /\ Bench!PoolOf(w) = o
          BY <1>5, <1>6, <3>5, <4>1
        <5> QED BY <2>8, <5>1 DEF Held
      <4>2. CASE ~(u = t /\ s = slot[t]) /\ (w = t /\ v = slot[t])
        <5>1. ptrs[u][s] = b /\ Bench!PoolOf(u) = o
          BY <1>5, <1>6, <3>5, <4>2
        <5> QED BY <2>8, <5>1 DEF Held
      <4>3. CASE ~(u = t /\ s = slot[t]) /\ ~(w = t /\ v = slot[t])
        BY <1>5, <3>5, <4>3 DEF BenchInv, BlocksAre
      <4> QED BY <4>1, <4>2, <4>3
    <3>6. ASSUME NEW p \in Bench!Threads \cup {0}, pools'[p].mapped,
                 NEW c \in 1 .. Bench!Blocks - 1
          PROVE  OnList(p, c)' <=> ~Held(p, c)'
      <4>1. OnList(p, c) <=> ~Held(p, c)
        BY <3>1, <3>6 DEF BenchInv, BlocksAre
      <4>2. OnList(p, c)' <=> OnList(p, c) /\ ~(p = o /\ c = b)
        BY <3>3
      <4>3. Held(p, c)' <=> Held(p, c) \/ (p = o /\ c = b)
        BY <1>12, <1>13
      <4> QED BY <4>1, <4>2, <4>3
    <3>7. \A u \in Bench!Threads, s \in Bench!Slots : ptrs'[u][s] >= 0 =>
            pools'[Bench!PoolOf(u)'].mapped /\ ptrs'[u][s] \in 1 .. Bench!Blocks' - 1
      BY <1>2, <3>4, SamePools
    <3>8. \A u, w \in Bench!Threads, s, v \in Bench!Slots :
            ptrs'[u][s] >= 0 /\ ptrs'[u][s] = ptrs'[w][v]
              /\ Bench!PoolOf(u)' = Bench!PoolOf(w)' => u = w /\ s = v
      BY <1>2, <3>5, SamePools
    <3>9. \A p \in Bench!Threads \cup {0} : pools'[p].mapped =>
            \A c \in 1 .. Bench!Blocks' - 1 : OnList(p, c)' <=> ~Held(p, c)'
      BY <1>2, <3>6, SamePools
    <3> QED BY <3>7, <3>8, <3>9 DEF BlocksAre
  <2> QED BY <1>5, <2>7, <2>9, <2>10
<1> QED BY <1>14, <1>15

---------------------------------------------------------------------------
\* The pool that is set up has all its blocks but the first on the list.
LEMMA NewPool ==
  ASSUME NEW n \in Nat, NEW pl \in AnyPool, ~pl.mapped
  PROVE  \E q : /\ q = Bench!my_allocator_init(pl, n) /\ q \in AnyPool
                /\ q.mapped => /\ 1 <= n /\ Listing(q.free, n - 1)
                               /\ \A b \in 1 .. n - 1 : On(q.free, b)
<1>1. CASE n = 0
  BY <1>1 DEF Bench!my_allocator_init
<1>2. CASE n # 0
  <2>1. PICK m \in Nat : m = n - 1
    BY <1>2
  <2>2. PICK z : z = [k \in 1 .. m |-> k]
    OBVIOUS
  <2>3. z \in Seq(1 .. m) /\ z \in Seq(Nat) /\ DOMAIN z = 1 .. m
    BY <2>2
  <2>4. Listing(z, m)
    BY <2>2, <2>3 DEF Listing, Increasing
  <2>5. \A b \in 1 .. m : On(z, b)
    BY <2>2, <2>3 DEF On
  <2>6. PICK q : q = [mapped |-> TRUE, free |-> z]
    OBVIOUS
  <2>7. q = Bench!my_allocator_init(pl, n)
    BY <1>2, <2>1, <2>2, <2>6 DEF Bench!my_allocator_init
  <2>8. q \in AnyPool /\ q.free = z
    BY <2>3, <2>6 DEF AnyPool
  <2> QED BY <1>2, <2>1, <2>4, <2>5, <2>7, <2>8
<1> QED BY <1>1, <1>2

LEMMA StartKeeps == BenchInv /\ Bench!Start => BenchInv'
<1> SUFFICES ASSUME BenchInv, Bench!Start PROVE BenchInv'
  OBVIOUS
<1>1. /\ build' \in {"task_1_global", "task_3_local", "task_3_global"}
      /\ stage' = "init" /\ build = "none"
      /\ UNCHANGED <<round, bencher, slot, ptrs, allocations_left, pools>>
  BY DEF Bench!Start, Bench!locals
<1>2. stage = "none" /\ bencher = Bench!Idle
  BY <1>1 DEF BenchInv, ThreadsAre
<1>3. \A p \in Bench!Threads \cup {0} : ~pools'[p].mapped
  BY <1>1, <1>2 DEF BenchInv, PoolsAre
<1>4. \A t \in Bench!Threads, s \in Bench!Slots : ptrs'[t][s] = -1
  BY <1>1, <1>2 DEF BenchInv, ThreadsAre, Bench!Idle, Bench!NULL
<1>5. Bench!TypeOK'
  BY <1>1 DEF BenchInv, Bench!TypeOK
<1>6. PoolsAre'
  BY <1>1, <1>3 DEF BenchInv, PoolsAre
<1>7. BlocksAre'
  BY <1>3, <1>4 DEF BlocksAre
<1>8. ThreadsAre'
  BY <1>1, <1>2, <1>4 DEF ThreadsAre, Bench!NULL, Bench!Idle
<1> QED BY <1>5, <1>6, <1>7, <1>8 DEF BenchInv

LEMMA CreateThreadsKeeps == BenchInv /\ Bench!CreateThreads => BenchInv'
<1> SUFFICES ASSUME BenchInv, Bench!CreateThreads PROVE BenchInv'
  OBVIOUS
<1>1. /\ stage = "init" /\ stage' = "join"
      /\ pools' \in IF Bench!init_per_thread THEN {pools} ELSE Bench!Initialised(0)
      /\ bencher' = [t \in Bench!Threads |-> IF t <= Bench!num_threads THEN "init" ELSE "none"]
      /\ UNCHANGED <<build, round, slot, ptrs, allocations_left>>
  BY DEF Bench!CreateThreads, Bench!locals, Bench!Main
<1>2. \A p \in Bench!Threads \cup {0} : ~pools[p].mapped
  BY <1>1 DEF BenchInv, PoolsAre
<1>3. \A t \in Bench!Threads, s \in Bench!Slots : ptrs'[t][s] = -1
  BY <1>1 DEF BenchInv, ThreadsAre, Bench!Idle, Bench!NULL
<1>4. Bench!TypeOK'
  BY <1>1 DEF BenchInv, Bench!TypeOK
<1>5. ThreadsAre'
  <2>1. \A t \in Bench!Threads : t > Bench!num_threads => ~(t <= Bench!num_threads)
    BY BenchSizes DEF BenchInv
  <2> QED BY <1>1, <1>3, <2>1, SamePools DEF ThreadsAre, Bench!NULL, BenchInv
<1>6. CASE pools' = pools
  <2>1. PoolsAre'
    BY <1>2, <1>6 DEF BenchInv, PoolsAre
  <2>2. BlocksAre'
    BY <1>2, <1>3, <1>6 DEF BlocksAre
  <2> QED BY <1>4, <1>5, <2>1, <2>2 DEF BenchInv
<1>7. CASE pools' # pools
  <2>1. /\ ~Bench!init_per_thread /\ ~Bench!system
        /\ pools' = [pools EXCEPT ![0] = Bench!my_allocator_init(@, Bench!Blocks)]
    BY <1>1, <1>7 DEF Bench!Initialised
  <2>2. PICK q :
        /\ q = Bench!my_allocator_init(pools[0], Bench!Blocks) /\ q \in AnyPool
        /\ q.mapped => /\ 1 <= Bench!Blocks /\ Listing(q.free, Bench!Blocks - 1)
                       /\ \A b \in 1 .. Bench!Blocks - 1 : On(q.free, b)
    <3>1. Bench!Blocks \in Nat /\ pools[0] \in AnyPool /\ ~pools[0].mapped
      BY <1>2, BenchSizes, BenchAssumption DEF BenchInv, PoolsAre
    <3> QED BY <3>1, NewPool
  <2>3. pools' = [pools EXCEPT ![0] = q]
    BY <2>1, <2>2
  <2>4. \A p \in Bench!Threads \cup {0} : pools'[p] = IF p = 0 THEN q ELSE pools[p]
    BY <2>3 DEF BenchInv, PoolsAre
  <2>5. PoolsAre'
    <3>1. pools' \in [Bench!Threads \cup {0} -> AnyPool]
      BY <2>2, <2>3 DEF BenchInv, PoolsAre
    <3>2. ASSUME NEW p \in Bench!Threads \cup {0}, pools'[p].mapped
          PROVE  /\ p = 0 /\ 1 <= Bench!Blocks
                 /\ Listing(pools'[p].free, Bench!Blocks - 1)
      BY <1>2, <2>2, <2>4, <3>2
    <3> QED BY <1>1, <2>1, <3>1, <3>2, SamePools DEF PoolsAre
  <2>6. BlocksAre'
    <3>1. \A p, c : OnList(p, c)' <=> On(pools'[p].free, c)
      BY DEF OnList
    <3>2. ASSUME NEW p \in Bench!Threads \cup {0}, pools'[p].mapped,
                 NEW c \in 1 .. Bench!Blocks - 1
          PROVE  OnList(p, c)' /\ ~Held(p, c)'
      <4>1. OnList(p, c)'
        BY <1>2, <2>2, <2>4, <3>1, <3>2
      <4>2. c # -1
        BY BenchSizes DEF BenchInv
      <4> QED BY <1>3, <4>1, <4>2 DEF Held
    <3>3. \A p \in Bench!Threads \cup {0} : pools'[p].mapped =>
            \A c \in 1 .. Bench!Blocks' - 1 : OnList(p, c)' <=> ~Held(p, c)'
      BY <1>1, <3>2, SamePools
    <3> QED BY <1>3, <3>3 DEF BlocksAre
  <2> QED BY <1>4, <1>5, <2>5, <2>6 DEF BenchInv
<1> QED BY <1>6, <1>7

LEMMA JoinThreadsKeeps == BenchInv /\ Bench!JoinThreads => BenchInv'
<1> SUFFICES ASSUME BenchInv, Bench!JoinThreads PROVE BenchInv'
  OBVIOUS
<1>1. /\ stage = "join"
      /\ \A t \in 1 .. Bench!num_threads : bencher[t] = "exited"
      /\ pools' = IF Bench!init_per_thread THEN pools ELSE Bench!Destroyed(0)
      /\ stage' \in {"done", "init"}
      /\ round' = IF round = 2 * Len(Configs) THEN round ELSE round + 1
      /\ bencher' = Bench!Idle
      /\ UNCHANGED <<build, slot, ptrs, allocations_left>>
  BY DEF Bench!JoinThreads, Bench!locals, Bench!Main
<1>2. \A t \in Bench!Threads : bencher[t] \in {"exited", "none"}
  <2> TAKE t \in Bench!Threads
  <2>1. t \in Nat \ {0} /\ Bench!num_threads \in Nat
    BY BenchSizes DEF BenchInv
  <2>2. CASE t > Bench!num_threads
    BY <1>1, <2>2 DEF BenchInv, ThreadsAre
  <2>3. CASE ~(t > Bench!num_threads)
    <3>1. t \in 1 .. Bench!num_threads
      BY <2>1, <2>3
    <3> QED BY <1>1, <3>1
  <2> QED BY <2>2, <2>3
<1>3. \A t \in Bench!Threads, s \in Bench!Slots : ptrs'[t][s] = -1
  BY <1>1, <1>2 DEF BenchInv, ThreadsAre, Bench!NULL
<1>4. PICK z : z = Bench!Unmapped
  OBVIOUS
<1>5. z \in AnyPool /\ ~z.mapped
  <2>1. <<>> \in Seq(Nat)
    OBVIOUS
  <2> QED BY <1>4, <2>1 DEF AnyPool, Bench!Unmapped
<1>6. /\ pools' \in [Bench!Threads \cup {0} -> AnyPool]
      /\ \A p \in Bench!Threads \cup {0} : ~pools'[p].mapped
  <2>1. CASE Bench!init_per_thread \/ Bench!system
    <3>1. pools' = pools
      BY <1>1, <2>1 DEF Bench!Destroyed
    <3> QED BY <1>2, <2>1, <3>1 DEF BenchInv, PoolsAre
  <2>2. CASE ~Bench!init_per_thread /\ ~Bench!system
    <3>1. pools' = [pools EXCEPT ![0] = z]
      BY <1>1, <1>4, <2>2 DEF Bench!Destroyed, Bench!my_allocator_destroy
    <3>2. \A p \in Bench!Threads \cup {0} : p # 0 => ~pools[p].mapped
      BY <2>2 DEF BenchInv, PoolsAre
    <3> QED BY <1>5, <3>1, <3>2 DEF BenchInv, PoolsAre
  <2> QED BY <2>1, <2>2
<1>7. Bench!TypeOK'
  <2>1. PICK l \in Nat : l = Len(Configs)
    BY BenchAssumption
  <2>2. round' \in 1 .. 2 * l
    <3>1. round \in 1 .. 2 * l
      BY <2>1 DEF BenchInv, Bench!TypeOK
    <3>2. round' = IF round = 2 * l THEN round ELSE round + 1
      BY <1>1, <2>1
    <3> QED BY <3>1, <3>2
  <2>3. bencher' \in [Bench!Threads -> {"none", "init", "loop", "drain", "exited"}]
    BY <1>1 DEF Bench!Idle
  <2> QED BY <1>1, <2>1, <2>2, <2>3 DEF BenchInv, Bench!TypeOK
<1>8. PoolsAre'
  BY <1>6 DEF PoolsAre
<1>9. BlocksAre'
  BY <1>3, <1>6 DEF BlocksAre
<1>10. ThreadsAre'
  BY <1>1, <1>3 DEF BenchInv, ThreadsAre, Bench!NULL, Bench!Idle
<1> QED BY <1>7, <1>8, <1>9, <1>10 DEF BenchInv

LEMMA InitPoolKeeps ==
  ASSUME BenchInv, NEW t \in Bench!Threads, Bench!InitPool(t)
  PROVE  BenchInv'
<1>1. /\ bencher[t] = "init" /\ bencher' = [bencher EXCEPT ![t] = "loop"]
      /\ pools' \in IF Bench!init_per_thread THEN Bench!Initialised(t) ELSE {pools}
      /\ allocations_left' = [allocations_left EXCEPT ![t] = NumAllocations]
      /\ slot' = [slot EXCEPT ![t] = 1]
      /\ UNCHANGED <<build, stage, round, ptrs>>
  BY DEF Bench!InitPool, Bench!Goto
<1>2. stage = "join" /\ t # 0
  BY <1>1, BenchSizes DEF BenchInv, ThreadsAre, Bench!Idle
<1>3. /\ \A u \in Bench!Threads : bencher'[u] = IF u = t THEN "loop" ELSE bencher[u]
      /\ \A u \in Bench!Threads : slot'[u] = IF u = t THEN 1 ELSE slot[u]
  BY <1>1 DEF BenchInv, Bench!TypeOK
<1>4. Bench!TypeOK'
  BY <1>1, BenchAssumption DEF BenchInv, Bench!TypeOK
<1>5. ThreadsAre'
  <2>1. 1 \in Bench!Slots
    BY BenchAssumption DEF Bench!Slots
  <2> QED BY <1>1, <1>2, <1>3, <2>1, SamePools DEF BenchInv, ThreadsAre
<1>6. CASE pools' = pools
  <2>1. PoolsAre'
    <3>1. \A p \in Bench!Threads \cup {0} : pools[p].mapped /\ Bench!init_per_thread => p # t
      BY <1>1 DEF BenchInv, PoolsAre
    <3> QED BY <1>1, <1>3, <1>6, <3>1, SamePools DEF BenchInv, PoolsAre
  <2>2. BlocksAre'
    BY <1>1, <1>6, SamePools DEF BenchInv, BlocksAre, OnList, Held
  <2> QED BY <1>4, <1>5, <2>1, <2>2 DEF BenchInv
<1>7. CASE pools' # pools
  <2>1. /\ Bench!init_per_thread /\ ~Bench!system
        /\ pools' = [pools EXCEPT ![t] = Bench!my_allocator_init(@, Bench!Blocks)]
    BY <1>1, <1>7 DEF Bench!Initialised
  <2>2. ~pools[t].mapped
    BY <1>1, <2>1 DEF BenchInv, PoolsAre
  <2>3. PICK q :
        /\ q = Bench!my_allocator_init(pools[t], Bench!Blocks) /\ q \in AnyPool
        /\ q.mapped => /\ 1 <= Bench!Blocks /\ Listing(q.free, Bench!Blocks - 1)
                       /\ \A b \in 1 .. Bench!Blocks - 1 : On(q.free, b)
    <3>1. Bench!Blocks \in Nat /\ pools[t] \in AnyPool
      BY BenchSizes, BenchAssumption DEF BenchInv, PoolsAre
    <3> QED BY <2>2, <3>1, NewPool
  <2>4. pools' = [pools EXCEPT ![t] = q]
    BY <2>1, <2>3
  <2>5. \A p \in Bench!Threads \cup {0} : pools'[p] = IF p = t THEN q ELSE pools[p]
    BY <2>4 DEF BenchInv, PoolsAre
  <2>6. PoolsAre'
    <3>1. pools' \in [Bench!Threads \cup {0} -> AnyPool]
      BY <2>3, <2>4 DEF BenchInv, PoolsAre
    <3>2. ASSUME NEW p \in Bench!Threads \cup {0}, pools'[p].mapped
          PROVE  /\ p # 0 /\ bencher'[p] \in {"loop", "drain"} /\ 1 <= Bench!Blocks
                 /\ Listing(pools'[p].free, Bench!Blocks - 1)
      <4>1. CASE p = t
        BY <1>2, <1>3, <2>3, <2>5, <3>2, <4>1
      <4>2. CASE p # t
        BY <1>3, <2>1, <2>5, <3>2, <4>2 DEF BenchInv, PoolsAre
      <4> QED BY <4>1, <4>2
    <3> QED BY <1>1, <1>2, <2>1, <3>1, <3>2, SamePools DEF PoolsAre
  <2>7. BlocksAre'
    <3>1. \A u \in Bench!Threads : Bench!PoolOf(u) = u
      BY <2>1 DEF Bench!PoolOf, Bench!init_per_thread
    <3>2. \A s \in Bench!Slots : ptrs[t][s] = -1
      BY <1>1 DEF BenchInv, ThreadsAre, Bench!NULL
    <3>3. ASSUME NEW u \in Bench!Threads, NEW s \in Bench!Slots, ptrs[u][s] >= 0
          PROVE  pools'[u].mapped /\ ptrs[u][s] \in 1 .. Bench!Blocks - 1
      BY <2>5, <3>1, <3>2, <3>3 DEF BenchInv, BlocksAre
    <3>4. ASSUME NEW p \in Bench!Threads \cup {0}, pools'[p].mapped,
                 NEW c \in 1 .. Bench!Blocks - 1
          PROVE  On(pools'[p].free, c) <=> ~Held(p, c)
      <4>1. CASE p = t
        <5>1. On(pools'[p].free, c)
          BY <2>3, <2>5, <3>4, <4>1
        <5>2. c # -1
          BY BenchSizes DEF BenchInv
        <5> QED BY <3>1, <3>2, <4>1, <5>1, <5>2 DEF Held
      <4>2. CASE p # t
        BY <2>5, <3>4, <4>2 DEF BenchInv, BlocksAre, OnList
      <4> QED BY <4>1, <4>2
    <3>5. \A p, c : Held(p, c)' <=> Held(p, c)
      BY <1>1, SamePools DEF Held
    <3>6. \A p \in Bench!Threads \cup {0} : pools'[p].mapped =>
            \A c \in 1 .. Bench!Blocks' - 1 : OnList(p, c)' <=> ~Held(p, c)'
      BY <1>1, <3>4, <3>5, SamePools DEF OnList
    <3>7. \A u \in Bench!Threads, s \in Bench!Slots : ptrs'[u][s] >= 0 =>
            pools'[Bench!PoolOf(u)'].mapped /\ ptrs'[u][s] \in 1 .. Bench!Blocks' - 1
      BY <1>1, <3>1, <3>3, SamePools
    <3>8. \A u, w \in Bench!Threads, s, v \in Bench!Slots :
            ptrs'[u][s] >= 0 /\ ptrs'[u][s] = ptrs'[w][v]
              /\ Bench!PoolOf(u)' = Bench!PoolOf(w)' => u = w /\ s = v
      BY <1>1, SamePools DEF BenchInv, BlocksAre
    <3> QED BY <3>6, <3>7, <3>8 DEF BlocksAre
  <2> QED BY <1>4, <1>5, <2>6, <2>7 DEF BenchInv
<1> QED BY <1>6, <1>7

\* The steps that only go on to another slot, or out of the loop.
LEMMA KeepKeeps ==
  ASSUME BenchInv, NEW t \in Bench!Threads,
         Bench!Keep(t) \/ Bench!AllAllocated(t)
  PROVE  BenchInv'
<1>1. /\ bencher[t] = "loop" /\ slot[t] \in Bench!Slots
      /\ UNCHANGED <<build, stage, round, ptrs, allocations_left, pools>>
  BY DEF Bench!Keep, Bench!Looping, Bench!AllAllocated, Bench!Goto, BenchInv, ThreadsAre
<1>2. PICK w \in {"loop", "drain"}, s \in Bench!Slots :
        /\ bencher' = [bencher EXCEPT ![t] = w] /\ slot' = [slot EXCEPT ![t] = s]
        /\ w = "drain" => s = 1
  <2>1. CASE Bench!Keep(t)
    <3>1. bencher' = [bencher EXCEPT ![t] = "loop"]
      BY <1>1, <2>1 DEF Bench!Keep, BenchInv, Bench!TypeOK
    <3>2. PICK s : s = (slot[t] % ALLOCATION_BUFFER_SIZE) + 1
      OBVIOUS
    <3>3. s \in Bench!Slots
      BY <1>1, <3>2, BenchAssumption DEF Bench!Slots
    <3>4. slot' = [slot EXCEPT ![t] = s]
      BY <2>1, <3>2 DEF Bench!Keep, Bench!Advance
    <3> QED BY <3>1, <3>3, <3>4
  <2>2. CASE Bench!AllAllocated(t)
    <3>1. 1 \in Bench!Slots
      BY BenchAssumption DEF Bench!Slots
    <3> QED BY <2>2, <3>1 DEF Bench!AllAllocated, Bench!Goto
  <2> QED BY <2>1, <2>2
<1>3. /\ \A u \in Bench!Threads : bencher'[u] = IF u = t THEN w ELSE bencher[u]
      /\ \A u \in Bench!Threads : slot'[u] = IF u = t THEN s ELSE slot[u]
  BY <1>2 DEF BenchInv, Bench!TypeOK
<1>4. Bench!TypeOK'
  BY <1>1, <1>2, BenchAssumption DEF BenchInv, Bench!TypeOK, Bench!Slots
<1>5. PoolsAre'
  BY <1>1, <1>3, SamePools DEF BenchInv, PoolsAre
<1>6. BlocksAre'
  BY <1>1, SamePools DEF BenchInv, BlocksAre, OnList, Held
<1>7. ThreadsAre'
  <2>1. stage = "join" /\ ~(t > Bench!num_threads)
    BY <1>1 DEF BenchInv, ThreadsAre, Bench!Idle
  <2>2. w = "drain" => \A v \in Bench!Slots : ~(v < s)
    BY <1>2, BenchAssumption DEF Bench!Slots
  <2> QED BY <1>1, <1>2, <1>3, <2>1, <2>2, SamePools DEF BenchInv, ThreadsAre
<1> QED BY <1>4, <1>5, <1>6, <1>7 DEF BenchInv

LEMMA FreeSlotKeeps ==
  ASSUME BenchInv, NEW t \in Bench!Threads, Bench!FreeSlot(t)
  PROVE  BenchInv'
<1>1. /\ bencher[t] = "loop" /\ slot[t] \in Bench!Slots /\ Bench!FreeHeld(t)
      /\ UNCHANGED <<build, stage, round, bencher, slot, allocations_left>>
  BY DEF Bench!FreeSlot, Bench!Looping, BenchInv, ThreadsAre
<1>2. /\ PoolsAre' /\ BlocksAre'
      /\ ptrs' \in [Bench!Threads -> [Bench!Slots -> {Bench!NULL, Bench!Heap} \cup 1 .. PoolBlocks]]
      /\ \A u \in Bench!Threads, s \in Bench!Slots :
           ptrs'[u][s] = IF u = t /\ s = slot[t] THEN Bench!NULL ELSE ptrs[u][s]
  BY <1>1, FreeKeeps
<1>3. Bench!TypeOK'
  BY <1>1, <1>2 DEF BenchInv, Bench!TypeOK
<1>4. ThreadsAre'
  BY <1>1, <1>2, SamePools DEF BenchInv, ThreadsAre, Bench!Idle
<1> QED BY <1>2, <1>3, <1>4 DEF BenchInv

LEMMA FreeRemainingKeeps ==
  ASSUME BenchInv, NEW t \in Bench!Threads, Bench!FreeRemaining(t)
  PROVE  BenchInv'
<1>1. /\ bencher[t] = "drain" /\ slot[t] <= ALLOCATION_BUFFER_SIZE /\ Bench!FreeHeld(t)
      /\ slot' = [slot EXCEPT ![t] = @ + 1]
      /\ UNCHANGED <<build, stage, round, bencher, allocations_left>>
  BY DEF Bench!FreeRemaining
<1>2. slot[t] \in Bench!Slots /\ ALLOCATION_BUFFER_SIZE \in Nat
  BY <1>1, BenchAssumption DEF BenchInv, Bench!TypeOK, Bench!Slots
<1>3. /\ PoolsAre' /\ BlocksAre'
      /\ ptrs' \in [Bench!Threads -> [Bench!Slots -> {Bench!NULL, Bench!Heap} \cup 1 .. PoolBlocks]]
      /\ \A u \in Bench!Threads, s \in Bench!Slots :
           ptrs'[u][s] = IF u = t /\ s = slot[t] THEN Bench!NULL ELSE ptrs[u][s]
  BY <1>1, <1>2, FreeKeeps
<1>4. PICK n \in 2 .. ALLOCATION_BUFFER_SIZE + 1 : n = slot[t] + 1
  BY <1>2 DEF Bench!Slots
<1>5. slot' = [slot EXCEPT ![t] = n]
  BY <1>1, <1>4
<1>6. Bench!TypeOK'
  <2>1. n \in 1 .. ALLOCATION_BUFFER_SIZE + 1
    BY <1>2, <1>4
  <2>2. slot' \in [Bench!Threads -> 1 .. ALLOCATION_BUFFER_SIZE + 1]
    BY <1>5, <2>1 DEF BenchInv, Bench!TypeOK
  <2> QED BY <1>1, <1>3, <2>2 DEF BenchInv, Bench!TypeOK
<1>7. ThreadsAre'
  <2>1. \A u \in Bench!Threads : slot'[u] = IF u = t THEN n ELSE slot[u]
    BY <1>5 DEF BenchInv, Bench!TypeOK
  <2>2. \A s \in Bench!Slots : s < n => s = slot[t] \/ s < slot[t]
    BY <1>2, <1>4 DEF Bench!Slots
  <2>3. \A s \in Bench!Slots : s < n => ptrs'[t][s] = Bench!NULL
    BY <1>1, <1>3, <2>2 DEF BenchInv, ThreadsAre
  <2> QED BY <1>1, <1>3, <2>1, <2>3, SamePools DEF BenchInv, ThreadsAre, Bench!Idle
<1> QED BY <1>3, <1>6, <1>7 DEF BenchInv

LEMMA AllocateStepKeeps ==
  ASSUME BenchInv, NEW t \in Bench!Threads, Bench!Allocate(t)
  PROVE  BenchInv'
<1>1. /\ bencher[t] = "loop" /\ allocations_left[t] > 0 /\ slot[t] \in Bench!Slots
      /\ UNCHANGED <<build, stage, round, bencher>>
  BY DEF Bench!Allocate, Bench!Looping, BenchInv, ThreadsAre
<1>2. /\ PoolsAre' /\ BlocksAre'
      /\ ptrs' \in [Bench!Threads -> [Bench!Slots -> {Bench!NULL, Bench!Heap} \cup 1 .. PoolBlocks]]
      /\ \A u \in Bench!Threads, s \in Bench!Slots :
           ~(u = t /\ s = slot[t]) => ptrs'[u][s] = ptrs[u][s]
  BY AllocateKeeps
<1>3. PICK s : s = (slot[t] % ALLOCATION_BUFFER_SIZE) + 1
  OBVIOUS
<1>4. s \in Bench!Slots
  BY <1>1, <1>3, BenchAssumption DEF Bench!Slots
<1>5. slot' = [slot EXCEPT ![t] = s]
  BY <1>3 DEF Bench!Allocate, Bench!Advance
<1>6. PICK l : l \in 0 .. NumAllocations /\ allocations_left' = [allocations_left EXCEPT ![t] = l]
  <2>1. allocations_left[t] \in 0 .. NumAllocations /\ allocations_left[t] - 1 \in 0 .. NumAllocations
    BY <1>1, BenchAssumption DEF BenchInv, Bench!TypeOK
  <2> QED BY <2>1 DEF Bench!Allocate
<1>7. Bench!TypeOK'
  BY <1>1, <1>2, <1>4, <1>5, <1>6, BenchAssumption DEF BenchInv, Bench!TypeOK, Bench!Slots
<1>8. ThreadsAre'
  <2>1. \A u \in Bench!Threads : slot'[u] = IF u = t THEN s ELSE slot[u]
    BY <1>5 DEF BenchInv, Bench!TypeOK
  <2> QED BY <1>1, <1>2, <1>4, <2>1, SamePools DEF BenchInv, ThreadsAre, Bench!Idle
<1> QED BY <1>2, <1>7, <1>8 DEF BenchInv

LEMMA ExitKeeps ==
  ASSUME BenchInv, NEW t \in Bench!Threads, Bench!Exit(t)
  PROVE  BenchInv'
<1>1. /\ slot[t] > ALLOCATION_BUFFER_SIZE /\ bencher[t] = "drain"
      /\ bencher' = [bencher EXCEPT ![t] = "exited"]
      /\ pools' = IF Bench!init_per_thread THEN Bench!Destroyed(t) ELSE pools
      /\ UNCHANGED <<build, stage, round, slot, ptrs, allocations_left>>
  BY DEF Bench!Exit, Bench!Goto, Bench!locals
<1>2. \A s \in Bench!Slots : ptrs[t][s] = -1
  <2>1. \A s \in Bench!Slots : s < slot[t]
    BY <1>1, BenchAssumption DEF Bench!Slots, BenchInv, Bench!TypeOK
  <2> QED BY <1>1, <2>1 DEF BenchInv, ThreadsAre, Bench!NULL
<1>3. \A u \in Bench!Threads : bencher'[u] = IF u = t THEN "exited" ELSE bencher[u]
  BY <1>1 DEF BenchInv, Bench!TypeOK
<1>4. Bench!TypeOK'
  BY <1>1 DEF BenchInv, Bench!TypeOK
<1>5. ThreadsAre'
  <2>1. stage = "join" /\ ~(t > Bench!num_threads)
    BY <1>1 DEF BenchInv, ThreadsAre, Bench!Idle
  <2> QED BY <1>1, <1>2, <1>3, <2>1, SamePools DEF BenchInv, ThreadsAre, Bench!NULL
<1>6. CASE Bench!init_per_thread /\ ~Bench!system
  <2>1. PICK z : z = Bench!Unmapped
    OBVIOUS
  <2>2. z \in AnyPool /\ ~z.mapped
    <3>1. <<>> \in Seq(Nat)
      OBVIOUS
    <3> QED BY <2>1, <3>1 DEF AnyPool, Bench!Unmapped
  <2>3. pools' = [pools EXCEPT ![t] = z]
    BY <1>1, <1>6, <2>1 DEF Bench!Destroyed, Bench!my_allocator_destroy
  <2>4. \A p \in Bench!Threads \cup {0} : pools'[p] = IF p = t THEN z ELSE pools[p]
    BY <2>3 DEF BenchInv, PoolsAre
  <2>5. PoolsAre'
    <3>1. pools' \in [Bench!Threads \cup {0} -> AnyPool]
      BY <2>2, <2>3 DEF BenchInv, PoolsAre
    <3>2. ASSUME NEW p \in Bench!Threads \cup {0}, pools'[p].mapped
          PROVE  p # t /\ pools'[p] = pools[p] /\ pools[p].mapped
      BY <2>2, <2>4, <3>2
    <3> QED BY <1>1, <1>3, <1>6, <3>1, <3>2, SamePools DEF BenchInv, PoolsAre
  <2>6. BlocksAre'
    <3>1. \A u \in Bench!Threads : Bench!PoolOf(u) = u
      BY <1>6 DEF Bench!PoolOf, Bench!init_per_thread
    <3>2. \A u \in Bench!Threads, s \in Bench!Slots : ptrs'[u][s] >= 0 =>
            pools'[Bench!PoolOf(u)'].mapped /\ ptrs'[u][s] \in 1 .. Bench!Blocks' - 1
      BY <1>1, <1>2, <2>4, <3>1, SamePools DEF BenchInv, BlocksAre
    <3>3. \A u, w \in Bench!Threads, s, v \in Bench!Slots :
            ptrs'[u][s] >= 0 /\ ptrs'[u][s] = ptrs'[w][v]
              /\ Bench!PoolOf(u)' = Bench!PoolOf(w)' => u = w /\ s = v
      BY <1>1, SamePools DEF BenchInv, BlocksAre
    <3>4. \A p, c : Held(p, c)' <=> Held(p, c)
      BY <1>1, SamePools DEF Held
    <3>5. \A p \in Bench!Threads \cup {0} : pools'[p].mapped =>
            pools[p].mapped /\ \A c : OnList(p, c)' <=> OnList(p, c)
      BY <2>2, <2>4 DEF OnList
    <3>6. \A p \in Bench!Threads \cup {0} : pools'[p].mapped =>
            \A c \in 1 .. Bench!Blocks' - 1 : OnList(p, c)' <=> ~Held(p, c)'
      BY <1>1, <3>4, <3>5, SamePools DEF BenchInv, BlocksAre
    <3> QED BY <3>2, <3>3, <3>6 DEF BlocksAre
  <2> QED BY <1>4, <1>5, <2>5, <2>6 DEF BenchInv
<1>7. CASE ~(Bench!init_per_thread /\ ~Bench!system)
  <2>1. pools' = pools
    BY <1>1, <1>7 DEF Bench!Destroyed
  <2>2. PoolsAre'
    BY <1>1, <1>7, <2>1, SamePools DEF BenchInv, PoolsAre
  <2>3. BlocksAre'
    BY <1>1, <2>1, SamePools DEF BenchInv, BlocksAre, OnList, Held
  <2> QED BY <1>4, <1>5, <2>2, <2>3 DEF BenchInv
<1> QED BY <1>6, <1>7

LEMMA BenchNext == BenchInv /\ (Bench!Next \/ UNCHANGED benches) => BenchInv'
<1>1. ASSUME BenchInv, UNCHANGED benches PROVE BenchInv'
  <2>1. UNCHANGED <<build, stage, round, bencher, slot, ptrs, allocations_left, pools>>
    BY <1>1 DEF benches
  <2>2. Bench!TypeOK'
    BY <1>1, <2>1 DEF BenchInv, Bench!TypeOK
  <2>3. PoolsAre'
    BY <1>1, <2>1, SamePools DEF BenchInv, PoolsAre
  <2>4. BlocksAre'
    BY <1>1, <2>1, SamePools DEF BenchInv, BlocksAre, OnList, Held
  <2>5. ThreadsAre'
    BY <1>1, <2>1, SamePools DEF BenchInv, ThreadsAre, Bench!Idle
  <2> QED BY <2>2, <2>3, <2>4, <2>5 DEF BenchInv
<1>2. ASSUME BenchInv, NEW t \in Bench!Threads, Bench!thread_fn(t) \/ Bench!FreeSlot(t)
      PROVE  BenchInv'
  BY <1>2, InitPoolKeeps, KeepKeeps, AllocateStepKeeps, FreeSlotKeeps,
     FreeRemainingKeeps, ExitKeeps DEF Bench!thread_fn
<1> QED
  BY <1>1, <1>2, StartKeeps, CreateThreadsKeeps, JoinThreadsKeeps
     DEF Bench!Next, Bench!run_config

\* What has it that the blocks are each in one place.
LEMMA BenchInvImplies == BenchInv => Bench!TypeOK /\ Bench!EveryBlockOnce
<1> SUFFICES ASSUME BenchInv, NEW p \in Bench!Threads \cup {0}, pools[p].mapped
             PROVE  LET free == pools[p].free IN
               /\ \A j, k \in DOMAIN free : j < k => free[j] < free[k]
               /\ \A b \in 1 .. Bench!Blocks - 1 :
                    Bench!Cardinality(Bench!Holders(p, b)) =
                      IF \E k \in DOMAIN free : free[k] = b THEN 0 ELSE 1
               /\ (\A t \in Bench!Threads : Bench!PoolOf(t) = p =>
                                      bencher[t] \in {"none", "exited"}) =>
                    Len(free) = Bench!Blocks - 1
  BY DEF BenchInv, PoolsAre, Bench!EveryBlockOnce
<1>1. PICK f : f = pools[p].free
  OBVIOUS
<1>2. PICK n \in Nat : n = Bench!Blocks - 1
  <2>1. Bench!Blocks \in Nat /\ 1 <= Bench!Blocks
    BY BenchSizes, BenchAssumption DEF BenchInv, PoolsAre
  <2> QED BY <2>1
<1>3. f \in Seq(1 .. n) /\ Increasing(f)
  BY <1>1, <1>2 DEF BenchInv, PoolsAre, Listing
<1>4. \A b \in 1 .. n : On(f, b) <=> ~Held(p, b)
  BY <1>1, <1>2 DEF BenchInv, BlocksAre, OnList
<1>5. ASSUME NEW b \in 1 .. n
      PROVE  Bench!Cardinality(Bench!Holders(p, b)) =
               IF \E k \in DOMAIN f : f[k] = b THEN 0 ELSE 1
  <2>1. (\E k \in DOMAIN f : f[k] = b) <=> On(f, b)
    BY DEF On
  <2>2. CASE On(f, b)
    <3>1. Bench!Holders(p, b) = {}
      BY <1>4, <2>2 DEF Bench!Holders, Held
    <3> QED BY <2>1, <2>2, <3>1, FS_EmptySet, SameCardinality
  <2>3. CASE ~On(f, b)
    <3>1. PICK t \in Bench!Threads, s \in Bench!Slots : Bench!PoolOf(t) = p /\ ptrs[t][s] = b
      BY <1>4, <2>3 DEF Held
    <3>2. ASSUME NEW u \in Bench!Threads, NEW v \in Bench!Slots,
                 Bench!PoolOf(u) = p, ptrs[u][v] = b
          PROVE  u = t /\ v = s
      BY <3>1, <3>2 DEF BenchInv, BlocksAre
    <3>3. Bench!Holders(p, b) = {<<t, s>>}
      BY <3>1, <3>2 DEF Bench!Holders
    <3> QED BY <2>1, <2>3, <3>3, FS_Singleton, SameCardinality
  <2> QED BY <2>2, <2>3
<1>6. ASSUME \A t \in Bench!Threads : Bench!PoolOf(t) = p => bencher[t] \in {"none", "exited"}
      PROVE  Len(f) = n
  <2>1. \A b \in 1 .. n : ~Held(p, b)
    BY <1>6 DEF Held, BenchInv, ThreadsAre, Bench!NULL
  <2>2. \A b \in 1 .. n : \E k \in DOMAIN f : f[k] = b
    BY <1>4, <2>1 DEF On
  <2>3. PICK m \in Nat : m = Len(f) /\ DOMAIN f = 1 .. m /\ \A k \in 1 .. m : f[k] \in 1 .. n
    BY <1>3
  <2>4. ASSUME NEW j \in 1 .. m, NEW k \in 1 .. m, f[j] = f[k] PROVE j = k
    BY <1>3, <2>3, <2>4 DEF Increasing
  <2>5. f \in Bijection(1 .. m, 1 .. n)
    <3>1. f \in [1 .. m -> 1 .. n]
      BY <1>3, <2>3
    <3> QED BY <2>2, <2>3, <2>4, <3>1 DEF Bijection, Injection, Surjection, IsInjective
  <2>6. ASSUME NEW l \in Nat PROVE IsFiniteSet(1 .. l) /\ Cardinality(1 .. l) = l
    <3>1. /\ IsFiniteSet(1 .. l)
          /\ Cardinality(1 .. l) = IF 1 > l THEN 0 ELSE l - 1 + 1
      BY FS_Interval
    <3> QED BY <3>1
  <2>7. IsFiniteSet(1 .. n) /\ Cardinality(1 .. n) = n
    BY <2>6
  <2>8. Cardinality(1 .. m) = Cardinality(1 .. n)
    BY <2>5, <2>6, <2>7, FS_Bijection DEF ExistsBijection
  <2> QED BY <2>3, <2>6, <2>7, <2>8
<1>7. \A j, k \in DOMAIN f : j < k => f[j] < f[k]
  BY <1>3 DEF Increasing
<1> QED BY <1>1, <1>2, <1>5, <1>6, <1>7

\* Between the calls of any number of threads, with any number of blocks and of
\* slots, no block of a pool is lost and none is given out twice.
THEOREM NoBlockTwice == Spec => []EveryBlockOnce
<1> DEFINE Inv == Checks(8) => BenchInv
<1>1. Init => Inv
  BY BenchInit DEF Init
<1>2. Inv /\ [Next]_allvars => Inv'
  BY StepOfOne, BenchNext
<1>3. Inv => EveryBlockOnce
  BY BenchInvImplies DEF EveryBlockOnce
<1> QED BY <1>1, <1>2, <1>3, PTL DEF Spec

---------------------------------------------------------------------------
(* The line of a request.                                                  *)

\* What the user typed: at least one number, each of at least one digit.
Typed == Seq(Seq(0 .. 9) \ {<<>>}) \ {<<>>}

\* Where a word begins in the line.
Place(words, k) == IF k = 1 THEN 1 ELSE Len(Sched!Texts(words)[k - 1]) + 2

\* Texts is a function: the text up to each word is there.
LEMMA TextsExist ==
  ASSUME NEW words \in Typed
  PROVE  Sched!Texts(words) =
           [k \in 1 .. Len(words) |->
              IF k = 1 THEN words[1]
              ELSE Sched!Texts(words)[k - 1] \o <<Sched!SPACE>> \o words[k]]
<1> DEFINE Joins(n, u) ==
             u = [k \in 1 .. n |-> IF k = 1 THEN words[1]
                                   ELSE u[k - 1] \o <<Sched!SPACE>> \o words[k]]
           n == Len(words)
           S == {k \in 0 .. n : \E u : Joins(k, u)}
<1>n. n \in Nat
  BY DEF Typed
<1>1. 0 \in S
  <2>1. Joins(0, [k \in 1 .. 0 |-> words[1]])
    OBVIOUS
  <2> HIDE DEF Joins
  <2> QED BY <2>1, <1>n
<1>2. ASSUME NEW k \in Nat, k < n, k \in S
      PROVE  k + 1 \in S
  <2>1. PICK u : Joins(k, u)
    BY <1>2
  <2> DEFINE g == [m \in 1 .. k + 1 |->
                     IF m = k + 1 THEN IF k = 0 THEN words[1]
                                       ELSE u[k] \o <<Sched!SPACE>> \o words[k + 1]
                     ELSE u[m]]
             Text(v, m) == IF m = 1 THEN words[1]
                           ELSE v[m - 1] \o <<Sched!SPACE>> \o words[m]
  <2>2. ASSUME NEW m \in 1 .. k + 1 PROVE g[m] = Text(g, m)
    <3> HIDE DEF S, n
    <3>1. CASE m = k + 1
      <4>1. CASE k = 0
        BY <3>1, <4>1
      <4>2. CASE k # 0
        <5>1. m # 1 /\ m - 1 = k /\ k \in 1 .. k + 1 /\ k # k + 1
          BY <3>1, <4>2
        <5>2. g[m - 1] = u[k]
          BY <5>1
        <5> QED BY <3>1, <4>2, <5>1, <5>2
      <4> QED BY <4>1, <4>2
    <3>2. CASE m # k + 1
      <4>1. m \in 1 .. k /\ m - 1 \in 0 .. k /\ (m # 1 => m - 1 \in 1 .. k + 1 /\ m - 1 # k + 1)
        BY <3>2
      <4>2. u[m] = Text(u, m)
        BY <2>1, <4>1
      <4>3. g[m] = u[m] /\ (m # 1 => g[m - 1] = u[m - 1])
        BY <3>2, <4>1
      <4> QED BY <4>2, <4>3
    <3> QED BY <3>1, <3>2
  <2>3. g = [m \in 1 .. k + 1 |-> g[m]]
    OBVIOUS
  <2> HIDE DEF g
  <2>4. Joins(k + 1, g)
    BY <2>2, <2>3
  <2> HIDE DEF Joins
  <2> QED BY <1>2, <1>n, <2>4
<1>3. PICK u : Joins(n, u)
  <2> HIDE DEF Joins
  <2>1. \A k \in 0 .. n : k \in S
    <3> HIDE DEF S
    <3> QED BY <1>n, <1>1, <1>2, AllUpTo
  <2> QED BY <2>1, <1>n
<1> QED BY <1>3 DEF Sched!Texts

LEMMA TextsSteps ==
  ASSUME NEW words \in Typed
  PROVE  /\ Sched!Texts(words)[1] = words[1]
         /\ \A k \in 1 .. Len(words) - 1 :
              Sched!Texts(words)[k + 1] =
                Sched!Texts(words)[k] \o <<Sched!SPACE>> \o words[k + 1]
<1>1. Len(words) \in Nat \ {0}
  BY DEF Typed
<1>2. ASSUME NEW k \in 1 .. Len(words)
      PROVE  Sched!Texts(words)[k] =
               IF k = 1 THEN words[1]
               ELSE Sched!Texts(words)[k - 1] \o <<Sched!SPACE>> \o words[k]
  BY TextsExist
<1>3. 1 \in 1 .. Len(words) /\ \A k \in 1 .. Len(words) - 1 :
        k + 1 \in 1 .. Len(words) /\ k + 1 # 1 /\ (k + 1) - 1 = k
  BY <1>1
<1> QED BY <1>2, <1>3

Symbols == 0 .. 9 \cup {Sched!SPACE, Sched!NEWLINE}

\* The cells of two texts with a space between them.
LEMMA JoinedCells ==
  ASSUME NEW t \in Seq(Symbols), NEW w \in Seq(Symbols),
         NEW c \in Symbols
  PROVE  /\ t \o <<c>> \o w \in Seq(Symbols)
         /\ Len(t \o <<c>> \o w) = Len(t) + 1 + Len(w)
         /\ \A q \in 1 .. Len(t) : (t \o <<c>> \o w)[q] = t[q]
         /\ (t \o <<c>> \o w)[Len(t) + 1] = c
         /\ \A q \in 1 .. Len(w) : (t \o <<c>> \o w)[Len(t) + 1 + q] = w[q]
<1>1. t \o <<c>> \in Seq(Symbols) /\ Len(t \o <<c>>) = Len(t) + 1
  OBVIOUS
<1>2. \A q \in 1 .. Len(t) : (t \o <<c>>)[q] = t[q]
  OBVIOUS
<1>3. (t \o <<c>>)[Len(t) + 1] = c
  OBVIOUS
<1> DEFINE u == t \o <<c>>
<1>4. \A q \in 1 .. Len(u) : (u \o w)[q] = u[q]
  <2> HIDE DEF u
  <2> QED BY <1>1
<1>5. \A q \in 1 .. Len(w) : (u \o w)[Len(u) + q] = w[q]
  <2> HIDE DEF u
  <2> QED BY <1>1
<1>6. u \o w \in Seq(Symbols) /\ Len(u \o w) = Len(u) + Len(w)
  BY <1>1
<1> HIDE DEF u
<1>7. Len(t) \in Nat /\ Len(w) \in Nat /\ u \in Seq(Symbols) /\ Len(u) = Len(t) + 1
  BY <1>1 DEF u
<1>8. \A q \in 1 .. Len(t) : (u \o w)[q] = t[q]
  BY <1>2, <1>4, <1>7 DEF u
<1>9. (u \o w)[Len(t) + 1] = c
  BY <1>3, <1>4, <1>7 DEF u
<1> QED BY <1>5, <1>6, <1>7, <1>8, <1>9 DEF u

\* The text up to a word has every word so far in its place, a space behind each but
\* the last, and no other.
Written(words, m) ==
  LET t == Sched!Texts(words)[m]
  IN /\ t \in Seq(Symbols)
     /\ \A k \in 1 .. m :
          /\ Place(words, k) \in Nat \ {0}
          /\ Place(words, k) + Len(words[k]) <= Len(t) + 1
          /\ \A j \in 1 .. Len(words[k]) : t[Place(words, k) + j - 1] = words[k][j]
     /\ \A k \in 1 .. m - 1 :
          /\ Place(words, k) + Len(words[k]) <= Len(t)
          /\ t[Place(words, k) + Len(words[k])] = Sched!SPACE
     /\ Len(t) + 1 = Place(words, m) + Len(words[m])
     /\ \A q \in 1 .. Len(t) : t[q] = Sched!SPACE =>
          1 < q /\ q < Len(t) /\ t[q + 1] # Sched!SPACE

LEMMA WordIs ==
  ASSUME NEW words \in Typed, NEW k \in 1 .. Len(words)
  PROVE  /\ words[k] \in Seq(Symbols) /\ words[k] \in Seq(0 .. 9)
         /\ Len(words[k]) \in Nat \ {0}
         /\ \A j \in 1 .. Len(words[k]) :
              words[k][j] \in 0 .. 9 /\ words[k][j] \notin {Sched!SPACE, Sched!NUL, Sched!NEWLINE}
<1>1. words[k] \in Seq(0 .. 9) \ {<<>>}
  BY DEF Typed
<1>2. \A j \in 1 .. Len(words[k]) : words[k][j] \in 0 .. 9
  BY <1>1
<1>3. Len(words[k]) \in Nat \ {0}
  BY <1>1
<1>4. words[k] \in Seq(Symbols)
  BY <1>1, <1>2, <1>3 DEF Symbols
<1> QED BY <1>1, <1>2, <1>3, <1>4 DEF Sched!SPACE, Sched!NUL, Sched!NEWLINE

LEMMA FirstWritten ==
  ASSUME NEW words \in Typed PROVE Written(words, 1)
<1> DEFINE t == Sched!Texts(words)[1]
<1>1. t = words[1] /\ 1 \in 1 .. Len(words)
  <2>1. 1 \in 1 .. Len(words)
    BY DEF Typed
  <2> QED BY <2>1, TextsSteps
<1> HIDE DEF t
<1>2. /\ t \in Seq(Symbols) /\ Len(t) \in Nat \ {0}
      /\ \A j \in 1 .. Len(t) : t[j] # Sched!SPACE
  BY <1>1, WordIs
<1>3. Place(words, 1) = 1
  BY DEF Place
<1>4. \A k \in 1 .. 1 : k = 1
  OBVIOUS
<1>5. \A j \in 1 .. Len(t) : 1 + j - 1 = j
  BY <1>2
<1>6. \A k \in 1 .. 1 :
        /\ Place(words, k) \in Nat \ {0}
        /\ Place(words, k) + Len(words[k]) <= Len(t) + 1
        /\ \A j \in 1 .. Len(words[k]) : t[Place(words, k) + j - 1] = words[k][j]
  BY <1>1, <1>2, <1>3, <1>5
<1>7. Len(t) + 1 = Place(words, 1) + Len(words[1])
  BY <1>1, <1>2, <1>3
<1> QED BY <1>2, <1>6, <1>7 DEF Written, t

\* Where the word after a text begins.
LEMMA NextPlace ==
  ASSUME NEW words \in Typed, NEW m \in 1 .. Len(words) - 1, Written(words, m)
  PROVE  /\ Place(words, m + 1) = Len(Sched!Texts(words)[m]) + 2
         /\ Place(words, m + 1) = Place(words, m) + Len(words[m]) + 1
<1> DEFINE t == Sched!Texts(words)[m]
<1>1. Len(t) + 1 = Place(words, m) + Len(words[m]) /\ Len(t) \in Nat
  <2>1. t \in Seq(Symbols)
    BY DEF Written
  <2> QED BY <2>1 DEF Written
<1>2. Place(words, m + 1) = Len(t) + 2
  <2>1. m + 1 # 1 /\ (m + 1) - 1 = m
    OBVIOUS
  <2> QED BY <2>1 DEF Place
<1>3. Place(words, m) \in Nat /\ Len(words[m]) \in Nat
  <2>1. m \in 1 .. m /\ m \in 1 .. Len(words)
    BY DEF Typed
  <2> QED BY <2>1, WordIs DEF Written
<1> HIDE DEF t
<1> QED BY <1>1, <1>2, <1>3 DEF t

LEMMA NextWritten ==
  ASSUME NEW words \in Typed, NEW m \in 1 .. Len(words) - 1, Written(words, m)
  PROVE  Written(words, m + 1)
<1> DEFINE t == Sched!Texts(words)[m]
           w == words[m + 1]
           u == Sched!Texts(words)[m + 1]
           P(k) == Place(words, k)
<1>1. u = t \o <<Sched!SPACE>> \o w
  BY TextsSteps
<1>2. m \in Nat /\ m + 1 \in 1 .. Len(words)
  BY DEF Typed
<1>3. /\ w \in Seq(Symbols) /\ Len(w) \in Nat \ {0}
      /\ \A j \in 1 .. Len(w) : w[j] # Sched!SPACE
  BY <1>2, WordIs
<1>4. t \in Seq(Symbols) /\ Len(t) \in Nat
  <2>1. t \in Seq(Symbols)
    BY DEF Written
  <2> QED BY <2>1
<1>5. P(m + 1) = Len(t) + 2
  BY NextPlace
<1>6. /\ \A k \in 1 .. m :
           /\ P(k) \in Nat \ {0} /\ P(k) + Len(words[k]) <= Len(t) + 1
           /\ \A j \in 1 .. Len(words[k]) : t[P(k) + j - 1] = words[k][j]
      /\ \A k \in 1 .. m - 1 :
           P(k) + Len(words[k]) <= Len(t) /\ t[P(k) + Len(words[k])] = Sched!SPACE
      /\ Len(t) + 1 = P(m) + Len(words[m])
      /\ \A q \in 1 .. Len(t) : t[q] = Sched!SPACE =>
           1 < q /\ q < Len(t) /\ t[q + 1] # Sched!SPACE
  BY DEF Written
<1>7. Sched!SPACE \in Symbols
  BY DEF Symbols
<1>8. \A k \in 1 .. m : Len(words[k]) \in Nat \ {0}
  <2>1. \A k \in 1 .. m : k \in 1 .. Len(words)
    BY <1>2
  <2> QED BY <2>1, WordIs
<1> HIDE DEF t, w, u, P
<1>9. /\ u \in Seq(Symbols) /\ Len(u) = Len(t) + 1 + Len(w)
      /\ \A q \in 1 .. Len(t) : u[q] = t[q]
      /\ u[Len(t) + 1] = Sched!SPACE
      /\ \A q \in 1 .. Len(w) : u[Len(t) + 1 + q] = w[q]
  BY <1>1, <1>3, <1>4, <1>7, JoinedCells
<1>10. ASSUME NEW k \in 1 .. m + 1
       PROVE  /\ P(k) \in Nat \ {0} /\ P(k) + Len(words[k]) <= Len(u) + 1
              /\ \A j \in 1 .. Len(words[k]) : u[P(k) + j - 1] = words[k][j]
  <2>1. CASE k = m + 1
    <3>1. words[k] = w
      BY <2>1 DEF w
    <3>2. \A j \in 1 .. Len(w) : P(k) + j - 1 = Len(t) + 1 + j
      BY <1>3, <1>4, <1>5, <2>1
    <3>3. P(k) \in Nat \ {0} /\ P(k) + Len(w) <= Len(u) + 1
      BY <1>3, <1>4, <1>5, <1>9, <2>1
    <3>4. \A j \in 1 .. Len(w) : u[P(k) + j - 1] = w[j]
      BY <1>9, <3>2
    <3> QED BY <3>1, <3>3, <3>4
  <2>2. CASE k # m + 1
    <3>1. k \in 1 .. m
      BY <1>2, <2>2
    <3>2. P(k) \in Nat \ {0} /\ P(k) + Len(words[k]) <= Len(t) + 1 /\ Len(words[k]) \in Nat
      BY <1>6, <1>8, <3>1
    <3>3. ASSUME NEW j \in 1 .. Len(words[k]) PROVE P(k) + j - 1 \in 1 .. Len(t)
      <4> DEFINE l == Len(words[k])
                 q == P(k)
      <4>1. l \in Nat /\ j \in 1 .. l /\ q \in Nat \ {0} /\ q + l <= Len(t) + 1
        BY <3>2
      <4> HIDE DEF l, q
      <4>2. q + j - 1 \in 1 .. Len(t)
        BY <1>4, <4>1
      <4> QED BY <4>2 DEF q
    <3>4. \A j \in 1 .. Len(words[k]) : u[P(k) + j - 1] = words[k][j]
      BY <1>6, <1>9, <3>1, <3>3
    <3>5. P(k) + Len(words[k]) <= Len(u) + 1
      BY <1>3, <1>4, <1>9, <3>2, SMTT(30)
    <3> QED BY <3>2, <3>4, <3>5
  <2> QED BY <2>1, <2>2
<1>11. ASSUME NEW k \in 1 .. (m + 1) - 1
       PROVE  P(k) + Len(words[k]) <= Len(u) /\ u[P(k) + Len(words[k])] = Sched!SPACE
  <2>1. k \in 1 .. m /\ P(k) \in Nat \ {0} /\ Len(words[k]) \in Nat \ {0}
    BY <1>2, <1>6, <1>8
  <2>2. CASE k = m
    <3>1. P(k) + Len(words[k]) = Len(t) + 1
      BY <1>6, <2>2
    <3> QED BY <1>3, <1>4, <1>9, <3>1
  <2>3. CASE k # m
    <3>1. k \in 1 .. m - 1
      BY <2>1, <2>3, <1>2
    <3> DEFINE q == P(k) + Len(words[k])
    <3>2. q <= Len(t) /\ t[q] = Sched!SPACE
      BY <1>6, <3>1
    <3>3. q \in Nat \ {0}
      BY <2>1
    <3> HIDE DEF q
    <3>4. q \in 1 .. Len(t) /\ q <= Len(u)
      BY <1>3, <1>4, <1>9, <3>2, <3>3
    <3>5. u[q] = Sched!SPACE
      BY <1>9, <3>2, <3>4
    <3> QED BY <3>4, <3>5 DEF q
  <2> QED BY <2>2, <2>3
<1>12. Len(u) + 1 = P(m + 1) + Len(words[m + 1])
  <2>1. words[m + 1] = w
    BY DEF w
  <2> QED BY <1>3, <1>4, <1>5, <1>9, <2>1
<1>13. ASSUME NEW q \in 1 .. Len(u), u[q] = Sched!SPACE
       PROVE  1 < q /\ q < Len(u) /\ u[q + 1] # Sched!SPACE
  <2>0. q \in Nat /\ q >= 1 /\ q <= Len(t) + 1 + Len(w)
    BY <1>3, <1>4, <1>9
  <2>1. CASE q <= Len(t)
    <3>0. q \in 1 .. Len(t)
      BY <1>4, <2>0, <2>1
    <3>1. q \in 1 .. Len(t) /\ t[q] = Sched!SPACE
      BY <1>9, <1>13, <3>0
    <3>2. 1 < q /\ q < Len(t) /\ t[q + 1] # Sched!SPACE
      BY <1>6, <3>1
    <3>3. q + 1 \in 1 .. Len(t)
      BY <1>4, <2>0, <3>2
    <3> QED BY <1>3, <1>4, <1>9, <2>0, <3>2, <3>3
  <2>2. CASE q = Len(t) + 1
    <3>1. 1 \in 1 .. Len(w) /\ q + 1 = Len(t) + 1 + 1
      BY <1>3, <1>4, <2>2
    <3>2. u[q + 1] = w[1] /\ w[1] # Sched!SPACE
      BY <1>3, <1>9, <3>1
    <3>3. Len(t) # 0
      <4>1. Len(t) + 1 = P(m) + Len(words[m]) /\ P(m) \in Nat \ {0} /\ Len(words[m]) \in Nat \ {0}
        BY <1>2, <1>6, <1>8
      <4> QED BY <1>4, <4>1
    <3> QED BY <1>3, <1>4, <1>9, <2>2, <3>2, <3>3
  <2>3. CASE q > Len(t) + 1
    <3>1. q - Len(t) - 1 \in 1 .. Len(w) /\ q = Len(t) + 1 + (q - Len(t) - 1)
      BY <1>3, <1>4, <2>0, <2>3
    <3>2. u[q] = w[q - Len(t) - 1]
      BY <1>9, <3>1
    <3> QED BY <1>3, <1>13, <3>1, <3>2
  <2> QED BY <1>4, <2>0, <2>1, <2>2, <2>3
<1> QED BY <1>9, <1>10, <1>11, <1>12, <1>13 DEF Written, u, P

LEMMA TextsWritten ==
  ASSUME NEW words \in Typed
  PROVE  \A m \in 1 .. Len(words) : Written(words, m)
<1> DEFINE n == Len(words) - 1
           S == {k \in 0 .. n : Written(words, k + 1)}
<1>1. n \in Nat /\ Len(words) = n + 1
  BY DEF Typed
<1>2. 0 \in S
  BY <1>1, FirstWritten
<1>3. ASSUME NEW k \in Nat, k < n, k \in S
      PROVE  k + 1 \in S
  <2>1. k + 1 \in 1 .. Len(words) - 1 /\ Written(words, k + 1)
    BY <1>1, <1>3
  <2>2. Written(words, (k + 1) + 1)
    <3> DEFINE m == k + 1
    <3>1. m \in 1 .. Len(words) - 1 /\ Written(words, m)
      BY <2>1
    <3> HIDE DEF m
    <3>2. Written(words, m + 1)
      BY <3>1, NextWritten
    <3> QED BY <3>2 DEF m
  <2> QED BY <1>1, <1>3, <2>2
<1>4. \A k \in 0 .. n : k \in S
  <2> HIDE DEF S, n
  <2> QED BY <1>1, <1>2, <1>3, AllUpTo
<1>5. ASSUME NEW m \in 1 .. Len(words) PROVE Written(words, m)
  <2>1. m - 1 \in 0 .. n /\ (m - 1) + 1 = m
    BY <1>1
  <2>2. m - 1 \in S
    BY <1>4, <2>1
  <2> QED BY <2>1, <2>2
<1> QED BY <1>5

LEMMA RequestIs ==
  ASSUME NEW s \in DOMAIN Request
  PROVE  /\ Request[s].words \in Typed
         /\ Len(Request[s].words) \in Nat \ {0}
         /\ Written(Request[s].words, Len(Request[s].words))
<1>1. Request[s].words \in Typed
  BY SchedulerAssumption DEF Typed
<1>2. Len(Request[s].words) \in Nat \ {0}
  BY <1>1 DEF Typed
<1>3. Len(Request[s].words) \in 1 .. Len(Request[s].words)
  BY <1>2
<1> QED BY <1>1, <1>2, <1>3, TextsWritten

\* A line has no spaces but those between two words, and fits into the buffer.
LEMMA LineIs ==
  ASSUME NEW s \in DOMAIN Request
  PROVE  /\ Sched!Line(s) \in Seq(Symbols)
         /\ Len(Sched!Line(s)) \in Nat \ {0} /\ Len(Sched!Line(s)) < MSG_SIZE
         /\ \A q \in 1 .. Len(Sched!Line(s)) :
              /\ Sched!Line(s)[q] \in Symbols
              /\ Sched!Line(s)[q] = Sched!SPACE =>
                   /\ 1 < q /\ q < Len(Sched!Line(s))
                   /\ Sched!Line(s)[q + 1] # Sched!SPACE
<1> DEFINE t == Sched!Texts(Request[s].words)[Len(Request[s].words)]
           line == Sched!Line(s)
<1>1. /\ t \in Seq(Symbols)
      /\ \A q \in 1 .. Len(t) : t[q] = Sched!SPACE =>
           1 < q /\ q < Len(t) /\ t[q + 1] # Sched!SPACE
  BY RequestIs DEF Written
<1>2. Len(t) \in Nat \ {0}
  <2> DEFINE words == Request[s].words
             n == Len(words)
  <2>1. n \in 1 .. n /\ words \in Typed
    BY RequestIs
  <2>2. Place(words, n) \in Nat \ {0} /\ Len(t) + 1 = Place(words, n) + Len(words[n])
    BY <2>1, RequestIs DEF Written
  <2>3. Len(words[n]) \in Nat \ {0}
    BY <2>1, WordIs
  <2> HIDE DEF words, n
  <2>4. Len(t) \in Nat
    BY <1>1
  <2> QED BY <2>2, <2>3, <2>4
<1>3. line = IF Request[s].newline THEN Append(t, Sched!NEWLINE) ELSE t
  BY DEF Sched!Line
<1>4. Sched!NEWLINE \in Symbols /\ Sched!NEWLINE # Sched!SPACE
  BY DEF Symbols, Sched!NEWLINE, Sched!SPACE
<1>5. Len(line) < MSG_SIZE
  BY SchedulerAssumption
<1> HIDE DEF t, line
<1>6. CASE Request[s].newline
  <2>1. /\ line \in Seq(Symbols) /\ Len(line) = Len(t) + 1
        /\ \A q \in 1 .. Len(t) : line[q] = t[q]
        /\ line[Len(t) + 1] = Sched!NEWLINE
    BY <1>1, <1>3, <1>4, <1>6
  <2>2. ASSUME NEW q \in 1 .. Len(line), line[q] = Sched!SPACE
        PROVE  1 < q /\ q < Len(line) /\ line[q + 1] # Sched!SPACE
    <3>1. q \in 1 .. Len(t)
      BY <1>2, <1>4, <2>1, <2>2
    <3>2. 1 < q /\ q < Len(t) /\ t[q + 1] # Sched!SPACE
      BY <1>1, <2>1, <2>2, <3>1
    <3>3. q + 1 \in 1 .. Len(t)
      BY <1>2, <3>1, <3>2
    <3> QED BY <1>2, <2>1, <3>1, <3>2, <3>3
  <2>3. \A q \in 1 .. Len(line) : line[q] \in Symbols
    BY <2>1
  <2>4. Len(line) \in Nat \ {0}
    BY <1>2, <2>1
  <2> QED BY <1>5, <2>1, <2>2, <2>3, <2>4 DEF line
<1>7. CASE ~ Request[s].newline
  <2>1. line = t
    BY <1>3, <1>7
  <2>2. \A q \in 1 .. Len(t) : t[q] \in Symbols
    BY <1>1
  <2>3. /\ t \in Seq(Symbols) /\ Len(t) \in Nat \ {0} /\ Len(t) < MSG_SIZE
        /\ \A q \in 1 .. Len(t) :
             /\ t[q] \in Symbols
             /\ t[q] = Sched!SPACE => 1 < q /\ q < Len(t) /\ t[q + 1] # Sched!SPACE
    BY <1>1, <1>2, <1>5, <2>1, <2>2
  <2>4. Sched!Line(s) = t
    BY <2>1 DEF line
  <2> QED BY <2>3, <2>4
<1> QED BY <1>6, <1>7

\* One that ends in a newline is its words, each with its own delimiter.
LEMMA LineWords ==
  ASSUME NEW s \in DOMAIN Request, Request[s].newline,
         NEW k \in 1 .. Len(Request[s].words)
  PROVE  /\ Place(Request[s].words, k) \in Nat \ {0}
         /\ Place(Request[s].words, k) + Len(Request[s].words[k]) <= Len(Sched!Line(s))
         /\ \A j \in 1 .. Len(Request[s].words[k]) :
              Sched!Line(s)[Place(Request[s].words, k) + j - 1] = Request[s].words[k][j]
         /\ k < Len(Request[s].words) =>
              /\ Sched!Line(s)[Place(Request[s].words, k) + Len(Request[s].words[k])]
                   = Sched!SPACE
              /\ Place(Request[s].words, k + 1) =
                   Place(Request[s].words, k) + Len(Request[s].words[k]) + 1
         /\ k = Len(Request[s].words) =>
              /\ Sched!Line(s)[Place(Request[s].words, k) + Len(Request[s].words[k])]
                   = Sched!NEWLINE
              /\ Place(Request[s].words, k) + Len(Request[s].words[k])
                   = Len(Sched!Line(s))
<1> DEFINE words == Request[s].words
           n == Len(words)
           t == Sched!Texts(words)[n]
           line == Sched!Line(s)
           p == Place(words, k)
           l == Len(words[k])
<1>1. words \in Typed /\ n \in Nat \ {0} /\ k \in 1 .. n /\ Written(words, n)
  BY RequestIs
<1>2. line = Append(t, Sched!NEWLINE) /\ Sched!NEWLINE \in Symbols
  BY DEF Sched!Line, Symbols
<1>3. l \in Nat \ {0}
  BY WordIs, <1>1
<1>4. k < n => Place(words, k + 1) = p + l + 1
  <2> SUFFICES ASSUME k < n PROVE Place(words, k + 1) = p + l + 1
    OBVIOUS
  <2>1. k \in 1 .. n - 1
    BY <1>1
  <2>2. Written(words, k)
    BY <1>1, TextsWritten
  <2> HIDE DEF words, n
  <2>3. words \in Typed /\ k \in 1 .. Len(words) - 1
    BY <1>1, <2>1 DEF n
  <2> QED BY <2>2, <2>3, NextPlace
<1> HIDE DEF words, n
<1>5. /\ t \in Seq(Symbols)
      /\ p \in Nat \ {0} /\ p + l <= Len(t) + 1
      /\ \A j \in 1 .. l : t[p + j - 1] = words[k][j]
      /\ k < n => p + l <= Len(t) /\ t[p + l] = Sched!SPACE
      /\ k = n => Len(t) + 1 = p + l
  <2>1. k < n => k \in 1 .. n - 1
    BY <1>1
  <2>2. t \in Seq(Symbols)
    BY <1>1 DEF Written
  <2>3. p \in Nat \ {0} /\ p + l <= Len(t) + 1
    BY <1>1 DEF Written
  <2>4. \A j \in 1 .. l : t[p + j - 1] = words[k][j]
    BY <1>1 DEF Written
  <2>5. k < n => p + l <= Len(t) /\ t[p + l] = Sched!SPACE
    BY <1>1, <2>1 DEF Written
  <2>6. k = n => Len(t) + 1 = p + l
    BY <1>1 DEF Written
  <2> QED BY <2>2, <2>3, <2>4, <2>5, <2>6
<1>6. /\ Len(t) \in Nat /\ Len(line) = Len(t) + 1
      /\ \A q \in 1 .. Len(t) : line[q] = t[q]
      /\ line[Len(t) + 1] = Sched!NEWLINE
  <2> HIDE DEF t, line
  <2> QED BY <1>2, <1>5
<1> HIDE DEF t, line, p, l
<1>7. \A j \in 1 .. l : line[p + j - 1] = words[k][j]
  <2>1. \A j \in 1 .. l : p + j - 1 \in 1 .. Len(t)
    BY <1>3, <1>5, <1>6
  <2> QED BY <1>5, <1>6, <2>1
<1>8. k < n => line[p + l] = Sched!SPACE
  BY <1>3, <1>5, <1>6
<1>9. k = n => line[p + l] = Sched!NEWLINE /\ p + l = Len(line)
  BY <1>5, <1>6
<1>10. p + l <= Len(line)
  BY <1>5, <1>6
<1> QED BY <1>4, <1>5, <1>7, <1>8, <1>9, <1>10 DEF words, n, line, p, l

\* atoi reads a word and stops at what is behind it.
LEMMA WordRead ==
  ASSUME NEW w, w \in Seq(0 .. 9), NEW t, t \in Seq(Int), Len(w) <= Len(t),
         \A j \in 1 .. Len(w) : t[j] = w[j],
         Len(w) < Len(t) => t[Len(w) + 1] < 0
  PROVE  Sched!atoi(t) = Sched!Value(w)
<1> DEFINE stop == {k \in DOMAIN t : t[k] < 0}
<1>1. Len(w) \in Nat /\ Len(t) \in Nat /\ DOMAIN t = 1 .. Len(t)
  OBVIOUS
<1>2. ASSUME NEW k \in stop PROVE Len(w) < k
  <2>1. \A j \in 1 .. Len(w) : w[j] \in 0 .. 9
    OBVIOUS
  <2>2. k \in 1 .. Len(t) /\ t[k] < 0
    BY <1>1
  <2>3. k \notin 1 .. Len(w)
    <3> SUFFICES ASSUME k \in 1 .. Len(w) PROVE FALSE
      OBVIOUS
    <3>1. t[k] = w[k]
      OBVIOUS
    <3>2. w[k] \in 0 .. 9
      BY <2>1
    <3> HIDE DEF stop
    <3> QED BY <2>2, <3>1, <3>2
  <2> QED BY <1>1, <2>2, <2>3
<1>3. CASE Len(w) = Len(t)
  <2>1. stop = {}
    BY <1>1, <1>2, <1>3
  <2>2. t = w
    BY <1>1, <1>3
  <2> QED BY <2>1, <2>2 DEF Sched!atoi
<1>4. CASE Len(w) < Len(t)
  <2>1. Len(w) + 1 \in stop
    BY <1>1, <1>4
  <2>2. \A k \in stop : k \in Nat /\ Len(w) + 1 <= k
    BY <1>1, <1>2
  <2> HIDE DEF stop
  <2>3. (CHOOSE k \in stop : \A l \in stop : k <= l) = Len(w) + 1
    <3>1. \E k \in stop : \A l \in stop : k <= l
      BY <2>1, <2>2
    <3> DEFINE k == CHOOSE k \in stop : \A l \in stop : k <= l
    <3>2. k \in stop /\ \A l \in stop : k <= l
      BY <3>1
    <3> HIDE DEF k
    <3>3. k = Len(w) + 1
      BY <1>1, <2>1, <2>2, <3>2
    <3> QED BY <3>3 DEF k
  <2>4. SubSeq(t, 1, Len(w)) = w
    BY <1>1, <1>4
  <2>5. (Len(w) + 1) - 1 = Len(w)
    BY <1>1
  <2>6. stop # {}
    BY <2>1
  <2>7. Sched!atoi(t) =
          Sched!Value(IF stop = {} THEN t
                      ELSE SubSeq(t, 1, (CHOOSE k \in stop : \A l \in stop : k <= l) - 1))
    BY DEF Sched!atoi, stop
  <2> QED BY <2>3, <2>4, <2>5, <2>6, <2>7
<1> QED BY <1>1, <1>3, <1>4

---------------------------------------------------------------------------
(* The answers of the scheduler.                                            *)

\* Nothing of what was on the stack is taken for a space.
CleanStack == \A k \in DOMAIN stack : stack[k] # Sched!SPACE

Cells == 0 .. 9 \cup {Sched!SPACE, Sched!NEWLINE, Sched!NUL}

\* The spaces that strtok_r gets to, from a place on.
Ahead(from) ==
  {k \in from .. MSG_SIZE :
     msg_buf[k] = Sched!SPACE /\ \A l \in from .. k : msg_buf[l] # Sched!NUL}

\* It gets to all there are, and to one word after each.
Tidy(from) ==
  \A k \in 1 .. MSG_SIZE : msg_buf[k] = Sched!SPACE =>
    /\ from < k /\ k \in Ahead(from)
    /\ msg_buf[k + 1] \notin {Sched!SPACE, Sched!NUL}

\* The words that are left, if it is all tidy.
WordsLeft ==
  Cardinality(Ahead(save_ptr)) + IF msg_buf[save_ptr] = Sched!NUL THEN 0 ELSE 1

InWords == scheduler \in {"token", "sleep"}

\* No word is met that was not counted.
WordsCounted == InWords => stats.count + WordsLeft <= token_amount

\* A round cuts up all the spaces there are.
SpacesGo ==
  CleanStack =>
    /\ scheduler = "parse" => Tidy(1)
    /\ InWords => Tidy(save_ptr)
    /\ scheduler \in {"call", "receive", "report", "test", "close"} =>
         \A k \in 1 .. MSG_SIZE : msg_buf[k] # Sched!SPACE

\* From a place on the buffer is the line, and has no spaces behind it.
Holds(from) ==
  /\ \A q \in from .. Len(Sched!Line(task)) : msg_buf[q] = Sched!Line(task)[q]
  /\ \A q \in Len(Sched!Line(task)) + 1 .. MSG_SIZE : msg_buf[q] # Sched!SPACE

\* The statistics are those of the first c numbers.
StatsOf(nums, c) ==
  /\ stats.count = c
  /\ stats.sum = Sched!Sums(nums, Len(nums))[c]
  /\ \A k \in 1 .. c : stats.min <= nums[k] /\ nums[k] <= stats.max
  /\ c = 0 => stats = Sched!NoStats
  /\ c > 0 => \E k, l \in 1 .. c : stats.min = nums[k] /\ stats.max = nums[l]

\* A line that ends in a newline is worked through word by word.
WordByWord ==
  CleanStack /\ task # None =>
    LET words == Request[task].words
    IN Request[task].newline =>
         /\ scheduler = "parse" => Holds(1)
         /\ InWords =>
              /\ stats.count \in 0 .. Len(words)
              /\ stats.count + WordsLeft = token_amount
              /\ StatsOf(Sched!NumbersOf(task), stats.count)
              /\ IF stats.count < Len(words)
                 THEN save_ptr = Place(words, stats.count + 1) /\ Holds(save_ptr)
                 ELSE msg_buf[save_ptr] = Sched!NUL

AnswerInv ==
  /\ Sched!TypeOK
  /\ stack \in [1 .. MSG_SIZE -> Cells]
  /\ stats.count \in Nat /\ token_amount \in Nat
  /\ WordsCounted
  /\ SpacesGo
  /\ WordByWord
  /\ Sched!OwnNumbers

LEMMA BufferIs ==
  ASSUME Sched!TypeOK
  PROVE  /\ MSG_SIZE \in Nat \ {0}
         /\ save_ptr \in 1 .. MSG_SIZE
         /\ msg_buf \in [1 .. MSG_SIZE -> Cells]
         /\ msg_buf[MSG_SIZE] = Sched!NUL
         /\ Sched!NUL # Sched!SPACE /\ Sched!NUL # Sched!NEWLINE
         /\ Sched!NEWLINE # Sched!SPACE
         /\ Symbols \subseteq Cells /\ Sched!NUL \notin Symbols /\ Cells \subseteq Int
  BY SchedulerAssumption DEF Sched!TypeOK, Cells, Symbols, Sched!NUL, Sched!SPACE,
     Sched!NEWLINE

\* The first place of some kind.
LEMMA FirstPlace ==
  ASSUME NEW S, NEW from \in Nat, NEW to \in from .. MSG_SIZE, MSG_SIZE \in Nat, to \in S
  PROVE  \E k \in from .. MSG_SIZE : k \in S /\ \A l \in from .. k - 1 : l \notin S
<1>1. {k \in from .. MSG_SIZE : k \in S} # {}
  OBVIOUS
<1>2. {k \in from .. MSG_SIZE : k \in S} \subseteq Nat
  OBVIOUS
<1>3. PICK m \in {k \in from .. MSG_SIZE : k \in S} :
        \A k \in {k \in from .. MSG_SIZE : k \in S} : m <= k
  BY <1>1, <1>2, LeastOne
<1>4. \A l \in from .. m - 1 : l \notin S
  BY <1>3
<1> QED BY <1>3, <1>4

LEMMA EndIs ==
  ASSUME Sched!TypeOK
  PROVE  /\ Sched!End(1) \in 1 .. MSG_SIZE
         /\ msg_buf[Sched!End(1)] = Sched!NUL
         /\ \A l \in 1 .. Sched!End(1) - 1 : msg_buf[l] # Sched!NUL
<1> DEFINE S == {k \in 1 .. MSG_SIZE : msg_buf[k] = Sched!NUL}
<1>1. MSG_SIZE \in 1 .. MSG_SIZE /\ MSG_SIZE \in Nat /\ MSG_SIZE \in S /\ 1 \in Nat
  BY BufferIs
<1>2. \E k \in 1 .. MSG_SIZE : k \in S /\ \A l \in 1 .. k - 1 : l \notin S
  <2> HIDE DEF S
  <2> QED BY <1>1, FirstPlace
<1>3. \E k \in 1 .. MSG_SIZE :
        msg_buf[k] = Sched!NUL /\ \A l \in 1 .. k - 1 : msg_buf[l] # Sched!NUL
  BY <1>1, <1>2
<1> QED BY <1>3 DEF Sched!End

LEMMA TokenStartIs ==
  ASSUME Sched!TypeOK
  PROVE  /\ Sched!TokenStart \in save_ptr .. MSG_SIZE
         /\ msg_buf[Sched!TokenStart] # Sched!SPACE
         /\ \A l \in save_ptr .. Sched!TokenStart - 1 : msg_buf[l] = Sched!SPACE
<1> DEFINE S == {k \in save_ptr .. MSG_SIZE : msg_buf[k] # Sched!SPACE}
<1>1. MSG_SIZE \in save_ptr .. MSG_SIZE /\ MSG_SIZE \in Nat /\ MSG_SIZE \in S
      /\ save_ptr \in Nat
  BY BufferIs
<1>2. \E k \in save_ptr .. MSG_SIZE : k \in S /\ \A l \in save_ptr .. k - 1 : l \notin S
  <2> HIDE DEF S
  <2> QED BY <1>1, FirstPlace
<1>3. \E k \in save_ptr .. MSG_SIZE :
        msg_buf[k] # Sched!SPACE /\ \A l \in save_ptr .. k - 1 : msg_buf[l] = Sched!SPACE
  BY <1>1, <1>2
<1> QED BY <1>3 DEF Sched!TokenStart

LEMMA TokenEndIs ==
  ASSUME Sched!TypeOK
  PROVE  /\ Sched!TokenEnd \in Sched!TokenStart .. MSG_SIZE
         /\ msg_buf[Sched!TokenEnd] \in {Sched!SPACE, Sched!NUL}
         /\ \A l \in Sched!TokenStart .. Sched!TokenEnd - 1 :
              msg_buf[l] \notin {Sched!SPACE, Sched!NUL}
<1> DEFINE b == Sched!TokenStart
           S == {k \in b .. MSG_SIZE : msg_buf[k] \in {Sched!SPACE, Sched!NUL}}
<1>0. b \in save_ptr .. MSG_SIZE /\ save_ptr \in 1 .. MSG_SIZE /\ MSG_SIZE \in Nat
  BY BufferIs, TokenStartIs
<1>1. b \in Nat
  BY <1>0
<1> HIDE DEF b
<1>2. MSG_SIZE \in b .. MSG_SIZE /\ MSG_SIZE \in S
  BY <1>0, <1>1, BufferIs
<1>3. \E k \in b .. MSG_SIZE : k \in S /\ \A l \in b .. k - 1 : l \notin S
  <2> HIDE DEF S
  <2> QED BY <1>0, <1>1, <1>2, FirstPlace
<1>4. \E k \in b .. MSG_SIZE :
        /\ msg_buf[k] \in {Sched!SPACE, Sched!NUL}
        /\ \A l \in b .. k - 1 : msg_buf[l] \notin {Sched!SPACE, Sched!NUL}
  BY <1>0, <1>1, <1>3
<1> QED BY <1>4 DEF Sched!TokenEnd, b

\* A token taken: what is cut off, where, and where strtok_r goes on.
Cut(b, e) ==
  /\ b \in save_ptr .. MSG_SIZE
  /\ \A l \in save_ptr .. b - 1 : msg_buf[l] = Sched!SPACE
  /\ e \in b + 1 .. MSG_SIZE
  /\ msg_buf[e] \in {Sched!SPACE, Sched!NUL}
  /\ \A l \in b .. e - 1 : msg_buf[l] \notin {Sched!SPACE, Sched!NUL}
  /\ msg_buf' = [msg_buf EXCEPT ![e] = Sched!NUL]
  /\ save_ptr' = IF msg_buf[e] = Sched!SPACE THEN e + 1 ELSE e
  /\ Sched!Enter(Sched!atoi(SubSeq(msg_buf, b, e - 1)))

LEMMA TokenCuts ==
  ASSUME Sched!TypeOK, Sched!Token PROVE \E b, e \in Nat : Cut(b, e)
<1> DEFINE b == Sched!TokenStart
           e == Sched!TokenEnd
<1>1. /\ b \in save_ptr .. MSG_SIZE
      /\ msg_buf[b] \notin {Sched!SPACE, Sched!NUL}
      /\ \A l \in save_ptr .. b - 1 : msg_buf[l] = Sched!SPACE
  BY TokenStartIs DEF Sched!Token
<1>2. /\ e \in b .. MSG_SIZE
      /\ msg_buf[e] \in {Sched!SPACE, Sched!NUL}
      /\ \A l \in b .. e - 1 : msg_buf[l] \notin {Sched!SPACE, Sched!NUL}
  BY TokenEndIs
<1>3. /\ msg_buf' = [msg_buf EXCEPT ![e] = Sched!NUL]
      /\ save_ptr' = IF msg_buf[e] = Sched!SPACE THEN e + 1 ELSE e
      /\ Sched!Enter(Sched!atoi(SubSeq(msg_buf, b, e - 1)))
  BY DEF Sched!Token
<1>4. save_ptr \in 1 .. MSG_SIZE /\ MSG_SIZE \in Nat
  BY BufferIs
<1> HIDE DEF b, e
<1>5. e # b
  BY <1>1, <1>2
<1>6. b \in Nat /\ e \in Nat /\ e \in b + 1 .. MSG_SIZE
  BY <1>1, <1>2, <1>4, <1>5
<1> QED BY <1>1, <1>2, <1>3, <1>6 DEF Cut

LEMMA AheadIsFinite ==
  ASSUME Sched!TypeOK, NEW from \in 1 .. MSG_SIZE
  PROVE  /\ IsFiniteSet(Ahead(from)) /\ Cardinality(Ahead(from)) \in Nat
         /\ msg_buf[from] = Sched!NUL => Ahead(from) = {}
<1>1. from \in Nat /\ MSG_SIZE \in Nat
  BY BufferIs
<1>2. IsFiniteSet(from .. MSG_SIZE)
  BY <1>1, FS_Interval
<1>3. Ahead(from) \subseteq from .. MSG_SIZE
  BY DEF Ahead
<1>4. IsFiniteSet(Ahead(from))
  BY <1>2, <1>3, FS_Subset
<1>5. ASSUME msg_buf[from] = Sched!NUL, NEW k \in Ahead(from) PROVE FALSE
  <2>1. k \in from .. MSG_SIZE /\ \A l \in from .. k : msg_buf[l] # Sched!NUL
    BY DEF Ahead
  <2>2. from \in from .. k
    BY <1>1, <2>1
  <2> QED BY <1>5, <2>1, <2>2
<1> QED BY <1>4, <1>5, FS_CardinalityType

\* The buffer after a token is cut off has its zero, and strtok_r a place to go on.
LEMMA CutKeeps ==
  ASSUME Sched!TypeOK, NEW b \in Nat, NEW e \in Nat, Cut(b, e)
  PROVE  /\ msg_buf' \in [1 .. MSG_SIZE -> Cells] /\ msg_buf'[MSG_SIZE] = Sched!NUL
         /\ save_ptr' \in 1 .. MSG_SIZE
         /\ \A k \in 1 .. MSG_SIZE : k # e => msg_buf'[k] = msg_buf[k]
         /\ msg_buf'[e] = Sched!NUL
         /\ e \in 1 .. MSG_SIZE
         /\ msg_buf[e] = Sched!SPACE => e < MSG_SIZE
<1>1. e \in 1 .. MSG_SIZE /\ MSG_SIZE \in Nat
  BY BufferIs DEF Cut
<1>2. msg_buf \in [1 .. MSG_SIZE -> Cells] /\ msg_buf[MSG_SIZE] = Sched!NUL
      /\ Sched!NUL \in Cells /\ Sched!NUL # Sched!SPACE
  BY BufferIs DEF Cells
<1>3. msg_buf' = [msg_buf EXCEPT ![e] = Sched!NUL]
  BY DEF Cut
<1>4. save_ptr' = IF msg_buf[e] = Sched!SPACE THEN e + 1 ELSE e
  BY DEF Cut
<1>5. msg_buf[e] = Sched!SPACE => e < MSG_SIZE
  BY <1>1, <1>2
<1>6. save_ptr' \in 1 .. MSG_SIZE
  BY <1>1, <1>4, <1>5
<1>7. msg_buf' \in [1 .. MSG_SIZE -> Cells] /\ msg_buf'[MSG_SIZE] = Sched!NUL
  BY <1>1, <1>2, <1>3
<1>8. \A k \in 1 .. MSG_SIZE : k # e => msg_buf'[k] = msg_buf[k]
  BY <1>2, <1>3
<1>9. msg_buf'[e] = Sched!NUL
  BY <1>1, <1>2, <1>3
<1> QED BY <1>1, <1>5, <1>6, <1>7, <1>8, <1>9

\* Cutting a token off takes a word, and all of what was ahead if it was the last.
LEMMA CutTakesOne ==
  ASSUME Sched!TypeOK, NEW b \in Nat, NEW e \in Nat, Cut(b, e)
  PROVE  /\ WordsLeft \in Nat /\ WordsLeft' \in Nat /\ WordsLeft' + 1 <= WordsLeft
         /\ Tidy(save_ptr) => WordsLeft' + 1 = WordsLeft /\ Tidy(save_ptr)'
<1>1. /\ save_ptr \in 1 .. MSG_SIZE /\ MSG_SIZE \in Nat \ {0}
      /\ Sched!NUL # Sched!SPACE /\ msg_buf[MSG_SIZE] = Sched!NUL
  BY BufferIs
<1>2. /\ b \in save_ptr .. MSG_SIZE /\ e \in b + 1 .. MSG_SIZE
      /\ \A l \in save_ptr .. b - 1 : msg_buf[l] = Sched!SPACE
      /\ \A l \in b .. e - 1 : msg_buf[l] \notin {Sched!SPACE, Sched!NUL}
      /\ msg_buf[e] \in {Sched!SPACE, Sched!NUL}
      /\ save_ptr' = IF msg_buf[e] = Sched!SPACE THEN e + 1 ELSE e
  BY DEF Cut
<1>3. /\ \A k \in 1 .. MSG_SIZE : k # e => msg_buf'[k] = msg_buf[k]
      /\ msg_buf'[e] = Sched!NUL /\ save_ptr' \in 1 .. MSG_SIZE
      /\ msg_buf[e] = Sched!SPACE => e < MSG_SIZE
  BY CutKeeps
<1>4. msg_buf[save_ptr] # Sched!NUL
  BY <1>1, <1>2
<1>5. IsFiniteSet(Ahead(save_ptr)) /\ Cardinality(Ahead(save_ptr)) \in Nat
  BY <1>1, AheadIsFinite
<1>6. WordsLeft = Cardinality(Ahead(save_ptr)) + 1
  BY <1>4 DEF WordsLeft
<1>7. (\A k \in 1 .. MSG_SIZE : k <= e /\ k >= save_ptr => k = e \/ msg_buf[k] # Sched!NUL)
  BY <1>1, <1>2
<1>8. CASE msg_buf[e] = Sched!SPACE
  <2>1. save_ptr' = e + 1 /\ e + 1 \in 1 .. MSG_SIZE /\ e \in 1 .. MSG_SIZE
    BY <1>1, <1>2, <1>3, <1>8
  <2>2. Ahead(save_ptr)' = {k \in Ahead(save_ptr) : k > e}
    <3>1. Ahead(save_ptr)' =
            {k \in e + 1 .. MSG_SIZE :
               msg_buf[k] = Sched!SPACE /\ \A l \in e + 1 .. k : msg_buf[l] # Sched!NUL}
      <4>1. Ahead(save_ptr)' =
              {k \in e + 1 .. MSG_SIZE :
                 msg_buf'[k] = Sched!SPACE /\ \A l \in e + 1 .. k : msg_buf'[l] # Sched!NUL}
        BY <2>1 DEF Ahead
      <4>2. \A k \in e + 1 .. MSG_SIZE : k \in 1 .. MSG_SIZE /\ k # e
        BY <2>1
      <4>3. ASSUME NEW k \in e + 1 .. MSG_SIZE
            PROVE  \A l \in e + 1 .. k : l \in e + 1 .. MSG_SIZE
        BY <1>1, <2>1
      <4> QED BY <1>3, <4>1, <4>2, <4>3
    <3>2. ASSUME NEW k \in e + 1 .. MSG_SIZE
          PROVE  (\A l \in e + 1 .. k : msg_buf[l] # Sched!NUL) <=>
                   \A l \in save_ptr .. k : msg_buf[l] # Sched!NUL
      <4>1. \A l \in e + 1 .. k : l \in save_ptr .. k
        BY <1>1, <1>2
      <4>2. \A l \in save_ptr .. k : l \in e + 1 .. k \/ msg_buf[l] # Sched!NUL
        BY <1>1, <1>2, <1>7, <1>8
      <4> QED BY <4>1, <4>2
    <3>3. \A k : k \in e + 1 .. MSG_SIZE <=> k \in save_ptr .. MSG_SIZE /\ k > e
      BY <1>1, <1>2
    <3> QED BY <3>1, <3>2, <3>3 DEF Ahead
  <2>3. e \in Ahead(save_ptr)
    <3>1. e \in save_ptr .. MSG_SIZE
      BY <1>1, <1>2
    <3>2. \A l \in save_ptr .. e : msg_buf[l] # Sched!NUL
      BY <1>1, <1>2, <1>7, <1>8
    <3> QED BY <1>8, <3>1, <3>2 DEF Ahead
  <2>4. \A k \in Ahead(save_ptr) : k \in Nat
    BY <1>1 DEF Ahead
  <2> DEFINE A == Ahead(save_ptr)
             B == Ahead(save_ptr)'
  <2>5. B \subseteq A \ {e}
    BY <2>2, <2>1
  <2>6. Cardinality(A \ {e}) = Cardinality(A) - 1 /\ IsFiniteSet(A \ {e})
    BY <1>5, <2>3, FS_RemoveElement
  <2>7. IsFiniteSet(B) /\ Cardinality(B) <= Cardinality(A \ {e}) /\ Cardinality(B) \in Nat
    <3> HIDE DEF A, B
    <3> QED BY <2>5, <2>6, FS_Subset, FS_CardinalityType
  <2>8. WordsLeft' \in Nat /\ WordsLeft' <= Cardinality(B) + 1
    BY <2>7 DEF WordsLeft
  <2>9. WordsLeft' + 1 <= WordsLeft /\ WordsLeft \in Nat
    <3> HIDE DEF A, B
    <3>1. WordsLeft = Cardinality(A) + 1 /\ Cardinality(A) \in Nat
      BY <1>5, <1>6 DEF A
    <3> QED BY <2>6, <2>7, <2>8, <3>1
  <2>10. ASSUME Tidy(save_ptr)
         PROVE  WordsLeft' + 1 = WordsLeft /\ Tidy(save_ptr)'
    <3>1. \A k \in 1 .. MSG_SIZE : msg_buf[k] = Sched!SPACE =>
            /\ save_ptr < k /\ k \in A
            /\ msg_buf[k + 1] \notin {Sched!SPACE, Sched!NUL}
      BY <2>10 DEF Tidy
    <3>2. b = save_ptr
      <4>1. msg_buf[save_ptr] # Sched!SPACE
        BY <1>1, <3>1
      <4> QED BY <1>1, <1>2, <4>1
    <3>3. A \ {e} \subseteq B
      <4>1. ASSUME NEW k \in A, k # e PROVE k > e
        <5>1. k \in save_ptr .. MSG_SIZE /\ msg_buf[k] = Sched!SPACE
          BY DEF Ahead
        <5>2. k \notin b .. e - 1
          BY <1>2, <5>1
        <5> QED BY <1>1, <3>2, <4>1, <5>1, <5>2
      <4> QED BY <2>2, <4>1
    <3>4. B = A \ {e}
      <4> HIDE DEF A, B
      <4> QED BY <2>5, <3>3
    <3>5. msg_buf'[e + 1] # Sched!NUL
      <4>1. msg_buf[e + 1] # Sched!NUL
        BY <1>8, <2>1, <3>1
      <4> QED BY <1>3, <2>1, <4>1
    <3>6. WordsLeft' = Cardinality(B) + 1
      BY <2>1, <3>5 DEF WordsLeft
    <3>7. WordsLeft' + 1 = WordsLeft
      <4> HIDE DEF B
      <4>1. WordsLeft = Cardinality(A) + 1 /\ Cardinality(A) \in Nat
        BY <1>5, <1>6
      <4> HIDE DEF A
      <4> QED BY <2>6, <3>4, <3>6, <4>1
    <3>8. ASSUME NEW k \in 1 .. MSG_SIZE, msg_buf'[k] = Sched!SPACE
          PROVE  /\ e + 1 < k /\ k \in B
                 /\ msg_buf'[k + 1] \notin {Sched!SPACE, Sched!NUL}
      <4>1. k # e /\ msg_buf[k] = Sched!SPACE
        BY <1>1, <1>3, <3>8
      <4>2. k \in A /\ msg_buf[k + 1] \notin {Sched!SPACE, Sched!NUL}
        BY <3>1, <4>1
      <4>3. k > e /\ k \in B
        BY <2>2, <3>4, <4>1, <4>2
      <4>4. k # e + 1
        BY <1>8, <2>1, <3>1, <4>1
      <4>5. k + 1 \in 1 .. MSG_SIZE /\ k + 1 # e
        BY <1>1, <4>1, <4>3
      <4>6. msg_buf'[k + 1] = msg_buf[k + 1]
        BY <1>3, <4>5
      <4>7. e + 1 < k
        BY <2>1, <4>3, <4>4
      <4> QED BY <4>2, <4>3, <4>6, <4>7
    <3>9. Tidy(save_ptr)'
      BY <2>1, <3>8 DEF Tidy
    <3> QED BY <3>7, <3>9
  <2> QED BY <2>8, <2>9, <2>10
<1>9. CASE msg_buf[e] = Sched!NUL
  <2>1. save_ptr' = e /\ msg_buf' = msg_buf /\ e \in 1 .. MSG_SIZE
    <3>1. msg_buf' = [msg_buf EXCEPT ![e] = Sched!NUL] /\ msg_buf \in [1 .. MSG_SIZE -> Cells]
      BY BufferIs DEF Cut
    <3> QED BY <1>1, <1>2, <1>9, <3>1
  <2>2. Ahead(save_ptr)' = Ahead(e)
    BY <2>1 DEF Ahead
  <2>3. Ahead(e) = {}
    BY <1>9, <2>1, AheadIsFinite
  <2>4. WordsLeft' = 0
    BY <1>9, <2>1, <2>2, <2>3, FS_EmptySet DEF WordsLeft
  <2>5. ASSUME Tidy(save_ptr), NEW k \in Ahead(save_ptr) PROVE FALSE
    <3>1. /\ k \in save_ptr .. MSG_SIZE /\ msg_buf[k] = Sched!SPACE
          /\ \A l \in save_ptr .. k : msg_buf[l] # Sched!NUL
      BY DEF Ahead
    <3>2. k < e
      BY <1>1, <1>2, <1>9, <3>1
    <3>3. b = save_ptr
      <4>1. msg_buf[save_ptr] # Sched!SPACE
        BY <1>1, <2>5 DEF Tidy
      <4> QED BY <1>1, <1>2, <4>1
    <3> QED BY <1>1, <1>2, <3>1, <3>2, <3>3
  <2>6. ASSUME Tidy(save_ptr) PROVE WordsLeft = 1 /\ Tidy(save_ptr)'
    <3>1. Ahead(save_ptr) = {}
      BY <2>5, <2>6
    <3>2. WordsLeft = 1
      BY <1>6, <3>1, FS_EmptySet
    <3>3. ASSUME NEW k \in 1 .. MSG_SIZE PROVE msg_buf[k] # Sched!SPACE
      BY <2>6, <3>1 DEF Tidy
    <3> QED BY <2>1, <3>2, <3>3 DEF Tidy
  <2> QED BY <1>5, <1>6, <2>4, <2>6
<1> QED BY <1>2, <1>8, <1>9

---------------------------------------------------------------------------
(* The steps of the scheduler.                                             *)

Resting == {"call", "receive", "report", "test", "close"}

LEMMA AnswerInit == Sched!Init => AnswerInv
<1> SUFFICES ASSUME Sched!Init PROVE AnswerInv
  OBVIOUS
<1>1. MSG_SIZE \in Nat \ {0} /\ MSG_SIZE \in 1 .. MSG_SIZE
  BY SchedulerAssumption
<1>2. /\ scheduler = "none" /\ task = None /\ stack = Sched!Blank /\ msg_buf = Sched!Blank
      /\ Sched!Blank \in [1 .. MSG_SIZE -> Cells] /\ Sched!Blank[MSG_SIZE] = Sched!NUL
      /\ save_ptr \in 1 .. MSG_SIZE
      /\ stats = Sched!NoStats /\ token_amount = 0
  BY <1>1 DEF Sched!Init, Sched!Blank, Cells
<1>3. Sched!NoStats.count = 0
  BY DEF Sched!NoStats
<1>4. Sched!TypeOK
  <2>1. queue \in Seq(Sched!Services) /\ stats.count <= token_amount
    BY <1>2, <1>3 DEF Sched!Init
  <2>2. /\ scheduler = "none" /\ shutdown \in {0, 1} /\ exists \in BOOLEAN
        /\ writable \in BOOLEAN
        /\ service \in [Sched!Services -> {"none", "open", "exited"}]
    BY DEF Sched!Init
  <2> QED BY <1>2, <2>1, <2>2 DEF Sched!TypeOK, Cells
<1> QED BY <1>2, <1>3, <1>4 DEF AnswerInv, WordsCounted, SpacesGo, WordByWord,
       Sched!OwnNumbers, InWords

\* The buffer and what is known of it stay, and so does what matters of the place.
LEMMA AnswerStays ==
  ASSUME AnswerInv, Sched!TypeOK', UNCHANGED <<Sched!round, stack>>,
         \/ scheduler' = scheduler
         \/ InWords /\ InWords'
         \/ scheduler \in Resting /\ scheduler' \in Resting \ {"report"}
         \/ scheduler' = "exited"
  PROVE  AnswerInv'
<1>1. UNCHANGED <<msg_buf, task, save_ptr, stats, token_amount, stack>>
  BY DEF Sched!round
<1>2. WordsLeft' = WordsLeft
  BY <1>1 DEF WordsLeft, Ahead
<1>3. CleanStack' = CleanStack /\ Tidy(1)' = Tidy(1) /\ Tidy(save_ptr)' = Tidy(save_ptr)
  BY <1>1 DEF CleanStack, Tidy, Ahead
<1>4. InWords' => InWords
  BY DEF InWords, Resting
<1>5. (scheduler' = "parse" => scheduler = "parse")
      /\ (scheduler' = "report" => scheduler = "report")
      /\ (scheduler' \in Resting => scheduler \in Resting)
  BY DEF InWords, Resting
<1>6. WordsCounted'
  BY <1>1, <1>2, <1>4 DEF AnswerInv, WordsCounted
<1>7. SpacesGo'
  BY <1>1, <1>3, <1>4, <1>5 DEF AnswerInv, SpacesGo, Resting
<1>8. Holds(1)' = Holds(1) /\ Holds(save_ptr)' = Holds(save_ptr)
  BY <1>1 DEF Holds
<1>9. StatsOf(Sched!NumbersOf(task), stats.count)' = StatsOf(Sched!NumbersOf(task), stats.count)
  BY <1>1 DEF StatsOf
<1>10. WordByWord'
  BY <1>1, <1>2, <1>3, <1>4, <1>5, <1>8, <1>9 DEF AnswerInv, WordByWord
<1>11. Sched!OwnNumbers'
  BY <1>1, <1>5 DEF AnswerInv, Sched!OwnNumbers
<1>12. stack' \in [1 .. MSG_SIZE -> Cells] /\ stats'.count \in Nat /\ token_amount' \in Nat
  BY <1>1 DEF AnswerInv
<1> QED BY <1>6, <1>7, <1>10, <1>11, <1>12 DEF AnswerInv

\* The types, when the buffer and the statistics stay.
LEMMA TypesStay ==
  ASSUME Sched!TypeOK, UNCHANGED <<Sched!round, writable>>,
         scheduler' \in {scheduler, "call", "receive", "token", "test", "close", "exited"},
         shutdown' \in {shutdown, 1}, exists' \in {exists, FALSE},
         queue' \in Seq(Sched!Services),
         service' \in [Sched!Services -> {"none", "open", "exited"}]
  PROVE  Sched!TypeOK'
<1>1. UNCHANGED <<msg_buf, task, save_ptr, stats, token_amount, writable>>
  BY DEF Sched!round
<1>2. exists' \in BOOLEAN /\ writable' \in BOOLEAN /\ shutdown' \in {0, 1}
  BY <1>1 DEF Sched!TypeOK
<1>3. scheduler' \in {"none", "call", "receive", "parse", "token", "sleep", "report",
                      "test", "close", "exited"}
  BY DEF Sched!TypeOK
<1>4. /\ msg_buf' \in [1 .. MSG_SIZE -> 0 .. 9 \cup {Sched!SPACE, Sched!NEWLINE, Sched!NUL}]
      /\ msg_buf'[MSG_SIZE] = Sched!NUL
      /\ task' \in Sched!Services \cup {None}
      /\ save_ptr' \in 1 .. MSG_SIZE
      /\ stats'.count <= token_amount'
  BY <1>1 DEF Sched!TypeOK
<1> QED BY <1>2, <1>3, <1>4 DEF Sched!TypeOK

LEMMA QuietInv ==
  ASSUME AnswerInv,
         \/ Sched!StartFails \/ Sched!Call \/ Sched!Slept \/ Sched!Report \/ Sched!Test
         \/ Sched!Close \/ Sched!Signal \/ Sched!SignalInSleep
         \/ \E s \in Sched!Services : Sched!Open(s) \/ Sched!Send(s)
         \/ UNCHANGED sched
  PROVE  AnswerInv'
<1> DEFINE Stays ==
             /\ Sched!TypeOK' /\ UNCHANGED <<Sched!round, stack>>
             /\ \/ scheduler' = scheduler
                \/ InWords /\ InWords'
                \/ scheduler \in Resting /\ scheduler' \in Resting \ {"report"}
                \/ scheduler' = "exited"
<1>0. /\ Sched!TypeOK /\ queue \in Seq(Sched!Services) /\ <<>> \in Seq(Sched!Services)
      /\ service \in [Sched!Services -> {"none", "open", "exited"}]
  BY DEF AnswerInv, Sched!TypeOK
<1>1. ASSUME Sched!StartFails \/ Sched!Call \/ Sched!Slept \/ Sched!Report \/ Sched!Test
      PROVE  Stays
  <2>1. UNCHANGED <<shutdown, exists, writable, queue, stack, Sched!round, service>>
    BY <1>1 DEF Sched!StartFails, Sched!Call, Sched!Slept, Sched!Report, Sched!Test
  <2> DEFINE Moves ==
               \/ scheduler' = "exited"
               \/ scheduler = "call" /\ scheduler' = "receive"
               \/ scheduler = "sleep" /\ scheduler' = "token"
               \/ scheduler = "report" /\ scheduler' = "test"
               \/ scheduler = "test" /\ (scheduler' = "close" \/ scheduler' = "call")
  <2>2. Moves
    <3>1. CASE Sched!StartFails
      BY <3>1 DEF Sched!StartFails, Sched!Goto
    <3>2. CASE Sched!Call
      BY <3>2 DEF Sched!Call, Sched!Goto
    <3>3. CASE Sched!Slept
      BY <3>3 DEF Sched!Slept, Sched!Goto
    <3>4. CASE Sched!Report
      BY <3>4 DEF Sched!Report, Sched!Goto
    <3>5. CASE Sched!Test
      BY <3>5 DEF Sched!Test, Sched!Goto
    <3> HIDE DEF Moves
    <3> QED BY <1>1, <3>1, <3>2, <3>3, <3>4, <3>5
  <2>3. Sched!TypeOK'
    BY <1>0, <2>1, <2>2, TypesStay
  <2> QED BY <2>1, <2>2, <2>3 DEF InWords, Resting
<1>2. ASSUME Sched!Close \/ Sched!Signal \/ Sched!SignalInSleep
      PROVE  Stays
  <2>1. /\ UNCHANGED <<writable, stack, Sched!round, service>>
        /\ scheduler' = scheduler \/ scheduler' = "exited"
        /\ shutdown' \in {shutdown, 1} /\ exists' \in {exists, FALSE}
        /\ queue' = queue \/ queue' = <<>>
    BY <1>2 DEF Sched!Close, Sched!Signal, Sched!SignalInSleep, Sched!handle_signal,
       Sched!Goto
  <2>2. Sched!TypeOK'
    BY <1>0, <2>1, TypesStay
  <2> QED BY <2>1, <2>2
<1>3. ASSUME NEW s \in Sched!Services, Sched!Open(s) \/ Sched!Send(s)
      PROVE  Stays
  <2>1. /\ UNCHANGED <<scheduler, shutdown, exists, writable, stack, Sched!round>>
        /\ queue' = queue \/ queue' = Append(queue, s)
        /\ \E v \in {"open", "exited"} : service' = [service EXCEPT ![s] = v]
    BY <1>3 DEF Sched!Open, Sched!Send
  <2>2. queue' \in Seq(Sched!Services)
    BY <1>0, <2>1
  <2>3. service' \in [Sched!Services -> {"none", "open", "exited"}]
    BY <1>0, <2>1
  <2>4. Sched!TypeOK'
    BY <1>0, <2>1, <2>2, <2>3, TypesStay
  <2> QED BY <2>1, <2>4
<1>4. ASSUME UNCHANGED sched PROVE Stays
  <2>1. UNCHANGED <<scheduler, shutdown, exists, writable, stack, queue, service>>
        /\ UNCHANGED Sched!round
    BY <1>4 DEF sched, Sched!round
  <2>2. Sched!TypeOK'
    BY <1>0, <2>1, TypesStay
  <2> QED BY <2>1, <2>2
<1>5. Stays
  <2> HIDE DEF Stays
  <2> QED BY <1>1, <1>2, <1>3, <1>4
<1> QED BY <1>5, AnswerStays

LEMMA StartInv == ASSUME AnswerInv, Sched!Start PROVE AnswerInv'
<1>0. Sched!TypeOK
  BY DEF AnswerInv
<1>1. /\ scheduler' = "call" /\ stack' \in Stack /\ msg_buf' = stack' /\ task' = None
      /\ save_ptr' = 1 /\ stats' = Sched!NoStats /\ token_amount' = 0
      /\ UNCHANGED <<queue, service>> /\ shutdown' = 0 /\ exists' = TRUE
  BY DEF Sched!Start
<1>2. writable' \in BOOLEAN
  BY <1>0 DEF Sched!Start, Sched!TypeOK
<1>3. stack' \in [1 .. MSG_SIZE -> Cells] /\ stack'[MSG_SIZE] = Sched!NUL
  BY <1>1, SchedulerAssumption DEF Cells
<1>4. stats'.count = 0 /\ 1 \in 1 .. MSG_SIZE
  BY <1>1, SchedulerAssumption DEF Sched!NoStats
<1>5. Sched!TypeOK'
  BY <1>0, <1>1, <1>2, <1>3, <1>4 DEF Sched!TypeOK, Cells
<1>6. SpacesGo'
  BY <1>1, <1>3 DEF SpacesGo, CleanStack, InWords
<1> QED BY <1>1, <1>3, <1>4, <1>5, <1>6 DEF AnswerInv, WordsCounted, WordByWord, InWords,
       Sched!OwnNumbers

LEMMA SignalInReceiveInv == ASSUME AnswerInv, Sched!SignalInReceive PROVE AnswerInv'
<1>0. Sched!TypeOK
  BY DEF AnswerInv
<1>1. /\ scheduler = "receive" /\ scheduler' = "parse" /\ task' = None /\ shutdown' = 1
      /\ UNCHANGED <<exists, writable, queue, stack, msg_buf, save_ptr, stats,
                     token_amount, service>>
  BY DEF Sched!SignalInReceive, Sched!Goto, Sched!handle_signal
<1>2. Sched!TypeOK'
  BY <1>0, <1>1 DEF Sched!TypeOK
<1>3. CleanStack' = CleanStack
  BY <1>1 DEF CleanStack
<1>4. ASSUME CleanStack PROVE Tidy(1)'
  BY <1>1, <1>4 DEF AnswerInv, SpacesGo, Tidy
<1>5. SpacesGo'
  BY <1>1, <1>3, <1>4 DEF SpacesGo, InWords
<1>6. stack' \in [1 .. MSG_SIZE -> Cells] /\ stats'.count \in Nat /\ token_amount' \in Nat
  BY <1>1 DEF AnswerInv
<1> QED BY <1>1, <1>2, <1>5, <1>6 DEF AnswerInv, WordsCounted, WordByWord, InWords,
       Sched!OwnNumbers

\* What is received is a request that is in the queue.
LEMMA ReceivedIs ==
  ASSUME Sched!TypeOK, Sched!Receive
  PROVE  /\ task' \in DOMAIN Request
         /\ queue' \in Seq(Sched!Services)
         /\ msg_buf' = Sched!Overwrite(msg_buf, Sched!Line(task'))
         /\ scheduler = "receive" /\ scheduler' = "parse"
         /\ UNCHANGED <<shutdown, exists, writable, stack, save_ptr, stats, token_amount,
                        service>>
<1>1. PICK k \in DOMAIN queue :
        /\ msg_buf' = Sched!Overwrite(msg_buf, Sched!Line(queue[k]))
        /\ task' = queue[k]
        /\ queue' = SubSeq(queue, 1, k - 1) \o SubSeq(queue, k + 1, Len(queue))
  BY DEF Sched!Receive
<1>2. queue \in Seq(DOMAIN Request)
  BY DEF Sched!TypeOK, Sched!Services
<1>3. queue[k] \in DOMAIN Request
  BY <1>2
<1>4. queue' \in Seq(DOMAIN Request)
  BY <1>1, <1>2
<1> QED BY <1>1, <1>3, <1>4 DEF Sched!Receive, Sched!Goto, Sched!Services

LEMMA ReceiveInv == ASSUME AnswerInv, Sched!Receive PROVE AnswerInv'
<1> DEFINE line == Sched!Line(task')
<1>0. Sched!TypeOK
  BY DEF AnswerInv
<1>1. /\ task' \in DOMAIN Request /\ queue' \in Seq(Sched!Services)
      /\ msg_buf' = Sched!Overwrite(msg_buf, line)
      /\ scheduler = "receive" /\ scheduler' = "parse"
      /\ UNCHANGED <<shutdown, exists, writable, stack, save_ptr, stats, token_amount,
                     service>>
  BY <1>0, ReceivedIs
<1>2. /\ MSG_SIZE \in Nat \ {0} /\ msg_buf \in [1 .. MSG_SIZE -> Cells]
      /\ msg_buf[MSG_SIZE] = Sched!NUL /\ Symbols \subseteq Cells
      /\ Sched!NUL \notin Symbols /\ Sched!NUL # Sched!SPACE
  BY <1>0, BufferIs
<1>3. /\ Len(line) \in Nat \ {0} /\ Len(line) < MSG_SIZE
      /\ \A q \in 1 .. Len(line) :
           /\ line[q] \in Symbols
           /\ line[q] = Sched!SPACE =>
                1 < q /\ q < Len(line) /\ line[q + 1] # Sched!SPACE
  BY <1>1, LineIs
<1> HIDE DEF line
<1>4. msg_buf' = [q \in 1 .. MSG_SIZE |-> IF q <= Len(line) THEN line[q] ELSE msg_buf[q]]
  BY <1>1, <1>2 DEF Sched!Overwrite
<1>5. \A q \in 1 .. MSG_SIZE :
        /\ q <= Len(line) => msg_buf'[q] = line[q]
        /\ q > Len(line) => msg_buf'[q] = msg_buf[q]
  BY <1>3, <1>4
<1>6. msg_buf' \in [1 .. MSG_SIZE -> Cells] /\ msg_buf'[MSG_SIZE] = Sched!NUL
  <2>1. \A q \in 1 .. MSG_SIZE : msg_buf'[q] \in Cells
    BY <1>2, <1>3, <1>5
  <2>2. msg_buf'[MSG_SIZE] = msg_buf[MSG_SIZE]
    BY <1>2, <1>3, <1>5
  <2> QED BY <1>2, <1>4, <2>1, <2>2
<1>7. Sched!TypeOK'
  <2>1. task' \in Sched!Services
    BY <1>1 DEF Sched!Services
  <2> QED BY <1>0, <1>1, <1>6, <2>1 DEF Sched!TypeOK, Cells
<1>8. ASSUME CleanStack, NEW q \in 1 .. MSG_SIZE, q > Len(line)
      PROVE  msg_buf'[q] # Sched!SPACE
  BY <1>1, <1>5, <1>8 DEF AnswerInv, SpacesGo
<1>9. ASSUME CleanStack PROVE Tidy(1)'
  <2> SUFFICES ASSUME NEW k \in 1 .. MSG_SIZE, msg_buf'[k] = Sched!SPACE
               PROVE  /\ 1 < k /\ k \in Ahead(1)'
                      /\ msg_buf'[k + 1] \notin {Sched!SPACE, Sched!NUL}
    BY DEF Tidy
  <2>1. k \in 1 .. Len(line) /\ line[k] = Sched!SPACE
    BY <1>2, <1>3, <1>5, <1>8, <1>9
  <2>2. 1 < k /\ k + 1 \in 1 .. Len(line) /\ line[k + 1] # Sched!SPACE
    BY <1>3, <2>1
  <2>3. \A l \in 1 .. Len(line) : l \in 1 .. MSG_SIZE /\ msg_buf'[l] # Sched!NUL
                                  /\ msg_buf'[l] = line[l]
    BY <1>2, <1>3, <1>5
  <2>4. msg_buf'[k + 1] \notin {Sched!SPACE, Sched!NUL}
    BY <2>2, <2>3
  <2>5. \A l \in 1 .. k : l \in 1 .. Len(line)
    BY <1>3, <2>1
  <2>6. k \in Ahead(1)'
    BY <2>3, <2>5 DEF Ahead
  <2> QED BY <2>2, <2>4, <2>6
<1>10. CleanStack' = CleanStack
  BY <1>1 DEF CleanStack
<1>11. SpacesGo'
  BY <1>1, <1>9, <1>10 DEF SpacesGo, InWords
<1>12. ASSUME CleanStack PROVE Holds(1)'
  <2>1. \A q \in 1 .. Len(line) : q \in 1 .. MSG_SIZE /\ msg_buf'[q] = line[q]
    BY <1>2, <1>3, <1>5
  <2>2. \A q \in Len(line) + 1 .. MSG_SIZE : q \in 1 .. MSG_SIZE /\ q > Len(line)
    BY <1>2, <1>3
  <2>3. \A q \in Len(line) + 1 .. MSG_SIZE : msg_buf'[q] # Sched!SPACE
    BY <1>8, <1>12, <2>2
  <2> QED BY <2>1, <2>3 DEF Holds, line
<1>13. WordByWord'
  BY <1>1, <1>10, <1>12 DEF WordByWord, InWords
<1>14. stack' \in [1 .. MSG_SIZE -> Cells] /\ stats'.count \in Nat /\ token_amount' \in Nat
  BY <1>1 DEF AnswerInv
<1> QED BY <1>1, <1>7, <1>11, <1>13, <1>14 DEF AnswerInv, WordsCounted, InWords,
       Sched!OwnNumbers

\* The kth of some words is in the buffer, with what ends it.
WordInPlace(words, k, w, p) ==
  /\ p \in Nat \ {0} /\ Len(w) \in Nat \ {0} /\ p + Len(w) < MSG_SIZE
  /\ \A j \in 1 .. Len(w) : msg_buf[p + j - 1] = w[j]
  /\ \A l \in p .. p + Len(w) - 1 : msg_buf[l] \in 0 .. 9
  /\ k < Len(words) =>
       /\ msg_buf[p + Len(w)] = Sched!SPACE
       /\ Place(words, k + 1) = p + Len(w) + 1
  /\ k = Len(words) =>
       /\ msg_buf[p + Len(w)] = Sched!NEWLINE
       /\ \A l \in p + Len(w) .. MSG_SIZE : msg_buf[l] # Sched!SPACE

\* Of a request that ends in a newline the buffer holds the words from the next on.
LEMMA WordHeld ==
  ASSUME Sched!TypeOK, task \in DOMAIN Request, Request[task].newline,
         NEW k \in 1 .. Len(Request[task].words),
         Holds(Place(Request[task].words, k))
  PROVE  WordInPlace(Request[task].words, k, Request[task].words[k],
                     Place(Request[task].words, k))
<1> DEFINE words == Request[task].words
           n == Len(words)
           p == Place(words, k)
           w == words[k]
           line == Sched!Line(task)
<1>1. /\ p \in Nat \ {0} /\ p + Len(w) <= Len(line)
      /\ \A j \in 1 .. Len(w) : line[p + j - 1] = w[j]
      /\ k < n => line[p + Len(w)] = Sched!SPACE /\ Place(words, k + 1) = p + Len(w) + 1
      /\ k = n => line[p + Len(w)] = Sched!NEWLINE /\ p + Len(w) = Len(line)
  BY LineWords
<1>2. /\ Len(w) \in Nat \ {0} /\ \A j \in 1 .. Len(w) : w[j] \in 0 .. 9
  BY RequestIs, WordIs
<1>3. Len(line) \in Nat \ {0} /\ Len(line) < MSG_SIZE
  BY LineIs
<1>4. /\ \A q \in p .. Len(line) : msg_buf[q] = line[q]
      /\ \A q \in Len(line) + 1 .. MSG_SIZE : msg_buf[q] # Sched!SPACE
  BY DEF Holds
<1>5. MSG_SIZE \in Nat \ {0} /\ Sched!NEWLINE # Sched!SPACE
  BY BufferIs
<1> SUFFICES /\ p \in Nat \ {0} /\ Len(w) \in Nat \ {0} /\ p + Len(w) < MSG_SIZE
             /\ \A j \in 1 .. Len(w) : msg_buf[p + j - 1] = w[j]
             /\ \A l \in p .. p + Len(w) - 1 : msg_buf[l] \in 0 .. 9
             /\ k < n =>
                  /\ msg_buf[p + Len(w)] = Sched!SPACE
                  /\ Place(words, k + 1) = p + Len(w) + 1
             /\ k = n =>
                  /\ msg_buf[p + Len(w)] = Sched!NEWLINE
                  /\ \A l \in p + Len(w) .. MSG_SIZE : msg_buf[l] # Sched!SPACE
  BY DEF WordInPlace
<1> HIDE DEF words, n, p, w, line
<1>6. \A j \in 1 .. Len(w) : p + j - 1 \in p .. Len(line)
  BY <1>1, <1>2, <1>3
<1>7. \A j \in 1 .. Len(w) : msg_buf[p + j - 1] = w[j]
  BY <1>1, <1>4, <1>6
<1>8. ASSUME NEW l \in p .. p + Len(w) - 1 PROVE msg_buf[l] \in 0 .. 9
  <2>1. l - p + 1 \in 1 .. Len(w) /\ p + (l - p + 1) - 1 = l
    BY <1>1, <1>2
  <2>2. msg_buf[l] = w[l - p + 1]
    BY <1>7, <2>1
  <2> QED BY <1>2, <2>1, <2>2
<1>9. p + Len(w) \in p .. Len(line)
  BY <1>1, <1>2, <1>3
<1>10. msg_buf[p + Len(w)] = line[p + Len(w)]
  BY <1>4, <1>9
<1>11. ASSUME k = n, NEW l \in p + Len(w) .. MSG_SIZE PROVE msg_buf[l] # Sched!SPACE
  <2>1. p + Len(w) = Len(line) /\ msg_buf[p + Len(w)] = Sched!NEWLINE
    BY <1>1, <1>10, <1>11
  <2>2. CASE l = Len(line)
    BY <1>5, <2>1, <2>2
  <2>3. CASE l # Len(line)
    <3>1. l \in Len(line) + 1 .. MSG_SIZE
      BY <1>3, <1>5, <2>1, <2>3
    <3> QED BY <1>4, <3>1
  <2> QED BY <2>2, <2>3
<1>12. p + Len(w) < MSG_SIZE
  BY <1>1, <1>2, <1>3, <1>5
<1> QED BY <1>1, <1>2, <1>7, <1>8, <1>10, <1>11, <1>12

\* The first sum is zero, each other one its number more.
LEMMA SumOfNumbers ==
  ASSUME NEW f, NEW n \in Nat
  PROVE  /\ Sched!Sums(f, n)[0] = 0
         /\ \A m \in Nat : m < n => Sched!Sums(f, n)[m + 1] = Sched!Sums(f, n)[m] + f[m + 1]
<1>1. Sched!Sums(f, n) = Adding!Sums(f, n)
  BY DEF Sched!Sums, Adding!Sums
<1> QED BY <1>1, SumsSteps

LEMMA NumbersAre ==
  ASSUME NEW s \in DOMAIN Request
  PROVE  /\ Len(Sched!NumbersOf(s)) = Len(Request[s].words)
         /\ DOMAIN Sched!NumbersOf(s) = 1 .. Len(Request[s].words)
         /\ \A k \in 1 .. Len(Request[s].words) :
              /\ Sched!NumbersOf(s)[k] = Sched!Value(Request[s].words[k])
              /\ Sched!NumbersOf(s)[k] \in Int
              /\ Sched!INT_MIN <= Sched!NumbersOf(s)[k]
              /\ Sched!NumbersOf(s)[k] <= Sched!INT_MAX
<1> DEFINE n == Len(Request[s].words)
<1>1. n \in Nat
  BY RequestIs
<1>2. Sched!NumbersOf(s) = [k \in 1 .. n |-> Sched!Value(Request[s].words[k])]
  BY DEF Sched!NumbersOf
<1>3. \A k \in DOMAIN Sched!NumbersOf(s) : Sched!NumbersOf(s)[k] \in 0 .. Sched!INT_MAX
  BY SchedulerAssumption
<1> HIDE DEF n
<1>4. DOMAIN Sched!NumbersOf(s) = 1 .. n
  BY <1>2
<1>5. Len(Sched!NumbersOf(s)) = n
  BY <1>1, <1>2
<1>6. ASSUME NEW k \in 1 .. n
      PROVE  /\ Sched!NumbersOf(s)[k] \in Int
             /\ Sched!INT_MIN <= Sched!NumbersOf(s)[k]
             /\ Sched!NumbersOf(s)[k] <= Sched!INT_MAX
  <2>1. Sched!NumbersOf(s)[k] \in 0 .. Sched!INT_MAX
    BY <1>3, <1>4
  <2>2. Sched!INT_MAX \in Nat
    BY SMT DEF Sched!INT_MAX
  <2>3. Sched!INT_MIN = -Sched!INT_MAX - 1
    BY DEF Sched!INT_MIN
  <2> QED BY <2>1, <2>2, <2>3
<1>7. \A k \in 1 .. n : Sched!NumbersOf(s)[k] = Sched!Value(Request[s].words[k])
  BY <1>2
<1> QED BY <1>4, <1>5, <1>6, <1>7 DEF n

LEMMA ParseInv == ASSUME AnswerInv, Sched!Parse PROVE AnswerInv'
<1>0. Sched!TypeOK
  BY DEF AnswerInv
<1>1. /\ scheduler = "parse" /\ scheduler' = "token"
      /\ stats' = Sched!NoStats /\ token_amount' = Sched!token_count /\ save_ptr' = 1
      /\ UNCHANGED <<shutdown, exists, writable, queue, stack, msg_buf, task, service>>
  BY DEF Sched!Parse, Sched!Goto
<1>2. /\ MSG_SIZE \in Nat \ {0} /\ 1 \in 1 .. MSG_SIZE /\ Sched!NUL # Sched!SPACE
  BY <1>0, BufferIs
<1>3. /\ Sched!End(1) \in 1 .. MSG_SIZE /\ msg_buf[Sched!End(1)] = Sched!NUL
      /\ \A l \in 1 .. Sched!End(1) - 1 : msg_buf[l] # Sched!NUL
  BY <1>0, EndIs
<1>4. {k \in 1 .. Sched!End(1) : msg_buf[k] = Sched!SPACE} = Ahead(1)
  <2> DEFINE e == Sched!End(1)
  <2> HIDE DEF e
  <2>1. /\ e \in 1 .. MSG_SIZE /\ msg_buf[e] = Sched!NUL
        /\ \A l \in 1 .. e - 1 : msg_buf[l] # Sched!NUL
    BY <1>3 DEF e
  <2>2. ASSUME NEW k \in 1 .. e, msg_buf[k] = Sched!SPACE PROVE k \in Ahead(1)
    <3>1. k \in 1 .. MSG_SIZE /\ k < e
      BY <1>2, <2>1, <2>2
    <3>2. \A l \in 1 .. k : l \in 1 .. e - 1
      BY <2>1, <3>1
    <3> QED BY <2>1, <2>2, <3>1, <3>2 DEF Ahead
  <2>3. ASSUME NEW k \in Ahead(1) PROVE k \in 1 .. e /\ msg_buf[k] = Sched!SPACE
    <3>1. /\ k \in 1 .. MSG_SIZE /\ msg_buf[k] = Sched!SPACE
          /\ \A l \in 1 .. k : msg_buf[l] # Sched!NUL
      BY DEF Ahead
    <3>2. ~ (e <= k)
      BY <2>1, <3>1
    <3> QED BY <2>1, <3>1, <3>2
  <2> QED BY <2>2, <2>3 DEF e
<1>5. token_amount' = Cardinality(Ahead(1)) + 1 /\ Cardinality(Ahead(1)) \in Nat
  <2>1. Cardinality(Ahead(1)) \in Nat
    BY <1>0, <1>2, AheadIsFinite
  <2> QED BY <1>1, <1>4, <2>1, SameCardinality DEF Sched!token_count
<1>6. stats'.count = 0
  BY <1>1 DEF Sched!NoStats
<1>7. Sched!TypeOK'
  BY <1>0, <1>1, <1>2, <1>5, <1>6 DEF Sched!TypeOK
<1>8. Ahead(save_ptr)' = Ahead(1) /\ Tidy(save_ptr)' = Tidy(1) /\ CleanStack' = CleanStack
  BY <1>1 DEF Ahead, Tidy, CleanStack
<1>9. WordsLeft' = Cardinality(Ahead(1)) + IF msg_buf[1] = Sched!NUL THEN 0 ELSE 1
  BY <1>1, <1>8 DEF WordsLeft
<1>10. WordsCounted'
  BY <1>5, <1>6, <1>9 DEF WordsCounted
<1>11. SpacesGo'
  BY <1>1, <1>8 DEF AnswerInv, SpacesGo, InWords
<1>12. ASSUME CleanStack, task # None, Request[task].newline
       PROVE  /\ (stats.count \in 0 .. Len(Request[task].words))'
              /\ (stats.count + WordsLeft = token_amount)'
              /\ StatsOf(Sched!NumbersOf(task), stats.count)'
              /\ stats'.count < Len(Request[task].words)
              /\ (save_ptr = Place(Request[task].words, stats.count + 1))'
              /\ Holds(save_ptr)'
  <2>1. task \in DOMAIN Request
    BY <1>0, <1>12 DEF Sched!TypeOK, Sched!Services
  <2>2. Len(Request[task].words) \in Nat \ {0}
    BY <2>1, RequestIs
  <2>3. Holds(1)
    BY <1>1, <1>12 DEF AnswerInv, WordByWord
  <2>4. Place(Request[task].words, 1) = 1
    BY DEF Place
  <2>5. msg_buf[1] # Sched!NUL
    <3> DEFINE w == Request[task].words[1]
    <3>1. 1 \in 1 .. Len(Request[task].words)
      BY <2>2
    <3>2. Len(w) \in Nat \ {0} /\ \A l \in 1 .. 1 + Len(w) - 1 : msg_buf[l] \in 0 .. 9
      <4>1. WordInPlace(Request[task].words, 1, w, 1)
        BY <1>0, <1>12, <2>1, <2>3, <2>4, <3>1, WordHeld
      <4> HIDE DEF w
      <4> QED BY <4>1 DEF WordInPlace
    <3> HIDE DEF w
    <3>3. msg_buf[1] \in 0 .. 9
      BY <3>2
    <3> QED BY <3>3 DEF Sched!NUL
  <2>6. (stats.count + WordsLeft = token_amount)'
    BY <1>5, <1>6, <1>9, <2>5
  <2>7. Len(Sched!NumbersOf(task)) \in Nat
    BY <2>1, <2>2, NumbersAre
  <2>8. StatsOf(Sched!NumbersOf(task), 0)'
    <3>1. Sched!Sums(Sched!NumbersOf(task), Len(Sched!NumbersOf(task)))[0] = 0
      BY <2>7, SumOfNumbers
    <3>2. stats'.sum = 0
      BY <1>1 DEF Sched!NoStats
    <3>3. Sched!Sums(Sched!NumbersOf(task), Len(Sched!NumbersOf(task)))'
            = Sched!Sums(Sched!NumbersOf(task), Len(Sched!NumbersOf(task)))
      BY <1>1
    <3> QED BY <1>1, <1>6, <3>1, <3>2, <3>3 DEF StatsOf
  <2>9. Holds(save_ptr)'
    BY <1>1, <2>3 DEF Holds
  <2>10. (save_ptr = Place(Request[task].words, stats.count + 1))'
    BY <1>1, <1>6, <2>4
  <2> QED BY <1>1, <1>6, <2>2, <2>6, <2>8, <2>9, <2>10
<1>13. WordByWord'
  BY <1>1, <1>8, <1>12 DEF WordByWord
<1>14. /\ stack' \in [1 .. MSG_SIZE -> Cells]
       /\ stats'.count \in Nat /\ token_amount' \in Nat
  BY <1>1, <1>5, <1>6 DEF AnswerInv
<1> QED BY <1>1, <1>7, <1>10, <1>11, <1>13, <1>14 DEF AnswerInv, Sched!OwnNumbers

\* The token that is cut off is the next word, and atoi makes its number of it.
LEMMA WordCut ==
  ASSUME Sched!TypeOK, task \in DOMAIN Request, Request[task].newline,
         NEW k \in 1 .. Len(Request[task].words),
         save_ptr = Place(Request[task].words, k), Holds(save_ptr),
         NEW b \in Nat, NEW e \in Nat, Cut(b, e), task' = task
  PROVE  /\ Sched!atoi(SubSeq(msg_buf, b, e - 1)) = Sched!Value(Request[task].words[k])
         /\ k < Len(Request[task].words) =>
              save_ptr' = Place(Request[task].words, k + 1) /\ Holds(save_ptr)'
         /\ k = Len(Request[task].words) => msg_buf'[save_ptr'] = Sched!NUL
<1> DEFINE words == Request[task].words
           n == Len(words)
           w == words[k]
           p == save_ptr
<1>1. WordInPlace(words, k, w, p)
  BY WordHeld
<1>2. w \in Seq(0 .. 9)
  BY RequestIs, WordIs
<1>3. n \in Nat
  BY RequestIs
<1>4. Len(Sched!Line(task)) \in Nat
  BY LineIs
<1>5. /\ MSG_SIZE \in Nat \ {0} /\ msg_buf \in [1 .. MSG_SIZE -> Cells]
      /\ Sched!NUL # Sched!SPACE /\ Sched!NUL # Sched!NEWLINE
      /\ Sched!NEWLINE # Sched!SPACE /\ Cells \subseteq Int
  BY BufferIs
<1>6. /\ b \in p .. MSG_SIZE /\ e \in b + 1 .. MSG_SIZE
      /\ \A l \in p .. b - 1 : msg_buf[l] = Sched!SPACE
      /\ \A l \in b .. e - 1 : msg_buf[l] \notin {Sched!SPACE, Sched!NUL}
      /\ msg_buf[e] \in {Sched!SPACE, Sched!NUL}
      /\ save_ptr' = IF msg_buf[e] = Sched!SPACE THEN e + 1 ELSE e
  BY DEF Cut
<1>7. /\ \A q \in 1 .. MSG_SIZE : q # e => msg_buf'[q] = msg_buf[q]
      /\ msg_buf'[e] = Sched!NUL
  BY CutKeeps
<1>8. \A d \in 0 .. 9 : d \notin {Sched!SPACE, Sched!NUL}
  BY DEF Sched!SPACE, Sched!NUL
<1>9. Sched!NEWLINE < 0
  BY DEF Sched!NEWLINE
<1> HIDE DEF w, n
<1>10. /\ p \in Nat \ {0} /\ Len(w) \in Nat \ {0} /\ p + Len(w) < MSG_SIZE
       /\ \A j \in 1 .. Len(w) : msg_buf[p + j - 1] = w[j]
       /\ \A l \in p .. p + Len(w) - 1 : msg_buf[l] \in 0 .. 9
  BY <1>1 DEF WordInPlace
<1>11. k < n => /\ msg_buf[p + Len(w)] = Sched!SPACE
                /\ Place(words, k + 1) = p + Len(w) + 1
  BY <1>1 DEF WordInPlace, n
<1>12. k = n => /\ msg_buf[p + Len(w)] = Sched!NEWLINE
                /\ \A l \in p + Len(w) .. MSG_SIZE : msg_buf[l] # Sched!SPACE
  BY <1>1 DEF WordInPlace, n
<1> HIDE DEF words
<1>13. b = p
  <2>1. p \in p .. p + Len(w) - 1
    BY <1>10
  <2>2. msg_buf[p] # Sched!SPACE
    BY <1>8, <1>10, <2>1
  <2> QED BY <1>6, <1>10, <2>2
<1>14. p + Len(w) <= e
  <2>1. e \notin p .. p + Len(w) - 1
    BY <1>6, <1>8, <1>10
  <2> QED BY <1>6, <1>10, <1>13, <2>1
<1> DEFINE t == SubSeq(msg_buf, b, e - 1)
<1>15. /\ t \in Seq(Int) /\ Len(t) = e - p
       /\ \A j \in 1 .. e - p : t[j] = msg_buf[p + j - 1]
  <2>1. msg_buf \in Seq(Int) /\ Len(msg_buf) = MSG_SIZE
    <3>1. msg_buf \in [1 .. MSG_SIZE -> Int]
      BY <1>5
    <3> QED BY <1>5, <3>1
  <2>2. /\ p \in 1 .. MSG_SIZE /\ e - 1 \in p .. MSG_SIZE /\ e - 1 - p + 1 = e - p
        /\ e - p \in Nat /\ p \in Nat
    BY <1>5, <1>6, <1>10, <1>13
  <2>3. t = SubSeq(msg_buf, p, e - 1)
    BY <1>13
  <2> HIDE DEF t
  <2> DEFINE l == e - 1
  <2>4. /\ t \in Seq(Int) /\ Len(t) = l - p + 1
        /\ \A j \in 1 .. l - p + 1 : t[j] = msg_buf[p + j - 1]
    <3>1. t = SubSeq(msg_buf, p, l) /\ l \in p .. Len(msg_buf) /\ p \in 1 .. Len(msg_buf)
      BY <2>1, <2>2, <2>3
    <3> HIDE DEF l
    <3>2. /\ p \in Int /\ l \in Int /\ p <= l
          /\ \A q \in p .. l : q \in 1 .. Len(msg_buf)
      BY <2>1, <3>1, <1>5
    <3>3. \A q \in p .. l : msg_buf[q] \in Int
      BY <2>1, <3>2
    <3> QED BY <3>1, <3>2, <3>3, SubSeqProperties
  <2> QED BY <2>2, <2>4
<1> HIDE DEF t
<1>16. ASSUME k < n
       PROVE  /\ e = p + Len(w) /\ msg_buf[e] = Sched!SPACE
  BY <1>6, <1>10, <1>11, <1>13, <1>14, <1>16
<1>17. ASSUME k = n
       PROVE  p + Len(w) < e /\ msg_buf[e] = Sched!NUL
  <2>1. e # p + Len(w)
    BY <1>5, <1>6, <1>12, <1>17
  <2>2. e \in p + Len(w) .. MSG_SIZE
    BY <1>6, <1>10, <1>14
  <2>3. p + Len(w) < e
    <3> DEFINE q == p + Len(w)
    <3>1. q \in Nat
      BY <1>10
    <3>2. q <= e /\ e # q
      BY <1>14, <2>1
    <3> HIDE DEF q
    <3>3. q < e
      BY <3>1, <3>2
    <3> QED BY <3>3 DEF q
  <2>4. msg_buf[e] # Sched!SPACE
    BY <1>12, <1>17, <2>2
  <2> QED BY <1>6, <2>3, <2>4
<1>18. Sched!atoi(t) = Sched!Value(w)
  <2>0. Len(w) \in Nat /\ p \in Nat /\ Len(t) = e - p
    BY <1>10, <1>15
  <2> HIDE DEF p
  <2>1. Len(w) <= Len(t) /\ \A j \in 1 .. Len(w) : j \in 1 .. e - p
    BY <1>14, <2>0
  <2> USE DEF p
  <2>2. \A j \in 1 .. Len(w) : t[j] = w[j]
    BY <1>10, <1>15, <2>1
  <2>3. Len(w) < Len(t) => t[Len(w) + 1] < 0
    <3>1. CASE k < n
      BY <1>10, <1>15, <1>16, <3>1
    <3>2. CASE k = n
      <4>1. Len(w) + 1 \in 1 .. e - p /\ p + (Len(w) + 1) - 1 = p + Len(w)
        BY <1>6, <1>10, <1>13, <1>17, <3>2
      <4>2. t[Len(w) + 1] = Sched!NEWLINE
        BY <1>12, <1>15, <3>2, <4>1
      <4> QED BY <1>9, <4>2
    <3>3. k <= n /\ k \in Nat
      BY DEF n, words
    <3> QED BY <1>3, <3>1, <3>2, <3>3 DEF n
  <2> QED BY <1>2, <1>15, <2>1, <2>2, <2>3, WordRead
<1>19. ASSUME k < n
       PROVE  save_ptr' = Place(words, k + 1) /\ Holds(save_ptr)'
  <2>1. save_ptr' = e + 1 /\ e + 1 = Place(words, k + 1)
    BY <1>6, <1>11, <1>16, <1>19
  <2> DEFINE line == Sched!Line(task)
  <2>2. /\ \A q \in p .. Len(line) : msg_buf[q] = line[q]
        /\ \A q \in Len(line) + 1 .. MSG_SIZE : msg_buf[q] # Sched!SPACE
    BY DEF Holds
  <2>3. Len(line) \in Nat /\ Len(line) < MSG_SIZE
    BY LineIs
  <2> HIDE DEF line
  <2>4. ASSUME NEW q \in e + 1 .. Len(line) PROVE msg_buf'[q] = line[q]
    <3>1. q \in p .. Len(line) /\ q \in 1 .. MSG_SIZE /\ q # e
      BY <1>5, <1>6, <1>10, <1>13, <2>3
    <3> QED BY <1>7, <2>2, <3>1
  <2>5. ASSUME NEW q \in Len(line) + 1 .. MSG_SIZE PROVE msg_buf'[q] # Sched!SPACE
    <3>1. q \in 1 .. MSG_SIZE
      BY <1>5, <2>3
    <3> QED BY <1>5, <1>7, <2>2, <3>1
  <2>6. Holds(save_ptr)'
    BY <2>1, <2>4, <2>5 DEF Holds, line
  <2> QED BY <2>1, <2>6
<1>20. k = n => msg_buf'[save_ptr'] = Sched!NUL
  BY <1>5, <1>6, <1>7, <1>17
<1> QED BY <1>18, <1>19, <1>20 DEF words, n, w, t

\* The next number enters the statistics.
LEMMA NumberEnters ==
  ASSUME NEW nums, NEW n \in Nat, Len(nums) = n, NEW c \in 0 .. n - 1,
         \A k \in 1 .. n : /\ nums[k] \in Int
                           /\ Sched!INT_MIN <= nums[k] /\ nums[k] <= Sched!INT_MAX,
         stats.count = c,
         stats.sum = Sched!Sums(nums, n)[c],
         \A k \in 1 .. c : stats.min <= nums[k] /\ nums[k] <= stats.max,
         c = 0 => stats = Sched!NoStats,
         c > 0 => \E k, l \in 1 .. c : stats.min = nums[k] /\ stats.max = nums[l],
         Sched!Enter(nums[c + 1])
  PROVE  /\ stats'.count = c + 1
         /\ stats'.sum = Sched!Sums(nums, n)[c + 1]
         /\ \A k \in 1 .. c + 1 : stats'.min <= nums[k] /\ nums[k] <= stats'.max
         /\ \E k, l \in 1 .. c + 1 : stats'.min = nums[k] /\ stats'.max = nums[l]
<1> DEFINE val == nums[c + 1]
<1>1. /\ c + 1 \in 1 .. n /\ val \in Int
      /\ Sched!INT_MIN <= val /\ val <= Sched!INT_MAX
  OBVIOUS
<1>2. /\ stats'.max = IF val > stats.max THEN val ELSE stats.max
      /\ stats'.min = IF val < stats.min THEN val ELSE stats.min
      /\ stats'.sum = stats.sum + val
      /\ stats'.count = stats.count + 1
  BY DEF Sched!Enter
<1>3. stats'.sum = Sched!Sums(nums, n)[c + 1]
  <2>1. c \in Nat /\ c < n
    OBVIOUS
  <2>2. Sched!Sums(nums, n)[c + 1] = Sched!Sums(nums, n)[c] + nums[c + 1]
    BY <2>1, SumOfNumbers
  <2> QED BY <1>2, <2>2
<1> HIDE DEF val
<1>4. CASE c = 0
  <2>1. stats.max = Sched!INT_MIN /\ stats.min = Sched!INT_MAX
    BY <1>4 DEF Sched!NoStats
  <2>2. Sched!INT_MIN \in Int /\ Sched!INT_MAX \in Int
    BY SMT DEF Sched!INT_MIN, Sched!INT_MAX
  <2>3. stats'.max = val /\ stats'.min = val
    BY <1>1, <1>2, <2>1, <2>2
  <2>4. \A k \in 1 .. c + 1 : k = 1
    BY <1>4
  <2>5. val = nums[1] /\ 1 \in 1 .. c + 1
    BY <1>4 DEF val
  <2>6. \A k \in 1 .. c + 1 : stats'.min <= nums[k] /\ nums[k] <= stats'.max
    BY <1>1, <2>3, <2>4, <2>5
  <2> QED BY <1>2, <1>3, <2>3, <2>5, <2>6
<1>5. CASE c > 0
  <2>1. PICK k, l \in 1 .. c : stats.min = nums[k] /\ stats.max = nums[l]
    BY <1>5
  <2>2. k \in 1 .. n /\ l \in 1 .. n /\ k \in 1 .. c + 1 /\ l \in 1 .. c + 1
        /\ c + 1 \in 1 .. c + 1
    OBVIOUS
  <2>3. stats.min \in Int /\ stats.max \in Int
    BY <2>1, <2>2
  <2>4. val = nums[c + 1]
    BY DEF val
  <2>5. \E m \in 1 .. c + 1 : stats'.min = nums[m]
    BY <1>2, <2>1, <2>2, <2>4
  <2>6. \E m \in 1 .. c + 1 : stats'.max = nums[m]
    BY <1>2, <2>1, <2>2, <2>4
  <2>7. ASSUME NEW m \in 1 .. c + 1 PROVE stats'.min <= nums[m] /\ nums[m] <= stats'.max
    <3>1. CASE m = c + 1
      BY <1>1, <1>2, <2>3, <2>4, <3>1
    <3>2. CASE m # c + 1
      <4>1. m \in 1 .. c /\ m \in 1 .. n
        BY <3>2
      <4>2. stats.min <= nums[m] /\ nums[m] <= stats.max /\ nums[m] \in Int
        BY <4>1
      <4> QED BY <1>1, <1>2, <2>3, <4>2
    <3> QED BY <3>1, <3>2
  <2> QED BY <1>2, <1>3, <2>5, <2>6, <2>7
<1> QED BY <1>4, <1>5

LEMMA TokenInv == ASSUME AnswerInv, Sched!Token PROVE AnswerInv'
<1>0. Sched!TypeOK /\ stats.count \in Nat /\ token_amount \in Nat
  BY DEF AnswerInv
<1>1. /\ scheduler = "token" /\ scheduler' = "sleep"
      /\ UNCHANGED <<shutdown, exists, writable, queue, stack, task, token_amount,
                     service>>
  BY DEF Sched!Token
<1>2. PICK b, e \in Nat : Cut(b, e)
  BY <1>0, TokenCuts
<1> DEFINE val == Sched!atoi(SubSeq(msg_buf, b, e - 1))
<1>3. Sched!Enter(val)
  BY <1>2 DEF Cut
<1>4. stats'.count = stats.count + 1
  BY <1>3 DEF Sched!Enter
<1>5. /\ WordsLeft \in Nat /\ WordsLeft' \in Nat /\ WordsLeft' + 1 <= WordsLeft
      /\ Tidy(save_ptr) => WordsLeft' + 1 = WordsLeft /\ Tidy(save_ptr)'
  BY <1>0, <1>2, CutTakesOne
<1>6. stats.count + WordsLeft <= token_amount
  BY <1>1 DEF AnswerInv, WordsCounted, InWords
<1>7. stats'.count + WordsLeft' <= token_amount' /\ stats'.count <= token_amount'
      /\ stats'.count \in Nat /\ token_amount' \in Nat
  <2>1. token_amount' = token_amount
    BY <1>1
  <2>2. PICK left, left_then \in Nat :
          WordsLeft = left /\ WordsLeft' = left_then /\ left_then + 1 <= left
    BY <1>5
  <2> QED BY <1>0, <1>4, <1>6, <2>1, <2>2
<1>8. Sched!TypeOK'
  <2>1. /\ msg_buf' \in [1 .. MSG_SIZE -> Cells] /\ msg_buf'[MSG_SIZE] = Sched!NUL
        /\ save_ptr' \in 1 .. MSG_SIZE
    BY <1>0, <1>2, CutKeeps
  <2> QED BY <1>0, <1>1, <1>7, <2>1 DEF Sched!TypeOK, Cells
<1>9. CleanStack' = CleanStack
  BY <1>1 DEF CleanStack
<1>10. CleanStack => Tidy(save_ptr)
  BY <1>1 DEF AnswerInv, SpacesGo, InWords
<1>11. SpacesGo'
  BY <1>1, <1>5, <1>9, <1>10 DEF SpacesGo, InWords
<1>12. ASSUME CleanStack, task # None, Request[task].newline
       PROVE  /\ (stats.count \in 0 .. Len(Request[task].words))'
              /\ (stats.count + WordsLeft = token_amount)'
              /\ StatsOf(Sched!NumbersOf(task), stats.count)'
              /\ (IF stats.count < Len(Request[task].words)
                  THEN save_ptr = Place(Request[task].words, stats.count + 1)
                       /\ Holds(save_ptr)
                  ELSE msg_buf[save_ptr] = Sched!NUL)'
  <2> DEFINE words == Request[task].words
             n == Len(words)
             nums == Sched!NumbersOf(task)
             c == stats.count
  <2>1. task \in DOMAIN Request /\ n \in Nat
    BY <1>0, <1>12, RequestIs DEF Sched!TypeOK, Sched!Services
  <2>2. /\ c \in 0 .. n /\ c + WordsLeft = token_amount /\ StatsOf(nums, c)
        /\ IF c < n THEN save_ptr = Place(words, c + 1) /\ Holds(save_ptr)
           ELSE msg_buf[save_ptr] = Sched!NUL
    BY <1>1, <1>12 DEF AnswerInv, WordByWord, InWords
  <2>3. c < n
    <3> SUFFICES ASSUME msg_buf[save_ptr] = Sched!NUL PROVE FALSE
      BY <2>2
    <3>1. /\ b \in save_ptr .. MSG_SIZE /\ e \in b + 1 .. MSG_SIZE
          /\ \A l \in save_ptr .. b - 1 : msg_buf[l] = Sched!SPACE
          /\ \A l \in b .. e - 1 : msg_buf[l] \notin {Sched!SPACE, Sched!NUL}
      BY <1>2 DEF Cut
    <3>2. save_ptr \in 1 .. MSG_SIZE /\ MSG_SIZE \in Nat /\ Sched!NUL # Sched!SPACE
      BY <1>0, BufferIs
    <3>3. save_ptr \in save_ptr .. b - 1 \/ save_ptr \in b .. e - 1
      BY <3>1, <3>2
    <3> QED BY <3>1, <3>2, <3>3
  <2>4. c + 1 \in 1 .. n /\ save_ptr = Place(words, c + 1) /\ Holds(save_ptr)
    BY <2>1, <2>2, <2>3
  <2>5. /\ val = Sched!Value(words[c + 1])
        /\ c + 1 < n => save_ptr' = Place(words, (c + 1) + 1) /\ Holds(save_ptr)'
        /\ c + 1 = n => msg_buf'[save_ptr'] = Sched!NUL
    <3> DEFINE k == c + 1
    <3>1. k \in 1 .. Len(Request[task].words) /\ save_ptr = Place(Request[task].words, k)
      BY <2>4
    <3> HIDE DEF k
    <3>2. /\ val = Sched!Value(Request[task].words[k])
          /\ k < Len(Request[task].words) =>
               save_ptr' = Place(Request[task].words, k + 1) /\ Holds(save_ptr)'
          /\ k = Len(Request[task].words) => msg_buf'[save_ptr'] = Sched!NUL
      BY <1>0, <1>1, <1>2, <1>12, <2>1, <2>4, <3>1, WordCut
    <3> QED BY <3>2 DEF k
  <2>6. /\ Len(nums) = n
        /\ \A k \in 1 .. n : /\ nums[k] = Sched!Value(words[k]) /\ nums[k] \in Int
                             /\ Sched!INT_MIN <= nums[k] /\ nums[k] <= Sched!INT_MAX
    BY <2>1, NumbersAre
  <2>7. val = nums[c + 1]
    BY <2>4, <2>5, <2>6
  <2>8. /\ stats.sum = Sched!Sums(nums, n)[c]
        /\ \A k \in 1 .. c : stats.min <= nums[k] /\ nums[k] <= stats.max
        /\ c = 0 => stats = Sched!NoStats
        /\ c > 0 => \E k, l \in 1 .. c : stats.min = nums[k] /\ stats.max = nums[l]
    BY <2>2, <2>6 DEF StatsOf
  <2>9. /\ stats'.count = c + 1
        /\ stats'.sum = Sched!Sums(nums, n)[c + 1]
        /\ \A k \in 1 .. c + 1 : stats'.min <= nums[k] /\ nums[k] <= stats'.max
        /\ \E k, l \in 1 .. c + 1 : stats'.min = nums[k] /\ stats'.max = nums[l]
    <3> HIDE DEF nums, n, val
    <3>1. c \in 0 .. n - 1 /\ stats.count = c
      BY <2>1, <2>2, <2>3
    <3>2. Sched!Enter(nums[c + 1])
      BY <1>3, <2>7
    <3> HIDE DEF c
    <3> QED BY <2>1, <2>6, <2>8, <3>1, <3>2, NumberEnters
  <2>10. StatsOf(Sched!NumbersOf(task), stats.count)'
    <3>1. Sched!NumbersOf(task)' = nums /\ (stats.count)' = c + 1
      BY <1>1, <1>4
    <3>2. c + 1 > 0 /\ c + 1 # 0
      BY <2>4
    <3> HIDE DEF nums, n, c
    <3>3. /\ stats'.count = c + 1
          /\ stats'.sum = Sched!Sums(nums, Len(nums))[c + 1]
          /\ \A k \in 1 .. c + 1 : stats'.min <= nums[k] /\ nums[k] <= stats'.max
          /\ c + 1 = 0 => stats' = Sched!NoStats
          /\ c + 1 > 0 =>
               \E k, l \in 1 .. c + 1 : stats'.min = nums[k] /\ stats'.max = nums[l]
      BY <2>6, <2>9, <3>2
    <3> QED BY <3>1, <3>3 DEF StatsOf
  <2>11. (stats.count + WordsLeft = token_amount)'
    <3>1. WordsLeft' + 1 = WordsLeft
      BY <1>5, <1>10, <1>12
    <3>2. token_amount' = token_amount /\ stats.count + WordsLeft = token_amount
      BY <1>1, <2>2
    <3>3. PICK left, left_then \in Nat :
            WordsLeft = left /\ WordsLeft' = left_then /\ left_then + 1 = left
      BY <1>5, <3>1
    <3> QED BY <1>0, <1>4, <3>2, <3>3
  <2>12. stats'.count \in 0 .. n
    BY <1>4, <2>4
  <2>13. IF stats'.count < n
         THEN save_ptr' = Place(words, stats'.count + 1) /\ Holds(save_ptr)'
         ELSE msg_buf'[save_ptr'] = Sched!NUL
    <3> HIDE DEF words, n
    <3>1. c + 1 < n \/ c + 1 = n
      BY <2>1, <2>4
    <3> QED BY <1>0, <1>4, <2>1, <2>5, <3>1
  <2> QED BY <1>1, <2>10, <2>11, <2>12, <2>13
<1>13. WordByWord'
  BY <1>1, <1>9, <1>12 DEF WordByWord
<1>14. WordsCounted'
  BY <1>7 DEF WordsCounted
<1>15. stack' \in [1 .. MSG_SIZE -> Cells]
  BY <1>1 DEF AnswerInv
<1> QED BY <1>1, <1>7, <1>8, <1>11, <1>13, <1>14, <1>15 DEF AnswerInv, Sched!OwnNumbers

LEMMA NoTokenInv == ASSUME AnswerInv, Sched!NoToken PROVE AnswerInv'
<1>0. Sched!TypeOK /\ stats.count \in Nat /\ token_amount \in Nat
  BY DEF AnswerInv
<1>1. /\ scheduler = "token" /\ scheduler' = "report"
      /\ UNCHANGED <<shutdown, exists, writable, queue, stack, Sched!round, service>>
      /\ msg_buf[Sched!TokenStart] = Sched!NUL
  BY DEF Sched!NoToken
<1>2. UNCHANGED <<msg_buf, task, save_ptr, stats, token_amount, stack>>
  BY <1>1 DEF Sched!round
<1>3. /\ save_ptr \in 1 .. MSG_SIZE /\ MSG_SIZE \in Nat /\ Sched!NUL # Sched!SPACE
      /\ Sched!TokenStart \in save_ptr .. MSG_SIZE
      /\ \A l \in save_ptr .. Sched!TokenStart - 1 : msg_buf[l] = Sched!SPACE
  BY <1>0, BufferIs, TokenStartIs
<1>4. msg_buf[save_ptr] \in {Sched!NUL, Sched!SPACE}
  BY <1>1, <1>3
<1>5. ASSUME CleanStack
      PROVE  /\ Ahead(save_ptr) = {} /\ msg_buf[save_ptr] = Sched!NUL
             /\ \A k \in 1 .. MSG_SIZE : msg_buf[k] # Sched!SPACE
  <2>1. Tidy(save_ptr)
    BY <1>1, <1>5 DEF AnswerInv, SpacesGo, InWords
  <2>2. msg_buf[save_ptr] = Sched!NUL
    BY <1>3, <1>4, <2>1 DEF Tidy
  <2>3. Ahead(save_ptr) = {}
    BY <1>0, <1>3, <2>2, AheadIsFinite
  <2> QED BY <2>1, <2>2, <2>3 DEF Tidy
<1>6. Sched!TypeOK'
  <2>1. /\ scheduler' = "report"
        /\ UNCHANGED <<shutdown, exists, writable, queue, service>>
    BY <1>1
  <2> QED BY <1>0, <1>2, <2>1 DEF Sched!TypeOK
<1>7. CleanStack' = CleanStack
  BY <1>2 DEF CleanStack
<1>8. SpacesGo'
  BY <1>1, <1>2, <1>5, <1>7 DEF SpacesGo, InWords
<1>9. ASSUME CleanStack, task # None, Request[task].newline
      PROVE  /\ stats.count = Len(Request[task].words)
             /\ token_amount = stats.count
             /\ StatsOf(Sched!NumbersOf(task), stats.count)
             /\ task \in DOMAIN Request
  <2> DEFINE words == Request[task].words
             n == Len(words)
  <2>1. task \in DOMAIN Request
    BY <1>0, <1>9 DEF Sched!TypeOK, Sched!Services
  <2>2. n \in Nat
    BY <2>1, RequestIs
  <2>3. /\ stats.count \in 0 .. n /\ stats.count + WordsLeft = token_amount
        /\ StatsOf(Sched!NumbersOf(task), stats.count)
        /\ stats.count < n =>
             save_ptr = Place(words, stats.count + 1) /\ Holds(save_ptr)
    BY <1>1, <1>9 DEF AnswerInv, WordByWord, InWords
  <2>4. WordsLeft = 0
    BY <1>5, <1>9, FS_EmptySet DEF WordsLeft
  <2>5. ASSUME stats.count < n PROVE FALSE
    <3> DEFINE k == stats.count + 1
    <3>1. k \in 1 .. Len(Request[task].words)
      BY <2>2, <2>3, <2>5
    <3>2. Holds(Place(Request[task].words, k)) /\ save_ptr = Place(Request[task].words, k)
      BY <2>3, <2>5
    <3> HIDE DEF k
    <3>3. WordInPlace(Request[task].words, k, Request[task].words[k], save_ptr)
      BY <1>0, <1>9, <2>1, <3>1, <3>2, WordHeld
    <3> DEFINE w == Request[task].words[k]
    <3>4. /\ save_ptr \in Nat /\ Len(w) \in Nat \ {0}
          /\ \A l \in save_ptr .. save_ptr + Len(w) - 1 : msg_buf[l] \in 0 .. 9
      BY <3>3 DEF WordInPlace
    <3> HIDE DEF w
    <3>5. save_ptr \in save_ptr .. save_ptr + Len(w) - 1
      BY <3>4
    <3>6. msg_buf[save_ptr] \in 0 .. 9
      BY <3>4, <3>5
    <3>7. msg_buf[save_ptr] = Sched!NUL
      BY <1>5, <1>9
    <3> QED BY <3>6, <3>7 DEF Sched!NUL
  <2>6. stats.count = n
    BY <2>2, <2>3, <2>5
  <2> QED BY <1>0, <2>1, <2>3, <2>4, <2>6
<1>10. Sched!OwnNumbers'
  <2> SUFFICES ASSUME CleanStack, task # None, Request[task].newline
               PROVE  LET own == Sched!NumbersOf(task)
                          values == {own[k] : k \in DOMAIN own}
                      IN /\ stats.max \in values /\ \A v \in values : v <= stats.max
                         /\ stats.min \in values /\ \A v \in values : v >= stats.min
                         /\ stats.sum = Sched!Total(own, Len(own))
                         /\ stats.count = Len(own)
                         /\ token_amount = Len(own)
    BY <1>2 DEF Sched!OwnNumbers, CleanStack
  <2> DEFINE n == Len(Request[task].words)
             nums == Sched!NumbersOf(task)
             values == {nums[k] : k \in DOMAIN nums}
  <2>1. /\ stats.count = n /\ token_amount = n /\ task \in DOMAIN Request
        /\ StatsOf(nums, n)
    BY <1>9
  <2>2. /\ Len(nums) = n /\ DOMAIN nums = 1 .. n
        /\ \A k \in 1 .. n : nums[k] \in Int
    BY <2>1, NumbersAre
  <2>3. n \in Nat \ {0}
    BY <2>1, RequestIs
  <2> HIDE DEF n, nums
  <2>4. /\ stats.sum = Sched!Sums(nums, n)[n]
        /\ \A k \in 1 .. n : stats.min <= nums[k] /\ nums[k] <= stats.max
        /\ \E k, l \in 1 .. n : stats.min = nums[k] /\ stats.max = nums[l]
    BY <2>1, <2>2, <2>3 DEF StatsOf
  <2>5. stats.max \in values /\ stats.min \in values
    BY <2>2, <2>4
  <2>6. stats.max \in Int /\ stats.min \in Int
    BY <2>2, <2>4
  <2>7. \A v \in values : v <= stats.max /\ v >= stats.min
    BY <2>2, <2>4, <2>6
  <2>8. stats.sum = Sched!Total(nums, Len(nums))
    BY <2>2, <2>4 DEF Sched!Total
  <2> QED BY <2>1, <2>2, <2>5, <2>7, <2>8 DEF nums
<1>11. stack' \in [1 .. MSG_SIZE -> Cells] /\ stats'.count \in Nat /\ token_amount' \in Nat
  BY <1>2 DEF AnswerInv
<1> QED BY <1>1, <1>6, <1>8, <1>10, <1>11 DEF AnswerInv, WordsCounted, WordByWord, InWords

LEMMA AnswerNext ==
  ASSUME AnswerInv, Sched!Next \/ UNCHANGED sched PROVE AnswerInv'
<1>1. CASE Sched!work
  BY <1>1, QuietInv, ReceiveInv, ParseInv, TokenInv, NoTokenInv DEF Sched!work
<1>2. CASE Sched!Start
  BY <1>2, StartInv
<1>3. CASE Sched!SignalInReceive
  BY <1>3, SignalInReceiveInv
<1>4. CASE \/ Sched!StartFails \/ Sched!Signal \/ Sched!SignalInSleep
           \/ \E s \in Sched!Services : Sched!Open(s) \/ Sched!Send(s)
           \/ UNCHANGED sched
  BY <1>4, QuietInv
<1> QED BY <1>1, <1>2, <1>3, <1>4 DEF Sched!Next

\* Of any requests, in a buffer of any size and over any remains of older ones, each
\* that ends in a newline is answered with the statistics of its own numbers.
THEOREM RequestsAnswered == Spec => []OwnNumbers
<1> DEFINE Inv == Checks(1) => AnswerInv
<1>1. Init => Inv
  BY AnswerInit DEF Init
<1>2. Inv /\ [Next]_allvars => Inv'
  BY StepOfOne, AnswerNext
<1>3. Inv => OwnNumbers
  BY DEF OwnNumbers, AnswerInv
<1> QED BY <1>1, <1>2, <1>3, PTL DEF Spec

---------------------------------------------------------------------------
(* The test of the free list, for blocks of any size and a pool of any     *)
(* number of them.                                                         *)

TestBuffers == 1 .. TestBlocks - 1

\* A pool in which these blocks are free.
PoolIs(pl, S) ==
  /\ pl \in AnyPool /\ pl.mapped
  /\ Listing(pl.free, TestBlocks - 1)
  /\ \A b \in TestBuffers : On(pl.free, b) <=> b \in S

LEMMA SameCalls ==
  \A pl, b :
    /\ FreeListTest!my_free(pl, b) = Bench!my_free(pl, b)
    /\ FreeListTest!my_malloc(pl, b) = Bench!my_malloc(pl, b)
    /\ FreeListTest!AfterMalloc(pl, b) = Bench!AfterMalloc(pl, b)
BY DEF FreeListTest!my_free, Bench!my_free, FreeListTest!Passed, Bench!Passed,
       FreeListTest!my_malloc, Bench!my_malloc, FreeListTest!AfterMalloc,
       Bench!AfterMalloc, FreeListTest!Available, Bench!Available, FreeListTest!NULL,
       Bench!NULL

\* The lowest free block is the one that is handed out.
LEMMA LowestTaken ==
  ASSUME NEW pl, NEW S \in SUBSET TestBuffers, PoolIs(pl, S), NEW m \in S,
         \A b \in S : m <= b
  PROVE  /\ FreeListTest!my_malloc(pl, TRUE) = m
         /\ PoolIs(FreeListTest!AfterMalloc(pl, TRUE), S \ {m})
<1>1. /\ pl \in AnyPool /\ pl.mapped /\ Listing(pl.free, TestBlocks - 1)
      /\ \A b \in TestBuffers : On(pl.free, b) <=> b \in S
      /\ TestBlocks - 1 \in Int
  BY TestAssumption DEF PoolIs
<1>2. PICK f : f = pl.free
  OBVIOUS
<1>3. f \in Seq(1 .. TestBlocks - 1) /\ Increasing(f)
  BY <1>1, <1>2 DEF Listing
<1>4. PICK k \in DOMAIN f : f[k] = m
  BY <1>1, <1>2 DEF On, TestBuffers
<1>5. DOMAIN f = 1 .. Len(f) /\ Len(f) \in Nat /\ 1 \in DOMAIN f /\ f # <<>>
  BY <1>3, <1>4
<1>6. f[1] \in TestBuffers /\ f[1] \in S
  <2>1. PICK n : n = 1 .. TestBlocks - 1
    OBVIOUS
  <2>2. f \in Seq(n)
    BY <1>3, <2>1
  <2>3. f[1] \in n
    BY <1>5, <2>2
  <2>4. f[1] \in TestBuffers
    BY <2>1, <2>3 DEF TestBuffers
  <2>5. On(f, f[1])
    BY <1>5 DEF On
  <2> QED BY <1>1, <1>2, <2>4, <2>5
<1>7. f[1] = m
  <2>1. CASE k = 1
    BY <1>4, <2>1
  <2>2. CASE k # 1
    <3>1. f[1] < f[k]
      BY <1>3, <1>4, <1>5, <2>2 DEF Increasing
    <3>2. m <= f[1] /\ m \in Int /\ f[1] \in Int
      BY <1>6 DEF TestBuffers
    <3> QED BY <1>4, <3>1, <3>2
  <2> QED BY <2>1, <2>2
<1>8. PICK q, b :
        /\ Takes(pl, b, q)
        /\ q \in AnyPool /\ q.mapped /\ b \in 1 .. TestBlocks - 1
        /\ Listing(q.free, TestBlocks - 1) /\ ~On(q.free, b)
        /\ \A c : On(pl.free, c) <=> c = b \/ On(q.free, c)
  BY <1>1, <1>2, <1>5, MallocTakes
<1>9. b = m
  <2>1. b = Head(f)
    BY <1>1, <1>2, <1>5, <1>8 DEF Takes, Bench!my_malloc, Bench!Available
  <2> QED BY <1>3, <1>5, <1>7, <2>1
<1>10. q = FreeListTest!AfterMalloc(pl, TRUE) /\ FreeListTest!my_malloc(pl, TRUE) = m
  BY <1>8, <1>9, SameCalls DEF Takes
<1>11. PoolIs(q, S \ {m})
  BY <1>1, <1>8, <1>9 DEF PoolIs, TestBuffers
<1> QED BY <1>10, <1>11

\* Without one, nothing is.
LEMMA NothingTaken ==
  ASSUME NEW pl, PoolIs(pl, {})
  PROVE  FreeListTest!my_malloc(pl, TRUE) = -1
<1>1. /\ pl.free \in Seq(1 .. TestBlocks - 1)
      /\ \A b \in TestBuffers : ~On(pl.free, b)
  BY DEF PoolIs, Listing
<1>2. ASSUME pl.free # <<>> PROVE FALSE
  <2>1. PICK f \in Seq(1 .. TestBlocks - 1) : f = pl.free
    BY <1>1
  <2>2. Len(f) \in Nat /\ Len(f) # 0 /\ DOMAIN f = 1 .. Len(f)
    BY <1>2, <2>1
  <2>3. 1 \in DOMAIN f
    BY <2>2
  <2>4. f[1] \in 1 .. TestBlocks - 1
    BY <2>1, <2>3, TestAssumption
  <2> QED BY <1>1, <2>1, <2>3, <2>4 DEF On, TestBuffers
<1> QED BY <1>2 DEF FreeListTest!my_malloc, FreeListTest!Available, FreeListTest!NULL

\* A block that is given back is free.
LEMMA BlockFreed ==
  ASSUME NEW pl, NEW S \in SUBSET TestBuffers, PoolIs(pl, S),
         NEW b \in TestBuffers, b \notin S
  PROVE  PoolIs(FreeListTest!my_free(pl, b), S \cup {b})
<1>1. /\ pl \in AnyPool /\ pl.mapped /\ Listing(pl.free, TestBlocks - 1)
      /\ ~On(pl.free, b) /\ b \in 1 .. TestBlocks - 1 /\ TestBlocks - 1 \in Int
  BY TestAssumption DEF PoolIs, TestBuffers
<1>2. PICK q : /\ q = Bench!my_free(pl, b)
               /\ q \in AnyPool /\ q.mapped /\ Listing(q.free, TestBlocks - 1)
               /\ \A c : On(q.free, c) <=> c = b \/ On(pl.free, c)
  BY <1>1, FreeInserts
<1>3. PoolIs(q, S \cup {b})
  BY <1>2 DEF PoolIs
<1> QED BY <1>2, <1>3, SameCalls

\* A pool begins with all blocks but the first.
LEMMA PoolBegins ==
  PoolIs(FreeListTest!my_allocator_init(FreeListTest!Unmapped, TestBlocks), TestBuffers)
<1>1. PICK n \in Nat : n = TestBlocks - 1
  BY TestAssumption
<1>2. PICK f : f = [k \in 1 .. n |-> k]
  OBVIOUS
<1>3. /\ f \in Seq(1 .. n) /\ f \in Seq(Nat) /\ DOMAIN f = 1 .. n
      /\ \A k \in 1 .. n : f[k] = k
  BY <1>2
<1>4. Listing(f, n) /\ \A b \in 1 .. n : On(f, b)
  BY <1>3 DEF Listing, Increasing, On
<1>5. PICK q : q = [mapped |-> TRUE, free |-> f]
  OBVIOUS
<1>6. q \in AnyPool /\ q.mapped /\ q.free = f
  BY <1>3, <1>5 DEF AnyPool
<1>7. q = FreeListTest!my_allocator_init(FreeListTest!Unmapped, TestBlocks)
  BY <1>1, <1>2, <1>5, TestAssumption
     DEF FreeListTest!my_allocator_init, FreeListTest!Unmapped
<1>8. PoolIs(q, TestBuffers)
  BY <1>1, <1>4, <1>6 DEF PoolIs, TestBuffers
<1> QED BY <1>7, <1>8

\* The same for the calls of the test, which ask for a size.
LEMMA BlockTaken ==
  ASSUME NEW pl, NEW S \in SUBSET TestBuffers, PoolIs(pl, S), NEW m \in S,
         \A b \in S : m <= b,
         NEW s, s <= BLOCK_SIZE
  PROVE  /\ FreeListTest!Malloc(pl, s) = m
         /\ PoolIs(FreeListTest!After(pl, s), S \ {m})
<1>1. (s <= BLOCK_SIZE) = TRUE
  OBVIOUS
<1>2. /\ FreeListTest!Malloc(pl, s) = FreeListTest!my_malloc(pl, TRUE)
      /\ FreeListTest!After(pl, s) = FreeListTest!AfterMalloc(pl, TRUE)
  BY <1>1 DEF FreeListTest!Malloc, FreeListTest!After
<1> QED BY <1>2, LowestTaken

LEMMA NoBlockTaken ==
  ASSUME NEW pl, NEW s, ~(s <= BLOCK_SIZE) \/ PoolIs(pl, {})
  PROVE  FreeListTest!Malloc(pl, s) = -1
<1>1. CASE ~(s <= BLOCK_SIZE)
  <2>1. ~FreeListTest!Available(pl, s <= BLOCK_SIZE)
    BY <1>1 DEF FreeListTest!Available
  <2> QED BY <2>1 DEF FreeListTest!Malloc, FreeListTest!my_malloc, FreeListTest!NULL
<1>2. CASE s <= BLOCK_SIZE /\ PoolIs(pl, {})
  <2>1. (s <= BLOCK_SIZE) = TRUE
    BY <1>2
  <2>2. FreeListTest!Malloc(pl, s) = FreeListTest!my_malloc(pl, TRUE)
    BY <2>1 DEF FreeListTest!Malloc
  <2> QED BY <1>2, <2>2, NothingTaken
<1> QED BY <1>1, <1>2

LoopNames == {"allocate", "compare", "verify", "free_two", "replace_two",
              "free_three", "replace_three"}

InTwos == testing \in {"free_two", "replace_two"}
InThrees == testing \in {"free_three", "replace_three"}

\* The blocks that are free, in each part of the test.
IsFree(b) ==
  \/ testing = "search"
  \/ testing = "reuse" /\ b > 2
  \/ testing = "count" /\ b > num_blocks
  \/ testing = "allocate" /\ b > block
  \/ testing = "free_two" /\ b % 2 = 1 /\ b <= block
  \/ testing = "replace_two" /\ b % 2 = 1 /\ b > block
  \/ testing = "free_three" /\ b % 3 = 2 /\ b <= block
  \/ testing = "replace_three" /\ b % 3 = 2 /\ b > block

FreeOnes == {b \in TestBuffers : IsFree(b)}

\* They are the ones on the list.
TestedIs ==
  IF testing \in {"none", "done"} THEN tested = FreeListTest!Unmapped
  ELSE PoolIs(tested, FreeOnes)

\* The counter of the loops, and what it goes through.
BlockIs ==
  /\ testing = "count" => block = num_blocks
  /\ testing \in LoopNames => block \in 0 .. num_blocks + 2
  /\ testing = "allocate" => block <= num_blocks
  /\ testing = "compare" => block >= 1
  /\ InTwos => block % 2 = 0
  /\ InThrees => block % 3 = 1

\* The k-th call of a loop is given block k, and when it is freed and allocated
\* again it is the same.
AllocationsAre ==
  /\ testing \in {"reuse", "count"} => allocations = <<1, 2>>
  /\ testing = "count" => num_blocks \in 3 .. TestBlocks - 1
  /\ testing \in LoopNames \cup {"done"} =>
       /\ num_blocks = TestBlocks - 1
       /\ allocations \in [0 .. num_blocks - 1 -> Int]
       /\ \A k \in 0 .. num_blocks - 1 :
            (testing = "allocate" => k < block) => allocations[k] = k + 1

\* The blocks that are compared have been written, the others not.
ContentsAre ==
  /\ contents \in [0 .. TestBlocks - 1 -> Nat]
  /\ testing \in {"none", "search", "reuse", "count", "allocate", "compare", "verify"} =>
       \A b \in TestBuffers :
         contents[b] = IF testing = "verify" \/ (testing = "compare" /\ b <= block)
                       THEN (b - 1) % 255 ELSE 0

\* The search never excludes the size of a block.
BoundsAre ==
  /\ lower_bound \in 0 .. SIZE_MAX /\ upper_bound \in 0 .. SIZE_MAX
  /\ lower_bound <= BLOCK_SIZE /\ BLOCK_SIZE <= upper_bound
  /\ testing \notin {"none", "search"} => lower_bound = BLOCK_SIZE

FreeListTestInv ==
  /\ testing \in {"none", "search", "reuse", "count", "done"} \cup LoopNames
  /\ num_blocks \in 0 .. TestBlocks
  /\ failed = {}
  /\ TestedIs /\ BlockIs /\ AllocationsAre /\ ContentsAre /\ BoundsAre

\* Row k of the table of loops.
Row(k, name, first, step) ==
  /\ FreeListTest!Loops[k].name = name
  /\ FreeListTest!Loops[k].first = first
  /\ FreeListTest!Loops[k].step = step

LEMMA LoopsAre ==
  /\ DOMAIN FreeListTest!Loops = 1 .. 7 /\ Len(FreeListTest!Loops) = 7
  /\ Row(1, "allocate", 0, 1)
  /\ Row(2, "compare", 1, 1)
  /\ Row(3, "verify", 0, 1)
  /\ Row(4, "free_two", 0, 2)
  /\ Row(5, "replace_two", 0, 2)
  /\ Row(6, "free_three", 1, 3)
  /\ Row(7, "replace_three", 1, 3)
<1>1. DOMAIN FreeListTest!Loops = 1 .. 7 /\ Len(FreeListTest!Loops) = 7
  BY DEF FreeListTest!Loops
<1>2. Row(1, "allocate", 0, 1)
  BY DEF FreeListTest!Loops, Row
<1>3. Row(2, "compare", 1, 1)
  BY DEF FreeListTest!Loops, Row
<1>4. Row(3, "verify", 0, 1)
  BY DEF FreeListTest!Loops, Row
<1>5. Row(4, "free_two", 0, 2)
  BY DEF FreeListTest!Loops, Row
<1>6. Row(5, "replace_two", 0, 2)
  BY DEF FreeListTest!Loops, Row
<1>7. Row(6, "free_three", 1, 3)
  BY DEF FreeListTest!Loops, Row
<1>8. Row(7, "replace_three", 1, 3)
  BY DEF FreeListTest!Loops, Row
<1> QED BY <1>1, <1>2, <1>3, <1>4, <1>5, <1>6, <1>7, <1>8

LEMMA LoopNamesAre ==
  {FreeListTest!Loops[k].name : k \in DOMAIN FreeListTest!Loops} = LoopNames
<1>1. ASSUME NEW k \in 1 .. 7 PROVE FreeListTest!Loops[k].name \in LoopNames
  <2>1. k \in {1, 2, 3, 4, 5, 6, 7}
    OBVIOUS
  <2> QED BY <2>1, LoopsAre DEF LoopNames, Row
<1>2. ASSUME NEW n \in LoopNames PROVE \E k \in 1 .. 7 : FreeListTest!Loops[k].name = n
  <2>1. 1 \in 1 .. 7 /\ 2 \in 1 .. 7 /\ 3 \in 1 .. 7 /\ 4 \in 1 .. 7 /\ 5 \in 1 .. 7
        /\ 6 \in 1 .. 7 /\ 7 \in 1 .. 7
    OBVIOUS
  <2> QED BY <2>1, LoopsAre DEF LoopNames, Row
<1> QED BY <1>1, <1>2, LoopsAre

\* A turn of a loop.
Stride == IF InTwos THEN 2 ELSE IF InThrees THEN 3 ELSE 1

LEMMA TurnIs ==
  ASSUME NEW names, FreeListTest!Turn(names)
  PROVE  /\ testing \in names /\ testing \in LoopNames /\ block < num_blocks
         /\ block' = block + Stride
         /\ UNCHANGED <<testing, lower_bound, upper_bound, num_blocks>>
<1>1. PICK k \in 1 .. 7 :
        /\ testing \in names /\ testing = FreeListTest!Loops[k].name
        /\ block < num_blocks
        /\ block' = block + FreeListTest!Loops[k].step
        /\ UNCHANGED <<testing, lower_bound, upper_bound, num_blocks>>
  BY LoopsAre DEF FreeListTest!Turn
<1>2. k \in {1, 2, 3, 4, 5, 6, 7}
  OBVIOUS
<1>3. testing \in LoopNames /\ Stride = FreeListTest!Loops[k].step
  BY <1>1, <1>2, LoopsAre DEF Row, LoopNames, Stride, InTwos, InThrees
<1> QED BY <1>1, <1>3

\* The end of a loop is the beginning of the next.
LoopFollows(from, to, first) == testing = from /\ testing' = to /\ block' = first

LEMMA LoopEndsAre ==
  ASSUME FreeListTest!LoopEnds
  PROVE  /\ block >= num_blocks /\ testing \in LoopNames
         /\ UNCHANGED <<lower_bound, upper_bound, num_blocks, allocations, contents,
                        failed>>
         /\ \/ UNCHANGED tested /\ \/ LoopFollows("allocate", "compare", 1)
                                   \/ LoopFollows("compare", "verify", 0)
                                   \/ LoopFollows("verify", "free_two", 0)
                                   \/ LoopFollows("free_two", "replace_two", 0)
                                   \/ LoopFollows("replace_two", "free_three", 1)
                                   \/ LoopFollows("free_three", "replace_three", 1)
            \/ /\ LoopFollows("replace_three", "done", block)
               /\ tested' = FreeListTest!Unmapped
<1>1. /\ block >= num_blocks
      /\ UNCHANGED <<lower_bound, upper_bound, num_blocks, allocations, contents, failed>>
  BY DEF FreeListTest!LoopEnds
<1>2. PICK k \in 1 .. 7 :
        /\ testing = FreeListTest!Loops[k].name
        /\ IF k = 7
           THEN /\ testing' = "done"
                /\ tested' = FreeListTest!my_allocator_destroy(tested)
                /\ UNCHANGED block
           ELSE /\ testing' = FreeListTest!Loops[k + 1].name
                /\ block' = FreeListTest!Loops[k + 1].first
                /\ UNCHANGED tested
  BY LoopsAre DEF FreeListTest!LoopEnds
<1>3. CASE k = 7
  <2>1. testing = "replace_three" /\ testing' = "done" /\ block' = block
        /\ tested' = FreeListTest!Unmapped
    BY <1>2, <1>3, LoopsAre DEF Row, FreeListTest!my_allocator_destroy
  <2> QED BY <1>1, <2>1 DEF LoopFollows, LoopNames
<1>4. CASE k # 7
  <2>1. k \in {1, 2, 3, 4, 5, 6}
    BY <1>4
  <2>2. /\ testing' = FreeListTest!Loops[k + 1].name
        /\ block' = FreeListTest!Loops[k + 1].first
        /\ UNCHANGED tested
    BY <1>2, <1>4
  <2>3. ASSUME k = 1 PROVE LoopFollows("allocate", "compare", 1)
    <3>1. k + 1 = 2
      BY <2>3
    <3> QED BY <1>2, <2>2, <2>3, <3>1, LoopsAre DEF Row, LoopFollows
  <2>4. ASSUME k = 2 PROVE LoopFollows("compare", "verify", 0)
    <3>1. k + 1 = 3
      BY <2>4
    <3> QED BY <1>2, <2>2, <2>4, <3>1, LoopsAre DEF Row, LoopFollows
  <2>5. ASSUME k = 3 PROVE LoopFollows("verify", "free_two", 0)
    <3>1. k + 1 = 4
      BY <2>5
    <3> QED BY <1>2, <2>2, <2>5, <3>1, LoopsAre DEF Row, LoopFollows
  <2>6. ASSUME k = 4 PROVE LoopFollows("free_two", "replace_two", 0)
    <3>1. k + 1 = 5
      BY <2>6
    <3> QED BY <1>2, <2>2, <2>6, <3>1, LoopsAre DEF Row, LoopFollows
  <2>7. ASSUME k = 5 PROVE LoopFollows("replace_two", "free_three", 1)
    <3>1. k + 1 = 6
      BY <2>7
    <3> QED BY <1>2, <2>2, <2>7, <3>1, LoopsAre DEF Row, LoopFollows
  <2>8. ASSUME k = 6 PROVE LoopFollows("free_three", "replace_three", 1)
    <3>1. k + 1 = 7
      BY <2>8
    <3> QED BY <1>2, <2>2, <2>8, <3>1, LoopsAre DEF Row, LoopFollows
  <2>9. testing \in LoopNames
    BY <2>1, <2>3, <2>4, <2>5, <2>6, <2>7, <2>8 DEF LoopFollows, LoopNames
  <2> QED BY <1>1, <2>1, <2>2, <2>3, <2>4, <2>5, <2>6, <2>7, <2>8, <2>9
<1> QED BY <1>3, <1>4

LEMMA FreeListTestTypes ==
  ASSUME FreeListTestInv
  PROVE  FreeListTest!TypeOK
BY LoopNamesAre DEF FreeListTestInv, BoundsAre, FreeListTest!TypeOK

LEMMA FreeListTestInit == FreeListTest!Init => FreeListTestInv
<1> SUFFICES ASSUME FreeListTest!Init PROVE FreeListTestInv
  OBVIOUS
<1>1. /\ testing = "none" /\ num_blocks = 0 /\ failed = {} /\ lower_bound = 0
      /\ upper_bound = SIZE_MAX /\ tested = FreeListTest!Unmapped
      /\ contents = [b \in 0 .. TestBlocks - 1 |-> 0]
  BY DEF FreeListTest!Init
<1>2. TestedIs /\ BlockIs /\ AllocationsAre /\ BoundsAre
  BY <1>1, TestAssumption
     DEF TestedIs, BlockIs, AllocationsAre, BoundsAre, InTwos, InThrees, LoopNames
<1>3. ContentsAre
  BY <1>1, TestAssumption DEF ContentsAre, TestBuffers
<1> QED BY <1>1, <1>2, <1>3, TestAssumption DEF FreeListTestInv

\* What only the search and the loops change.
LEMMA StartTest ==
  ASSUME FreeListTestInv, FreeListTest!Start
  PROVE  FreeListTestInv'
<1>1. /\ testing = "none" /\ testing' = "search"
      /\ tested' = FreeListTest!my_allocator_init(tested, TestBlocks)
      /\ UNCHANGED <<lower_bound, upper_bound, num_blocks, block, allocations, contents,
                     failed>>
  BY DEF FreeListTest!Start, FreeListTest!Goto
<1>2. tested = FreeListTest!Unmapped
  BY <1>1 DEF FreeListTestInv, TestedIs
<1>3. FreeOnes' = TestBuffers
  BY <1>1 DEF FreeOnes, IsFree, TestBuffers
<1>4. TestedIs'
  BY <1>1, <1>2, <1>3, PoolBegins DEF TestedIs, PoolIs, TestBuffers
<1>5. BlockIs' /\ AllocationsAre'
  BY <1>1 DEF BlockIs, AllocationsAre, InTwos, InThrees, LoopNames
<1>6. ContentsAre' /\ BoundsAre'
  BY <1>1 DEF FreeListTestInv, ContentsAre, BoundsAre, TestBuffers
<1> QED BY <1>1, <1>4, <1>5, <1>6 DEF FreeListTestInv

\* The lowest block is there for the asking, if no more than a block is asked for.
LEMMA SearchFinds ==
  ASSUME NEW s \in Int, PoolIs(tested, TestBuffers)
  PROVE  IF s <= BLOCK_SIZE
         THEN /\ FreeListTest!Malloc(tested, s) = 1
              /\ PoolIs(FreeListTest!After(tested, s), TestBuffers \ {1})
         ELSE FreeListTest!Malloc(tested, s) = -1
<1>1. CASE s <= BLOCK_SIZE
  <2>1. 1 \in TestBuffers /\ \A b \in TestBuffers : 1 <= b
    BY TestAssumption DEF TestBuffers
  <2> QED BY <1>1, <2>1, BlockTaken
<1>2. CASE ~(s <= BLOCK_SIZE)
  BY <1>2, NoBlockTaken
<1> QED BY <1>1, <1>2

LEMMA SearchStep ==
  ASSUME FreeListTestInv, FreeListTest!find_maximum_block_size
  PROVE  FreeListTestInv'
<1>1. PICK mid : mid = lower_bound + (upper_bound - lower_bound) \div 2 + 1
  OBVIOUS
<1>2. PICK p : p = FreeListTest!Malloc(tested, mid)
  OBVIOUS
<1>3. /\ testing = "search" /\ lower_bound < upper_bound
      /\ lower_bound' = IF p = -1 THEN lower_bound ELSE mid
      /\ upper_bound' = IF p = -1 THEN mid - 1 ELSE upper_bound
      /\ tested' = IF p = -1 THEN tested
                   ELSE FreeListTest!my_free(FreeListTest!After(tested, mid), p)
      /\ UNCHANGED <<testing, num_blocks, block, allocations, contents, failed>>
  BY <1>1, <1>2 DEF FreeListTest!find_maximum_block_size, FreeListTest!NULL
<1>4. /\ lower_bound \in 0 .. SIZE_MAX /\ upper_bound \in 0 .. SIZE_MAX
      /\ lower_bound <= BLOCK_SIZE /\ BLOCK_SIZE <= upper_bound
      /\ BLOCK_SIZE \in Nat /\ SIZE_MAX \in Nat
  BY TestAssumption DEF FreeListTestInv, BoundsAre
<1>5. mid \in Int /\ lower_bound < mid /\ mid <= upper_bound
  BY <1>1, <1>3, <1>4
<1>6. FreeOnes = TestBuffers /\ FreeOnes' = TestBuffers
  BY <1>3 DEF FreeOnes, IsFree, TestBuffers
<1>7. PoolIs(tested, TestBuffers)
  BY <1>3, <1>6 DEF FreeListTestInv, TestedIs
<1>8. IF mid <= BLOCK_SIZE
      THEN p = 1 /\ PoolIs(FreeListTest!After(tested, mid), TestBuffers \ {1})
      ELSE p = -1
  BY <1>2, <1>5, <1>7, SearchFinds
<1>9. PoolIs(tested', TestBuffers)
  <2>1. CASE mid <= BLOCK_SIZE
    <3>1. 1 \in TestBuffers /\ (TestBuffers \ {1}) \cup {1} = TestBuffers
      BY TestAssumption DEF TestBuffers
    <3>2. PoolIs(FreeListTest!my_free(FreeListTest!After(tested, mid), 1), TestBuffers)
      BY <1>8, <2>1, <3>1, BlockFreed
    <3> QED BY <1>3, <1>8, <2>1, <3>2
  <2>2. CASE ~(mid <= BLOCK_SIZE)
    BY <1>3, <1>7, <1>8, <2>2
  <2> QED BY <2>1, <2>2
<1>10. TestedIs'
  BY <1>3, <1>6, <1>9 DEF TestedIs, PoolIs, TestBuffers
<1>11. BlockIs' /\ AllocationsAre'
  BY <1>3 DEF BlockIs, AllocationsAre, InTwos, InThrees, LoopNames
<1>12. ContentsAre'
  BY <1>3 DEF FreeListTestInv, ContentsAre, TestBuffers
<1>13. BoundsAre'
  BY <1>3, <1>4, <1>5, <1>8 DEF BoundsAre
<1> QED BY <1>3, <1>10, <1>11, <1>12, <1>13 DEF FreeListTestInv

\* More than the pool is too much.
LEMMA PoolIsTooLarge == ~(TestBlocks * (BLOCK_SIZE + 1) <= BLOCK_SIZE)
<1>1. PICK n \in Nat : n = TestBlocks - 1
  BY TestAssumption
<1>2. BLOCK_SIZE \in Nat /\ TestBlocks = n + 1
  BY <1>1, TestAssumption
<1>3. n * (BLOCK_SIZE + 1) \in Nat
  BY <1>2
<1>4. (n + 1) * (BLOCK_SIZE + 1) = n * (BLOCK_SIZE + 1) + (BLOCK_SIZE + 1)
  BY <1>2
<1> QED BY <1>2, <1>3, <1>4

LEMMA FirstPointersStep ==
  ASSUME FreeListTestInv, FreeListTest!FirstPointers
  PROVE  FreeListTestInv'
<1> DEFINE one == FreeListTest!After(tested, 1)
<1>1. /\ lower_bound = upper_bound /\ testing = "search" /\ testing' = "reuse"
      /\ allocations' = <<FreeListTest!Malloc(tested, 1), FreeListTest!Malloc(one, 1)>>
      /\ tested' = FreeListTest!After(one, 1)
      /\ FreeListTest!Assert(42,
           FreeListTest!Malloc(tested, TestBlocks * (BLOCK_SIZE + 1)) = -1
             /\ FreeListTest!Malloc(tested, 1) # -1)
      /\ UNCHANGED <<lower_bound, upper_bound, num_blocks, block, contents>>
  BY DEF FreeListTest!FirstPointers, FreeListTest!Goto, FreeListTest!NULL
<1>2. 1 <= BLOCK_SIZE /\ BLOCK_SIZE \in Nat /\ TestBlocks \in Nat /\ TestBlocks >= 5
  BY TestAssumption
<1>3. PoolIs(tested, TestBuffers)
  <2>1. FreeOnes = TestBuffers
    BY <1>1 DEF FreeOnes, IsFree, TestBuffers
  <2> QED BY <1>1, <2>1 DEF FreeListTestInv, TestedIs
<1>4. FreeListTest!Malloc(tested, 1) = 1 /\ PoolIs(one, TestBuffers \ {1})
  BY <1>2, <1>3, SearchFinds
<1>5. FreeListTest!Malloc(tested, TestBlocks * (BLOCK_SIZE + 1)) = -1
  BY PoolIsTooLarge, NoBlockTaken
<1>6. /\ FreeListTest!Malloc(one, 1) = 2
      /\ PoolIs(FreeListTest!After(one, 1), (TestBuffers \ {1}) \ {2})
  <2>1. /\ TestBuffers \ {1} \in SUBSET TestBuffers /\ 2 \in TestBuffers \ {1}
        /\ \A b \in TestBuffers \ {1} : 2 <= b
    BY <1>2 DEF TestBuffers
  <2> HIDE DEF one
  <2> QED BY <1>2, <1>4, <2>1, BlockTaken
<1>7. FreeOnes' = (TestBuffers \ {1}) \ {2}
  BY <1>1, <1>2 DEF FreeOnes, IsFree, TestBuffers
<1> HIDE DEF one
<1>8. TestedIs'
  BY <1>1, <1>6, <1>7 DEF TestedIs, PoolIs, TestBuffers
<1>9. BlockIs' /\ AllocationsAre'
  BY <1>1, <1>4, <1>6 DEF BlockIs, AllocationsAre, InTwos, InThrees, LoopNames
<1>10. ContentsAre' /\ BoundsAre'
  BY <1>1, <1>2 DEF FreeListTestInv, ContentsAre, BoundsAre, TestBuffers
<1>11. failed' = {}
  BY <1>1, <1>4, <1>5 DEF FreeListTestInv, FreeListTest!Assert
<1> QED BY <1>1, <1>8, <1>9, <1>10, <1>11 DEF FreeListTestInv

LEMMA ReuseStep ==
  ASSUME FreeListTestInv, FreeListTest!Reuse
  PROVE  FreeListTestInv'
<1>0. allocations = <<1, 2>>
  BY DEF FreeListTest!Reuse, FreeListTest!Goto, FreeListTestInv, AllocationsAre
<1>1. PICK freed : freed = FreeListTest!my_free(tested, 1)
  OBVIOUS
<1>2. PICK third : third = FreeListTest!After(freed, BLOCK_SIZE)
  OBVIOUS
<1>3. testing = "reuse" /\ testing' = "count" /\ lower_bound = BLOCK_SIZE
  BY DEF FreeListTest!Reuse, FreeListTest!Goto, FreeListTestInv, BoundsAre
<1>4. /\ FreeListTest!Assert(61, FreeListTest!Malloc(freed, BLOCK_SIZE) = allocations[1]
                                /\ FreeListTest!Malloc(third, BLOCK_SIZE) > allocations[2])
      /\ tested' = FreeListTest!After(third, BLOCK_SIZE)
      /\ block' = FreeListTest!Malloc(third, BLOCK_SIZE)
      /\ num_blocks' = 3
      /\ UNCHANGED <<lower_bound, upper_bound, allocations, contents>>
  BY <1>0, <1>1, <1>2, <1>3 DEF FreeListTest!Reuse, FreeListTest!block_size
<1>5. BLOCK_SIZE \in Nat /\ BLOCK_SIZE <= BLOCK_SIZE
      /\ TestBlocks \in Nat /\ TestBlocks >= 5
  BY TestAssumption
<1> DEFINE Above(n) == {b \in TestBuffers : b > n}
<1>6. FreeOnes = Above(2) /\ FreeOnes' = Above(3)
  BY <1>3, <1>4 DEF FreeOnes, IsFree, TestBuffers
<1>7. PoolIs(tested, Above(2))
  BY <1>3, <1>6 DEF FreeListTestInv, TestedIs
<1>8. PoolIs(freed, Above(2) \cup {1})
  <2>1. Above(2) \in SUBSET TestBuffers /\ 1 \in TestBuffers /\ 1 \notin Above(2)
    BY <1>5 DEF TestBuffers
  <2> HIDE DEF Above
  <2> QED BY <1>1, <1>7, <2>1, BlockFreed
<1>9. FreeListTest!Malloc(freed, BLOCK_SIZE) = 1 /\ PoolIs(third, Above(2))
  <2>1. /\ Above(2) \cup {1} \in SUBSET TestBuffers /\ 1 \in Above(2) \cup {1}
        /\ \A b \in Above(2) \cup {1} : 1 <= b
        /\ (Above(2) \cup {1}) \ {1} = Above(2)
    BY <1>5 DEF TestBuffers
  <2> HIDE DEF Above
  <2> QED BY <1>2, <1>5, <1>8, <2>1, BlockTaken
<1>10. FreeListTest!Malloc(third, BLOCK_SIZE) = 3 /\ PoolIs(tested', Above(3))
  <2>1. /\ Above(2) \in SUBSET TestBuffers /\ 3 \in Above(2)
        /\ \A b \in Above(2) : 3 <= b
        /\ Above(2) \ {3} = Above(3)
    BY <1>5 DEF TestBuffers
  <2> HIDE DEF Above
  <2> QED BY <1>4, <1>5, <1>9, <2>1, BlockTaken
<1> HIDE DEF Above
<1>11. TestedIs'
  BY <1>3, <1>6, <1>10 DEF TestedIs, PoolIs, TestBuffers
<1>12. BlockIs' /\ AllocationsAre'
  BY <1>0, <1>3, <1>4, <1>5, <1>10 DEF BlockIs, AllocationsAre, InTwos, InThrees, LoopNames
<1>13. ContentsAre' /\ BoundsAre'
  BY <1>3, <1>4 DEF FreeListTestInv, ContentsAre, BoundsAre, TestBuffers
<1>14. failed' = {}
  BY <1>0, <1>4, <1>9, <1>10 DEF FreeListTestInv, FreeListTest!Assert
<1> QED BY <1>3, <1>4, <1>5, <1>11, <1>12, <1>13, <1>14 DEF FreeListTestInv

\* Every second, and every third number.
LEMMA EveryOther ==
  ASSUME NEW x \in Nat, x % 2 = 0
  PROVE  /\ (x + 1) % 2 = 1 /\ (x + 2) % 2 = 0
         /\ \A b \in Nat : b % 2 = 1 => b # x + 2
OBVIOUS

LEMMA EveryThird ==
  ASSUME NEW x \in Nat, x % 3 = 1
  PROVE  /\ (x + 1) % 3 = 2 /\ (x + 3) % 3 = 1
         /\ \A b \in Nat : b % 3 = 2 => b # x + 2 /\ b # x + 3
OBVIOUS

LEMMA CountStep ==
  ASSUME FreeListTestInv, FreeListTest!Count
  PROVE  FreeListTestInv'
<1>1. /\ testing = "count" /\ FreeListTest!Malloc(tested, 1) # -1
      /\ block' = FreeListTest!Malloc(tested, 1)
      /\ tested' = FreeListTest!After(tested, 1)
      /\ num_blocks' = num_blocks + 1
      /\ UNCHANGED <<testing, lower_bound, upper_bound, allocations, contents, failed>>
  BY DEF FreeListTest!Count, FreeListTest!NULL
<1>2. /\ num_blocks \in 3 .. TestBlocks - 1 /\ allocations = <<1, 2>>
      /\ PoolIs(tested, FreeOnes) /\ TestBlocks \in Nat /\ 1 <= BLOCK_SIZE
  BY <1>1, TestAssumption DEF FreeListTestInv, AllocationsAre, TestedIs
<1>3. FreeOnes = {b \in TestBuffers : b > num_blocks}
  BY <1>1 DEF FreeOnes, IsFree
<1>4. FreeOnes # {}
  BY <1>1, <1>2, NoBlockTaken
<1>5. num_blocks < TestBlocks - 1
  BY <1>2, <1>3, <1>4 DEF TestBuffers
<1>6. /\ num_blocks + 1 \in FreeOnes /\ FreeOnes \in SUBSET TestBuffers
      /\ \A b \in FreeOnes : num_blocks + 1 <= b
  BY <1>2, <1>3, <1>5 DEF TestBuffers
<1>7. block' = num_blocks + 1 /\ PoolIs(tested', FreeOnes \ {num_blocks + 1})
  BY <1>1, <1>2, <1>6, BlockTaken
<1>8. FreeOnes' = FreeOnes \ {num_blocks + 1}
  BY <1>1, <1>2, <1>3 DEF FreeOnes, IsFree, TestBuffers
<1>9. TestedIs'
  BY <1>1, <1>7, <1>8 DEF TestedIs, PoolIs, TestBuffers
<1>10. BlockIs' /\ AllocationsAre'
  BY <1>1, <1>2, <1>5, <1>7 DEF BlockIs, AllocationsAre, InTwos, InThrees, LoopNames
<1>11. ContentsAre' /\ BoundsAre'
  BY <1>1 DEF FreeListTestInv, ContentsAre, BoundsAre, TestBuffers
<1>12. num_blocks' \in 0 .. TestBlocks
  BY <1>1, <1>2
<1> QED BY <1>1, <1>9, <1>10, <1>11, <1>12 DEF FreeListTestInv

LEMMA LimitsStep ==
  ASSUME FreeListTestInv, FreeListTest!Limits
  PROVE  FreeListTestInv'
<1>1. /\ testing = "count" /\ testing' = "allocate"
      /\ FreeListTest!Malloc(tested, 1) = -1
      /\ FreeListTest!Assert(80, block + 1 - allocations[1] <= TestBlocks)
      /\ tested' = FreeListTest!my_allocator_init(FreeListTest!Unmapped, TestBlocks)
      /\ allocations' = [k \in 0 .. num_blocks - 1 |-> -1]
      /\ block' = 0
      /\ UNCHANGED <<lower_bound, upper_bound, num_blocks, contents>>
  BY DEF FreeListTest!Limits, FreeListTest!Goto, FreeListTest!NULL,
         FreeListTest!my_allocator_destroy
<1>2. /\ num_blocks \in 3 .. TestBlocks - 1 /\ allocations = <<1, 2>>
      /\ block = num_blocks
      /\ PoolIs(tested, FreeOnes) /\ TestBlocks \in Nat /\ 1 <= BLOCK_SIZE
  BY <1>1, TestAssumption DEF FreeListTestInv, AllocationsAre, TestedIs, BlockIs
<1>3. FreeOnes = {b \in TestBuffers : b > num_blocks}
  BY <1>1 DEF FreeOnes, IsFree
<1>4. num_blocks = TestBlocks - 1
  <2> SUFFICES ASSUME num_blocks < TestBlocks - 1 PROVE FALSE
    BY <1>2
  <2>1. /\ num_blocks + 1 \in FreeOnes /\ FreeOnes \in SUBSET TestBuffers
        /\ \A b \in FreeOnes : num_blocks + 1 <= b
    BY <1>2, <1>3 DEF TestBuffers
  <2>2. FreeListTest!Malloc(tested, 1) = num_blocks + 1
    BY <1>2, <2>1, BlockTaken
  <2> QED BY <1>1, <1>2, <2>2
<1>5. PoolIs(tested', TestBuffers)
  BY <1>1, PoolBegins
<1>6. FreeOnes' = TestBuffers
  BY <1>1 DEF FreeOnes, IsFree, TestBuffers
<1>7. TestedIs'
  BY <1>1, <1>5, <1>6 DEF TestedIs, PoolIs, TestBuffers
<1>8. BlockIs'
  BY <1>1, <1>2 DEF BlockIs, InTwos, InThrees, LoopNames
<1>9. AllocationsAre'
  BY <1>1, <1>2, <1>4 DEF AllocationsAre, LoopNames
<1>10. ContentsAre' /\ BoundsAre'
  BY <1>1 DEF FreeListTestInv, ContentsAre, BoundsAre, TestBuffers
<1>11. failed' = {}
  BY <1>1, <1>2 DEF FreeListTestInv, FreeListTest!Assert
<1> QED BY <1>1, <1>7, <1>8, <1>9, <1>10, <1>11 DEF FreeListTestInv, LoopNames

\* What a loop has to work with.
LEMMA InLoop ==
  ASSUME FreeListTestInv, testing \in LoopNames, block < num_blocks
  PROVE  /\ num_blocks = TestBlocks - 1 /\ TestBlocks \in Nat /\ TestBlocks >= 5
         /\ block \in 0 .. num_blocks - 1 /\ block + 1 \in TestBuffers
         /\ allocations \in [0 .. num_blocks - 1 -> Int]
         /\ PoolIs(tested, FreeOnes) /\ FreeOnes \in SUBSET TestBuffers
         /\ lower_bound = BLOCK_SIZE /\ BLOCK_SIZE \in Nat
<1>1. /\ num_blocks = TestBlocks - 1 /\ allocations \in [0 .. num_blocks - 1 -> Int]
      /\ block \in 0 .. num_blocks + 2
      /\ TestBlocks \in Nat /\ TestBlocks >= 5 /\ BLOCK_SIZE \in Nat
  BY TestAssumption DEF FreeListTestInv, AllocationsAre, BlockIs
<1>2. block \in 0 .. num_blocks - 1 /\ block + 1 \in TestBuffers
  BY <1>1 DEF TestBuffers
<1>3. PoolIs(tested, FreeOnes) /\ lower_bound = BLOCK_SIZE
  BY DEF FreeListTestInv, TestedIs, BoundsAre, LoopNames
<1> QED BY <1>1, <1>2, <1>3 DEF FreeOnes

\* The counter goes on.
LEMMA BlockGoesOn ==
  ASSUME FreeListTestInv, testing \in LoopNames, block < num_blocks,
         block' = block + Stride, UNCHANGED <<testing, num_blocks>>
  PROVE  BlockIs'
<1>1. num_blocks \in Nat /\ block \in Nat /\ block < num_blocks
  <2>1. /\ num_blocks = TestBlocks - 1 /\ TestBlocks \in Nat /\ TestBlocks >= 5
        /\ block \in 0 .. num_blocks - 1
    BY InLoop
  <2> QED BY <2>1
<1>2. BlockIs
  BY DEF FreeListTestInv
<1>3. CASE InTwos
  <2>1. block' = block + 2 /\ block % 2 = 0 /\ testing \in {"free_two", "replace_two"}
    BY <1>2, <1>3 DEF Stride, BlockIs, InTwos
  <2>2. block' % 2 = 0
    BY <1>1, <2>1, EveryOther
  <2>3. block' \in 0 .. num_blocks' + 2
    <3>1. num_blocks' = num_blocks /\ block' \in Nat
      BY <1>1, <2>1
    <3> QED BY <1>1, <2>1, <3>1
  <2> QED BY <2>1, <2>2, <2>3 DEF BlockIs, InTwos, InThrees, LoopNames
<1>4. CASE InThrees
  <2>1. /\ block' = block + 3 /\ block % 3 = 1
        /\ testing \in {"free_three", "replace_three"}
    BY <1>2, <1>4 DEF Stride, BlockIs, InTwos, InThrees
  <2>2. block' % 3 = 1
    BY <1>1, <2>1, EveryThird
  <2>3. block' \in 0 .. num_blocks' + 2
    <3>1. num_blocks' = num_blocks /\ block' \in Nat
      BY <1>1, <2>1
    <3> QED BY <1>1, <2>1, <3>1
  <2> QED BY <2>1, <2>2, <2>3 DEF BlockIs, InTwos, InThrees, LoopNames
<1>5. CASE ~InTwos /\ ~InThrees
  <2>1. /\ block' = block + 1 /\ testing \in {"allocate", "compare", "verify"}
        /\ (testing = "compare" => block >= 1)
    BY <1>2, <1>5 DEF Stride, InTwos, InThrees, LoopNames, BlockIs
  <2>2. block' \in 0 .. num_blocks' + 2 /\ block' <= num_blocks' /\ block' >= 1
    BY <1>1, <2>1
  <2> QED BY <2>1, <2>2 DEF BlockIs, InTwos, InThrees, LoopNames
<1> QED BY <1>3, <1>4, <1>5

\* The lowest free block is the next of the loop, and after the turn it is not
\* free.
LEMMA NextOfLoop ==
  ASSUME FreeListTestInv, block < num_blocks,
         testing \in {"allocate", "replace_two", "replace_three"},
         block' = block + Stride, UNCHANGED <<testing, num_blocks>>
  PROVE  /\ block + 1 \in FreeOnes /\ \A b \in FreeOnes : block + 1 <= b
         /\ FreeOnes' = FreeOnes \ {block + 1}
<1>0. testing \in LoopNames
  BY DEF LoopNames
<1>1. block \in Nat /\ block + 1 \in TestBuffers /\ TestBlocks \in Nat /\ BlockIs
  <2>1. /\ num_blocks = TestBlocks - 1 /\ TestBlocks \in Nat /\ TestBlocks >= 5
        /\ block \in 0 .. num_blocks - 1
    BY <1>0, InLoop
  <2>2. block \in Nat
    BY <2>1
  <2>3. block + 1 \in TestBuffers
    BY <1>0, InLoop
  <2> QED BY <2>1, <2>2, <2>3 DEF FreeListTestInv
<1>2. CASE testing = "allocate"
  <2>1. block' = block + 1
    BY <1>2 DEF Stride, InTwos, InThrees
  <2> QED BY <1>1, <1>2, <2>1 DEF FreeOnes, IsFree, TestBuffers
<1>3. CASE testing = "replace_two"
  <2>1. block' = block + 2 /\ block % 2 = 0
    BY <1>1, <1>3 DEF Stride, InTwos, BlockIs
  <2>2. (block + 1) % 2 = 1
    BY <1>1, <2>1, EveryOther
  <2>3. ASSUME NEW b \in TestBuffers, b % 2 = 1
        PROVE  b > block + 2 <=> b > block /\ b # block + 1
    <3>1. b \in Nat /\ block \in Nat /\ block % 2 = 0 /\ b % 2 = 1
      BY <1>1, <2>1, <2>3 DEF TestBuffers
    <3>2. b # block + 2
      BY <3>1, EveryOther
    <3> QED BY <3>1, <3>2
  <2> QED BY <1>1, <1>3, <2>1, <2>2, <2>3 DEF FreeOnes, IsFree, TestBuffers
<1>4. CASE testing = "replace_three"
  <2>1. block' = block + 3 /\ block % 3 = 1
    BY <1>1, <1>4 DEF Stride, InTwos, InThrees, BlockIs
  <2>2. (block + 1) % 3 = 2
    BY <1>1, <2>1, EveryThird
  <2>3. ASSUME NEW b \in TestBuffers, b % 3 = 2
        PROVE  b > block + 3 <=> b > block /\ b # block + 1
    <3>1. b \in Nat /\ block \in Nat /\ block % 3 = 1 /\ b % 3 = 2
      BY <1>1, <2>1, <2>3 DEF TestBuffers
    <3>2. b # block + 2 /\ b # block + 3
      BY <3>1, EveryThird
    <3> QED BY <3>1, <3>2
  <2> QED BY <1>1, <1>4, <2>1, <2>2, <2>3 DEF FreeOnes, IsFree, TestBuffers
<1> QED BY <1>2, <1>3, <1>4

LEMMA AllocateStep ==
  ASSUME FreeListTestInv, FreeListTest!AllocateBlock
  PROVE  FreeListTestInv'
<1>1. /\ testing \in {"allocate", "replace_two", "replace_three"}
      /\ block < num_blocks /\ block' = block + Stride /\ testing \in LoopNames
      /\ UNCHANGED <<testing, lower_bound, upper_bound, num_blocks>>
  BY TurnIs DEF FreeListTest!AllocateBlock
<1>2. /\ num_blocks = TestBlocks - 1 /\ TestBlocks \in Nat
      /\ block \in 0 .. num_blocks - 1
      /\ allocations \in [0 .. num_blocks - 1 -> Int]
      /\ PoolIs(tested, FreeOnes) /\ FreeOnes \in SUBSET TestBuffers
      /\ lower_bound = BLOCK_SIZE /\ BLOCK_SIZE \in Nat
  BY <1>1, InLoop
<1>3. /\ allocations' = [allocations EXCEPT ![block] =
                           FreeListTest!Malloc(tested, BLOCK_SIZE)]
      /\ tested' = FreeListTest!After(tested, BLOCK_SIZE)
      /\ FreeListTest!Assert(90, FreeListTest!Malloc(tested, BLOCK_SIZE) # -1)
      /\ UNCHANGED contents
  BY <1>2 DEF FreeListTest!AllocateBlock, FreeListTest!block_size, FreeListTest!NULL
<1>4. /\ block + 1 \in FreeOnes /\ \A b \in FreeOnes : block + 1 <= b
      /\ FreeOnes' = FreeOnes \ {block + 1}
  BY <1>1, NextOfLoop
<1>5. /\ FreeListTest!Malloc(tested, BLOCK_SIZE) = block + 1
      /\ PoolIs(tested', FreeOnes \ {block + 1})
  <2>1. BLOCK_SIZE <= BLOCK_SIZE
    BY <1>2
  <2> QED BY <1>2, <1>3, <1>4, <2>1, BlockTaken
<1>6. TestedIs'
  BY <1>1, <1>4, <1>5 DEF TestedIs, PoolIs, TestBuffers
<1>7. BlockIs'
  BY <1>1, BlockGoesOn
<1>8. AllocationsAre'
  <2>1. /\ allocations' \in [0 .. num_blocks' - 1 -> Int]
        /\ allocations' = [allocations EXCEPT ![block] = block + 1]
    <3>1. allocations' = [allocations EXCEPT ![block] = block + 1]
      BY <1>3, <1>5
    <3>2. block + 1 \in Int
      BY <1>2
    <3> QED BY <1>1, <1>2, <3>1, <3>2
  <2>2. ASSUME NEW k \in 0 .. num_blocks - 1, testing = "allocate" => k < block'
        PROVE  allocations'[k] = k + 1
    <3>1. CASE k = block
      BY <1>2, <2>1, <3>1
    <3>2. CASE k # block
      <4>1. testing = "allocate" => k < block
        <5>1. testing = "allocate" => block' = block + 1
          BY <1>1 DEF Stride, InTwos, InThrees
        <5> QED BY <1>2, <2>2, <3>2, <5>1
      <4>2. allocations[k] = k + 1
        BY <1>1, <4>1 DEF FreeListTestInv, AllocationsAre
      <4> QED BY <1>2, <2>1, <3>2, <4>2
    <3> QED BY <3>1, <3>2
  <2> QED BY <1>1, <1>2, <2>1, <2>2 DEF AllocationsAre, LoopNames
<1>9. ContentsAre'
  BY <1>1, <1>3 DEF FreeListTestInv, ContentsAre, TestBuffers
<1>10. BoundsAre'
  BY <1>1 DEF FreeListTestInv, BoundsAre
<1>11. failed' = {}
  BY <1>2, <1>3, <1>5 DEF FreeListTestInv, FreeListTest!Assert
<1> QED BY <1>1, <1>6, <1>7, <1>8, <1>9, <1>10, <1>11 DEF FreeListTestInv

\* Nothing is freed or allocated.
LEMMA NothingFreed ==
  ASSUME FreeListTestInv, testing \in {"compare", "verify"}, UNCHANGED <<testing, tested>>
  PROVE  TestedIs'
<1>1. FreeOnes = {} /\ FreeOnes' = {}
  BY DEF FreeOnes, IsFree
<1>2. PoolIs(tested, {})
  BY <1>1 DEF FreeListTestInv, TestedIs
<1> QED BY <1>1, <1>2 DEF TestedIs, PoolIs, TestBuffers

\* Allocations are what they were, while the test looks at them.
LEMMA SameAllocations ==
  ASSUME FreeListTestInv, testing \in LoopNames \ {"allocate"},
         UNCHANGED <<testing, num_blocks, allocations>>
  PROVE  AllocationsAre'
BY DEF FreeListTestInv, AllocationsAre, LoopNames

LEMMA CompareStep ==
  ASSUME FreeListTestInv, FreeListTest!CompareBlock
  PROVE  FreeListTestInv'
<1>1. /\ testing = "compare" /\ testing \in LoopNames \ {"allocate"}
      /\ block < num_blocks /\ block' = block + 1 /\ block' = block + Stride
      /\ UNCHANGED <<testing, lower_bound, upper_bound, num_blocks>>
  <2>1. /\ testing \in {"compare"} /\ testing \in LoopNames
        /\ block < num_blocks /\ block' = block + Stride
        /\ UNCHANGED <<testing, lower_bound, upper_bound, num_blocks>>
    BY TurnIs DEF FreeListTest!CompareBlock
  <2>2. testing = "compare" /\ Stride = 1
    BY <2>1 DEF Stride, InTwos, InThrees
  <2> QED BY <2>1, <2>2
<1>2. /\ num_blocks = TestBlocks - 1 /\ TestBlocks \in Nat
      /\ block \in 1 .. num_blocks - 1 /\ block + 1 \in TestBuffers
  BY <1>1, InLoop DEF FreeListTestInv, BlockIs
<1>3. /\ FreeListTest!Assert(95, allocations[block - 1] < allocations[block])
      /\ contents' = [contents EXCEPT ![allocations[block]] = block % 255]
      /\ UNCHANGED <<tested, allocations>>
  BY DEF FreeListTest!CompareBlock
<1>4. allocations[block] = block + 1 /\ allocations[block - 1] = block
  <2>1. block \in 0 .. num_blocks - 1 /\ block - 1 \in 0 .. num_blocks - 1
        /\ (block - 1) + 1 = block
    BY <1>2
  <2> QED BY <1>1, <2>1 DEF FreeListTestInv, AllocationsAre, LoopNames
<1>5. /\ contents \in [0 .. TestBlocks - 1 -> Nat]
      /\ \A b \in TestBuffers : contents[b] = IF b <= block THEN (b - 1) % 255 ELSE 0
  BY <1>1 DEF FreeListTestInv, ContentsAre
<1>6. contents' = [contents EXCEPT ![block + 1] = block % 255]
  BY <1>3, <1>4
<1>7. block + 1 \in 0 .. TestBlocks - 1 /\ block % 255 \in Nat
  BY <1>2
<1>8. contents' \in [0 .. TestBlocks - 1 -> Nat]
  BY <1>5, <1>6, <1>7
<1>9. ASSUME NEW b \in TestBuffers
      PROVE  contents'[b] = IF b <= block + 1 THEN (b - 1) % 255 ELSE 0
  <2>1. b \in 0 .. TestBlocks - 1
    BY <1>2 DEF TestBuffers
  <2>2. CASE b = block + 1
    <3>1. b - 1 = block /\ b <= block + 1
      BY <1>2, <2>2
    <3> QED BY <1>5, <1>6, <1>7, <2>2, <3>1
  <2>3. CASE b # block + 1
    <3>1. contents'[b] = contents[b] /\ (b <= block + 1 <=> b <= block)
      BY <1>2, <1>5, <1>6, <2>1, <2>3 DEF TestBuffers
    <3> QED BY <1>5, <3>1
  <2> QED BY <2>2, <2>3
<1>10. ContentsAre'
  BY <1>1, <1>8, <1>9 DEF ContentsAre, TestBuffers
<1>11. BlockIs' /\ TestedIs' /\ AllocationsAre'
  BY <1>1, <1>3, BlockGoesOn, NothingFreed, SameAllocations
<1>12. BoundsAre'
  BY <1>1 DEF FreeListTestInv, BoundsAre
<1>13. failed' = {}
  BY <1>2, <1>3, <1>4 DEF FreeListTestInv, FreeListTest!Assert
<1> QED BY <1>1, <1>10, <1>11, <1>12, <1>13 DEF FreeListTestInv

LEMMA VerifyStep ==
  ASSUME FreeListTestInv, FreeListTest!VerifyBlock
  PROVE  FreeListTestInv'
<1>1. /\ testing = "verify" /\ testing \in LoopNames \ {"allocate"}
      /\ block < num_blocks /\ block' = block + Stride
      /\ UNCHANGED <<testing, lower_bound, upper_bound, num_blocks>>
  BY TurnIs DEF FreeListTest!VerifyBlock
<1>2. /\ block \in 0 .. num_blocks - 1 /\ block + 1 \in TestBuffers /\ (block + 1) - 1 = block
  <2>1. num_blocks \in Nat /\ block \in 0 .. num_blocks - 1 /\ block + 1 \in TestBuffers
    BY <1>1, InLoop
  <2> QED BY <2>1
<1>3. /\ FreeListTest!Assert(100, contents[allocations[block]] = block % 255)
      /\ UNCHANGED <<tested, allocations, contents>>
  BY DEF FreeListTest!VerifyBlock
<1>4. allocations[block] = block + 1
  BY <1>1, <1>2 DEF FreeListTestInv, AllocationsAre, LoopNames
<1>5. contents[block + 1] = block % 255
  BY <1>1, <1>2 DEF FreeListTestInv, ContentsAre
<1>6. ContentsAre'
  BY <1>1, <1>3 DEF FreeListTestInv, ContentsAre, TestBuffers
<1>7. BlockIs' /\ TestedIs' /\ AllocationsAre'
  BY <1>1, <1>3, BlockGoesOn, NothingFreed, SameAllocations
<1>8. BoundsAre'
  BY <1>1 DEF FreeListTestInv, BoundsAre
<1>9. failed' = {}
  BY <1>3, <1>4, <1>5 DEF FreeListTestInv, FreeListTest!Assert
<1> QED BY <1>1, <1>6, <1>7, <1>8, <1>9 DEF FreeListTestInv

LEMMA FreeStep ==
  ASSUME FreeListTestInv, FreeListTest!FreeBlock
  PROVE  FreeListTestInv'
<1>1. /\ testing \in {"free_two", "free_three"} /\ testing \in LoopNames \ {"allocate"}
      /\ block < num_blocks /\ block' = block + Stride
      /\ UNCHANGED <<testing, lower_bound, upper_bound, num_blocks>>
  BY TurnIs DEF FreeListTest!FreeBlock
<1>2. /\ block \in 0 .. num_blocks - 1 /\ block + 1 \in TestBuffers
      /\ num_blocks = TestBlocks - 1 /\ TestBlocks \in Nat
      /\ PoolIs(tested, FreeOnes) /\ FreeOnes \in SUBSET TestBuffers
  BY <1>1, InLoop
<1>3. /\ tested' = FreeListTest!my_free(tested, allocations[block])
      /\ UNCHANGED <<allocations, contents, failed>>
  BY DEF FreeListTest!FreeBlock
<1>4. allocations[block] = block + 1
  BY <1>1, <1>2 DEF FreeListTestInv, AllocationsAre, LoopNames
<1>5. block + 1 \notin FreeOnes
  <2>1. ~(block + 1 <= block)
    BY <1>2
  <2> QED BY <1>1, <2>1 DEF FreeOnes, IsFree
<1>6. PoolIs(tested', FreeOnes \cup {block + 1})
  BY <1>2, <1>3, <1>4, <1>5, BlockFreed
<1>7. FreeOnes' = FreeOnes \cup {block + 1}
  <2>1. BlockIs
    BY DEF FreeListTestInv
  <2>2. CASE testing = "free_two"
    <3>1. block' = block + 2 /\ block % 2 = 0
      BY <1>1, <2>1, <2>2 DEF Stride, InTwos, BlockIs
    <3>2. block \in Nat /\ (block + 1) % 2 = 1
      BY <1>2, <3>1, EveryOther
    <3>3. ASSUME NEW b \in TestBuffers, b % 2 = 1
          PROVE  b <= block + 2 <=> b <= block \/ b = block + 1
      <4>1. b \in Nat /\ b # block + 2
        BY <1>2, <3>1, <3>2, <3>3, EveryOther DEF TestBuffers
      <4> QED BY <3>2, <4>1
    <3> QED BY <1>1, <1>2, <2>2, <3>1, <3>2, <3>3 DEF FreeOnes, IsFree, TestBuffers
  <2>3. CASE testing = "free_three"
    <3>1. block' = block + 3 /\ block % 3 = 1
      BY <1>1, <2>1, <2>3 DEF Stride, InTwos, InThrees, BlockIs
    <3>2. block \in Nat /\ (block + 1) % 3 = 2
      BY <1>2, <3>1, EveryThird
    <3>3. ASSUME NEW b \in TestBuffers, b % 3 = 2
          PROVE  b <= block + 3 <=> b <= block \/ b = block + 1
      <4>1. b \in Nat /\ b # block + 2 /\ b # block + 3
        BY <1>2, <3>1, <3>2, <3>3, EveryThird DEF TestBuffers
      <4> QED BY <3>2, <4>1
    <3> QED BY <1>1, <1>2, <2>3, <3>1, <3>2, <3>3 DEF FreeOnes, IsFree, TestBuffers
  <2> QED BY <1>1, <2>2, <2>3
<1>8. TestedIs'
  BY <1>1, <1>6, <1>7 DEF TestedIs, PoolIs, TestBuffers
<1>9. BlockIs' /\ AllocationsAre'
  BY <1>1, <1>3, BlockGoesOn, SameAllocations
<1>10. ContentsAre'
  BY <1>1, <1>3 DEF FreeListTestInv, ContentsAre, TestBuffers
<1>11. BoundsAre'
  BY <1>1 DEF FreeListTestInv, BoundsAre
<1> QED BY <1>1, <1>3, <1>8, <1>9, <1>10, <1>11 DEF FreeListTestInv

\* From one loop to the next nothing is freed or taken.
LEMMA LoopEndsStep ==
  ASSUME FreeListTestInv, FreeListTest!LoopEnds
  PROVE  FreeListTestInv'
<1>1. /\ block >= num_blocks /\ testing \in LoopNames
      /\ UNCHANGED <<lower_bound, upper_bound, num_blocks, allocations, contents, failed>>
      /\ \/ UNCHANGED tested /\ \/ LoopFollows("allocate", "compare", 1)
                                \/ LoopFollows("compare", "verify", 0)
                                \/ LoopFollows("verify", "free_two", 0)
                                \/ LoopFollows("free_two", "replace_two", 0)
                                \/ LoopFollows("replace_two", "free_three", 1)
                                \/ LoopFollows("free_three", "replace_three", 1)
         \/ /\ LoopFollows("replace_three", "done", block)
            /\ tested' = FreeListTest!Unmapped
  BY LoopEndsAre
<1>2. num_blocks = TestBlocks - 1 /\ TestBlocks \in Nat /\ TestBlocks >= 5
  BY <1>1, TestAssumption DEF FreeListTestInv, AllocationsAre
<1>3. testing' \in {"compare", "verify", "free_two", "replace_two", "free_three",
                    "replace_three", "done"}
  BY <1>1 DEF LoopFollows
<1>4. TestedIs'
  <2>1. CASE LoopFollows("replace_three", "done", block)
    <3>1. tested' = FreeListTest!Unmapped
      BY <1>1, <2>1 DEF LoopFollows
    <3> QED BY <2>1, <3>1 DEF LoopFollows, TestedIs, FreeListTest!Unmapped
  <2>2. CASE ~LoopFollows("replace_three", "done", block)
    <3>1. UNCHANGED tested /\ testing' # "done" /\ testing' # "none"
      BY <1>1, <2>2 DEF LoopFollows
    <3>2. \A b \in TestBuffers : b \in Nat /\ b <= block /\ ~(b > block) /\ b > 0
      <4>1. block \in Nat
        BY <1>1, <1>2 DEF FreeListTestInv, BlockIs
      <4> QED BY <1>1, <1>2, <4>1 DEF TestBuffers
    <3>3. FreeOnes' = FreeOnes
      <4>1. TestBuffers' = TestBuffers
        BY DEF TestBuffers
      <4>2. CASE \/ LoopFollows("allocate", "compare", 1)
                 \/ LoopFollows("compare", "verify", 0)
        BY <3>2, <4>1, <4>2 DEF FreeOnes, IsFree, LoopFollows
      <4>3. CASE LoopFollows("verify", "free_two", 0)
        <5>1. \A b \in TestBuffers : ~(b <= 0)
          BY <3>2
        <5> QED BY <4>1, <4>3, <5>1 DEF FreeOnes, IsFree, LoopFollows
      <4>4. CASE LoopFollows("free_two", "replace_two", 0)
        BY <3>2, <4>1, <4>4 DEF FreeOnes, IsFree, LoopFollows
      <4>5. CASE LoopFollows("replace_two", "free_three", 1)
        <5>1. \A b \in TestBuffers : b % 3 = 2 => ~(b <= 1)
          <6> SUFFICES ASSUME NEW b \in TestBuffers, b % 3 = 2, b <= 1 PROVE FALSE
            OBVIOUS
          <6>1. b = 1
            BY <3>2
          <6>2. 1 % 3 = 1
            OBVIOUS
          <6> QED BY <6>1, <6>2
        <5> QED BY <3>2, <4>1, <4>5, <5>1 DEF FreeOnes, IsFree, LoopFollows
      <4>6. CASE LoopFollows("free_three", "replace_three", 1)
        <5>1. \A b \in TestBuffers : b % 3 = 2 => b > 1
          <6> SUFFICES ASSUME NEW b \in TestBuffers, b % 3 = 2, ~(b > 1) PROVE FALSE
            OBVIOUS
          <6>1. b = 1
            BY <3>2
          <6>2. 1 % 3 = 1
            OBVIOUS
          <6> QED BY <6>1, <6>2
        <5> QED BY <3>2, <4>1, <4>6, <5>1 DEF FreeOnes, IsFree, LoopFollows
      <4> QED BY <1>1, <2>2, <4>2, <4>3, <4>4, <4>5, <4>6
    <3>4. PoolIs(tested, FreeOnes)
      BY <1>1 DEF FreeListTestInv, TestedIs, LoopNames
    <3>5. PoolIs(tested', FreeOnes')
      BY <3>1, <3>3, <3>4
    <3> QED BY <3>1, <3>5 DEF TestedIs, PoolIs, TestBuffers
  <2> QED BY <2>1, <2>2
<1>5. BlockIs'
  <2>1. CASE testing' = "done"
    BY <2>1 DEF BlockIs, InTwos, InThrees, LoopNames
  <2>2. CASE testing' # "done"
    <3>1. /\ testing' \in {"compare", "free_three", "replace_three"} => block' = 1
          /\ testing' \in {"verify", "free_two", "replace_two"} => block' = 0
      BY <1>1, <2>2 DEF LoopFollows
    <3>2. num_blocks' \in Nat /\ num_blocks' >= 4
      BY <1>1, <1>2
    <3>3. 0 % 2 = 0 /\ 1 % 3 = 1
      OBVIOUS
    <3>4. block' \in {0, 1} /\ block' \in 0 .. num_blocks' + 2
      BY <1>3, <2>2, <3>1, <3>2
    <3>5. /\ InTwos' => block' % 2 = 0
          /\ InThrees' => block' % 3 = 1
      BY <3>1, <3>3 DEF InTwos, InThrees
    <3>6. testing' = "compare" => block' >= 1
      BY <3>1
    <3>7. testing' # "count" /\ testing' # "allocate"
      BY <1>3
    <3> QED BY <3>4, <3>5, <3>6, <3>7 DEF BlockIs
  <2> QED BY <2>1, <2>2
<1>6. AllocationsAre'
  <2>1. block >= num_blocks => \A k \in 0 .. num_blocks - 1 : k < block
    <3>1. block \in Nat
      BY <1>1, <1>2 DEF FreeListTestInv, BlockIs
    <3> QED BY <1>2, <3>1
  <2>2. /\ allocations \in [0 .. num_blocks - 1 -> Int]
        /\ \A k \in 0 .. num_blocks - 1 : allocations[k] = k + 1
    BY <1>1, <2>1 DEF FreeListTestInv, AllocationsAre
  <2> QED BY <1>1, <1>2, <1>3, <2>2 DEF AllocationsAre
<1>7. ContentsAre'
  <2>1. contents' = contents /\ contents \in [0 .. TestBlocks - 1 -> Nat]
    BY <1>1 DEF FreeListTestInv, ContentsAre
  <2>2. CASE LoopFollows("allocate", "compare", 1)
    <3>1. \A b \in TestBuffers : contents[b] = 0 /\ (b <= 1 => (b - 1) % 255 = 0)
      <4>1. \A b \in TestBuffers : contents[b] = 0
        BY <2>2 DEF FreeListTestInv, ContentsAre, LoopFollows
      <4>2. ASSUME NEW b \in TestBuffers, b <= 1 PROVE (b - 1) % 255 = 0
        <5>1. b - 1 = 0
          BY <1>2, <4>2 DEF TestBuffers
        <5>2. 0 % 255 = 0
          OBVIOUS
        <5> QED BY <5>1, <5>2
      <4> QED BY <4>1, <4>2
    <3> QED BY <2>1, <2>2, <3>1 DEF ContentsAre, LoopFollows, TestBuffers
  <2>3. CASE LoopFollows("compare", "verify", 0)
    <3>1. \A b \in TestBuffers : contents[b] = (b - 1) % 255
      <4>1. \A b \in TestBuffers : b <= block
        <5>1. block \in Nat
          BY <1>1, <1>2 DEF FreeListTestInv, BlockIs
        <5> QED BY <1>1, <1>2, <5>1 DEF TestBuffers
      <4> QED BY <2>3, <4>1 DEF FreeListTestInv, ContentsAre, LoopFollows
    <3> QED BY <2>1, <2>3, <3>1 DEF ContentsAre, LoopFollows, TestBuffers
  <2>4. CASE testing' \notin {"compare", "verify"}
    BY <1>3, <2>1, <2>4 DEF ContentsAre
  <2> QED BY <1>1, <2>2, <2>3, <2>4 DEF LoopFollows
<1>8. BoundsAre'
  BY <1>1, <1>3 DEF FreeListTestInv, BoundsAre, LoopNames
<1> QED BY <1>1, <1>3, <1>4, <1>5, <1>6, <1>7, <1>8 DEF FreeListTestInv, LoopNames

LEMMA FreeListTestNext ==
  ASSUME FreeListTestInv, FreeListTest!Next \/ UNCHANGED free_list_test
  PROVE  FreeListTestInv'
<1>1. CASE UNCHANGED free_list_test
  BY <1>1 DEF free_list_test, FreeListTestInv, TestedIs, PoolIs, FreeOnes, IsFree, BlockIs,
     AllocationsAre, ContentsAre, BoundsAre, InTwos, InThrees, TestBuffers
<1>2. CASE FreeListTest!Next
  BY <1>2, StartTest, SearchStep, FirstPointersStep, ReuseStep, CountStep, LimitsStep,
     AllocateStep, CompareStep, VerifyStep, FreeStep, LoopEndsStep
     DEF FreeListTest!Next, FreeListTest!test_free_list_allocator
<1> QED BY <1>1, <1>2

LEMMA FreeListTestInvImplies ==
  ASSUME FreeListTestInv
  PROVE  FreeListTest!TypeOK /\ FreeListTest!TestPasses
<1>1. failed = {} /\ (testing \notin {"none", "search"} => lower_bound = BLOCK_SIZE)
  BY DEF FreeListTestInv, BoundsAre
<1>2. ASSUME testing = "done"
      PROVE  /\ {allocations[k] : k \in DOMAIN allocations} = 1 .. TestBlocks - 1
             /\ num_blocks = TestBlocks - 1
  <2>1. /\ num_blocks = TestBlocks - 1 /\ TestBlocks \in Nat
        /\ DOMAIN allocations = 0 .. num_blocks - 1
        /\ \A k \in 0 .. num_blocks - 1 : allocations[k] = k + 1
    BY <1>2, TestAssumption DEF FreeListTestInv, AllocationsAre
  <2>2. ASSUME NEW b \in 1 .. TestBlocks - 1
        PROVE  \E k \in 0 .. num_blocks - 1 : allocations[k] = b
    <3>1. b - 1 \in 0 .. num_blocks - 1 /\ (b - 1) + 1 = b
      BY <2>1
    <3> QED BY <2>1, <3>1
  <2>3. ASSUME NEW k \in 0 .. num_blocks - 1 PROVE allocations[k] \in 1 .. TestBlocks - 1
    <3>1. k + 1 \in 1 .. TestBlocks - 1
      BY <2>1
    <3> QED BY <2>1, <3>1
  <2> QED BY <2>1, <2>2, <2>3
<1> QED BY <1>1, <1>2, FreeListTestTypes DEF FreeListTest!TestPasses, FreeListTest!block_size

---------------------------------------------------------------------------
(* The test of the best fit. What it does with the pool is proved beside   *)
(* the allocator, in BestFitAllocatorProof: here its steps are those of    *)
(* the instance that SmallPrograms runs.                                   *)

BestFit == INSTANCE BestFitAllocatorProof WITH
  PoolSize <- TestPool, Sizes <- TestSizes, target <- buffer_target

\* What is assumed there of the sizes is assumed here.
LEMMA BestFitAssumptions ==
  BestFit!PoolAssumption /\ BestFit!DataAssumption /\ BestFit!RoomForTest
<1>1. BestFit!PoolAssumption
  BY TestAssumption DEF BestFit!PoolAssumption, TestSizes
<1>2. BestFit!DataAssumption
  BY TestAssumption DEF BestFit!DataAssumption, BestFit!Headers, BestFitTest!Headers,
     BestFit!Addresses, BestFitTest!Addresses, BestFit!NULL, BestFitTest!NULL
<1>3. BestFit!RoomForTest
  BY TestAssumption DEF BestFit!RoomForTest
<1> QED BY <1>1, <1>2, <1>3

\* The two instances of the test are the same, definition by definition.
LEMMA SameTestInit == BestFitTest!TestInit <=> BestFit!TestInit
BY DEF BestFit!TestInit, BestFitTest!TestInit, BestFit!Addresses, BestFitTest!Addresses,
       BestFit!Init, BestFitTest!Init, BestFit!NULL, BestFitTest!NULL, BestFit!Zero,
       BestFitTest!Zero

LEMMA SameTestNext == BestFitTest!TestNext <=> BestFit!TestNext
BY DEF BestFit!TestNext, BestFitTest!TestNext, BestFit!Addresses, BestFitTest!Addresses,
       BestFit!Backward, BestFitTest!Backward, BestFit!Begin, BestFitTest!Begin,
       BestFit!BlockSize, BestFitTest!BlockSize, BestFit!Call, BestFitTest!Call, BestFit!Finish,
       BestFitTest!Finish, BestFit!Fits, BestFitTest!Fits, BestFit!Forward,
       BestFitTest!Forward, BestFit!FreeCall, BestFitTest!FreeCall, BestFit!Goto,
       BestFitTest!Goto, BestFit!HandOut, BestFitTest!HandOut, BestFit!Header,
       BestFitTest!Header, BestFit!Headers, BestFitTest!Headers, BestFit!Leads,
       BestFitTest!Leads, BestFit!MallocCall, BestFitTest!MallocCall, BestFit!MallocFails,
       BestFitTest!MallocFails, BestFit!MapPool, BestFitTest!MapPool, BestFit!Merge,
       BestFitTest!Merge, BestFit!NULL, BestFitTest!NULL, BestFit!NextIsFree,
       BestFitTest!NextIsFree, BestFit!PrevIsFree, BestFitTest!PrevIsFree, BestFit!Return,
       BestFitTest!Return, BestFit!Returned, BestFitTest!Returned, BestFit!Run,
       BestFitTest!Run, BestFit!Script, BestFitTest!Script, BestFit!Split, BestFitTest!Split,
       BestFit!SplitCrashes, BestFitTest!SplitCrashes, BestFit!SplitNothing,
       BestFitTest!SplitNothing,
       BestFit!SplitAt, BestFitTest!SplitAt, BestFit!TakeWhole, BestFitTest!TakeWhole,
       BestFit!TryNext, BestFitTest!TryNext, BestFit!TurnBack, BestFitTest!TurnBack,
       BestFit!UnmapPool, BestFitTest!UnmapPool, BestFit!Zero, BestFitTest!Zero, BestFit!free,
       BestFitTest!free, BestFit!free_locals, BestFitTest!free_locals, BestFit!is_free,
       BestFitTest!is_free, BestFit!malloc, BestFitTest!malloc, BestFit!my_free,
       BestFitTest!my_free, BestFit!my_malloc, BestFitTest!my_malloc, BestFit!next,
       BestFitTest!next, BestFit!overhead, BestFitTest!overhead, BestFit!prev,
       BestFitTest!prev, BestFit!size, BestFitTest!size, BestFit!test_best_fit_allocator,
       BestFitTest!test_best_fit_allocator

LEMMA SameTestPasses == BestFitTest!TestPasses <=> BestFit!TestPasses
BY DEF BestFit!TestPasses, BestFitTest!TestPasses, BestFit!Checked, BestFitTest!Checked,
       BestFit!Header, BestFitTest!Header, BestFit!NULL, BestFitTest!NULL, BestFit!Script,
       BestFitTest!Script, BestFit!free, BestFitTest!free, BestFit!malloc, BestFitTest!malloc,
       BestFit!overhead, BestFitTest!overhead

LEMMA SameTypeOK == BestFitTest!TypeOK <=> BestFit!TypeOK
BY DEF BestFit!TypeOK, BestFitTest!TypeOK, BestFit!Addresses, BestFitTest!Addresses,
       BestFit!Headers, BestFitTest!Headers, BestFit!NULL, BestFitTest!NULL

LEMMA BestFitStarts ==
  ASSUME BestFitTest!TestInit
  PROVE  BestFit!BestFitTestInv
BY SameTestInit, BestFitAssumptions, BestFit!BestFitTestInit

LEMMA BestFitGoesOn ==
  ASSUME BestFit!BestFitTestInv, BestFitTest!TestNext \/ UNCHANGED best_fit_test
  PROVE  BestFit!BestFitTestInv'
<1>1. UNCHANGED best_fit_test => UNCHANGED BestFit!testvars
  BY DEF best_fit_test, BestFit!testvars, BestFit!vars
<1>2. BestFit!TestNext \/ UNCHANGED BestFit!testvars
  BY <1>1, SameTestNext
<1> QED BY <1>2, BestFitAssumptions, BestFit!BestFitTestNext

LEMMA BestFitImplies ==
  ASSUME BestFit!BestFitTestInv
  PROVE  BestFitTest!TypeOK /\ BestFitTest!TestPasses
BY SameTestPasses, SameTypeOK, BestFitAssumptions, BestFit!BestFitTestInvImplies

\* With blocks of any size and any number of them, and with a pool of any size that
\* has room for what the other test assumes, both allocators pass their test, and no
\* link back that a split has left stale is followed.
THEOREM TestsPassAlways == Spec => []TestsPass
<1> DEFINE Inv == /\ Checks(9) => FreeListTestInv
                  /\ Checks(10) => BestFit!BestFitTestInv
<1>1. Init => Inv
  BY FreeListTestInit, BestFitStarts DEF Init
<1>2. Inv /\ [Next]_allvars => Inv'
  BY StepOfOne, FreeListTestNext, BestFitGoesOn
<1>3. Inv => TestsPass
  BY FreeListTestInvImplies, BestFitImplies DEF TestsPass
<1> QED BY <1>1, <1>2, <1>3, PTL DEF Spec

=============================================================================
