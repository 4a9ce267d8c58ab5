--------------------------- MODULE DiceGameProof ---------------------------
(***************************************************************************)
(* Proofs about DiceGame, for every number of players from two on and      *)
(* every set of integers the dice can show. What makes the program right   *)
(* is nowhere written down in it: between its two waits all threads are in *)
(* the same half of the round, only the serial thread of the second wait   *)
(* is in eliminate_players, and a player with less than the highest result *)
(* survives it.                                                            *)
(***************************************************************************)
EXTENDS DiceGame, FiniteSetTheorems, WellFoundedInduction, TLAPS

---------------------------------------------------------------------------
\* The inductive invariant, by its parts.

\* A thread is inside a wait of the barrier exactly while it waits.
AtBarrier ==
  \A i \in Players :
    phase[i] = "out" <=> pc[i] \notin {"waiting", "waiting_rolls"}

\* Between the opening of the first wait and that of the second.
InRolls(i) ==
  \/ pc[i] \in {"test", "roll", "wait_rolls", "decide", "winner", "exited"}
  \/ pc[i] = "waiting" /\ phase[i] # "arrived"
  \/ pc[i] = "waiting_rolls" /\ phase[i] = "arrived"

\* All threads are in the same half of the round.
SameHalf == \A i, j \in Players : InRolls(i) => InRolls(j)

\* The loop is left with one active player, and only then.
LeavesWhenDecided ==
  \A i \in Players :
    /\ pc[i] \in {"decide", "winner", "exited"} => active_players = 1
    /\ pc[i] \in {"roll", "wait_rolls"} => active_players # 1
    /\ pc[i] = "waiting_rolls" /\ phase[i] = "arrived" => active_players # 1

\* What the last second wait that opened returns to i, or has returned.
Verdict(i) ==
  IF pc[i] = "waiting_rolls" /\ phase[i] # "arrived"
  THEN IF phase[i] = "serial" THEN Barrier!SERIAL ELSE 0
  ELSE res[i]

FirstRound == \A i \in Players : Verdict(i) = Undefined

IsSerial(s) ==
  /\ Verdict(s) = Barrier!SERIAL
  /\ \A i \in Players : i # s => Verdict(i) = 0

\* After the first round exactly one thread is serial, and it alone is in
\* eliminate_players or announces.
OneSerial ==
  /\ FirstRound \/ \E s \in Players : IsSerial(s)
  /\ \A i \in Players :
       pc[i] \in {"scan", "eliminate", "winner"} => Verdict(i) = Barrier!SERIAL

\* The first round is one of all players.
FirstRoundIsFull == FirstRound => active_players = PlayerCount

\* The threads that do not exist are those main has yet to create, and the
\* first round waits for them.
Creation ==
  /\ \A i \in Players : pc[i] = "none" => main = "create" /\ joined <= i
  /\ main = "create" =>
       /\ FirstRound
       /\ \A i \in Players :
            IF i < joined THEN playing[i] ELSE pc[i] = "none"

\* The counter is the number of players that play.
Counted ==
  /\ active_players >= 1
  /\ main = "create" => active_players = PlayerCount
  /\ main # "create" => active_players = Cardinality(StillPlaying)

\* Whoever plays has rolled, once the first round is past the roll.
HasRolled ==
  \A i \in Players :
    playing[i] /\ result[i] \notin Results =>
      FirstRound /\ pc[i] \notin {"wait_rolls", "waiting_rolls"}

\* The loop indices start where the loops start.
Indices ==
  \A i \in Players :
    pc[i] \notin {"eliminate", "winner", "exited"} => k[i] = 0

\* Somebody survives the elimination that is going on.
Survivor ==
  \A i \in Players : pc[i] = "eliminate" =>
    \E j \in StillPlaying : result[j] # max[i]

\* One line is printed once the serial thread has exited, and none before.
Announced ==
  \/ announced = {} /\ \A i \in Players : pc[i] = "exited" => Verdict(i) = 0
  \/ /\ \E w \in announced : announced = {w}
     /\ \A i \in Players : pc[i] # "winner"
     /\ \E s \in Players : pc[s] = "exited" /\ Verdict(s) = Barrier!SERIAL

\* The threads that are joined have exited.
Joined ==
  /\ main = "join" => \A i \in Players : i < joined => pc[i] = "exited"
  /\ main = "done" => \A i \in Players : pc[i] = "exited"

IInv ==
  /\ TypeOK
  /\ AtBarrier
  /\ SameHalf
  /\ LeavesWhenDecided
  /\ OneSerial
  /\ FirstRoundIsFull
  /\ Creation
  /\ Counted
  /\ HasRolled
  /\ Indices
  /\ Survivor
  /\ Announced
  /\ Joined

---------------------------------------------------------------------------
\* A step in which no second wait opens leaves every verdict as it is, and with
\* it who is serial and whether the round is the first.
LEMMA SameVerdicts ==
  ASSUME \A j \in Players : Verdict(j)' = Verdict(j)
  PROVE  /\ FirstRound' <=> FirstRound
         /\ \A s \in Players : IsSerial(s)' <=> IsSerial(s)
<1>1. FirstRound' <=> FirstRound
  BY DEF FirstRound
<1>2. \A s \in Players : IsSerial(s)' <=> IsSerial(s)
  BY DEF IsSerial
<1> QED BY <1>1, <1>2

\* The players that play are finitely many.
LEMMA FinitelyMany ==
  /\ IsFiniteSet(Players) /\ Cardinality(Players) = PlayerCount
  /\ IsFiniteSet(StillPlaying) /\ Cardinality(StillPlaying) \in 0 .. PlayerCount
<1>1. IsFiniteSet(Players) /\ Cardinality(Players) = PlayerCount
  BY DiceAssumption, FS_Interval DEF Players
<1>2. StillPlaying \in SUBSET Players
  BY DEF StillPlaying
<1>3. IsFiniteSet(StillPlaying) /\ Cardinality(StillPlaying) <= PlayerCount
  BY <1>1, <1>2, FS_Subset
<1>4. Cardinality(StillPlaying) \in Nat
  BY <1>3, FS_CardinalityType
<1> QED BY <1>1, <1>3, <1>4, DiceAssumption

LEMMA InitInv == Init => IInv
<1> SUFFICES ASSUME Init PROVE IInv
  OBVIOUS
<1> USE DiceAssumption DEF Init, Players, Barrier!Init, Undefined
<1>1. TypeOK
  BY DEF TypeOK, Points, Barrier!TypeOK, Barrier!Phases, Barrier!SERIAL
<1>2. \A i \in Players : Verdict(i) = Undefined
  BY DEF Verdict
<1>3. AtBarrier /\ SameHalf /\ LeavesWhenDecided
  BY DEF AtBarrier, SameHalf, InRolls, LeavesWhenDecided
<1>4. OneSerial /\ FirstRoundIsFull
  BY <1>2 DEF OneSerial, FirstRound, FirstRoundIsFull
<1>5. Creation /\ Counted /\ HasRolled /\ Indices
  BY <1>2 DEF Creation, FirstRound, Counted, HasRolled, Indices
<1>6. Survivor /\ Announced /\ Joined
  BY DEF Survivor, Announced, Joined
<1> QED BY <1>1, <1>3, <1>4, <1>5, <1>6 DEF IInv

LEMMA EnterRoundInv ==
  ASSUME IInv, NEW i \in Players, EnterRound(i)
  PROVE  IInv'
<1> USE DEF IInv, EnterRound, Goto, player, locals, barrier, mains, Barrier!Arrive
<1>1. TypeOK'
  BY DEF TypeOK, Points, Barrier!TypeOK, Barrier!Phases, Barrier!SERIAL
<1>2. \A j \in Players : Verdict(j)' = Verdict(j)
  BY DEF Verdict, TypeOK, AtBarrier, Barrier!TypeOK
<1>3. /\ FirstRound' <=> FirstRound
      /\ \A s \in Players : IsSerial(s)' <=> IsSerial(s)
  BY <1>2, SameVerdicts
<1>4. AtBarrier' /\ SameHalf'
  BY DEF AtBarrier, SameHalf, InRolls, TypeOK, Barrier!TypeOK
<1>5. LeavesWhenDecided'
  BY DEF LeavesWhenDecided, TypeOK
<1>6. OneSerial'
  BY <1>2, <1>3 DEF OneSerial, TypeOK
<1>7. FirstRoundIsFull' /\ Creation' /\ Counted'
  BY <1>3 DEF FirstRoundIsFull, Creation, Counted, StillPlaying, TypeOK
<1>8. HasRolled'
  BY <1>3 DEF HasRolled, TypeOK
<1>9. Indices' /\ Survivor'
  BY DEF Indices, Survivor, StillPlaying, TypeOK
<1>10. Announced' /\ Joined'
  BY <1>2 DEF Announced, Joined, TypeOK
<1> QED BY <1>1, <1>4, <1>5, <1>6, <1>7, <1>8, <1>9, <1>10

LEMMA BeginRoundInv ==
  ASSUME IInv, NEW i \in Players, BeginRound(i)
  PROVE  IInv'
<1> USE DEF IInv, BeginRound, Goto, player, locals, barrier, mains, Barrier!Return
<1>1. TypeOK'
  BY DEF TypeOK, Points, Barrier!TypeOK, Barrier!Phases, Barrier!SERIAL
<1>2. \A j \in Players : Verdict(j)' = Verdict(j)
  BY DEF Verdict, TypeOK, AtBarrier, Barrier!TypeOK
<1>3. /\ FirstRound' <=> FirstRound
      /\ \A s \in Players : IsSerial(s)' <=> IsSerial(s)
  BY <1>2, SameVerdicts
<1>4. AtBarrier' /\ SameHalf'
  BY DEF AtBarrier, SameHalf, InRolls, TypeOK, Barrier!TypeOK
<1>5. LeavesWhenDecided'
  BY DEF LeavesWhenDecided, TypeOK
<1>6. OneSerial'
  BY <1>2, <1>3 DEF OneSerial, TypeOK
<1>7. FirstRoundIsFull' /\ Creation' /\ Counted'
  BY <1>3 DEF FirstRoundIsFull, Creation, Counted, StillPlaying, TypeOK
<1>8. HasRolled'
  BY <1>3 DEF HasRolled, TypeOK
<1>9. Indices' /\ Survivor'
  BY DEF Indices, Survivor, StillPlaying, TypeOK
<1>10. Announced' /\ Joined'
  BY <1>2 DEF Announced, Joined, TypeOK
<1> QED BY <1>1, <1>4, <1>5, <1>6, <1>7, <1>8, <1>9, <1>10

LEMMA TestInv ==
  ASSUME IInv, NEW i \in Players, Test(i)
  PROVE  IInv'
<1> USE DEF IInv, Test, Goto, player, locals, barrier, mains
<1>1. TypeOK'
  BY DEF TypeOK, Points, Barrier!TypeOK, Barrier!Phases, Barrier!SERIAL
<1>2. \A j \in Players : Verdict(j)' = Verdict(j)
  BY DEF Verdict, TypeOK, AtBarrier, Barrier!TypeOK
<1>3. /\ FirstRound' <=> FirstRound
      /\ \A s \in Players : IsSerial(s)' <=> IsSerial(s)
  BY <1>2, SameVerdicts
<1>4. AtBarrier' /\ SameHalf'
  BY DEF AtBarrier, SameHalf, InRolls, TypeOK, Barrier!TypeOK
<1>5. LeavesWhenDecided'
  BY DEF LeavesWhenDecided, TypeOK
<1>6. OneSerial'
  BY <1>2, <1>3 DEF OneSerial, TypeOK
<1>7. FirstRoundIsFull' /\ Creation' /\ Counted'
  BY <1>3 DEF FirstRoundIsFull, Creation, Counted, StillPlaying, TypeOK
<1>8. HasRolled'
  BY <1>3 DEF HasRolled, TypeOK
<1>9. Indices' /\ Survivor'
  BY DEF Indices, Survivor, StillPlaying, TypeOK
<1>10. Announced' /\ Joined'
  BY <1>2 DEF Announced, Joined, TypeOK
<1> QED BY <1>1, <1>4, <1>5, <1>6, <1>7, <1>8, <1>9, <1>10

LEMMA RollInv ==
  ASSUME IInv, NEW i \in Players, Roll(i)
  PROVE  IInv'
<1> USE DEF IInv, Roll, Goto, player, locals, barrier, mains
<1>1. TypeOK'
  BY DEF TypeOK, Points, Barrier!TypeOK, Barrier!Phases, Barrier!SERIAL
<1>2. \A j \in Players : Verdict(j)' = Verdict(j)
  BY DEF Verdict, TypeOK, AtBarrier, Barrier!TypeOK
<1>3. /\ FirstRound' <=> FirstRound
      /\ \A s \in Players : IsSerial(s)' <=> IsSerial(s)
  BY <1>2, SameVerdicts
<1>4. AtBarrier' /\ SameHalf'
  BY DEF AtBarrier, SameHalf, InRolls, TypeOK, Barrier!TypeOK
<1>5. LeavesWhenDecided'
  BY DEF LeavesWhenDecided, TypeOK
<1>6. OneSerial'
  BY <1>2, <1>3 DEF OneSerial, TypeOK
<1>7. FirstRoundIsFull' /\ Creation' /\ Counted'
  BY <1>3 DEF FirstRoundIsFull, Creation, Counted, StillPlaying, TypeOK
<1>8. HasRolled'
  BY <1>3 DEF HasRolled, TypeOK
<1>9. Indices' /\ Survivor'
  <2>1. \A j \in Players : pc[j] # "eliminate"
    BY DEF SameHalf, InRolls
  <2> QED BY <2>1 DEF Indices, Survivor, TypeOK
<1>10. Announced' /\ Joined'
  BY <1>2 DEF Announced, Joined, TypeOK
<1> QED BY <1>1, <1>4, <1>5, <1>6, <1>7, <1>8, <1>9, <1>10

LEMMA EnterRollsInv ==
  ASSUME IInv, NEW i \in Players, EnterRolls(i)
  PROVE  IInv'
<1> USE DEF IInv, EnterRolls, Goto, player, locals, barrier, mains, Barrier!Arrive
<1>1. TypeOK'
  BY DEF TypeOK, Points, Barrier!TypeOK, Barrier!Phases, Barrier!SERIAL
<1>2. \A j \in Players : Verdict(j)' = Verdict(j)
  BY DEF Verdict, TypeOK, AtBarrier, Barrier!TypeOK
<1>3. /\ FirstRound' <=> FirstRound
      /\ \A s \in Players : IsSerial(s)' <=> IsSerial(s)
  BY <1>2, SameVerdicts
<1>4. AtBarrier' /\ SameHalf'
  BY DEF AtBarrier, SameHalf, InRolls, TypeOK, Barrier!TypeOK
<1>5. LeavesWhenDecided'
  BY DEF LeavesWhenDecided, TypeOK
<1>6. OneSerial'
  BY <1>2, <1>3 DEF OneSerial, TypeOK
<1>7. FirstRoundIsFull' /\ Creation' /\ Counted'
  BY <1>3 DEF FirstRoundIsFull, Creation, Counted, StillPlaying, TypeOK
<1>8. HasRolled'
  BY <1>3 DEF HasRolled, TypeOK
<1>9. Indices' /\ Survivor'
  BY DEF Indices, Survivor, StillPlaying, TypeOK
<1>10. Announced' /\ Joined'
  BY <1>2 DEF Announced, Joined, TypeOK
<1> QED BY <1>1, <1>4, <1>5, <1>6, <1>7, <1>8, <1>9, <1>10

LEMMA EndRollsInv ==
  ASSUME IInv, NEW i \in Players, EndRolls(i)
  PROVE  IInv'
<1> USE DEF IInv, EndRolls, Goto, player, locals, barrier, mains, Barrier!Return
<1>1. TypeOK'
  BY DEF TypeOK, Points, Barrier!TypeOK, Barrier!Phases, Barrier!SERIAL
<1>2. \A j \in Players : Verdict(j)' = Verdict(j)
  BY DEF Verdict, TypeOK, AtBarrier, Barrier!TypeOK
<1>3. /\ FirstRound' <=> FirstRound
      /\ \A s \in Players : IsSerial(s)' <=> IsSerial(s)
  BY <1>2, SameVerdicts
<1>4. AtBarrier' /\ SameHalf'
  BY DEF AtBarrier, SameHalf, InRolls, TypeOK, Barrier!TypeOK
<1>5. LeavesWhenDecided'
  BY DEF LeavesWhenDecided, TypeOK
<1>6. OneSerial'
  <2>1. pc'[i] = "scan" => Verdict(i)' = Barrier!SERIAL
    BY DEF Verdict, TypeOK, Barrier!TypeOK
  <2> QED BY <1>2, <1>3, <2>1 DEF OneSerial, TypeOK
<1>7. FirstRoundIsFull' /\ Creation' /\ Counted'
  BY <1>3 DEF FirstRoundIsFull, Creation, Counted, StillPlaying, TypeOK
<1>8. HasRolled'
  BY <1>3 DEF HasRolled, TypeOK
<1>9. Indices' /\ Survivor'
  BY DEF Indices, Survivor, StillPlaying, TypeOK
<1>10. Announced' /\ Joined'
  BY <1>2 DEF Announced, Joined, TypeOK
<1> QED BY <1>1, <1>4, <1>5, <1>6, <1>7, <1>8, <1>9, <1>10

LEMMA DecideInv ==
  ASSUME IInv, NEW i \in Players, Decide(i)
  PROVE  IInv'
<1> USE DEF IInv, Decide, Goto, player, locals, barrier, mains
<1>1. TypeOK'
  BY DEF TypeOK, Points, Barrier!TypeOK, Barrier!Phases, Barrier!SERIAL
<1>2. \A j \in Players : Verdict(j)' = Verdict(j)
  BY DEF Verdict, TypeOK, AtBarrier, Barrier!TypeOK
<1>3. /\ FirstRound' <=> FirstRound
      /\ \A s \in Players : IsSerial(s)' <=> IsSerial(s)
  BY <1>2, SameVerdicts
<1>11. Verdict(i) = res[i]
  BY DEF Verdict
<1>12. \E s \in Players : IsSerial(s)
  <2>1. ~FirstRound
    BY DiceAssumption DEF FirstRoundIsFull, LeavesWhenDecided
  <2> QED BY <2>1 DEF OneSerial
<1>4. AtBarrier' /\ SameHalf'
  BY DEF AtBarrier, SameHalf, InRolls, TypeOK, Barrier!TypeOK
<1>5. LeavesWhenDecided'
  BY DEF LeavesWhenDecided, TypeOK
<1>6. OneSerial'
  BY <1>2, <1>3, <1>11 DEF OneSerial, TypeOK
<1>7. FirstRoundIsFull' /\ Creation' /\ Counted'
  BY <1>3 DEF FirstRoundIsFull, Creation, Counted, StillPlaying, TypeOK
<1>8. HasRolled'
  BY <1>3 DEF HasRolled, TypeOK
<1>9. Indices' /\ Survivor'
  BY DEF Indices, Survivor, StillPlaying, TypeOK
<1>10. Announced' /\ Joined'
  <2>1. CASE announced = {} /\ \A j \in Players : pc[j] = "exited" => Verdict(j) = 0
    BY <1>2, <1>11, <1>12, <2>1
       DEF Announced, Joined, TypeOK, IsSerial, Barrier!SERIAL
  <2>2. CASE ~(announced = {} /\ \A j \in Players : pc[j] = "exited" => Verdict(j) = 0)
    <3>1. PICK s \in Players : pc[s] = "exited" /\ Verdict(s) = Barrier!SERIAL
      BY <2>2 DEF Announced
    <3>2. Verdict(i) # Barrier!SERIAL
      BY <1>12, <3>1 DEF IsSerial, Barrier!SERIAL
    <3> QED BY <1>2, <1>11, <2>2, <3>1, <3>2 DEF Announced, Joined, TypeOK
  <2> QED BY <2>1, <2>2
<1> QED BY <1>1, <1>4, <1>5, <1>6, <1>7, <1>8, <1>9, <1>10

---------------------------------------------------------------------------
\* The highest and the lowest of finitely many integers exist: what the two
\* searches of eliminate_players find. Neither follows by induction over the
\* set here, so the argument counts how many are above, or below.
LEMMA HighestExists ==
  ASSUME NEW S, S \subseteq Int, IsFiniteSet(S), S # {}
  PROVE  \E r \in S : \A s \in S : s <= r
<1> DEFINE Above(r) == {s \in S : s > r}
           Ranks == {Cardinality(Above(r)) : r \in S}
<1>1. \A r \in S : IsFiniteSet(Above(r)) /\ Cardinality(Above(r)) \in Nat
  <2> SUFFICES ASSUME NEW r \in S
               PROVE  IsFiniteSet(Above(r)) /\ Cardinality(Above(r)) \in Nat
    OBVIOUS
  <2>1. Above(r) \in SUBSET S
    OBVIOUS
  <2> QED BY <2>1, FS_Subset, FS_CardinalityType
<1>2. Ranks \subseteq Nat /\ Ranks # {}
  BY <1>1
<1>3. PICK n \in Ranks : \A m \in Ranks : ~ (<<m, n>> \in OpToRel(<, Nat))
  <2> HIDE DEF Ranks
  <2> QED BY <1>2, NatLessThanWellFounded, WFMin
<1>4. \A m \in Ranks : ~(m < n)
  <2> HIDE DEF Ranks
  <2> QED BY <1>2, <1>3 DEF OpToRel
<1>5. PICK r \in S : n = Cardinality(Above(r))
  OBVIOUS
<1>6. ASSUME NEW s \in S, s > r
      PROVE  FALSE
  <2>1. Above(s) \in SUBSET Above(r)
    <3>1. ASSUME NEW x \in Above(s) PROVE x \in Above(r)
      <4>1. x \in Int /\ s \in Int /\ r \in Int /\ x > s
        OBVIOUS
      <4> QED BY <1>6, <4>1
    <3> QED BY <3>1
  <2>2. s \in Above(r) /\ s \notin Above(s)
    BY <1>6
  <2>3. /\ IsFiniteSet(Above(r))
        /\ Cardinality(Above(r)) \in Nat /\ Cardinality(Above(s)) \in Nat
    BY <1>1
  <2>4. Cardinality(Above(s)) <= Cardinality(Above(r))
    <3> HIDE DEF Above
    <3> QED BY <2>1, <2>3, FS_Subset
  <2>5. Cardinality(Above(s)) # Cardinality(Above(r))
    <3>1. Above(s) # Above(r)
      BY <2>2
    <3> HIDE DEF Above
    <3> QED BY <2>1, <2>3, <3>1, FS_Subset
  <2>6. Cardinality(Above(s)) \in Ranks
    OBVIOUS
  <2> HIDE DEF Above, Ranks
  <2> QED BY <1>4, <1>5, <2>3, <2>4, <2>5, <2>6
<1> QED BY <1>6

LEMMA LowestExists ==
  ASSUME NEW S, S \subseteq Int, IsFiniteSet(S), S # {}
  PROVE  \E r \in S : \A s \in S : s >= r
<1> DEFINE T == {-r : r \in S}
           f == [r \in S |-> -r]
<1>1. T \subseteq Int /\ T # {}
  <2>1. \A r \in S : -r \in Int
    OBVIOUS
  <2> QED BY <2>1
<1>2. f \in Surjection(S, T)
  BY DEF Surjection
<1>3. IsFiniteSet(T)
  BY <1>2, FS_Surjection
<1>4. PICK t \in T : \A u \in T : u <= t
  BY <1>1, <1>3, HighestExists
<1>5. PICK r \in S : t = -r
  OBVIOUS
<1>6. \A s \in S : s >= r
  <2> SUFFICES ASSUME NEW s \in S PROVE s >= r
    OBVIOUS
  <2>1. -s \in T
    OBVIOUS
  <2>2. -s <= -r
    BY <1>4, <1>5, <2>1
  <2> QED BY <2>2
<1> QED BY <1>6

\* What scan finds when everybody that plays has rolled: both results are
\* results of players.
LEMMA ScanFinds ==
  ASSUME TypeOK, StillPlaying # {}, \A i \in StillPlaying : result[i] \in Results
  PROVE  min_result \in Rolled /\ max_result \in Rolled /\ Rolled \subseteq Results
<1> DEFINE f == [i \in StillPlaying |-> result[i]]
<1>1. f \in Surjection(StillPlaying, Rolled)
  BY DEF Surjection, Rolled
<1>2. IsFiniteSet(Rolled)
  BY <1>1, FinitelyMany, FS_Surjection
<1>3. Rolled \subseteq Results /\ Rolled # {}
  BY DEF Rolled
<1>4. Rolled \subseteq Int
  BY <1>3, DiceAssumption
<1>5. \E r \in Rolled : \A s \in Rolled : s <= r
  BY <1>2, <1>3, <1>4, HighestExists
<1>6. \E r \in Rolled : \A s \in Rolled : s >= r
  BY <1>2, <1>3, <1>4, LowestExists
<1> QED BY <1>3, <1>5, <1>6 DEF max_result, min_result

\* eliminate_players starts with every player's result on the table, so the
\* highest is a result, and not everybody's.
LEMMA ScanInv ==
  ASSUME IInv, NEW i \in Players, Scan(i)
  PROVE  IInv'
<1> USE DEF IInv, Scan, Goto, player, locals, barrier, mains
<1>1. ~FirstRound
  BY DEF OneSerial, FirstRound, Undefined, Barrier!SERIAL
<1>2. StillPlaying # {}
  <2>1. main # "create"
    BY <1>1 DEF Creation
  <2>2. Cardinality(StillPlaying) >= 1
    BY <2>1 DEF Counted
  <2> QED BY <2>2, FS_EmptySet
<1>3. /\ min_result \in Rolled /\ max_result \in Rolled
      /\ Rolled \subseteq Results
  <2>1. \A j \in StillPlaying : result[j] \in Results
    BY <1>1 DEF StillPlaying, HasRolled
  <2> QED BY <1>2, <2>1, ScanFinds
<1>4. TypeOK'
  <2>1. max' \in [Players -> Results \cup {Undefined}]
    <3>1. max_result \in Results
      BY <1>3
    <3>2. max' = max \/ max' = [max EXCEPT ![i] = max_result]
      OBVIOUS
    <3> QED BY <3>1, <3>2 DEF TypeOK
  <2>2. \A j \in Players : pc'[j] = "eliminate" => k[j] \in Players
    <3>1. k[i] = 0 /\ 0 \in Players
      BY DiceAssumption DEF Indices, Players
    <3>2. \A j \in Players : j # i => pc'[j] = pc[j]
      BY DEF TypeOK
    <3> QED BY <3>1, <3>2 DEF TypeOK
  <2> HIDE DEF Scan
  <2>3. pc' \in [Players -> Points]
    BY DEF Scan, TypeOK, Points
  <2> QED BY <2>1, <2>2, <2>3 DEF Scan, TypeOK, Barrier!TypeOK
<1>5. \A j \in Players : Verdict(j)' = Verdict(j)
  BY DEF Verdict, TypeOK
<1>6. /\ FirstRound' <=> FirstRound
      /\ \A s \in Players : IsSerial(s)' <=> IsSerial(s)
  BY <1>5, SameVerdicts
<1>7. AtBarrier' /\ SameHalf'
  BY DEF AtBarrier, SameHalf, InRolls, TypeOK, Barrier!TypeOK
<1>8. LeavesWhenDecided'
  BY DEF LeavesWhenDecided, TypeOK
<1>9. OneSerial'
  BY <1>5, <1>6 DEF OneSerial, TypeOK
<1>10. FirstRoundIsFull' /\ Creation' /\ Counted'
  BY <1>6 DEF FirstRoundIsFull, Creation, Counted, StillPlaying, TypeOK
<1>11. HasRolled' /\ Indices'
  BY <1>6 DEF HasRolled, Indices, TypeOK
<1>12. Survivor'
  <2>1. StillPlaying' = StillPlaying
    BY DEF StillPlaying
  <2>2. CASE min_result = max_result
    BY <2>1, <2>2 DEF Survivor, TypeOK
  <2>3. CASE min_result # max_result
    <3>1. PICK j \in StillPlaying : result[j] = min_result
      BY <1>3 DEF Rolled
    <3>2. max' = [max EXCEPT ![i] = max_result]
      BY <2>3
    <3> QED BY <2>1, <2>3, <3>1, <3>2 DEF Survivor, TypeOK
  <2> QED BY <2>2, <2>3
<1>13. Announced' /\ Joined'
  BY <1>5 DEF Announced, Joined, TypeOK
<1> QED BY <1>4, <1>7, <1>8, <1>9, <1>10, <1>11, <1>12, <1>13

\* The player that is not at the highest result outlives every turn of the
\* loop, so the counter, which stays the number of players, stays positive.
LEMMA EliminateInv ==
  ASSUME IInv, NEW i \in Players, Eliminate(i)
  PROVE  IInv'
<1> DEFINE j == k[i]
           highest == playing[j] /\ result[j] = max[i]
<1> USE DEF IInv
<1>1. j \in Players /\ pc[i] = "eliminate"
  BY DEF Eliminate, TypeOK
<1>2. ~FirstRound /\ main # "create"
  BY <1>1 DEF OneSerial, FirstRound, Undefined, Barrier!SERIAL, Creation
<1>3. \A s \in Players : ~InRolls(s)
  BY <1>1 DEF SameHalf, InRolls
<1>4. \A s \in Players : s # i => pc[s] # "eliminate"
  <2>1. PICK s \in Players : IsSerial(s)
    BY <1>2 DEF OneSerial
  <2> QED BY <1>1, <2>1 DEF OneSerial, IsSerial, Barrier!SERIAL
<1>5. StillPlaying' = IF highest THEN StillPlaying \ {j} ELSE StillPlaying
  <2>1. playing' = [playing EXCEPT ![j] = @ /\ ~highest]
    BY DEF Eliminate
  <2>2. CASE highest
    BY <1>1, <2>1, <2>2 DEF StillPlaying, TypeOK
  <2>3. CASE ~highest
    <3>1. playing' = playing
      BY <1>1, <2>1, <2>3 DEF TypeOK
    <3> QED BY <2>3, <3>1 DEF StillPlaying
  <2> QED BY <2>2, <2>3
<1>6. PICK w \in StillPlaying : result[w] # max[i]
  BY <1>1 DEF Survivor
<1>7. w \in StillPlaying'
  BY <1>5, <1>6
<1>8. /\ active_players' = Cardinality(StillPlaying')
      /\ Cardinality(StillPlaying') \in 1 .. PlayerCount
  <2>1. active_players = Cardinality(StillPlaying)
    BY <1>2 DEF Counted
  <2>2. /\ IsFiniteSet(StillPlaying)
        /\ Cardinality(StillPlaying) \in 0 .. PlayerCount
    BY FinitelyMany
  <2>3. CASE highest
    <3>1. j \in StillPlaying
      BY <1>1, <2>3 DEF StillPlaying
    <3>2. /\ IsFiniteSet(StillPlaying')
          /\ Cardinality(StillPlaying') = Cardinality(StillPlaying) - 1
      BY <1>5, <2>2, <2>3, <3>1, FS_RemoveElement
    <3>3. Cardinality(StillPlaying') \in Nat /\ Cardinality(StillPlaying') # 0
      BY <1>7, <3>2, FS_CardinalityType, FS_EmptySet
    <3>4. active_players' = active_players - 1
      BY <2>3 DEF Eliminate
    <3> QED BY <2>1, <2>2, <3>2, <3>3, <3>4, DiceAssumption
  <2>4. CASE ~highest
    <3>1. Cardinality(StillPlaying) # 0
      BY <1>6, <2>2, FS_EmptySet
    <3>2. active_players' = active_players
      BY <2>1, <2>2, <2>4, DiceAssumption DEF Eliminate
    <3> QED BY <1>5, <2>1, <2>2, <2>4, <3>1, <3>2, DiceAssumption
  <2> QED BY <2>3, <2>4
<1> USE DEF Goto, player, locals, barrier, mains
<1>9. pc' = [pc EXCEPT ![i] = IF j = PlayerCount - 1 THEN "wait" ELSE "eliminate"]
  BY DEF Eliminate
<1>10. UNCHANGED <<result, res, phase, ret, main, joined, freed, announced>>
  BY DEF Eliminate
<1>11. TypeOK'
  <2>1. playing' \in [Players -> BOOLEAN]
    BY <1>1 DEF Eliminate, TypeOK
  <2>2. /\ k' \in [Players -> 0 .. PlayerCount]
        /\ \A s \in Players : pc'[s] = "eliminate" => k'[s] \in Players
    <3>1. k' = [k EXCEPT ![i] = IF j = PlayerCount - 1 THEN 0 ELSE j + 1]
      BY DEF Eliminate
    <3> QED BY <1>1, <1>4, <1>9, <3>1, DiceAssumption DEF TypeOK, Players
  <2>3. max' \in [Players -> Results \cup {Undefined}]
    BY DEF Eliminate, TypeOK
  <2>4. pc' \in [Players -> Points]
    BY <1>9 DEF TypeOK, Points
  <2>5. active_players' \in 0 .. PlayerCount
    BY <1>8
  <2> QED BY <1>10, <2>1, <2>2, <2>3, <2>4, <2>5 DEF TypeOK, Barrier!TypeOK
<1>12. \A s \in Players : Verdict(s)' = Verdict(s)
  BY <1>1, <1>9, <1>10 DEF Verdict, TypeOK
<1>13. /\ FirstRound' <=> FirstRound
       /\ \A s \in Players : IsSerial(s)' <=> IsSerial(s)
  BY <1>12, SameVerdicts
<1>14. AtBarrier' /\ SameHalf'
  BY <1>1, <1>9, <1>10 DEF AtBarrier, SameHalf, InRolls, TypeOK, Barrier!TypeOK
<1>15. LeavesWhenDecided'
  BY <1>3, <1>9, <1>10 DEF LeavesWhenDecided, InRolls, TypeOK
<1>16. OneSerial'
  BY <1>1, <1>9, <1>12, <1>13 DEF OneSerial, TypeOK
<1>17. FirstRoundIsFull' /\ Creation' /\ Counted'
  <2>1. FirstRoundIsFull'
    BY <1>2, <1>13 DEF FirstRoundIsFull
  <2>2. Creation'
    BY <1>1, <1>2, <1>9, <1>10 DEF Creation, TypeOK
  <2>3. Counted'
    BY <1>2, <1>8, <1>10 DEF Counted
  <2> QED BY <2>1, <2>2, <2>3
<1>18. HasRolled'
  <2>1. \A s \in Players : playing'[s] => playing[s]
    BY <1>1 DEF Eliminate, TypeOK
  <2> QED BY <1>2, <1>10, <2>1 DEF HasRolled
<1>19. Indices'
  BY <1>1, <1>9 DEF Eliminate, Indices, TypeOK
<1>20. Survivor'
  <2>1. pc'[i] = "eliminate" => max'[i] = max[i]
    BY <1>1, <1>9 DEF Eliminate, TypeOK
  <2>2. \A s \in Players : pc'[s] = "eliminate" => s = i
    BY <1>4, <1>9 DEF TypeOK
  <2> QED BY <1>6, <1>7, <1>10, <2>1, <2>2 DEF Survivor
<1>21. Announced' /\ Joined'
  BY <1>1, <1>9, <1>10, <1>12 DEF Announced, Joined, TypeOK
<1> QED BY <1>11, <1>14, <1>15, <1>16, <1>17, <1>18, <1>19, <1>20, <1>21

\* The serial thread is the only one in get_winner_id, so what it prints is the
\* first and only line.
LEMMA WinnerInv ==
  ASSUME IInv, NEW i \in Players, Winner(i)
  PROVE  IInv'
<1> USE DEF IInv, player, locals, barrier, mains
<1>1. /\ pc[i] = "winner" /\ pc'[i] \in {"winner", "exited"}
      /\ pc' = [pc EXCEPT ![i] = pc'[i]]
  BY DEF Winner, TypeOK
<1>2. UNCHANGED <<playing, result, active_players, res, max, phase, ret, main,
                  joined, freed>>
  BY DEF Winner
<1>3. /\ Verdict(i) = Barrier!SERIAL
      /\ \A j \in Players : Verdict(j)' = Verdict(j)
  <2>1. Verdict(i) = Barrier!SERIAL
    BY <1>1 DEF OneSerial
  <2>2. \A j \in Players : Verdict(j)' = Verdict(j)
    BY <1>1, <1>2 DEF Verdict, TypeOK
  <2> QED BY <2>1, <2>2
<1>4. PICK s \in Players : IsSerial(s)
  BY <1>3 DEF OneSerial, FirstRound, Undefined, Barrier!SERIAL
<1>5. \A j \in Players : Verdict(j) = Barrier!SERIAL => j = i
  BY <1>3, <1>4 DEF IsSerial, Barrier!SERIAL
<1>6. /\ FirstRound' <=> FirstRound
      /\ \A j \in Players : IsSerial(j)' <=> IsSerial(j)
  BY <1>3, SameVerdicts
<1>7. announced = {} /\ \A j \in Players : j # i => pc[j] # "winner"
  BY <1>1, <1>5 DEF OneSerial, Announced
<1>8. /\ k' \in [Players -> 0 .. PlayerCount]
      /\ \A j \in Players : j # i => k'[j] = k[j]
  BY DiceAssumption DEF Winner, TypeOK
<1>9. \/ announced' = {} /\ pc'[i] = "winner"
      \/ pc'[i] = "exited" /\ \E w \in Players \cup {-1} : announced' = {w}
  <2>1. CASE k[i] = PlayerCount
    BY <1>1, <1>7, <2>1, DiceAssumption DEF Winner, TypeOK
  <2>2. CASE k[i] # PlayerCount
    <3>1. k[i] \in Players
      BY <2>2, DiceAssumption DEF TypeOK, Players
    <3> QED BY <1>1, <1>7, <2>2, <3>1 DEF Winner, TypeOK
  <2> QED BY <2>1, <2>2
<1>10. TypeOK'
  <2>1. pc' \in [Players -> Points]
    BY <1>1 DEF TypeOK, Points
  <2>2. \A j \in Players : pc'[j] = "eliminate" => k'[j] \in Players
    BY <1>1, <1>8 DEF TypeOK
  <2>3. announced' \subseteq Players \cup {-1}
    BY <1>9
  <2> QED BY <1>2, <1>8, <2>1, <2>2, <2>3 DEF TypeOK, Barrier!TypeOK
<1>11. AtBarrier' /\ SameHalf' /\ LeavesWhenDecided'
  BY <1>1, <1>2 DEF AtBarrier, SameHalf, InRolls, LeavesWhenDecided, TypeOK
<1>12. OneSerial'
  BY <1>1, <1>3, <1>6 DEF OneSerial, TypeOK
<1>13. FirstRoundIsFull' /\ Creation' /\ Counted' /\ HasRolled'
  <2>1. FirstRoundIsFull' /\ Counted'
    BY <1>2, <1>6 DEF FirstRoundIsFull, Counted, StillPlaying
  <2>2. Creation'
    BY <1>1, <1>2, <1>6 DEF Creation, TypeOK
  <2>3. HasRolled'
    BY <1>1, <1>2, <1>6 DEF HasRolled, TypeOK
  <2> QED BY <2>1, <2>2, <2>3
<1>14. Indices'
  BY <1>1, <1>8 DEF Indices, TypeOK
<1>15. Survivor'
  <2>1. StillPlaying' = StillPlaying
    BY <1>2 DEF StillPlaying
  <2> QED BY <1>1, <1>2, <2>1 DEF Survivor, TypeOK
<1>16. Announced'
  <2>1. CASE announced' = {} /\ pc'[i] = "winner"
    BY <1>1, <1>3, <1>5, <1>7, <2>1 DEF Announced, TypeOK, Barrier!SERIAL
  <2>2. CASE pc'[i] = "exited" /\ \E w \in Players \cup {-1} : announced' = {w}
    BY <1>1, <1>3, <1>7, <2>2 DEF Announced, TypeOK
  <2> QED BY <1>9, <2>1, <2>2
<1>17. Joined'
  BY <1>1, <1>2 DEF Joined, TypeOK
<1> QED
  BY <1>10, <1>11, <1>12, <1>13, <1>14, <1>15, <1>16, <1>17

\* The players are all created before the first round can begin.
LEMMA CreateInv ==
  ASSUME IInv, Create
  PROVE  IInv'
<1> USE DEF IInv, Goto, player, locals, barrier, mains
<1>1. /\ joined \in Players /\ joined \in Nat /\ joined < PlayerCount
      /\ main = "create" /\ pc[joined] = "none"
      /\ pc' = [pc EXCEPT ![joined] = "wait"]
      /\ playing' = [playing EXCEPT ![joined] = TRUE]
      /\ result' = [result EXCEPT ![joined] = 0]
  BY DiceAssumption DEF Create, TypeOK, Players
<1>2. UNCHANGED <<active_players, res, k, max, phase, ret, freed, announced>>
  BY DEF Create
<1>3. \/ joined = PlayerCount - 1 /\ joined' = 0 /\ main' = "join"
      \/ joined' = joined + 1 /\ joined' < PlayerCount /\ main' = "create"
  BY <1>1, DiceAssumption DEF Create
<1>4. \A j \in Players : Verdict(j)' = Verdict(j)
  BY <1>1, <1>2 DEF Verdict, TypeOK
<1>5. FirstRound /\ FirstRound'
  BY <1>1, <1>4, SameVerdicts DEF Creation
<1>6. \A j \in Players : pc[j] \notin {"scan", "eliminate", "winner"}
  BY <1>5 DEF OneSerial, FirstRound, Undefined, Barrier!SERIAL
<1>7. TypeOK'
  <2>1. joined' \in Players /\ main' \in {"create", "join", "done"}
    BY <1>1, <1>3, DiceAssumption DEF Players
  <2>2. pc' \in [Players -> Points]
    BY <1>1 DEF TypeOK, Points
  <2>3. result' \in [Players -> Results \cup {0, Undefined}]
    BY <1>1 DEF TypeOK
  <2>4. playing' \in [Players -> BOOLEAN]
    BY <1>1 DEF TypeOK
  <2>5. \A j \in Players : pc'[j] # "eliminate"
    BY <1>1, <1>6 DEF TypeOK
  <2> QED BY <1>2, <2>1, <2>2, <2>3, <2>4, <2>5 DEF TypeOK, Barrier!TypeOK
<1>8. AtBarrier' /\ SameHalf' /\ LeavesWhenDecided'
  BY <1>1, <1>2 DEF AtBarrier, SameHalf, InRolls, LeavesWhenDecided, TypeOK
<1>9. OneSerial' /\ FirstRoundIsFull'
  BY <1>1, <1>2, <1>5, <1>6 DEF OneSerial, FirstRoundIsFull, TypeOK
<1>10. Creation'
  <2>1. \A j \in Players : pc'[j] = "none" => main' = "create" /\ joined' <= j
    BY <1>1, <1>3 DEF Creation, TypeOK, Players
  <2>2. ASSUME main' = "create", NEW j \in Players
        PROVE  IF j < joined' THEN playing'[j] ELSE pc'[j] = "none"
    <3>1. joined' = joined + 1
      BY <1>3, <2>2
    <3>2. CASE j = joined
      BY <1>1, <3>1, <3>2 DEF TypeOK
    <3>3. CASE j # joined
      <4>1. playing'[j] = playing[j] /\ pc'[j] = pc[j]
        BY <1>1, <3>3 DEF TypeOK
      <4>2. j < joined' <=> j < joined
        BY <1>1, <3>1, <3>3 DEF Players
      <4>3. CASE j < joined
        BY <1>1, <4>1, <4>2, <4>3 DEF Creation
      <4>4. CASE ~(j < joined)
        BY <1>1, <4>1, <4>2, <4>4 DEF Creation
      <4> QED BY <4>3, <4>4
    <3> QED BY <3>2, <3>3
  <2> QED BY <1>5, <2>1, <2>2 DEF Creation
<1>11. Counted'
  <2>1. active_players' = PlayerCount /\ active_players' >= 1
    BY <1>1, <1>2 DEF Counted
  <2>2. CASE main' = "create"
    BY <2>1, <2>2 DEF Counted
  <2>3. CASE main' # "create"
    <3>1. joined = PlayerCount - 1
      BY <1>3, <2>3
    <3>2. \A j \in Players : j # joined => j < joined
      BY <3>1, DiceAssumption DEF Players
    <3>3. \A j \in Players : playing'[j]
      BY <1>1, <3>2 DEF Creation, TypeOK
    <3>4. StillPlaying' = Players
      BY <3>3 DEF StillPlaying
    <3> QED BY <2>1, <2>3, <3>4, FinitelyMany DEF Counted
  <2> QED BY <2>2, <2>3
<1>12. HasRolled'
  BY <1>1, <1>5 DEF HasRolled, TypeOK
<1>13. Indices' /\ Survivor'
  BY <1>1, <1>2, <1>6 DEF Indices, Survivor, TypeOK
<1>14. Announced'
  <2>1. announced = {}
    BY <1>5 DEF Announced, FirstRound, Undefined, Barrier!SERIAL
  <2>2. \A j \in Players : pc'[j] = "exited" => Verdict(j) = 0
    BY <1>1, <1>5, <2>1 DEF Announced, FirstRound, Undefined, Barrier!SERIAL, TypeOK
  <2> QED BY <1>2, <1>4, <2>1, <2>2 DEF Announced
<1>15. Joined'
  BY <1>1, <1>3 DEF Joined, Players
<1> QED
  BY <1>7, <1>8, <1>9, <1>10, <1>11, <1>12, <1>13, <1>14, <1>15

LEMMA JoinInv ==
  ASSUME IInv, Join
  PROVE  IInv'
<1> USE DEF IInv, player, locals, barrier
<1>1. /\ joined \in Players /\ joined \in Nat /\ joined < PlayerCount
      /\ main = "join" /\ pc[joined] = "exited"
  BY DiceAssumption DEF Join, TypeOK, Players
<1>2. UNCHANGED <<playing, result, active_players, pc, res, k, max, phase, ret,
                  announced>>
  BY DEF Join
<1>3. \/ joined = PlayerCount - 1 /\ joined' = 0 /\ main' = "done"
      \/ joined' = joined + 1 /\ joined' < PlayerCount /\ main' = "join"
  BY <1>1, DiceAssumption DEF Join
<1>4. \A j \in Players : Verdict(j)' = Verdict(j)
  BY <1>2 DEF Verdict
<1>5. /\ FirstRound' <=> FirstRound
      /\ \A s \in Players : IsSerial(s)' <=> IsSerial(s)
  BY <1>4, SameVerdicts
<1>6. TypeOK'
  <2>1. joined' \in Players /\ main' \in {"create", "join", "done"}
    BY <1>1, <1>3, DiceAssumption DEF Players
  <2>2. freed' \in [Players -> BOOLEAN]
    BY DEF Join, TypeOK
  <2> QED BY <1>2, <2>1, <2>2 DEF TypeOK, Barrier!TypeOK
<1>7. AtBarrier' /\ SameHalf' /\ LeavesWhenDecided' /\ OneSerial'
  BY <1>2, <1>4, <1>5
     DEF AtBarrier, SameHalf, InRolls, LeavesWhenDecided, OneSerial
<1>8. FirstRoundIsFull' /\ Creation' /\ Counted' /\ HasRolled'
  BY <1>1, <1>2, <1>3, <1>5
     DEF FirstRoundIsFull, Creation, Counted, HasRolled, StillPlaying
<1>9. Indices' /\ Survivor' /\ Announced'
  BY <1>2, <1>4 DEF Indices, Survivor, StillPlaying, Announced
<1>10. Joined'
  <2>1. CASE joined = PlayerCount - 1 /\ main' = "done"
    <3>1. \A j \in Players : j = joined \/ j < joined
      BY <2>1, DiceAssumption DEF Players
    <3> QED BY <1>1, <1>2, <2>1, <3>1 DEF Joined
  <2>2. CASE joined' = joined + 1 /\ main' = "join"
    <3>1. \A j \in Players : j < joined' => j = joined \/ j < joined
      BY <1>1, <2>2 DEF Players
    <3> QED BY <1>1, <1>2, <2>2, <3>1 DEF Joined
  <2> QED BY <1>3, <2>1, <2>2
<1> QED BY <1>6, <1>7, <1>8, <1>9, <1>10

\* All the threads are at the same wait when it opens, so they all change to
\* the other half, and when it is the second one of them becomes serial.
LEMMA TripInv ==
  ASSUME IInv, Trip
  PROVE  IInv'
<1> USE DEF IInv, player, locals, mains
<1>1. PICK s \in Players :
        /\ \A t \in Players : phase[t] = "arrived"
        /\ phase' = [t \in Players |-> IF t = s THEN "serial" ELSE "released"]
        /\ ret' = ret
  BY DEF Trip, Barrier!AnyTrip, Barrier!Trip
<1>2. UNCHANGED <<playing, result, active_players, pc, res, k, max, main,
                  joined, freed, announced>>
  BY DEF Trip
<1>3. \/ \A t \in Players : pc[t] = "waiting"
      \/ \A t \in Players : pc[t] = "waiting_rolls"
  <2>1. \A t \in Players : pc[t] \in {"waiting", "waiting_rolls"}
    BY <1>1 DEF AtBarrier
  <2>2. \A t, u \in Players : pc[t] = "waiting_rolls" => pc[u] # "waiting"
    BY <1>1 DEF SameHalf, InRolls
  <2> QED BY <2>1, <2>2
<1>4. TypeOK'
  <2>1. phase' \in [Players -> Barrier!Phases]
    BY <1>1 DEF Barrier!Phases
  <2> QED BY <1>1, <1>2, <2>1 DEF TypeOK, Barrier!TypeOK
<1>5. AtBarrier' /\ SameHalf'
  BY <1>1, <1>2, <1>3 DEF AtBarrier, SameHalf, InRolls
<1>6. LeavesWhenDecided'
  BY <1>1, <1>2 DEF LeavesWhenDecided
<1>7. main # "create"
  <2>1. main = "create" => pc[joined] = "none"
    BY DiceAssumption DEF Creation, TypeOK, Players
  <2>2. joined \in Players
    BY DEF TypeOK
  <2> QED BY <1>3, <2>1, <2>2
<1>8. Creation' /\ Counted' /\ Joined'
  BY <1>2, <1>3, <1>7 DEF Creation, Counted, StillPlaying, Joined
<1>9. Indices' /\ Survivor'
  BY <1>2, <1>3 DEF Indices, Survivor, StillPlaying
<1>10. CASE \A t \in Players : pc[t] = "waiting"
  <2>1. \A t \in Players : Verdict(t)' = Verdict(t)
    BY <1>2, <1>10 DEF Verdict
  <2>2. /\ FirstRound' <=> FirstRound
        /\ \A t \in Players : IsSerial(t)' <=> IsSerial(t)
    BY <2>1, SameVerdicts
  <2>3. OneSerial' /\ FirstRoundIsFull' /\ HasRolled'
    BY <1>2, <2>1, <2>2 DEF OneSerial, FirstRoundIsFull, HasRolled
  <2>4. Announced'
    BY <1>2, <2>1 DEF Announced
  <2> QED BY <1>4, <1>5, <1>6, <1>8, <1>9, <2>3, <2>4
<1>11. CASE \A t \in Players : pc[t] = "waiting_rolls"
  <2>1. \A t \in Players : Verdict(t)' = IF t = s THEN Barrier!SERIAL ELSE 0
    BY <1>1, <1>2, <1>11 DEF Verdict
  <2>2. IsSerial(s)' /\ ~FirstRound'
    BY <2>1 DEF IsSerial, FirstRound, Undefined, Barrier!SERIAL
  <2>3. OneSerial' /\ FirstRoundIsFull'
    BY <1>2, <1>11, <2>2 DEF OneSerial, FirstRoundIsFull
  <2>4. HasRolled'
    BY <1>2, <1>11 DEF HasRolled
  <2>5. Announced'
    BY <1>2, <1>11 DEF Announced
  <2> QED BY <1>4, <1>5, <1>6, <1>8, <1>9, <2>3, <2>4, <2>5
<1> QED BY <1>3, <1>10, <1>11

LEMMA StutterInv ==
  ASSUME IInv, UNCHANGED vars
  PROVE  IInv'
<1> USE DEF IInv, vars, player, locals, barrier, mains
<1>1. \A j \in Players : Verdict(j)' = Verdict(j)
  BY DEF Verdict
<1>2. /\ FirstRound' <=> FirstRound
      /\ \A s \in Players : IsSerial(s)' <=> IsSerial(s)
  BY <1>1, SameVerdicts
<1>3. TypeOK' /\ AtBarrier' /\ SameHalf' /\ LeavesWhenDecided'
  BY DEF TypeOK, Barrier!TypeOK, AtBarrier, SameHalf, InRolls, LeavesWhenDecided
<1>4. OneSerial' /\ FirstRoundIsFull' /\ Creation' /\ Counted' /\ HasRolled'
  BY <1>1, <1>2
     DEF OneSerial, FirstRoundIsFull, Creation, Counted, HasRolled, StillPlaying
<1>5. Indices' /\ Survivor' /\ Announced' /\ Joined'
  BY <1>1 DEF Indices, Survivor, StillPlaying, Announced, Joined
<1> QED BY <1>3, <1>4, <1>5

LEMMA NextInv == IInv /\ [Next]_vars => IInv'
<1> SUFFICES ASSUME IInv, [Next]_vars PROVE IInv'
  OBVIOUS
<1>1. ASSUME NEW i \in Players, run_player(i)
      PROVE  IInv'
  BY <1>1, EnterRoundInv, BeginRoundInv, TestInv, RollInv, EnterRollsInv,
     EndRollsInv, ScanInv, EliminateInv, DecideInv, WinnerInv DEF run_player
<1>2. CASE Create \/ Join \/ Trip
  BY <1>2, CreateInv, JoinInv, TripInv
<1>3. CASE Terminated \/ UNCHANGED vars
  BY <1>3, StutterInv DEF Terminated
<1> QED BY <1>1, <1>2, <1>3 DEF Next

---------------------------------------------------------------------------
\* The invariant holds for every number of players and every set of results.
THEOREM Invariance == Spec => []IInv
<1>1. Init => IInv
  BY InitInv
<1>2. IInv /\ [Next]_vars => IInv'
  BY NextInv
<1> QED BY <1>1, <1>2, PTL DEF Spec

\* eliminate_players runs alone: the comment on the first wait of run_player
\* is right that no other thread tests active_players or rolls meanwhile.
THEOREM NobodyRollsMeanwhile == Spec => []NobodyRollsDuringElimination
<1>1. IInv => NobodyRollsDuringElimination
  <2> SUFFICES ASSUME IInv, NEW i \in Players, NEW j \in Players,
                      pc[i] \in {"scan", "eliminate"}, j # i
               PROVE  pc[j] \notin {"test", "roll", "wait_rolls", "scan",
                                    "eliminate", "decide", "winner"}
    BY DEF NobodyRollsDuringElimination
  <2>1. ~InRolls(j)
    BY DEF IInv, SameHalf, InRolls
  <2>2. Verdict(i) = Barrier!SERIAL
    BY DEF IInv, OneSerial
  <2>3. Verdict(j) # Barrier!SERIAL
    BY <2>2 DEF IInv, OneSerial, FirstRound, IsSerial, Undefined, Barrier!SERIAL
  <2>4. pc[j] \notin {"scan", "eliminate"}
    BY <2>3 DEF IInv, OneSerial
  <2> QED BY <2>1, <2>4 DEF InRolls
<1> QED BY <1>1, Invariance, PTL

\* No round of eliminate_players takes everybody out of the game, and the
\* counter the loop tests is the number of players that are left.
THEOREM SomebodyStays == Spec => []SomebodyIsLeft
<1>1. IInv => SomebodyIsLeft
  BY DEF IInv, Counted, SomebodyIsLeft
<1> QED BY <1>1, Invariance, PTL

\* Nobody is left alone at one of the two waits by threads that found the game
\* decided.
THEOREM AllLeaveTogether == Spec => []LeaveTogether
<1>1. IInv => LeaveTogether
  <2> SUFFICES ASSUME IInv, NEW i \in Players,
                      pc[i] \in {"decide", "winner", "exited"}
               PROVE  /\ Cardinality(StillPlaying) = 1
                      /\ \A j \in Players :
                           \/ pc[j] \in {"test", "decide", "winner", "exited"}
                           \/ pc[j] = "waiting" /\ phase[j] \in {"released", "serial"}
    BY DEF LeaveTogether
  <2>1. active_players = 1
    BY DEF IInv, LeavesWhenDecided
  <2>2. main # "create"
    BY <2>1, DiceAssumption DEF IInv, Counted
  <2>3. Cardinality(StillPlaying) = 1
    BY <2>1, <2>2 DEF IInv, Counted
  <2>4. ASSUME NEW j \in Players
        PROVE  \/ pc[j] \in {"test", "decide", "winner", "exited"}
               \/ pc[j] = "waiting" /\ phase[j] \in {"released", "serial"}
    <3>1. InRolls(j)
      BY DEF IInv, SameHalf, InRolls
    <3>2. pc[j] = "waiting" => phase[j] # "out"
      BY DEF IInv, AtBarrier
    <3>3. phase[j] \in {"out", "arrived", "released", "serial"}
      BY DEF IInv, TypeOK, Barrier!TypeOK, Barrier!Phases
    <3> QED BY <2>1, <3>1, <3>2, <3>3 DEF IInv, InRolls, LeavesWhenDecided
  <2> QED BY <2>3, <2>4
<1> QED BY <1>1, Invariance, PTL

\* The serial thread of the last second wait announces, once, and nobody else.
THEOREM OneIsAnnounced == Spec => []OneAnnouncement
<1>1. IInv => OneAnnouncement
  <2> SUFFICES ASSUME IInv PROVE OneAnnouncement
    OBVIOUS
  <2>1. Cardinality(announced) <= 1
    <3>1. announced = {} \/ \E w \in announced : announced = {w}
      BY DEF IInv, Announced
    <3> QED BY <3>1, FS_EmptySet, FS_Singleton
  <2>2. Cardinality({i \in Players : pc[i] = "winner"}) <= 1
    <3> DEFINE W == {i \in Players : pc[i] = "winner"}
    <3>1. \A i, j \in W : i = j
      <4> SUFFICES ASSUME NEW i \in Players, NEW j \in Players,
                          pc[i] = "winner", pc[j] = "winner"
                   PROVE  i = j
        OBVIOUS
      <4>1. Verdict(i) = Barrier!SERIAL /\ Verdict(j) = Barrier!SERIAL
        BY DEF IInv, OneSerial
      <4>2. \E s \in Players : IsSerial(s)
        BY <4>1 DEF IInv, OneSerial, FirstRound, Undefined, Barrier!SERIAL
      <4> QED BY <4>1, <4>2 DEF IsSerial, Barrier!SERIAL
    <3>2. W = {} \/ \E i \in W : W = {i}
      BY <3>1
    <3>3. Cardinality(W) <= 1
      <4> HIDE DEF W
      <4>1. CASE W = {}
        <5>1. Cardinality({}) = 0
          BY FS_EmptySet
        <5> QED BY <4>1, <5>1
      <4>2. CASE \E i \in W : W = {i}
        <5>1. PICK i \in W : W = {i}
          BY <4>2
        <5>2. Cardinality({i}) = 1
          BY FS_Singleton
        <5> QED BY <5>1, <5>2
      <4> QED BY <3>2, <4>1, <4>2
    <3> QED BY <3>3
  <2>3. main = "done" => announced # {}
    <3> SUFFICES ASSUME main = "done", announced = {} PROVE FALSE
      OBVIOUS
    <3>1. \A i \in Players : pc[i] = "exited" /\ Verdict(i) = 0
      BY DEF IInv, Joined, Announced
    <3>2. 0 \in Players
      BY DiceAssumption DEF Players
    <3> QED BY <3>1, <3>2 DEF IInv, OneSerial, FirstRound, IsSerial, Undefined, Barrier!SERIAL
  <2>4. \A i \in Players : pc[i] = "decide" => res[i] # Undefined
    <3> SUFFICES ASSUME NEW i \in Players, pc[i] = "decide" PROVE res[i] # Undefined
      OBVIOUS
    <3>1. ~FirstRound
      BY DiceAssumption DEF IInv, LeavesWhenDecided, FirstRoundIsFull
    <3>2. Verdict(i) = res[i]
      BY DEF Verdict
    <3> QED BY <3>1, <3>2 DEF IInv, OneSerial, IsSerial, Undefined, Barrier!SERIAL
  <2> QED BY <2>1, <2>2, <2>3, <2>4 DEF OneAnnouncement
<1> QED BY <1>1, Invariance, PTL

=============================================================================
