------------------------------ MODULE DiceGame ------------------------------
(***************************************************************************)
(* The dice game of exercise09/task_2 (with pthread_barrier_t) and         *)
(* exercise09/task_3 (the same program with my_pthread_barrier_t): one     *)
(* thread per player, one barrier they all use twice a round, and no other *)
(* synchronisation. The serial thread of the second wait eliminates the    *)
(* players with the highest result; the main thread creates the players,   *)
(* joins them in order, and frees what belonged to each.                   *)
(*                                                                         *)
(* The barrier is the abstract one, which MyPthreadBarrier implements.     *)
(* Allocations and thread creations succeed.                               *)
(***************************************************************************)
EXTENDS Integers, FiniteSets

CONSTANTS
  PlayerCount,      \* the program's argument
  Results           \* the sums two dice can show

ASSUME DiceAssumption ==
  /\ PlayerCount \in Nat /\ PlayerCount >= 2
  /\ Results \subseteq Int /\ Results # {}

Players == 0 .. PlayerCount - 1

VARIABLES
  playing, result,  \* player_t of each player
  freed,            \* whether main has freed it
  active_players,   \* the counter they share
  pc,               \* where each player thread is
  res,              \* its local res: what its last second wait returned
  k,                \* its local loop index
  max,              \* its local max, in eliminate_players
  phase, ret,       \* the barrier
  main, joined,     \* the main thread, and the index of its loops
  announced         \* the winners printed; -1 is the error message

player == <<playing, result>>
locals == <<res, k, max>>
barrier == <<phase, ret>>
mains == <<main, joined, freed>>

vars == <<player, freed, active_players, pc, locals, barrier, main, joined,
          announced>>

Barrier == INSTANCE ThreadBarrier WITH Threads <- Players

\* A local variable without a value yet.
Undefined == -2

Points == {"none", "wait", "waiting", "test", "roll", "wait_rolls",
           "waiting_rolls", "scan", "eliminate", "decide", "winner", "exited"}

Init ==
  /\ playing = [i \in Players |-> FALSE]
  /\ result = [i \in Players |-> Undefined]
  /\ freed = [i \in Players |-> FALSE]
  /\ active_players = PlayerCount
  /\ pc = [i \in Players |-> "none"]
  /\ res = [i \in Players |-> Undefined]
  /\ k = [i \in Players |-> 0]
  /\ max = [i \in Players |-> Undefined]
  /\ Barrier!Init
  /\ main = "create"
  /\ joined = 0
  /\ announced = {}

Goto(i, from, to) ==
  /\ pc[i] = from
  /\ pc' = [pc EXCEPT ![i] = to]

StillPlaying == {i \in Players : playing[i]}

---------------------------------------------------------------------------
\* run_player, the loop

\* Mutant: without the first barrier of the round.
EnterRoundAtOnce(i) ==
  /\ Goto(i, "wait", "test")
  /\ UNCHANGED <<player, active_players, locals, barrier, mains, announced>>

EnterRound(i) ==
  /\ Goto(i, "wait", "waiting")
  /\ Barrier!Arrive(i)
  /\ UNCHANGED <<player, active_players, locals, mains, announced>>

BeginRound(i) ==
  /\ Goto(i, "waiting", "test")
  /\ Barrier!Return(i)
  /\ UNCHANGED <<player, active_players, locals, mains, announced>>

\* Mutant: a player that is out of the game leaves the loop.
TestLeavingWhenOut(i) ==
  /\ Goto(i, "test",
          IF active_players = 1 \/ ~playing[i] THEN "decide" ELSE "roll")
  /\ UNCHANGED <<player, active_players, locals, barrier, mains, announced>>

\* Mutant: the loop waits for nobody to be left.
TestForNobody(i) ==
  /\ Goto(i, "test", IF active_players = 0 THEN "decide" ELSE "roll")
  /\ UNCHANGED <<player, active_players, locals, barrier, mains, announced>>

Test(i) ==
  /\ Goto(i, "test", IF active_players = 1 THEN "decide" ELSE "roll")
  /\ UNCHANGED <<player, active_players, locals, barrier, mains, announced>>

\* Eliminated players take part in every wait, but no longer roll.
Roll(i) ==
  /\ Goto(i, "roll", "wait_rolls")
  /\ \E r \in Results :
       result' = IF playing[i] THEN [result EXCEPT ![i] = r] ELSE result
  /\ UNCHANGED <<playing, active_players, locals, barrier, mains, announced>>

EnterRolls(i) ==
  /\ Goto(i, "wait_rolls", "waiting_rolls")
  /\ Barrier!Arrive(i)
  /\ UNCHANGED <<player, active_players, locals, mains, announced>>

EndRolls(i) ==
  /\ Barrier!Return(i)
  /\ res' = [res EXCEPT ![i] = ret'[i]]
  /\ Goto(i, "waiting_rolls",
          IF res'[i] = Barrier!SERIAL THEN "scan" ELSE "wait")
  /\ UNCHANGED <<player, active_players, k, max, mains, announced>>

---------------------------------------------------------------------------
\* eliminate_players

Rolled == {result[i] : i \in StillPlaying}

max_result == CHOOSE r \in Rolled : \A s \in Rolled : s <= r
min_result == CHOOSE r \in Rolled : \A s \in Rolled : s >= r

\* Mutant: a tie eliminates everybody.
ScanWithoutTie(i) ==
  /\ Goto(i, "scan", "eliminate")
  /\ max' = [max EXCEPT ![i] = max_result]
  /\ UNCHANGED <<player, active_players, res, k, barrier, mains, announced>>

\* When all rolled the same the round is repeated.
Scan(i) ==
  /\ pc[i] = "scan"
  /\ IF min_result = max_result
     THEN Goto(i, "scan", "wait") /\ UNCHANGED max
     ELSE Goto(i, "scan", "eliminate") /\ max' = [max EXCEPT ![i] = max_result]
  /\ UNCHANGED <<player, active_players, res, k, barrier, mains, announced>>

\* One turn of the loop over the players; the locals end with the function.
Eliminate(i) ==
  LET j == k[i]
      highest == playing[j] /\ result[j] = max[i]
      last == j = PlayerCount - 1
  IN
  /\ pc[i] = "eliminate"
  /\ playing' = [playing EXCEPT ![j] = @ /\ ~highest]
  /\ active_players' = active_players - (IF highest THEN 1 ELSE 0)
  /\ Goto(i, "eliminate", IF last THEN "wait" ELSE "eliminate")
  /\ k' = [k EXCEPT ![i] = IF last THEN 0 ELSE @ + 1]
  /\ max' = [max EXCEPT ![i] = IF last THEN Undefined ELSE @]
  /\ UNCHANGED <<result, res, barrier, mains, announced>>

---------------------------------------------------------------------------
\* run_player, after the loop

\* Mutant: every thread announces.
DecideAlways(i) ==
  /\ Goto(i, "decide", "winner")
  /\ UNCHANGED <<player, active_players, locals, barrier, mains, announced>>

\* res is still that of the last round's second wait.
Decide(i) ==
  /\ Goto(i, "decide", IF res[i] = Barrier!SERIAL THEN "winner" ELSE "exited")
  /\ UNCHANGED <<player, active_players, locals, barrier, mains, announced>>

\* What a read of players[j]->playing may yield: anything once it is freed.
ReadPlaying(j) == IF freed[j] THEN BOOLEAN ELSE {playing[j]}

\* One turn of the loop of get_winner_id, and the announcement.
Winner(i) ==
  /\ pc[i] = "winner"
  /\ \/ /\ k[i] < PlayerCount
        /\ \E found \in ReadPlaying(k[i]) :
             IF found
             THEN /\ announced' = announced \cup {k[i]}
                  /\ pc' = [pc EXCEPT ![i] = "exited"]
                  /\ UNCHANGED k
             ELSE /\ k' = [k EXCEPT ![i] = @ + 1]
                  /\ UNCHANGED <<announced, pc>>
     \/ /\ k[i] = PlayerCount
        /\ announced' = announced \cup {-1}
        /\ pc' = [pc EXCEPT ![i] = "exited"]
        /\ UNCHANGED k
  /\ UNCHANGED <<player, active_players, res, max, barrier, mains>>

---------------------------------------------------------------------------
\* main

Create ==
  /\ main = "create"
  /\ playing' = [playing EXCEPT ![joined] = TRUE]
  /\ result' = [result EXCEPT ![joined] = 0]
  /\ Goto(joined, "none", "wait")
  /\ joined' = (joined + 1) % PlayerCount
  /\ main' = IF joined' = 0 THEN "join" ELSE "create"
  /\ UNCHANGED <<active_players, locals, barrier, freed, announced>>

\* Join the next player and free its player_t at once.
Join ==
  /\ main = "join"
  /\ pc[joined] = "exited"
  /\ freed' = [freed EXCEPT ![joined] = TRUE]
  /\ joined' = (joined + 1) % PlayerCount
  /\ main' = IF joined' = 0 THEN "done" ELSE "join"
  /\ UNCHANGED <<player, active_players, pc, locals, barrier, announced>>

Trip ==
  /\ Barrier!AnyTrip
  /\ UNCHANGED <<player, active_players, pc, locals, mains, announced>>

Terminated == main = "done" /\ UNCHANGED vars

---------------------------------------------------------------------------
run_player(i) ==
  \/ EnterRound(i) \/ BeginRound(i) \/ Test(i) \/ Roll(i)
  \/ EnterRolls(i) \/ EndRolls(i) \/ Scan(i) \/ Eliminate(i)
  \/ Decide(i) \/ Winner(i)

Next ==
  \/ \E i \in Players : run_player(i)
  \/ Create \/ Join \/ Trip \/ Terminated

\* Threads run, and a full barrier opens. The dice promise nothing.
Fairness ==
  /\ \A i \in Players : WF_vars(run_player(i))
  /\ WF_vars(Create \/ Join)
  /\ WF_vars(Trip)

Spec == Init /\ [][Next]_vars /\ Fairness

---------------------------------------------------------------------------
\* The types, and that the loop over the players stays within the array.
TypeOK ==
  /\ playing \in [Players -> BOOLEAN]
  /\ result \in [Players -> Results \cup {0, Undefined}]
  /\ freed \in [Players -> BOOLEAN]
  /\ active_players \in 0 .. PlayerCount
  /\ pc \in [Players -> Points]
  /\ res \in [Players -> {0, Barrier!SERIAL, Undefined}]
  /\ k \in [Players -> 0 .. PlayerCount]
  /\ \A i \in Players : pc[i] = "eliminate" => k[i] \in Players
  /\ max \in [Players -> Results \cup {Undefined}]
  /\ Barrier!TypeOK
  /\ main \in {"create", "join", "done"}
  /\ joined \in Players
  /\ announced \subseteq Players \cup {-1}

\* While the serial thread takes players out of the game nobody reads whether
\* it is over and nobody rolls: what the comment on the first wait promises.
NobodyRollsDuringElimination ==
  \A i, j \in Players :
    pc[i] \in {"scan", "eliminate"} /\ j # i =>
      pc[j] \notin {"test", "roll", "wait_rolls", "scan", "eliminate",
                    "decide", "winner"}

\* The counter is the number of players that still play, and somebody does: no
\* round, whatever its results, eliminates everybody. The types hold with it.
SomebodyIsLeft ==
  /\ TypeOK
  /\ main # "create" => active_players = Cardinality(StillPlaying)
  /\ active_players >= 1

\* The loop is left by all threads in the same round or by none: when one has
\* left it the others are past the last barrier too, so nobody is left alone
\* at a barrier that can never fill.
LeaveTogether ==
  (\E i \in Players : pc[i] \in {"decide", "winner", "exited"}) =>
    /\ Cardinality(StillPlaying) = 1
    /\ \A j \in Players :
         \/ pc[j] \in {"test", "decide", "winner", "exited"}
         \/ pc[j] = "waiting" /\ phase[j] \in {"released", "serial"}

\* At the end exactly one line has been printed, by the serial thread of the
\* last round, and nobody decided from a res that was never assigned.
OneAnnouncement ==
  /\ Cardinality(announced) <= 1
  /\ Cardinality({i \in Players : pc[i] = "winner"}) <= 1
  /\ main = "done" => announced # {}
  /\ \A i \in Players : pc[i] = "decide" => res[i] # Undefined

\* The winner that is printed is the player that is left.
WinnerIsTheOneLeft == announced \subseteq StillPlaying

\* When one player is left the program ends.
DecidedGameEnds == active_players = 1 ~> main = "done"
=============================================================================
