----------------------------- MODULE MCDiceGame -----------------------------
(***************************************************************************)
(* Three players and two results: enough for ties, for one or two players  *)
(* eliminated in a round, and for a game of several rounds.                *)
(***************************************************************************)
EXTENDS DiceGame

MCResults == {2, 3}
=============================================================================
