------------------------- MODULE MCMyPthreadBarrier -------------------------
(***************************************************************************)
(* Three participants, and a generation that wraps every three rounds, so  *)
(* that a thread still on its way out meets later generations and the      *)
(* overflow of the counter.                                                *)
(***************************************************************************)
EXTENDS MyPthreadBarrier

MCIntMin == -1
MCIntMax == 1
=============================================================================
