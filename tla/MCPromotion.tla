---------------------------- MODULE MCPromotion ----------------------------
(* A small epic on which TLC runs Promotion: 2 waits for 1, which has no manifest; 3     *)
(* waits for 1 and 2, and Linear may refuse what is asked for it; 4 waits for nothing    *)
(* and has no issue in Linear.                                                           *)
EXTENDS Promotion

EpicTickets == 1 .. 4
EpicBlockers == [t \in EpicTickets |-> IF t = 4 THEN {} ELSE 1 .. t - 1]
=============================================================================
