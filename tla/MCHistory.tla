------------------------------ MODULE MCHistory ------------------------------
(* Up to six bets on pages of one to three, and a bet of two slips whose   *)
(* cashout changes with the first void slip and is gone with the second.   *)
EXTENDS History, TLC
CONSTANTS x1, x2

MCResults == {BET_LOST}
MCLadder  == 0 :> 5 @@ 1 :> 7 @@ 2 :> 0
=============================================================================
