------------------------------- MODULE MCGames -------------------------------
(* A casino transaction of up to two bets with two settlements (one of     *)
(* smart-soft), a cancellation and a closing of its round; a virtual round *)
(* of two transactions, and a ticket that is placed twice.                 *)
EXTENDS Games, TLC
CONSTANTS b1, b2, t1, r1, v1, v2, v3, x1, x2, y1

MCTxOf     == b1 :> t1 @@ b2 :> t1
MCRoundOf  == t1 :> r1
MCVRoundOf == v1 :> y1 @@ v2 :> y1 @@ v3 :> y1
MCVTxOf    == v1 :> x1 @@ v2 :> x1 @@ v3 :> x2
=============================================================================
