----------------------------- MODULE MCClosing -----------------------------
(* Closing on small instances: the bets are interchangeable model values.  *)
EXTENDS Closing, TLC

BetSymmetry == Permutations(Bets \ BonusBets)
=============================================================================
