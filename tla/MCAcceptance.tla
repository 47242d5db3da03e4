---------------------------- MODULE MCAcceptance ----------------------------
(* Acceptance on small instances: the answers of the MTS are               *)
(* interchangeable, and so are the bets that are staked.                   *)
EXTENDS Acceptance, TLC

AnswerSymmetry == Permutations(Answers) \cup Permutations(Bets \ Booked)
=============================================================================
