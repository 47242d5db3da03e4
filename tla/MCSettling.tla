----------------------------- MODULE MCSettling -----------------------------
(* Settling on small instances: a single, or a double on two outcomes,     *)
(* each the only one of its market.  Outcomes are interchangeable, and so  *)
(* are messages of a kind.                                                 *)
EXTENDS Settling, TLC

CONSTANTS x, y

OneSingle    == [b \in Bets |-> {x}]
OneDouble    == [b \in Bets |-> {x, y}]
OneMarket    == [o \in {x} |-> o]
OwnMarket    == [o \in {x, y} |-> o]
OneEvent     == [o \in {x} |-> "event"]
SameEvent    == [o \in {x, y} |-> "event"]
MessageSymmetry == Permutations({x, y}) \cup Permutations(Settles)
=============================================================================
