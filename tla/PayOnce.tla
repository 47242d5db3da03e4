------------------------------ MODULE PayOnce -------------------------------
(***************************************************************************)
(* What the closing of bets promises about money: the winnings of a bet    *)
(* are recorded at most once, and only then, at most once, is the wallet   *)
(* credited, with the amount that was recorded.  A recorded winning may    *)
(* stay uncredited: the process can stop between the two.                  *)
(***************************************************************************)
EXTENDS Sequences

CONSTANTS
  Bets,       (* ids of the bets                                           *)
  BonusBets,  (* the bets staked with a bonus: the bonus service decides   *)
              (* what they are paid                                        *)
  Amounts     (* amounts a winning can be recorded with                    *)

VARIABLES
  recorded,   (* recorded[b]: the amount recorded for b, or "none"         *)
  ledger      (* ledger[b]: the amounts credited for b, in order           *)

Init ==
  /\ recorded = [b \in Bets |-> "none"]
  /\ ledger   = [b \in Bets |-> <<>>]

Record(b, a) ==
  /\ recorded[b] = "none"
  /\ recorded' = [recorded EXCEPT ![b] = a]
  /\ UNCHANGED ledger

Pay(b, a) ==
  /\ recorded[b] # "none"
  /\ ledger[b] = <<>>
  /\ a = recorded[b] \/ (b \in BonusBets /\ a = "bonus")
  /\ ledger' = [ledger EXCEPT ![b] = <<a>>]
  /\ UNCHANGED recorded

Next == \E b \in Bets, a \in Amounts : Record(b, a) \/ Pay(b, a)

Spec == Init /\ [][Next]_<<recorded, ledger>>
=============================================================================
