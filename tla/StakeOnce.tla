----------------------------- MODULE StakeOnce ------------------------------
(***************************************************************************)
(* What placing and answering bets promises about stakes: the stake of a   *)
(* bet is taken at most once, before the bet is sent; only a bet that was  *)
(* sent gets a verdict; the stake is given back at most once, and only to  *)
(* carry out a rejection that was the first verdict on the bet.  Carrying  *)
(* it out may be abandoned: the process can fail or stop on the way.       *)
(***************************************************************************)
EXTENDS Naturals

CONSTANT
  Bets        (* ids of the bets                                           *)

VARIABLES
  taken,      (* taken[b]: how often the stake of b was taken              *)
  sent,       (* the bets sent to be judged                                *)
  verdict,    (* verdict[b]: "none", or the last verdict noted             *)
  due,        (* the bets whose rejection is being carried out             *)
  returned    (* returned[b]: how often the stake of b was given back      *)

stakes == <<taken, sent, verdict, due, returned>>

Init ==
  /\ taken = [b \in Bets |-> 0] /\ returned = [b \in Bets |-> 0]
  /\ verdict = [b \in Bets |-> "none"]
  /\ sent = {} /\ due = {}

Take(b) ==
  /\ taken[b] = 0 /\ b \notin sent
  /\ taken' = [taken EXCEPT ![b] = 1]
  /\ UNCHANGED <<sent, verdict, due, returned>>

Send(b) ==
  /\ b \notin sent
  /\ sent' = sent \cup {b}
  /\ UNCHANGED <<taken, verdict, due, returned>>

(* An acceptance may come late and hide a rejection.                       *)
Accept(b) ==
  /\ b \in sent
  /\ verdict' = [verdict EXCEPT ![b] = "accepted"]
  /\ UNCHANGED <<taken, sent, due, returned>>

Reject(b) ==
  /\ b \in sent /\ verdict[b] = "none"
  /\ verdict' = [verdict EXCEPT ![b] = "rejected"]
  /\ due' = due \cup {b}
  /\ UNCHANGED <<taken, sent, returned>>

GiveBack(b) ==
  /\ b \in due /\ returned[b] = 0
  /\ returned' = [returned EXCEPT ![b] = 1]
  /\ due' = due \ {b}
  /\ UNCHANGED <<taken, sent, verdict>>

Abandon ==
  /\ due' \in SUBSET due
  /\ UNCHANGED <<taken, sent, verdict, returned>>

Next == \/ \E b \in Bets : \/ Take(b) \/ Send(b) \/ Accept(b) \/ Reject(b)
                           \/ GiveBack(b)
        \/ Abandon

Spec == Init /\ [][Next]_stakes
=============================================================================
