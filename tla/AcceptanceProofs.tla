-------------------------- MODULE AcceptanceProofs --------------------------
(***************************************************************************)
(* Proofs about Acceptance, for any number of bets, answers, failures and  *)
(* crashes.                                                                *)
(*                                                                         *)
(*   TypeCorrect   TypeOK is inductive by itself.                          *)
(*   Refunds       RefundedOnceAndOut, strengthened with Claim: the        *)
(*                 handler that inserted a bet's row in bet_status is the  *)
(*                 only one at work on it, and has not paid yet.           *)
(*   Stakes        OnlyInterruptionsLoseStakes, from the same invariant.   *)
(***************************************************************************)
EXTENDS Acceptance, TLAPS

(* The codes are different numbers; nothing else about them is needed.     *)
LEMMA Codes == BET_PENDING = 0 /\ BET_CANCELLED = -1
BY DEF BET_PENDING, BET_CANCELLED

-----------------------------------------------------------------------------
(* What placeBet, the handlers and the interruptions write is well typed.  *)

LEMMA TypeInit == Init => TypeOK
BY InstanceAssumption DEF Init, TypeOK, PlaceLabels, RejectLabels, At

LEMMA TypePlace ==
  ASSUME TypeOK, NEW b \in Bets, Place(b) \/ PlacementFails(b)
  PROVE  TypeOK'
<1> USE InstanceAssumption DEF TypeOK, PlaceLabels, RequestGoto, At, tables, wallet, counters
<1>1. CASE Refuse(b)
  BY <1>1 DEF Refuse
<1>2. CASE SaveBet(b)
  BY <1>2 DEF SaveBet
<1>3. CASE SaveSlips(b)
  BY <1>3 DEF SaveSlips
<1>4. CASE Debit(b)
  BY <1>4 DEF Debit
<1>5. CASE Publish(b)
  BY <1>5 DEF Publish
<1>6. CASE PlacementFails(b)
  BY <1>6 DEF PlacementFails
<1> QED
  BY <1>1, <1>2, <1>3, <1>4, <1>5, <1>6 DEF Place

(* A handler that goes on stays with a bet that was sent.                  *)
AnswersOK ==
  /\ answer \in [Answers -> [at  : RejectLabels \cup
                                     {"unsent", "accept", "acked"},
                             bet : Bets \cup {"none"}]]
  /\ \A m \in Answers : answer[m].at # "unsent" => answer[m].bet \in sent

LEMMA GotoOK ==
  ASSUME AnswersOK, NEW m \in Answers, answer[m].at # "unsent",
         NEW l \in RejectLabels \cup {"accept", "acked"},
         Goto(m, l), UNCHANGED sent
  PROVE  AnswersOK'
BY DEF AnswersOK, Goto, RejectLabels

LEMMA TypeAnswer ==
  ASSUME TypeOK, NEW m \in Answers,
         MtsAnswers(m) \/ Accept(m) \/ Reject(m) \/ HandlerFails(m)
  PROVE  TypeOK'
<1>0. AnswersOK
  BY DEF TypeOK, AnswersOK, At
<1> DEFINE RestOK ==
      /\ request \in [Bets -> PlaceLabels]
      /\ \A b \in Booked : request[b] \notin {"debit", "publish"}
      /\ bet \in [Bets -> {BET_PENDING, BET_CANCELLED}]
      /\ slips \in [Bets -> {BET_PENDING, BET_CANCELLED}]
      /\ betStatus \in [Bets -> {0, 1, BET_CANCELLED}]
      /\ sent \subseteq Bets \ Booked
      /\ debits \in [Bets -> Nat] /\ refunds \in [Bets -> Nat]
      /\ faults \in Nat /\ crashes \in Nat
<1>a. ASSUME RestOK', AnswersOK' PROVE TypeOK'
  BY <1>a DEF TypeOK, AnswersOK, At
<1>b. RestOK
  BY DEF TypeOK
<1> USE DEF At, tables, wallet, counters, RejectLabels
<1>1. CASE MtsAnswers(m)
  <2>1. AnswersOK'
    BY <1>0, <1>1, <1>b DEF MtsAnswers, AnswersOK
  <2> QED
    BY <1>1, <1>a, <1>b, <2>1 DEF MtsAnswers
<1>2. CASE Accept(m)
  <2>1. AnswersOK'
    BY <1>0, <1>2, GotoOK DEF Accept
  <2>2. RestOK'
    BY <1>2, <1>b DEF Accept
  <2> QED
    BY <1>a, <2>1, <2>2
<1>3. CASE RejectFind(m)
  <2>1. AnswersOK'
    BY <1>0, <1>3, GotoOK DEF RejectFind
  <2>2. RestOK'
    BY <1>3, <1>b DEF RejectFind
  <2> QED
    BY <1>a, <2>1, <2>2
<1>4. CASE RejectSave(m)
  <2>1. AnswersOK'
    BY <1>0, <1>4, GotoOK DEF RejectSave
  <2>2. betStatus' = betStatus
          \/ betStatus' = [betStatus EXCEPT ![answer[m].bet] = BET_CANCELLED]
    BY <1>4 DEF RejectSave
  <2>3. betStatus' \in [Bets -> {0, 1, BET_CANCELLED}]
    BY <1>b, <2>2
  <2>4. RestOK'
    BY <1>4, <1>b, <2>3 DEF RejectSave
  <2> QED
    BY <1>a, <2>1, <2>4
<1>5. CASE RejectSlips(m)
  <2>1. AnswersOK'
    BY <1>0, <1>5, GotoOK DEF RejectSlips
  <2>2. RestOK'
    BY <1>5, <1>b DEF RejectSlips
  <2> QED
    BY <1>a, <2>1, <2>2
<1>6. CASE RejectBet(m)
  <2>1. AnswersOK'
    BY <1>0, <1>6, GotoOK DEF RejectBet
  <2>2. RestOK'
    BY <1>6, <1>b DEF RejectBet
  <2> QED
    BY <1>a, <2>1, <2>2
<1>7. CASE RejectCredit(m)
  <2>1. AnswersOK'
    BY <1>0, <1>7, GotoOK DEF RejectCredit
  <2>2. refunds' = refunds
          \/ refunds' = [refunds EXCEPT ![answer[m].bet] = @ + 1]
    BY <1>7 DEF RejectCredit
  <2>3. refunds' \in [Bets -> Nat]
    BY <1>b, <2>2
  <2>4. RestOK'
    BY <1>7, <1>b, <2>3 DEF RejectCredit
  <2> QED
    BY <1>a, <2>1, <2>4
<1>8. CASE HandlerFails(m)
  <2>1. AnswersOK'
    BY <1>0, <1>8, GotoOK DEF HandlerFails
  <2>2. refunds' = refunds
          \/ refunds' = [refunds EXCEPT ![answer[m].bet] = @ + 1]
    BY <1>8 DEF HandlerFails
  <2>3. refunds' \in [Bets -> Nat]
    BY <1>b, <2>2
  <2>4. RestOK'
    BY <1>8, <1>b, <2>3 DEF HandlerFails
  <2> QED
    BY <1>a, <2>1, <2>4
<1> QED
  BY <1>1, <1>2, <1>3, <1>4, <1>5, <1>6, <1>7, <1>8 DEF Reject

LEMMA TypeCrash ==
  ASSUME TypeOK, Crash
  PROVE  TypeOK'
<1> USE DEF TypeOK, Crash
<1>1. request' \in [Bets -> PlaceLabels]
  BY DEF PlaceLabels
<1>2. \A b \in Booked : request'[b] \notin {"debit", "publish"}
  BY InstanceAssumption
<1>3. answer' \in [Answers -> [at  : RejectLabels \cup
                                     {"unsent", "accept", "acked"},
                              bet : Bets \cup {"none"}]]
  BY DEF RejectLabels
<1>4. \A m \in Answers : answer'[m].at # "unsent" => answer'[m].bet \in sent'
  BY DEF RejectLabels, At
<1>5. UNCHANGED <<bet, slips, betStatus, sent, debits, refunds, faults>>
  BY DEF tables, wallet
<1>6. crashes' \in Nat
  OBVIOUS
<1> QED
  BY <1>1, <1>2, <1>3, <1>4, <1>5, <1>6 DEF At

LEMMA TypeStep == TypeOK /\ [Next]_vars => TypeOK'
<1> SUFFICES ASSUME TypeOK, [Next]_vars PROVE TypeOK'
  OBVIOUS
<1>1. CASE UNCHANGED vars
  BY <1>1 DEF TypeOK, vars, tables, wallet, counters, At
<1> QED
  BY <1>1, TypePlace, TypeAnswer, TypeCrash DEF Next

(* The tables, the wallet and the handlers hold what they may, however     *)
(* many bets, answers, failures and crashes there are.                     *)
THEOREM TypeCorrect == Spec => []TypeOK
<1>1. Init => TypeOK
  BY TypeInit
<1>2. TypeOK /\ [Next]_vars => TypeOK'
  BY TypeStep
<1> QED
  BY <1>1, <1>2, PTL DEF Spec

-----------------------------------------------------------------------------
(* A handler has the claim on its bet from the row it inserted to the      *)
(* stake it gives back.                                                    *)
Claims(m) == answer[m].at \in {"slips", "bet", "credit"}

(* The handler with the claim is alone with it, has marked the bet and its *)
(* slips before it pays, and its bet has a row in bet_status, as has every *)
(* bet that was paid back: no other handler gets past that row.            *)
Claim ==
  /\ \A m \in Answers : Claims(m) =>
       /\ HasStatus(answer[m].bet)
       /\ refunds[answer[m].bet] = 0
       /\ answer[m].at # "slips" => slips[answer[m].bet] = BET_CANCELLED
       /\ answer[m].at = "credit" => bet[answer[m].bet] = BET_CANCELLED
  /\ \A m, n \in Answers :
       Claims(m) /\ Claims(n) /\ answer[m].bet = answer[n].bet => m = n
  /\ \A b \in Bets : refunds[b] > 0 => HasStatus(b)

IInv == TypeOK /\ RefundedOnceAndOut /\ Claim

LEMMA ClaimInit == Init => RefundedOnceAndOut /\ Claim
BY DEF Init, RefundedOnceAndOut, Claim, Claims

(* placeBet touches nothing the claim is about.                            *)
LEMMA ClaimPlace ==
  ASSUME IInv, NEW b \in Bets, Place(b) \/ PlacementFails(b)
  PROVE  RefundedOnceAndOut' /\ Claim'
<1>1. UNCHANGED <<bet, slips, betStatus, answer, refunds>>
  BY DEF Place, Refuse, SaveBet, SaveSlips, Debit, Publish, PlacementFails,
         tables, wallet, counters
<1> QED
  BY <1>1 DEF IInv, RefundedOnceAndOut, Claim, Claims, HasStatus

LEMMA ClaimAnswer ==
  ASSUME IInv, NEW m \in Answers,
         MtsAnswers(m) \/ Accept(m) \/ Reject(m) \/ HandlerFails(m)
  PROVE  RefundedOnceAndOut' /\ Claim'
<1> USE Codes DEF IInv, TypeOK, RefundedOnceAndOut, Claim, Claims, HasStatus,
                  RejectLabels, Goto, At, tables, wallet, counters
<1>1. CASE MtsAnswers(m)
  BY <1>1 DEF MtsAnswers
<1>2. CASE Accept(m)
  BY <1>2 DEF Accept
<1>3. CASE RejectFind(m)
  BY <1>3 DEF RejectFind
<1>4. CASE RejectSave(m)
  BY <1>4 DEF RejectSave
<1>5. CASE RejectSlips(m)
  BY <1>5 DEF RejectSlips
<1>6. CASE RejectBet(m)
  BY <1>6 DEF RejectBet
<1>7. CASE RejectCredit(m)
  BY <1>7 DEF RejectCredit
<1>8. CASE HandlerFails(m)
  BY <1>8 DEF HandlerFails
<1> QED
  BY <1>1, <1>2, <1>3, <1>4, <1>5, <1>6, <1>7, <1>8 DEF Reject

(* After a crash nobody has a claim.                                       *)
LEMMA ClaimCrash == IInv /\ Crash => RefundedOnceAndOut' /\ Claim'
BY DEF IInv, TypeOK, RefundedOnceAndOut, Claim, Claims, HasStatus, Crash,
       RejectLabels, tables, wallet

LEMMA IInvStep == IInv /\ [Next]_vars => IInv'
<1> SUFFICES ASSUME IInv, [Next]_vars PROVE IInv'
  OBVIOUS
<1>1. TypeOK'
  BY TypeStep DEF IInv
<1>2. RefundedOnceAndOut' /\ Claim'
  <2>1. CASE UNCHANGED vars
    BY <2>1 DEF IInv, RefundedOnceAndOut, Claim, Claims, HasStatus, vars,
                tables, wallet
  <2> QED
    BY <2>1, ClaimPlace, ClaimAnswer, ClaimCrash DEF Next
<1> QED
  BY <1>1, <1>2 DEF IInv

LEMMA IInvAlways == Spec => []IInv
<1>1. Init => IInv
  BY TypeInit, ClaimInit DEF IInv
<1>2. IInv /\ [Next]_vars => IInv'
  BY IInvStep
<1> QED
  BY <1>1, <1>2, PTL DEF Spec

(* However rejections are repeated, handled at once, interrupted and       *)
(* delivered again, a stake is given back at most once, and only when the  *)
(* bet and its slips are out of the game for good.                         *)
THEOREM Refunds == Spec => []RefundedOnceAndOut
<1>1. IInv => RefundedOnceAndOut
  BY DEF IInv
<1> QED
  BY <1>1, IInvAlways, PTL

-----------------------------------------------------------------------------
(* A handler that was interrupted leaves a noted rejection undone, which is*)
(* why the stakes are safe in uninterrupted behaviours only.               *)

LEMMA StakesPlace ==
  ASSUME IInv, OnlyInterruptionsLoseStakes,
         NEW b \in Bets, Place(b) \/ PlacementFails(b)
  PROVE  OnlyInterruptionsLoseStakes'
<1> USE DEF IInv, TypeOK, OnlyInterruptionsLoseStakes, RequestGoto, tables,
            wallet, counters
<1>1. CASE Refuse(b)
  BY <1>1 DEF Refuse
<1>2. CASE SaveBet(b)
  BY <1>2 DEF SaveBet
<1>3. CASE SaveSlips(b)
  BY <1>3 DEF SaveSlips
<1>4. CASE Debit(b)
  BY <1>4 DEF Debit
<1>5. CASE Publish(b)
  BY <1>5 DEF Publish
<1>6. CASE PlacementFails(b)
  BY <1>6 DEF PlacementFails
<1> QED
  BY <1>1, <1>2, <1>3, <1>4, <1>5, <1>6 DEF Place

LEMMA StakesAnswer ==
  ASSUME IInv, OnlyInterruptionsLoseStakes, NEW m \in Answers,
         MtsAnswers(m) \/ Accept(m) \/ Reject(m) \/ HandlerFails(m)
  PROVE  OnlyInterruptionsLoseStakes'
<1> USE Codes DEF IInv, TypeOK, Claim, Claims, OnlyInterruptionsLoseStakes,
                  RejectLabels, HasStatus, Goto, At, tables, wallet, counters
<1>1. CASE MtsAnswers(m)
  BY <1>1 DEF MtsAnswers
<1>2. CASE Accept(m)
  BY <1>2 DEF Accept
<1>3. CASE RejectFind(m)
  BY <1>3 DEF RejectFind
<1>4. CASE RejectSave(m)
  BY <1>4 DEF RejectSave
<1>5. CASE RejectSlips(m)
  BY <1>5 DEF RejectSlips
<1>6. CASE RejectBet(m)
  BY <1>6 DEF RejectBet
<1>7. CASE RejectCredit(m)
  BY <1>7 DEF RejectCredit
<1>8. CASE HandlerFails(m)
  BY <1>8 DEF HandlerFails
<1> QED
  BY <1>1, <1>2, <1>3, <1>4, <1>5, <1>6, <1>7, <1>8 DEF Reject

(* Without a failure or a crash no stake is lost: a stake that was taken   *)
(* belongs to a bet on its way to the MTS or sent there, and a rejection   *)
(* that was noted is carried out, or its handler is still at it.           *)
THEOREM Stakes == Spec => []OnlyInterruptionsLoseStakes
<1>1. Init => OnlyInterruptionsLoseStakes
  BY Codes DEF Init, OnlyInterruptionsLoseStakes
<1>2. IInv /\ OnlyInterruptionsLoseStakes /\ [Next]_vars
        => OnlyInterruptionsLoseStakes'
  <2> SUFFICES ASSUME IInv, OnlyInterruptionsLoseStakes, [Next]_vars
               PROVE  OnlyInterruptionsLoseStakes'
    OBVIOUS
  <2>1. CASE UNCHANGED vars
    BY <2>1 DEF OnlyInterruptionsLoseStakes, vars, tables, wallet, counters
  <2>2. CASE Crash
    BY <2>2 DEF Crash, OnlyInterruptionsLoseStakes, IInv, TypeOK
  <2> QED
    BY <2>1, <2>2, StakesPlace, StakesAnswer DEF Next
<1> QED
  BY <1>1, <1>2, IInvAlways, PTL DEF Spec
=============================================================================
