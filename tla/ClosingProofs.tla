--------------------------- MODULE ClosingProofs ----------------------------
(***************************************************************************)
(* Proofs about Closing, for any number of bets, invocations, commands,    *)
(* failures and crashes.                                                   *)
(*                                                                         *)
(*   TypeCorrect   TypeOK is inductive by itself: one lemma per conjunct,  *)
(*                 in each one step per action.                            *)
(*   Payment       PaidOnceAsRecorded, strengthened with Claim.            *)
(*   Refinement    every step is one of PayOnce or leaves both tables.     *)
(*   Winnings      OnlyInterruptionsLoseMoney, strengthened with what an   *)
(*                 update by hand has saved before it writes the bet.      *)
(*   Holders       LocksHaveHolders is inductive, given the types.         *)
(*   Listed        WonBetsAreListed, strengthened with ListInv.            *)
(*                                                                         *)
(* They do not look at the actions: lemma StepKinds sorts these into the   *)
(* three kinds that the money can tell apart, LockSteps into those that a  *)
(* lock can, and RowSteps and ListSteps say what a step may do to the row  *)
(* of a bet and to its listing.                                            *)
(***************************************************************************)
EXTENDS Closing, TLAPS

USE DEF Saving, Crediting, CloseLabels, AmtLabels, BetLabels, Labels, Amounts

(* The lock an invocation takes is one of the three cron jobs'.            *)
LEMMA JobNames == \A f \in Jobs : JobName(f) \in Names
BY DEF JobName, Names

(* A manual update writes statuses the columns can hold.                   *)
LEMMA FinalStatusOK ==
  \A c : FinalStatus(c)[1] \in BetStatuses /\ FinalStatus(c)[2] \in WonStatuses
BY DEF FinalStatus, BetStatuses, WonStatuses, BET_CANCELLED, BET_PENDING,
   BET_LOST,
    BET_WON, BET_VOIDED, BET_CASHOUT, STATUS_NOT_LOST_OR_WON, STATUS_LOST,
    STATUS_WON

(* The tables as they are at the first boot are well formed.               *)
LEMMA TypeInit == Init => TypeOK
BY BoundsAssumption
   DEF Init, TypeOK, TablesOK, CallsOK, WalletOK, JobsOK, Start, Names,
    BetStatuses, WonStatuses, BET_CANCELLED, BET_PENDING, BET_LOST,
    BET_WON, BET_VOIDED, BET_CASHOUT, STATUS_NOT_LOST_OR_WON, STATUS_LOST,
    STATUS_WON

(* No statement writes a row the entities do not allow.                    *)
LEMMA TablesStep == TypeOK /\ [Next]_vars => TablesOK'
<1> SUFFICES ASSUME TypeOK, [Next]_vars PROVE TablesOK'
  OBVIOUS
<1> USE DEF TypeOK, TablesOK, rowVars, SetBet,
    BetStatuses, WonStatuses, BET_CANCELLED, BET_PENDING, BET_LOST,
    BET_WON, BET_VOIDED, BET_CASHOUT, STATUS_NOT_LOST_OR_WON, STATUS_LOST,
    STATUS_WON
<1>1. ASSUME NEW f \in Fibers, JobStep(f) PROVE TablesOK'
  <2>1. CASE JobCheck(f)
    BY <2>1 DEF JobCheck
  <2>2. CASE JobLock(f)
    BY <2>2, JobNames DEF JobLock
  <2>3. CASE JobUnlock(f)
    BY <2>3 DEF JobUnlock
  <2> QED
    BY <1>1, <2>1, <2>2, <2>3 DEF JobStep
<1>2. ASSUME NEW f \in Fibers, ResultingStep(f) PROVE TablesOK'
  <2>1. CASE ResultingSelect(f)
    BY <2>1 DEF ResultingSelect
  <2>2. CASE ResultingNext(f)
    BY <2>2 DEF ResultingNext
  <2>3. CASE DeleteClosure(f)
    BY <2>3 DEF DeleteClosure
  <2> QED
    BY <1>2, <2>1, <2>2, <2>3 DEF ResultingStep
<1>3. ASSUME NEW f \in Fibers, CloseStep(f) PROVE TablesOK'
  <2>1. CASE CloseSelect(f)
    BY <2>1 DEF CloseSelect
  <2>2. CASE CloseUpdate(f)
    <3>1. call[f].bet \in Bets
      BY <2>2 DEF CloseUpdate, CallsOK, At
    <3>2. PICK w \in WonStatuses :
            bet' = [bet EXCEPT ![call[f].bet].status = BET_WON,
                               ![call[f].bet].won = w]
      BY <2>2, <3>1 DEF CloseUpdate
    <3>3. UNCHANGED <<winning, closure, running>>
      BY <2>2 DEF CloseUpdate
    <3> QED
      BY <3>1, <3>2, <3>3
  <2>3. CASE CloseSave(f)
    BY <2>3 DEF CloseSave, SaveWinning, DuplicateWinning, CallsOK
  <2>4. CASE CloseCredit(f)
    BY <2>4 DEF CloseCredit
  <2> QED
    BY <1>3, <2>1, <2>2, <2>3, <2>4 DEF CloseStep
<1>4. ASSUME NEW f \in Fibers, SettlementStep(f) PROVE TablesOK'
  <2>1. CASE SettlementSelect(f)
    BY <2>1 DEF SettlementSelect
  <2>2. CASE ResultBet(f)
    BY <2>2 DEF ResultBet
  <2>3. CASE ResultVoid(f)
    BY <2>3 DEF ResultVoid, JobsOK, Jobs
  <2>4. CASE ResultVoided(f)
    BY <2>4 DEF ResultVoided
  <2>5. CASE UpsertClosure(f)
    BY <2>5 DEF UpsertClosure, CallsOK, At
  <2> QED
    BY <1>4, <2>1, <2>2, <2>3, <2>4, <2>5 DEF SettlementStep
<1>5. ASSUME NEW f \in Fibers, UnsettledStep(f) PROVE TablesOK'
  <2>1. CASE UnsettledSelect(f)
    BY <2>1 DEF UnsettledSelect
  <2>2. CASE UnsettledDecide(f)
    BY <2>2 DEF UnsettledDecide
  <2> QED
    BY <1>5, <2>1, <2>2 DEF UnsettledStep
<1>6. ASSUME NEW f \in Fibers, CashoutStep(f) PROVE TablesOK'
  <2>1. CASE CashoutUpdate(f)
    BY <2>1 DEF CashoutUpdate
  <2>2. CASE CashoutSave(f)
    BY <2>2 DEF CashoutSave, SaveWinning, DuplicateWinning, CallsOK
  <2>3. CASE CashoutCredit(f)
    BY <2>3 DEF CashoutCredit
  <2> QED
    BY <1>6, <2>1, <2>2, <2>3 DEF CashoutStep
<1>7. ASSUME NEW f \in Fibers, ManualStep(f) PROVE TablesOK'
  <2>1. CASE ManualSave(f)
    BY <2>1 DEF ManualSave, SaveWinning, DuplicateWinning, CallsOK
  <2>2. CASE ManualCredit(f)
    BY <2>2 DEF ManualCredit
  <2>3. CASE ManualRefund(f)
    BY <2>3 DEF ManualRefund
  <2>4. CASE ManualUpdate(f)
    BY <2>4, FinalStatusOK DEF ManualUpdate
  <2> QED
    BY <1>7, <2>1, <2>2, <2>3, <2>4 DEF ManualStep
<1>8. ASSUME NEW f \in Fibers, Failure(f) PROVE TablesOK'
  <2>1. CASE StatementFails(f)
    BY <2>1 DEF StatementFails
  <2>2. CASE CreditAnswerLost(f)
    BY <2>2 DEF CreditAnswerLost
  <2> QED
    BY <1>8, <2>1, <2>2 DEF Failure
<1>9. ASSUME NEW f \in Fibers, Request(f) PROVE TablesOK'
  <2>1. ASSUME NEW b \in Bets, CashoutRead(f, b) PROVE TablesOK'
    BY <2>1 DEF CashoutRead
  <2>2. ASSUME NEW b \in Bets, NEW c \in Commands, ManualRead(f, b, c)
        PROVE TablesOK'
    BY <2>2 DEF ManualRead
  <2> QED
    BY <1>9, <2>1, <2>2 DEF Request
<1>10. CASE StartUp
  BY <1>10 DEF StartUp, StartUpReset, StartUpFix
<1>11. CASE Crash
  BY <1>11 DEF Crash
<1>12. CASE UNCHANGED vars
  BY <1>12 DEF vars
<1> QED
  BY <1>1, <1>2, <1>3, <1>4, <1>5, <1>6, <1>7, <1>8, <1>9, <1>10, <1>11,
     <1>12 DEF Next, Progress

(* Crediting an amount keeps the wallet's books well formed.               *)
LEMMA CreditOK ==
  ASSUME WalletOK, NEW b \in Bets, NEW a \in Amounts, Credit(b, a)
  PROVE  credits' \in [Bets -> Seq(Amounts)]
BY DEF WalletOK, Credit

(* No step spoils the wallet's books or the bounded counters.              *)
LEMMA WalletStep == TypeOK /\ [Next]_vars => WalletOK'
<1> SUFFICES ASSUME TypeOK, [Next]_vars PROVE WalletOK'
  OBVIOUS
<1> USE DEF TypeOK, WalletOK, money, counters, At, CallsOK
<1>1. ASSUME NEW f \in Fibers, JobStep(f) PROVE WalletOK'
  BY <1>1 DEF JobStep, JobCheck, JobLock, JobUnlock
<1>2. ASSUME NEW f \in Fibers, ResultingStep(f) PROVE WalletOK'
  BY <1>2 DEF ResultingStep, ResultingSelect, ResultingNext, DeleteClosure
<1>3. ASSUME NEW f \in Fibers, CloseStep(f) PROVE WalletOK'
  <2>1. CASE CloseSelect(f)
    BY <2>1 DEF CloseSelect
  <2>2. CASE CloseUpdate(f)
    BY <2>2 DEF CloseUpdate
  <2>3. CASE CloseSave(f)
    BY <2>3 DEF CloseSave
  <2>4. CASE CloseCredit(f)
    BY <2>4, CreditOK DEF CloseCredit
  <2> QED
    BY <1>3, <2>1, <2>2, <2>3, <2>4 DEF CloseStep
<1>4. ASSUME NEW f \in Fibers, SettlementStep(f) PROVE WalletOK'
  BY <1>4 DEF SettlementStep, SettlementSelect, ResultBet, ResultVoid,
     ResultVoided, UpsertClosure
<1>5. ASSUME NEW f \in Fibers, UnsettledStep(f) PROVE WalletOK'
  BY <1>5 DEF UnsettledStep, UnsettledSelect, UnsettledDecide
<1>6. ASSUME NEW f \in Fibers, CashoutStep(f) PROVE WalletOK'
  <2>1. CASE CashoutUpdate(f)
    BY <2>1 DEF CashoutUpdate
  <2>2. CASE CashoutSave(f)
    BY <2>2 DEF CashoutSave
  <2>3. CASE CashoutCredit(f)
    BY <2>3, CreditOK DEF CashoutCredit
  <2> QED
    BY <1>6, <2>1, <2>2, <2>3 DEF CashoutStep
<1>7. ASSUME NEW f \in Fibers, ManualStep(f) PROVE WalletOK'
  <2>1. CASE ManualSave(f)
    BY <2>1 DEF ManualSave
  <2>2. CASE ManualCredit(f)
    BY <2>2, CreditOK DEF ManualCredit
  <2>3. CASE ManualRefund(f)
    BY <2>3 DEF ManualRefund
  <2>4. CASE ManualUpdate(f)
    BY <2>4 DEF ManualUpdate
  <2> QED
    BY <1>7, <2>1, <2>2, <2>3, <2>4 DEF ManualStep
<1>8. ASSUME NEW f \in Fibers, Failure(f) PROVE WalletOK'
  <2>1. CASE StatementFails(f)
    BY <2>1 DEF StatementFails
  <2>2. CASE CreditAnswerLost(f)
    <3>1. CASE At(f, "ad_credit") /\ Credit(call[f].bet, call[f].amt)
      <4>1. credits' \in [Bets -> Seq(Amounts)]
        BY <3>1, CreditOK
      <4>2. refunds' = refunds
        BY <2>2, <3>1 DEF CreditAnswerLost
      <4> QED
        BY <2>2, <4>1, <4>2 DEF CreditAnswerLost
    <3>2. CASE At(f, "ad_refund")
      BY <2>2, <3>2 DEF CreditAnswerLost
    <3> QED
      BY <2>2, <3>1, <3>2 DEF CreditAnswerLost
  <2> QED
    BY <1>8, <2>1, <2>2 DEF Failure
<1>9. ASSUME NEW f \in Fibers, Request(f) PROVE WalletOK'
  <2>1. ASSUME NEW b \in Bets, CashoutRead(f, b) PROVE WalletOK'
    BY <2>1 DEF CashoutRead
  <2>2. ASSUME NEW b \in Bets, NEW c \in Commands, ManualRead(f, b, c)
        PROVE WalletOK'
    BY <2>2 DEF ManualRead
  <2> QED
    BY <1>9, <2>1, <2>2 DEF Request
<1>10. CASE StartUp
  BY <1>10 DEF StartUp, StartUpReset, StartUpFix
<1>11. CASE Crash
  BY <1>11 DEF Crash
<1>12. CASE UNCHANGED vars
  BY <1>12 DEF vars
<1> QED
  BY <1>1, <1>2, <1>3, <1>4, <1>5, <1>6, <1>7, <1>8, <1>9, <1>10, <1>11,
     <1>12 DEF Next, Progress

(* A job's result set holds bets, whatever fails or restarts.              *)
LEMMA JobsStep == TypeOK /\ [Next]_vars => JobsOK'
<1> SUFFICES ASSUME TypeOK, [Next]_vars PROVE JobsOK'
  OBVIOUS
<1> USE DEF TypeOK, TablesOK, JobsOK
<1>1. ASSUME NEW f \in Fibers, JobStep(f) PROVE JobsOK'
  BY <1>1 DEF JobStep, JobCheck, JobLock, JobUnlock
<1>2. ASSUME NEW f \in Fibers, ResultingStep(f) PROVE JobsOK'
  BY <1>2 DEF ResultingStep, ResultingSelect, ResultingNext, DeleteClosure
<1>3. ASSUME NEW f \in Fibers, CloseStep(f) PROVE JobsOK'
  BY <1>3 DEF CloseStep, CloseSelect, CloseUpdate, CloseSave, CloseCredit
<1>4. ASSUME NEW f \in Fibers, SettlementStep(f) PROVE JobsOK'
  <2>1. CASE SettlementSelect(f)
    BY <2>1 DEF SettlementSelect
  <2>2. CASE ResultBet(f)
    BY <2>2 DEF ResultBet
  <2>3. CASE ResultVoid(f)
    BY <2>3 DEF ResultVoid, Jobs
  <2>4. CASE ResultVoided(f)
    BY <2>4 DEF ResultVoided
  <2>5. CASE UpsertClosure(f)
    BY <2>5 DEF UpsertClosure
  <2> QED
    BY <1>4, <2>1, <2>2, <2>3, <2>4, <2>5 DEF SettlementStep
<1>5. ASSUME NEW f \in Fibers, UnsettledStep(f) PROVE JobsOK'
  BY <1>5 DEF UnsettledStep, UnsettledSelect, UnsettledDecide
<1>6. ASSUME NEW f \in Fibers, CashoutStep(f) PROVE JobsOK'
  BY <1>6 DEF CashoutStep, CashoutUpdate, CashoutSave, CashoutCredit
<1>7. ASSUME NEW f \in Fibers, ManualStep(f) PROVE JobsOK'
  BY <1>7 DEF ManualStep, ManualSave, ManualCredit, ManualRefund, ManualUpdate
<1>8. ASSUME NEW f \in Fibers, Failure(f) PROVE JobsOK'
  BY <1>8 DEF Failure, StatementFails, CreditAnswerLost
<1>9. ASSUME NEW f \in Fibers, Request(f) PROVE JobsOK'
  <2>1. ASSUME NEW b \in Bets, CashoutRead(f, b) PROVE JobsOK'
    BY <2>1 DEF CashoutRead
  <2>2. ASSUME NEW b \in Bets, NEW c \in Commands, ManualRead(f, b, c)
        PROVE JobsOK'
    BY <2>2 DEF ManualRead
  <2> QED
    BY <1>9, <2>1, <2>2 DEF Request
<1>10. CASE StartUp
  BY <1>10 DEF StartUp, StartUpReset, StartUpFix
<1>11. CASE Crash
  BY <1>11 DEF Crash
<1>12. CASE UNCHANGED vars
  BY <1>12 DEF vars
<1> QED
  BY <1>1, <1>2, <1>3, <1>4, <1>5, <1>6, <1>7, <1>8, <1>9, <1>10, <1>11,
     <1>12 DEF Next, Progress

(* How the helpers that move a call on keep the calls well formed.         *)
LEMMA ReturnOK ==
  ASSUME CallsOK, NEW f \in Fibers,
         NEW l \in {"idle", "lock", "select", "next"}, Return(f, l)
  PROVE  CallsOK'
BY DEF CallsOK, Return, Start

(* Starting to work on a bet.                                              *)
LEMMA EnterOK ==
  ASSUME CallsOK, NEW f \in Fibers, NEW b \in Bets,
         NEW l \in BetLabels \ AmtLabels, Enter(f, l, b)
  PROVE  CallsOK'
BY DEF CallsOK, Enter, Start

(* Going on to a statement that needs nothing the call lacks.              *)
LEMMA GotoOK ==
  ASSUME CallsOK, NEW f \in Fibers, NEW l \in BetLabels, Goto(f, l),
         call[f].at \in BetLabels, l \in AmtLabels => call[f].at \in AmtLabels
  PROVE  CallsOK'
BY DEF CallsOK, Goto

(* Going on with an amount just read.                                      *)
LEMMA GotoWithOK ==
  ASSUME CallsOK, NEW f \in Fibers, call[f].at \in BetLabels,
         NEW l \in BetLabels, NEW a \in Amounts \cup {"none"},
         l \in AmtLabels => a \in Amounts, GotoWith(f, l, a)
  PROVE  CallsOK'
<1> DEFINE C == [at  : Labels, bet : Bets \cup {"none"},
                 amt : Amounts \cup {"none"}, cmd : Commands \cup {"none"}]
           new == [call[f] EXCEPT !.at = l, !.amt = a]
<1>1. /\ new \in C
      /\ new.at = l /\ new.amt = a /\ new.bet = call[f].bet
  BY DEF CallsOK
<1>2. call' = [call EXCEPT ![f] = new]
  BY DEF GotoWith
<1> HIDE DEF new
<1>3. call' \in [Fibers -> C]
  BY <1>1, <1>2 DEF CallsOK
<1>4. ASSUME NEW g \in Fibers
      PROVE  /\ call'[g].at \in BetLabels => call'[g].bet \in Bets
             /\ call'[g].at \in AmtLabels => call'[g].amt \in Amounts
  BY <1>1, <1>2 DEF CallsOK
<1> QED
  BY <1>3, <1>4 DEF CallsOK

(* Leaving closeBet, back to the job or ending the detached call.          *)
LEMMA EndCloseOK ==
  ASSUME CallsOK, NEW f \in Fibers, EndClose(f), call[f].at \in CloseLabels
  PROVE  CallsOK'
BY ReturnOK, GotoWithOK DEF EndClose

(* A call that is to record or pay an amount has a bet and an amount.      *)
LEMMA CallsStep == TypeOK /\ [Next]_vars => CallsOK'
<1> SUFFICES ASSUME TypeOK, [Next]_vars PROVE CallsOK'
  OBVIOUS
<1> USE DEF TypeOK, At
<1>1. ASSUME NEW f \in Fibers, JobStep(f) PROVE CallsOK'
  <2>1. CASE JobCheck(f)
    BY <2>1, ReturnOK DEF JobCheck
  <2>2. CASE JobLock(f)
    BY <2>2, ReturnOK DEF JobLock
  <2>3. CASE JobUnlock(f)
    BY <2>3, ReturnOK DEF JobUnlock
  <2> QED
    BY <1>1, <2>1, <2>2, <2>3 DEF JobStep
<1>2. ASSUME NEW f \in Fibers, ResultingStep(f) PROVE CallsOK'
  <2>1. CASE ResultingSelect(f)
    BY <2>1, ReturnOK DEF ResultingSelect
  <2>2. CASE ResultingNext(f)
    BY <2>2, EnterOK DEF ResultingNext, JobsOK, Jobs
  <2>3. CASE DeleteClosure(f)
    BY <2>3, ReturnOK DEF DeleteClosure
  <2> QED
    BY <1>2, <2>1, <2>2, <2>3 DEF ResultingStep
<1>3. ASSUME NEW f \in Fibers, CloseStep(f) PROVE CallsOK'
  <2>1. CASE CloseSelect(f)
    BY <2>1, EndCloseOK, GotoWithOK DEF CloseSelect, CallsOK, TablesOK
  <2>2. CASE CloseUpdate(f)
    BY <2>2, GotoOK DEF CloseUpdate
  <2>3. CASE CloseSave(f)
    BY <2>3, GotoOK, EndCloseOK DEF CloseSave
  <2>4. CASE CloseCredit(f)
    BY <2>4, EndCloseOK DEF CloseCredit
  <2> QED
    BY <1>3, <2>1, <2>2, <2>3, <2>4 DEF CloseStep
<1>4. ASSUME NEW f \in Fibers, SettlementStep(f) PROVE CallsOK'
  <2>1. CASE SettlementSelect(f)
    BY <2>1, ReturnOK DEF SettlementSelect
  <2>2. CASE ResultBet(f)
    BY <2>2, EnterOK DEF ResultBet, JobsOK, Jobs, CallsOK
  <2>3. CASE ResultVoid(f)
    BY <2>3, EnterOK DEF ResultVoid, JobsOK, Jobs
  <2>4. CASE ResultVoided(f)
    BY <2>4, ReturnOK DEF ResultVoided
  <2>5. CASE UpsertClosure(f)
    BY <2>5, ReturnOK DEF UpsertClosure
  <2> QED
    BY <1>4, <2>1, <2>2, <2>3, <2>4, <2>5 DEF SettlementStep
<1>5. ASSUME NEW f \in Fibers, UnsettledStep(f) PROVE CallsOK'
  <2>1. CASE UnsettledSelect(f)
    BY <2>1, ReturnOK DEF UnsettledSelect
  <2>2. CASE UnsettledDecide(f)
    BY <2>2, EnterOK DEF UnsettledDecide, JobsOK, Jobs, Fibers, CallsOK
  <2> QED
    BY <1>5, <2>1, <2>2 DEF UnsettledStep
<1>6. ASSUME NEW f \in Fibers, CashoutStep(f) PROVE CallsOK'
  <2>1. CASE CashoutUpdate(f)
    BY <2>1, GotoWithOK DEF CashoutUpdate
  <2>2. CASE CashoutSave(f)
    BY <2>2, GotoOK, ReturnOK DEF CashoutSave
  <2>3. CASE CashoutCredit(f)
    BY <2>3, ReturnOK DEF CashoutCredit
  <2> QED
    BY <1>6, <2>1, <2>2, <2>3 DEF CashoutStep
<1>7. ASSUME NEW f \in Fibers, ManualStep(f) PROVE CallsOK'
  <2>1. CASE ManualSave(f)
    BY <2>1, GotoOK, ReturnOK DEF ManualSave
  <2>2. CASE ManualCredit(f)
    BY <2>2, GotoOK DEF ManualCredit
  <2>3. CASE ManualRefund(f)
    BY <2>3, GotoOK DEF ManualRefund
  <2>4. CASE ManualUpdate(f)
    BY <2>4, ReturnOK DEF ManualUpdate
  <2> QED
    BY <1>7, <2>1, <2>2, <2>3, <2>4 DEF ManualStep
<1>8. ASSUME NEW f \in Fibers, Failure(f) PROVE CallsOK'
  <2>1. CASE StatementFails(f)
    BY <2>1, ReturnOK, EndCloseOK DEF StatementFails
  <2>2. CASE CreditAnswerLost(f)
    BY <2>2, ReturnOK DEF CreditAnswerLost
  <2> QED
    BY <1>8, <2>1, <2>2 DEF Failure
<1>9. ASSUME NEW f \in Fibers, Request(f) PROVE CallsOK'
  <2>1. ASSUME NEW b \in Bets, CashoutRead(f, b) PROVE CallsOK'
    BY <2>1, EnterOK DEF CashoutRead
  <2>2. ASSUME NEW b \in Bets, NEW c \in Commands, ManualRead(f, b, c)
        PROVE CallsOK'
    BY <2>2 DEF ManualRead, FirstStatement, CallsOK, TablesOK
  <2> QED
    BY <1>9, <2>1, <2>2 DEF Request
<1>10. CASE StartUp
  BY <1>10 DEF StartUp, StartUpReset, StartUpFix, CallsOK
<1>11. CASE Crash
  BY <1>11 DEF Crash, Start, CallsOK
<1>12. CASE UNCHANGED vars
  BY <1>12 DEF vars, CallsOK
<1> QED
  BY <1>1, <1>2, <1>3, <1>4, <1>5, <1>6, <1>7, <1>8, <1>9, <1>10, <1>11,
     <1>12 DEF Next, Progress

(* Every reachable state of the tables, the wallet and the calls is well   *)
(* formed.                                                                 *)
THEOREM TypeCorrect == Spec => []TypeOK
<1>1. TypeOK /\ [Next]_vars => TypeOK'
  BY TablesStep, WalletStep, JobsStep, CallsStep DEF TypeOK
<1> QED
  BY TypeInit, <1>1, PTL DEF Spec

-----------------------------------------------------------------------------
(***************************************************************************)
(* Money.  Seen from the tables winning and wallet, a step is one of       *)
(* three: it records a winning for the call that goes on to credit it, it  *)
(* credits and the call has nothing more to credit, or it does neither and *)
(* leaves every call that is about to credit where it was.                 *)
(***************************************************************************)
OthersStay(f) == \A g \in Fibers \ {f} : call'[g] = call[g]

Records(f) ==
  /\ call[f].bet \in Bets /\ call[f].amt \in Amounts
  /\ winning[call[f].bet] = "none"
  /\ winning' = [winning EXCEPT ![call[f].bet] = call[f].amt]
  /\ UNCHANGED credits
  /\ call'[f].at \in Crediting
  /\ call'[f].bet = call[f].bet /\ call'[f].amt = call[f].amt
  /\ OthersStay(f)

Pays(f) ==
  /\ call[f].at \in Crediting
  /\ \E a \in Amounts :
       /\ a = call[f].amt \/ (call[f].bet \in BonusBets /\ a = "bonus")
       /\ credits' = [credits EXCEPT ![call[f].bet] = Append(@, a)]
  /\ UNCHANGED winning
  /\ call'[f].at \notin Crediting
  /\ OthersStay(f)

Neither ==
  /\ UNCHANGED <<winning, credits>>
  /\ \A g \in Fibers : call'[g].at \in Crediting => call'[g] = call[g]

(* What the helpers do to the call they move, and to no other.             *)
LEMMA ReturnMoves ==
  ASSUME CallsOK, NEW f \in Fibers, NEW l, Return(f, l)
  PROVE  call'[f].at = l /\ OthersStay(f)
BY DEF CallsOK, OthersStay, Return, Start

(* Starting to work on a bet moves this call only.                         *)
LEMMA EnterMoves ==
  ASSUME CallsOK, NEW f \in Fibers, NEW l, NEW b, Enter(f, l, b)
  PROVE  call'[f].at = l /\ OthersStay(f)
BY DEF CallsOK, OthersStay, Enter, Start

(* Going on keeps the bet and the amount.                                  *)
LEMMA GotoMoves ==
  ASSUME CallsOK, NEW f \in Fibers, NEW l, Goto(f, l)
  PROVE  /\ call'[f].at = l /\ OthersStay(f)
         /\ call'[f].bet = call[f].bet
         /\ call'[f].amt = call[f].amt
BY DEF CallsOK, OthersStay, Goto

(* Going on with an amount moves this call only.                           *)
LEMMA GotoWithMoves ==
  ASSUME CallsOK, NEW f \in Fibers, NEW l, NEW a, GotoWith(f, l, a)
  PROVE  call'[f].at = l /\ OthersStay(f)
<1> DEFINE new == [call[f] EXCEPT !.at = l, !.amt = a]
<1>1. new.at = l
  BY DEF CallsOK
<1>2. call' = [call EXCEPT ![f] = new]
  BY DEF GotoWith
<1> HIDE DEF new
<1> QED
  BY <1>1, <1>2 DEF CallsOK, OthersStay

(* Leaving closeBet, a call credits nothing more.                          *)
LEMMA EndCloseMoves ==
  ASSUME CallsOK, NEW f \in Fibers, EndClose(f)
  PROVE  call'[f].at \in {"delete", "idle"} /\ OthersStay(f)
BY ReturnMoves, GotoWithMoves DEF EndClose

(* An INSERT INTO winning that succeeds is of the first kind.              *)
LEMMA SavesRecord ==
  ASSUME CallsOK, NEW f \in Fibers, NEW l \in Crediting,
         call[f].at \in AmtLabels, SaveWinning(f), Goto(f, l),
         UNCHANGED credits
  PROVE  Records(f)
BY GotoMoves DEF CallsOK, Records, SaveWinning, HasWinning

(* A credit of the amount held, or of the bonus, is of the second kind.    *)
LEMMA CreditsPay ==
  ASSUME CallsOK, NEW f \in Fibers, NEW a \in Amounts,
         call[f].at \in Crediting,
         a = call[f].amt \/ (call[f].bet \in BonusBets /\ a = "bonus"),
         Credit(call[f].bet, a), UNCHANGED winning,
         call'[f].at \notin Crediting, OthersStay(f)
  PROVE  Pays(f)
BY DEF Pays, Credit

(* Every step is of one of the three kinds.                                *)
LEMMA StepKinds ==
  TypeOK /\ [Next]_vars =>
    Neither \/ \E f \in Fibers : Records(f) \/ Pays(f)
<1> DEFINE Kinds == Neither \/ \E f \in Fibers : Records(f) \/ Pays(f)
<1> SUFFICES ASSUME TypeOK, [Next]_vars PROVE Kinds
  OBVIOUS
<1> USE DEF TypeOK, At, rowVars, money
<1>0. ASSUME NEW f \in Fibers, UNCHANGED <<winning, credits>>,
             call'[f].at \notin Crediting, OthersStay(f)
      PROVE  Neither
  BY <1>0 DEF Neither, OthersStay
<1> HIDE DEF Kinds
<1>1. ASSUME NEW f \in Fibers, JobStep(f) PROVE Kinds
  <2>1. CASE JobCheck(f)
    BY <2>1, <1>0, ReturnMoves, EnterMoves, GotoMoves, GotoWithMoves DEF
       JobCheck, Kinds
  <2>2. CASE JobLock(f)
    BY <2>2, <1>0, ReturnMoves, EnterMoves, GotoMoves, GotoWithMoves DEF
       JobLock, Kinds
  <2>3. CASE JobUnlock(f)
    BY <2>3, <1>0, ReturnMoves, EnterMoves, GotoMoves, GotoWithMoves DEF
       JobUnlock, Kinds
  <2> QED
    BY <1>1, <2>1, <2>2, <2>3 DEF JobStep
<1>2. ASSUME NEW f \in Fibers, ResultingStep(f) PROVE Kinds
  <2>1. CASE ResultingSelect(f)
    BY <2>1, <1>0, ReturnMoves, EnterMoves, GotoMoves, GotoWithMoves DEF
       ResultingSelect, Kinds
  <2>2. CASE ResultingNext(f)
    BY <2>2, <1>0, ReturnMoves, EnterMoves, GotoMoves, GotoWithMoves DEF
       ResultingNext, Kinds
  <2>3. CASE DeleteClosure(f)
    BY <2>3, <1>0, ReturnMoves, EnterMoves, GotoMoves, GotoWithMoves DEF
       DeleteClosure, Kinds
  <2> QED
    BY <1>2, <2>1, <2>2, <2>3 DEF ResultingStep
<1>3. ASSUME NEW f \in Fibers, CloseStep(f) PROVE Kinds
  <2>1. CASE CloseSelect(f)
    BY <2>1, <1>0, ReturnMoves, EnterMoves, GotoMoves, GotoWithMoves,
       EndCloseMoves DEF CloseSelect, Kinds
  <2>2. CASE CloseUpdate(f)
    BY <2>2, <1>0, ReturnMoves, EnterMoves, GotoMoves, GotoWithMoves DEF
       CloseUpdate, Kinds
  <2>3. CASE CloseSave(f)
    BY <2>3, <1>0, ReturnMoves, EnterMoves, GotoMoves, GotoWithMoves,
       EndCloseMoves, SavesRecord DEF CloseSave, DuplicateWinning, Kinds
  <2>4. CASE CloseCredit(f)
    BY <2>4, CreditsPay, ReturnMoves, EnterMoves, GotoMoves, GotoWithMoves,
       EndCloseMoves DEF CloseCredit, CallsOK, Kinds
  <2> QED
    BY <1>3, <2>1, <2>2, <2>3, <2>4 DEF CloseStep
<1>4. ASSUME NEW f \in Fibers, SettlementStep(f) PROVE Kinds
  <2>1. CASE SettlementSelect(f)
    BY <2>1, <1>0, ReturnMoves, EnterMoves, GotoMoves, GotoWithMoves DEF
       SettlementSelect, Kinds
  <2>2. CASE ResultBet(f)
    BY <2>2, <1>0, ReturnMoves, EnterMoves, GotoMoves, GotoWithMoves DEF
       ResultBet, Kinds, Neither
  <2>3. CASE ResultVoid(f)
    BY <2>3, <1>0, ReturnMoves, EnterMoves, GotoMoves, GotoWithMoves DEF
       ResultVoid, Kinds
  <2>4. CASE ResultVoided(f)
    BY <2>4, <1>0, ReturnMoves, EnterMoves, GotoMoves, GotoWithMoves DEF
       ResultVoided, Kinds
  <2>5. CASE UpsertClosure(f)
    BY <2>5, <1>0, ReturnMoves, EnterMoves, GotoMoves, GotoWithMoves DEF
       UpsertClosure, Kinds
  <2> QED
    BY <1>4, <2>1, <2>2, <2>3, <2>4, <2>5 DEF SettlementStep
<1>5. ASSUME NEW f \in Fibers, UnsettledStep(f) PROVE Kinds
  <2>1. CASE UnsettledSelect(f)
    BY <2>1, <1>0, ReturnMoves, EnterMoves, GotoMoves, GotoWithMoves DEF
       UnsettledSelect, Kinds
  <2>2. CASE UnsettledDecide(f)
    BY <2>2, <1>0, ReturnMoves, EnterMoves, GotoMoves, GotoWithMoves DEF
       UnsettledDecide, Kinds, Neither, Fibers
  <2> QED
    BY <1>5, <2>1, <2>2 DEF UnsettledStep
<1>6. ASSUME NEW f \in Fibers, CashoutStep(f) PROVE Kinds
  <2>1. CASE CashoutUpdate(f)
    BY <2>1, <1>0, ReturnMoves, EnterMoves, GotoMoves, GotoWithMoves DEF
       CashoutUpdate, Kinds
  <2>2. CASE CashoutSave(f)
    BY <2>2, <1>0, ReturnMoves, EnterMoves, GotoMoves, GotoWithMoves,
       SavesRecord DEF CashoutSave, DuplicateWinning, Kinds
  <2>3. CASE CashoutCredit(f)
    BY <2>3, CreditsPay, ReturnMoves, GotoMoves DEF CashoutCredit, CallsOK,
       Kinds
  <2> QED
    BY <1>6, <2>1, <2>2, <2>3 DEF CashoutStep
<1>7. ASSUME NEW f \in Fibers, ManualStep(f) PROVE Kinds
  <2>1. CASE ManualSave(f)
    BY <2>1, <1>0, ReturnMoves, EnterMoves, GotoMoves, GotoWithMoves,
       SavesRecord DEF ManualSave, DuplicateWinning, Kinds
  <2>2. CASE ManualCredit(f)
    BY <2>2, CreditsPay, ReturnMoves, GotoMoves DEF ManualCredit, CallsOK,
       Kinds
  <2>3. CASE ManualRefund(f)
    BY <2>3, <1>0, ReturnMoves, EnterMoves, GotoMoves, GotoWithMoves DEF
       ManualRefund, Kinds
  <2>4. CASE ManualUpdate(f)
    BY <2>4, <1>0, ReturnMoves, EnterMoves, GotoMoves, GotoWithMoves DEF
       ManualUpdate, Kinds
  <2> QED
    BY <1>7, <2>1, <2>2, <2>3, <2>4 DEF ManualStep
<1>8. ASSUME NEW f \in Fibers, Failure(f) PROVE Kinds
  <2>1. CASE StatementFails(f)
    BY <2>1, <1>0, ReturnMoves, EnterMoves, GotoMoves, GotoWithMoves,
       EndCloseMoves DEF StatementFails, Kinds
  <2>2. CASE CreditAnswerLost(f)
    BY <2>2, <1>0, CreditsPay, ReturnMoves DEF CreditAnswerLost, CallsOK, Kinds
  <2> QED
    BY <1>8, <2>1, <2>2 DEF Failure
<1>9. ASSUME NEW f \in Fibers, Request(f) PROVE Kinds
  <2>1. ASSUME NEW b \in Bets, CashoutRead(f, b) PROVE Kinds
    BY <2>1, <1>0, ReturnMoves, EnterMoves, GotoMoves, GotoWithMoves DEF
       CashoutRead, Kinds
  <2>2. ASSUME NEW b \in Bets, NEW c \in Commands, ManualRead(f, b, c)
        PROVE Kinds
    <3>1. call'[f].at = FirstStatement(c) /\ OthersStay(f)
      BY <2>2 DEF ManualRead, CallsOK, OthersStay
    <3>2. FirstStatement(c) \notin Crediting
      BY DEF FirstStatement
    <3> QED
      BY <2>2, <1>0, <3>1, <3>2 DEF ManualRead, Kinds
  <2> QED
    BY <1>9, <2>1, <2>2 DEF Request
<1>10. CASE StartUp
  BY <1>10 DEF StartUp, StartUpReset, StartUpFix, Neither, Kinds
<1>11. CASE Crash
  BY <1>11 DEF Crash, Start, Neither, Kinds
<1>12. CASE UNCHANGED vars
  BY <1>12 DEF vars, Neither, Kinds
<1> QED
  BY <1>1, <1>2, <1>3, <1>4, <1>5, <1>6, <1>7, <1>8, <1>9, <1>10, <1>11,
     <1>12 DEF Next, Progress

(***************************************************************************)
(* A call that is about to credit a bet holds the amount of its winning    *)
(* row and is alone, and nothing has been credited yet: PaidOnceAsRecorded *)
(* is not inductive without it.                                            *)
(***************************************************************************)
Claim ==
  \A f \in Fibers : call[f].at \in Crediting =>
    /\ winning[call[f].bet] = call[f].amt
    /\ credits[call[f].bet] = <<>>
    /\ \A g \in Fibers :
         call[g].at \in Crediting /\ call[g].bet = call[f].bet => g = f

PaymentInv == Claim /\ PaidOnceAsRecorded

(* The first entry of an empty ledger.                                     *)
LEMMA AppendToEmpty == \A a \in Amounts : Append(<<>>, a) = <<a>>
OBVIOUS

(* At the first boot nothing is recorded, credited or about to be.         *)
LEMMA PaymentInit == Init => PaymentInv
BY DEF Init, Start, PaymentInv, Claim, PaidOnceAsRecorded

(* Claim and PaidOnceAsRecorded are kept by the three kinds of steps.      *)
LEMMA PaymentStep == TypeOK /\ PaymentInv /\ [Next]_vars => PaymentInv'
<1> SUFFICES ASSUME TypeOK, PaymentInv, [Next]_vars PROVE PaymentInv'
  OBVIOUS
<1> USE DEF TypeOK, PaymentInv
<1> DEFINE ClaimOf(h) ==
             /\ winning'[call'[h].bet] = call'[h].amt
             /\ credits'[call'[h].bet] = <<>>
             /\ \A g \in Fibers :
                  call'[g].at \in Crediting /\ call'[g].bet = call'[h].bet
                    => g = h
<1>0. ASSUME \A h \in Fibers : call'[h].at \in Crediting => ClaimOf(h)
      PROVE  Claim'
  BY <1>0 DEF Claim
<1>1. CASE Neither
  <2>1. ASSUME NEW h \in Fibers, call'[h].at \in Crediting
        PROVE  ClaimOf(h)
    <3>1. call'[h] = call[h] /\ winning' = winning /\ credits' = credits
      BY <1>1, <2>1 DEF Neither
    <3>2. call[h].at \in Crediting
      BY <2>1, <3>1
    <3>3. winning'[call[h].bet] = call[h].amt /\ credits'[call[h].bet] = <<>>
      BY <3>1, <3>2 DEF Claim
    <3>4. ASSUME NEW g \in Fibers, call'[g].at \in Crediting,
                 call'[g].bet = call[h].bet
          PROVE  g = h
      <4>1. call'[g] = call[g]
        BY <1>1, <3>4 DEF Neither
      <4>2. call[g].at \in Crediting /\ call[g].bet = call[h].bet
        BY <3>4, <4>1
      <4> QED
        BY <3>2, <4>2 DEF Claim
    <3>5. call'[h].bet = call[h].bet /\ call'[h].amt = call[h].amt
      BY <3>1
    <3> QED
      BY <3>3, <3>4, <3>5 DEF ClaimOf
  <2>2. PaidOnceAsRecorded'
    BY <1>1 DEF Neither, PaidOnceAsRecorded
  <2> HIDE DEF ClaimOf
  <2> QED
    BY <1>0, <2>1, <2>2
<1>2. ASSUME NEW f \in Fibers, Records(f) PROVE PaymentInv'
  <2> DEFINE b == call[f].bet
  <2>1. \A g \in Fibers : call[g].at \in Crediting => call[g].bet # b
    BY <1>2 DEF Records, Claim, CallsOK
  <2>2. b \in Bets /\ credits[b] = <<>> /\ winning'[b] = call[f].amt
    BY <1>2 DEF Records, PaidOnceAsRecorded, TablesOK
  <2>3. call'[f].bet = b /\ call'[f].amt = call[f].amt /\ credits' = credits
    BY <1>2 DEF Records
  <2>4. ASSUME NEW g \in Fibers, g # f, call'[g].at \in Crediting
        PROVE  call'[g] = call[g] /\ call[g].at \in Crediting
               /\ call'[g].bet # b
    <3>1. call'[g] = call[g]
      BY <1>2, <2>4 DEF Records, OthersStay
    <3> QED
      BY <2>1, <2>4, <3>1
  <2>5. ASSUME NEW h \in Fibers, call'[h].at \in Crediting
        PROVE  ClaimOf(h)
    <3>1. CASE h = f
      <4>1. /\ winning'[call'[h].bet] = call'[h].amt
            /\ credits'[call'[h].bet] = <<>>
        BY <2>2, <2>3, <3>1
      <4>2. ASSUME NEW g \in Fibers, call'[g].at \in Crediting,
                   call'[g].bet = call'[h].bet
            PROVE  g = h
        BY <2>3, <2>4, <3>1, <4>2
      <4> QED
        BY <4>1, <4>2, Zenon DEF ClaimOf
    <3>2. CASE h # f
      <4>1. call'[h] = call[h] /\ call[h].at \in Crediting /\ call[h].bet # b
        BY <2>4, <2>5, <3>2
      <4>2. winning'[call[h].bet] = call[h].amt /\ credits'[call[h].bet] = <<>>
        BY <1>2, <2>3, <4>1 DEF Records, Claim, CallsOK, TablesOK
      <4>3. ASSUME NEW g \in Fibers, call'[g].at \in Crediting,
                   call'[g].bet = call[h].bet
            PROVE  g = h
        <5>1. g # f
          BY <2>3, <4>1, <4>3
        <5>2. call[g].at \in Crediting /\ call[g].bet = call[h].bet
          BY <2>4, <4>3, <5>1
        <5> QED
          BY <4>1, <5>2 DEF Claim
      <4>4. call'[h].bet = call[h].bet /\ call'[h].amt = call[h].amt
        BY <4>1
      <4> QED
        BY <4>2, <4>3, <4>4, Zenon
    <3> HIDE DEF ClaimOf
    <3> QED
      BY <3>1, <3>2
  <2>6. PaidOnceAsRecorded'
    BY <1>2 DEF Records, PaidOnceAsRecorded, TablesOK
  <2> HIDE DEF ClaimOf
  <2> QED
    BY <1>0, <2>5, <2>6
<1>3. ASSUME NEW f \in Fibers, Pays(f) PROVE PaymentInv'
  <2> DEFINE b == call[f].bet
  <2>1. b \in Bets /\ winning[b] = call[f].amt /\ credits[b] = <<>>
        /\ call[f].amt \in Amounts
    BY <1>3 DEF Pays, Claim, CallsOK
  <2>2. PICK a \in Amounts :
          /\ a = call[f].amt \/ (b \in BonusBets /\ a = "bonus")
          /\ credits' = [credits EXCEPT ![b] = <<a>>]
    BY <1>3, <2>1, AppendToEmpty DEF Pays
  <2>3. ASSUME NEW g \in Fibers, call'[g].at \in Crediting
        PROVE  call'[g] = call[g] /\ call[g].at \in Crediting
               /\ call[g].bet # b
    <3>1. g # f
      BY <1>3, <2>3 DEF Pays
    <3>2. call'[g] = call[g]
      BY <1>3, <3>1 DEF Pays, OthersStay
    <3> QED
      BY <1>3, <2>3, <3>1, <3>2 DEF Pays, Claim
  <2>4. ASSUME NEW h \in Fibers, call'[h].at \in Crediting
        PROVE  ClaimOf(h)
    <3>1. call'[h] = call[h] /\ call[h].at \in Crediting /\ call[h].bet # b
      BY <2>3, <2>4
    <3>2. credits'[call[h].bet] = <<>>
      BY <2>2, <3>1 DEF Claim, CallsOK, WalletOK
    <3>3. winning'[call[h].bet] = call[h].amt
      BY <1>3, <3>1 DEF Pays, Claim
    <3>4. ASSUME NEW g \in Fibers, call'[g].at \in Crediting,
                 call'[g].bet = call[h].bet
          PROVE  g = h
      <4>1. call[g].at \in Crediting /\ call[g].bet = call[h].bet
        BY <2>3, <3>4
      <4> QED
        BY <3>1, <4>1 DEF Claim
    <3>5. call'[h].bet = call[h].bet /\ call'[h].amt = call[h].amt
      BY <3>1
    <3> QED
      BY <3>2, <3>3, <3>4, <3>5, Zenon
  <2>5. PaidOnceAsRecorded'
    BY <1>3, <2>1, <2>2 DEF Pays, PaidOnceAsRecorded, TablesOK, WalletOK
  <2> HIDE DEF ClaimOf
  <2> QED
    BY <1>0, <2>4, <2>5
<1> QED
  BY StepKinds, <1>1, <1>2, <1>3

(* The winnings of a bet are credited at most once and as recorded, for    *)
(* any number of jobs, cashouts, manual updates, failures and crashes.     *)
THEOREM Payment == Spec => []PaidOnceAsRecorded
<1>1. Init => TypeOK /\ PaymentInv
  BY TypeInit, PaymentInit
<1>2. TypeOK /\ PaymentInv /\ [Next]_vars => (TypeOK /\ PaymentInv)'
  BY TablesStep, WalletStep, JobsStep, CallsStep, PaymentStep DEF TypeOK
<1>3. PaymentInv => PaidOnceAsRecorded
  BY DEF PaymentInv
<1> QED
  BY <1>1, <1>2, <1>3, PTL DEF Spec

(* Every behaviour of the jobs, cashouts and manual updates is one of      *)
(* PayOnce, with the table winning as what is recorded and the wallet as   *)
(* its ledger.                                                             *)
THEOREM Refinement == Spec => ImplementsPayOnce
<1>1. Init => PO!Init
  BY DEF Init, PO!Init
<1>2. TypeOK /\ PaymentInv /\ [Next]_vars => [PO!Next]_<<winning, credits>>
  <2> SUFFICES ASSUME TypeOK, PaymentInv, [Next]_vars
               PROVE  [PO!Next]_<<winning, credits>>
    OBVIOUS
  <2>1. CASE Neither
    BY <2>1 DEF Neither
  <2>2. ASSUME NEW f \in Fibers, Records(f) PROVE PO!Next
    BY <2>2 DEF Records, PO!Next, PO!Record
  <2>3. ASSUME NEW f \in Fibers, Pays(f) PROVE PO!Next
    <3> DEFINE b == call[f].bet
    <3>1. b \in Bets /\ winning[b] = call[f].amt /\ credits[b] = <<>>
          /\ winning[b] # "none"
      BY <2>3 DEF Pays, PaymentInv, Claim, TypeOK, CallsOK
    <3>2. PICK a \in Amounts :
            /\ a = call[f].amt \/ (b \in BonusBets /\ a = "bonus")
            /\ credits' = [credits EXCEPT ![b] = <<a>>]
      BY <2>3, <3>1, AppendToEmpty DEF Pays
    <3>3. PO!Pay(b, a)
      BY <2>3, <3>1, <3>2 DEF Pays, PO!Pay
    <3> QED
      BY <3>1, <3>3 DEF PO!Next
  <2> QED
    BY StepKinds, <2>1, <2>2, <2>3
<1>3. Init => TypeOK /\ PaymentInv
  BY TypeInit, PaymentInit
<1>4. TypeOK /\ PaymentInv /\ [Next]_vars => (TypeOK /\ PaymentInv)'
  BY TablesStep, WalletStep, JobsStep, CallsStep, PaymentStep DEF TypeOK
<1> QED
  BY <1>1, <1>2, <1>3, <1>4, PTL DEF Spec, ImplementsPayOnce, PO!Spec
-----------------------------------------------------------------------------
(***************************************************************************)
(* Nothing is lost.  As long as nothing fails or stops, a call that is to  *)
(* save or to credit a winning stays until that is done, and a bet becomes *)
(* won or cashed out only by a call that goes on to save its winning, or   *)
(* by a manual update, which has saved it before.                          *)
(***************************************************************************)
Finished == {BET_WON, BET_CASHOUT}

(* An admin's "won" writes the bet after it has saved the winning.         *)
WonIsWrittenLast ==
  \A f \in Fibers : call[f].cmd = "won" =>
    /\ call[f].at # "ad_refund"
    /\ call[f].at \in {"ad_credit", "ad_update"} => winning[call[f].bet] # "none"

InHand(labels, b) == \E f \in Fibers : call[f].bet = b /\ call[f].at \in labels

CarriesOn ==
  /\ faults = 0 /\ crashes = 0
  /\ \A g \in Fibers : call[g].at \in Saving =>
       call'[g] = call[g] \/ winning'[call[g].bet] # "none"
  /\ \A g \in Fibers : call[g].at \in Crediting =>
       call'[g] = call[g] \/ credits'[call[g].bet] # <<>>
  /\ \A b \in Bets : bet'[b].status \in Finished /\ winning'[b] = "none" =>
       bet[b].status \in Finished \/ InHand(Saving, b)'

(* A ledger that has been added to has an entry.                           *)
LEMMA AppendNotEmpty ==
  \A s \in Seq(Amounts), a \in Amounts : Append(s, a) # <<>>
OBVIOUS

(* A winning row stays, and so does what has been credited.                *)
LEMMA TablesGrow ==
  ASSUME TypeOK, [Next]_vars, NEW b \in Bets
  PROVE  /\ winning[b] # "none" => winning'[b] # "none"
         /\ credits[b] # <<>> => credits'[b] # <<>>
<1>1. CASE Neither
  BY <1>1 DEF Neither
<1>2. ASSUME NEW f \in Fibers, Records(f)
      PROVE  /\ winning[b] # "none" => winning'[b] # "none"
             /\ credits[b] # <<>> => credits'[b] # <<>>
  BY <1>2 DEF Records, TypeOK, TablesOK
<1>3. ASSUME NEW f \in Fibers, Pays(f)
      PROVE  /\ winning[b] # "none" => winning'[b] # "none"
             /\ credits[b] # <<>> => credits'[b] # <<>>
  <2>1. PICK a \in Amounts :
          credits' = [credits EXCEPT ![call[f].bet] = Append(@, a)]
    BY <1>3 DEF Pays
  <2>2. credits[b] \in Seq(Amounts)
    BY DEF TypeOK, WalletOK
  <2>3. credits'[b] = credits[b] \/ credits'[b] = Append(credits[b], a)
    BY <2>1 DEF TypeOK, WalletOK
  <2>4. Append(credits[b], a) # <<>>
    BY <2>2
  <2> QED
    BY <1>3, <2>3, <2>4 DEF Pays
<1> QED
  BY StepKinds, <1>1, <1>2, <1>3

(* What the helpers do to the command of the call they move.               *)
LEMMA ReturnForgets ==
  ASSUME CallsOK, NEW f \in Fibers, NEW l, Return(f, l)
  PROVE  call'[f].cmd = "none"
BY DEF CallsOK, Return, Start

(* Starting to work on a bet, a call has no command.                       *)
LEMMA EnterForgets ==
  ASSUME CallsOK, NEW f \in Fibers, NEW l, NEW b, Enter(f, l, b)
  PROVE  call'[f].cmd = "none" /\ call'[f].bet = b
BY DEF CallsOK, Enter, Start

(* Going on keeps the command.                                             *)
LEMMA GotoKeeps ==
  ASSUME CallsOK, NEW f \in Fibers, NEW l, Goto(f, l)
  PROVE  call'[f].cmd = call[f].cmd
BY DEF CallsOK, Goto

(* Every step keeps WonIsWrittenLast.                                      *)
LEMMA WonStep ==
  TypeOK /\ WonIsWrittenLast /\ [Next]_vars => WonIsWrittenLast'
<1> SUFFICES ASSUME TypeOK, WonIsWrittenLast, [Next]_vars
             PROVE  WonIsWrittenLast'
  OBVIOUS
<1> DEFINE Written(g) == call'[g].cmd = "won" =>
             /\ call'[g].at # "ad_refund"
             /\ call'[g].at \in {"ad_credit", "ad_update"}
                  => winning'[call'[g].bet] # "none"
           Manual == {"ad_refund", "ad_credit", "ad_update"}
<1> USE DEF TypeOK, At
<1>0. ASSUME NEW g \in Fibers, call'[g] = call[g] PROVE Written(g)
  <2>1. call[g].at = "ad_credit" \/ call[g].at = "ad_update" =>
          (winning[call[g].bet] # "none" => winning'[call[g].bet] # "none")
    BY TablesGrow DEF CallsOK
  <2> QED
    BY <1>0, <2>1 DEF WonIsWrittenLast
<1>a. ASSUME NEW f \in Fibers, OthersStay(f),
             call'[f].cmd = "none" \/ call'[f].at \notin Manual
      PROVE  WonIsWrittenLast'
  <2>1. ASSUME NEW g \in Fibers PROVE Written(g)
    <3>1. CASE g = f
      BY <1>a, <3>1
    <3>2. CASE g # f
      BY <1>a, <1>0, <3>2 DEF OthersStay
    <3> QED
      BY <3>1, <3>2
  <2> QED
    BY <2>1 DEF WonIsWrittenLast
<1>b. ASSUME UNCHANGED call PROVE WonIsWrittenLast'
  BY <1>b, <1>0 DEF WonIsWrittenLast
<1> HIDE DEF Written
<1>1. ASSUME NEW f \in Fibers, JobStep(f) PROVE WonIsWrittenLast'
  BY <1>1, <1>a, ReturnMoves DEF JobStep, JobCheck, JobLock, JobUnlock
<1>2. ASSUME NEW f \in Fibers, ResultingStep(f) PROVE WonIsWrittenLast'
  BY <1>2, <1>a, ReturnMoves, EnterMoves
     DEF ResultingStep, ResultingSelect, ResultingNext, DeleteClosure
<1>3. ASSUME NEW f \in Fibers, CloseStep(f) PROVE WonIsWrittenLast'
  <2>1. CASE CloseSelect(f)
    BY <2>1, <1>a, GotoWithMoves, EndCloseMoves DEF CloseSelect
  <2>2. CASE CloseUpdate(f)
    BY <2>2, <1>a, GotoMoves DEF CloseUpdate
  <2>3. CASE CloseSave(f)
    BY <2>3, <1>a, GotoMoves, EndCloseMoves DEF CloseSave
  <2>4. CASE CloseCredit(f)
    BY <2>4, <1>a, EndCloseMoves DEF CloseCredit
  <2> QED
    BY <1>3, <2>1, <2>2, <2>3, <2>4 DEF CloseStep
<1>4. ASSUME NEW f \in Fibers, SettlementStep(f) PROVE WonIsWrittenLast'
  <2>1. CASE SettlementSelect(f)
    BY <2>1, <1>a, ReturnMoves DEF SettlementSelect
  <2>2. CASE ResultBet(f)
    BY <2>2, <1>a, <1>b, EnterMoves DEF ResultBet
  <2>3. CASE ResultVoid(f)
    BY <2>3, <1>a, EnterMoves DEF ResultVoid
  <2>4. CASE ResultVoided(f)
    BY <2>4, <1>a, ReturnMoves DEF ResultVoided
  <2>5. CASE UpsertClosure(f)
    BY <2>5, <1>a, ReturnMoves DEF UpsertClosure
  <2> QED
    BY <1>4, <2>1, <2>2, <2>3, <2>4, <2>5 DEF SettlementStep
<1>5. ASSUME NEW f \in Fibers, UnsettledStep(f) PROVE WonIsWrittenLast'
  <2>1. CASE UnsettledSelect(f)
    BY <2>1, <1>a, ReturnMoves DEF UnsettledSelect
  <2>2. CASE UnsettledDecide(f)
    BY <2>2, <1>a, <1>b, EnterMoves DEF UnsettledDecide, Fibers
  <2> QED
    BY <1>5, <2>1, <2>2 DEF UnsettledStep
<1>6. ASSUME NEW f \in Fibers, CashoutStep(f) PROVE WonIsWrittenLast'
  BY <1>6, <1>a, ReturnMoves, GotoMoves, GotoWithMoves
     DEF CashoutStep, CashoutUpdate, CashoutSave, CashoutCredit
<1>7. ASSUME NEW f \in Fibers, ManualStep(f) PROVE WonIsWrittenLast'
  <2>1. CASE ManualSave(f)
    <3>1. CASE DuplicateWinning(f) /\ Return(f, "idle")
      BY <3>1, <1>a, ReturnMoves
    <3>2. CASE SaveWinning(f) /\ Goto(f, "ad_credit")
      <4>1. /\ OthersStay(f) /\ call'[f].at = "ad_credit"
            /\ call'[f].bet = call[f].bet
        BY <3>2, GotoMoves
      <4>2. winning'[call[f].bet] # "none"
        BY <2>1, <3>2 DEF ManualSave, SaveWinning, TablesOK, CallsOK
      <4>3. ASSUME NEW g \in Fibers PROVE Written(g)
        BY <4>1, <4>2, <1>0 DEF OthersStay, Written
      <4> QED
        BY <4>3 DEF WonIsWrittenLast, Written
    <3> QED
      BY <2>1, <3>1, <3>2 DEF ManualSave
  <2>2. CASE ManualCredit(f) \/ ManualRefund(f)
    <3>1. /\ OthersStay(f) /\ call'[f].at = "ad_update"
          /\ call'[f].bet = call[f].bet /\ call'[f].cmd = call[f].cmd
          /\ winning' = winning /\ call[f].at \in {"ad_credit", "ad_refund"}
      BY <2>2, GotoMoves, GotoKeeps
         DEF ManualCredit, ManualRefund, rowVars
    <3>2. Written(f)
      BY <3>1 DEF WonIsWrittenLast, Written
    <3>3. ASSUME NEW g \in Fibers PROVE Written(g)
      BY <3>1, <3>2, <1>0 DEF OthersStay
    <3> QED
      BY <3>3 DEF WonIsWrittenLast, Written
  <2>3. CASE ManualUpdate(f)
    BY <2>3, <1>a, ReturnMoves DEF ManualUpdate
  <2> QED
    BY <1>7, <2>1, <2>2, <2>3 DEF ManualStep
<1>8. ASSUME NEW f \in Fibers, Failure(f) PROVE WonIsWrittenLast'
  BY <1>8, <1>a, ReturnMoves, EndCloseMoves
     DEF Failure, StatementFails, CreditAnswerLost
<1>9. ASSUME NEW f \in Fibers, Request(f) PROVE WonIsWrittenLast'
  <2>1. ASSUME NEW b \in Bets, CashoutRead(f, b) PROVE WonIsWrittenLast'
    BY <2>1, <1>a, EnterMoves DEF CashoutRead
  <2>2. ASSUME NEW b \in Bets, NEW c \in Commands, ManualRead(f, b, c)
        PROVE  WonIsWrittenLast'
    <3>1. /\ call'[f].at = FirstStatement(c) /\ call'[f].cmd = c
          /\ OthersStay(f)
      BY <2>2 DEF ManualRead, CallsOK, OthersStay
    <3>2. c = "won" => FirstStatement(c) = "ad_winning"
      BY DEF FirstStatement
    <3>3. Written(f)
      BY <3>1, <3>2 DEF Written
    <3>4. ASSUME NEW g \in Fibers PROVE Written(g)
      BY <3>1, <3>3, <1>0 DEF OthersStay
    <3> QED
      BY <3>4 DEF WonIsWrittenLast, Written
  <2> QED
    BY <1>9, <2>1, <2>2 DEF Request
<1>10. CASE StartUp
  BY <1>10, <1>b DEF StartUp, StartUpReset, StartUpFix
<1>11. CASE Crash
  BY <1>11 DEF Crash, Start, WonIsWrittenLast
<1>12. CASE UNCHANGED vars
  BY <1>12, <1>b DEF vars
<1> QED
  BY <1>1, <1>2, <1>3, <1>4, <1>5, <1>6, <1>7, <1>8, <1>9, <1>10, <1>11,
     <1>12 DEF Next, Progress

(* As long as nothing fails or stops, every step carries on.               *)
LEMMA StepsCarryOn ==
  TypeOK /\ PaymentInv /\ WonIsWrittenLast /\ [Next]_vars
    /\ faults' = 0 /\ crashes' = 0 => CarriesOn
<1> SUFFICES ASSUME TypeOK, PaymentInv, WonIsWrittenLast, [Next]_vars,
                    faults' = 0, crashes' = 0
             PROVE  CarriesOn
  OBVIOUS
<1> DEFINE Calm     == faults = 0 /\ crashes = 0
           Busy     == Saving \cup Crediting
           Going(g) == /\ call[g].at \in Saving =>
                            call'[g] = call[g] \/ winning'[call[g].bet] # "none"
                       /\ call[g].at \in Crediting =>
                            call'[g] = call[g] \/ credits'[call[g].bet] # <<>>
           Owed(b)  == bet'[b].status \in Finished /\ winning'[b] = "none" =>
                         bet[b].status \in Finished \/ InHand(Saving, b)'
           Same(b)  == bet'[b].status \in Finished => bet[b].status \in Finished
<1> USE DEF TypeOK, At, rowVars, money, counters
<1>a. ASSUME NEW f \in Fibers, OthersStay(f), Calm, Going(f),
             \A b \in Bets : Owed(b)
      PROVE  CarriesOn
  <2>1. ASSUME NEW g \in Fibers PROVE Going(g)
    BY <1>a DEF OthersStay
  <2> HIDE DEF Owed
  <2>2. \A b \in Bets : bet'[b].status \in Finished /\ winning'[b] = "none" =>
          bet[b].status \in Finished \/ InHand(Saving, b)'
    BY <1>a DEF Owed
  <2> QED
    BY <1>a, <2>1, <2>2 DEF CarriesOn
<1>b. ASSUME NEW f \in Fibers, OthersStay(f), Calm, call[f].at \notin Busy,
             \A b \in Bets : Same(b)
      PROVE  CarriesOn
  BY <1>a, <1>b, Zenon DEF Going, Owed, Same, Busy
<1>c. ASSUME UNCHANGED call, Calm, \A b \in Bets : Same(b)
      PROVE  CarriesOn
  BY <1>c DEF CarriesOn
<1>d. ASSUME NEW b \in Bets, NEW s, NEW w, SetBet(b, s, w), s \notin Finished
      PROVE  \A c \in Bets : Same(c)
  BY <1>d DEF SetBet, TablesOK
<1>e. ASSUME UNCHANGED bet PROVE \A c \in Bets : Same(c)
  BY <1>e
<1>f. /\ BET_LOST \notin Finished /\ BET_PENDING \notin Finished
      /\ BET_VOIDED \notin Finished
  BY DEF Finished, BET_LOST, BET_PENDING, BET_VOIDED, BET_WON, BET_CASHOUT
<1> HIDE DEF Same, Owed, Going
<1>1. ASSUME NEW f \in Fibers, JobStep(f) PROVE CarriesOn
  BY <1>1, <1>b, <1>e, ReturnMoves DEF JobStep, JobCheck, JobLock, JobUnlock
<1>2. ASSUME NEW f \in Fibers, ResultingStep(f) PROVE CarriesOn
  BY <1>2, <1>b, <1>e, ReturnMoves, EnterMoves
     DEF ResultingStep, ResultingSelect, ResultingNext, DeleteClosure
<1>3. ASSUME NEW f \in Fibers, CloseStep(f) PROVE CarriesOn
  <2>1. CASE CloseSelect(f)
    BY <2>1, <1>b, <1>e, GotoWithMoves, EndCloseMoves DEF CloseSelect
  <2>2. CASE CloseUpdate(f)
    <3>1. /\ OthersStay(f) /\ call'[f].at = "cb_winning"
          /\ call'[f].bet = call[f].bet
      BY <2>2, GotoMoves DEF CloseUpdate
    <3>2. ASSUME NEW b \in Bets PROVE Owed(b)
      <4>1. CASE b = call[f].bet
        BY <3>1, <4>1 DEF Owed, InHand
      <4>2. CASE b # call[f].bet
        BY <2>2, <4>2 DEF CloseUpdate, SetBet, Owed, TablesOK
      <4> QED
        BY <4>1, <4>2
    <3> QED
      BY <2>2, <1>a, <3>1, <3>2 DEF CloseUpdate, Going
  <2>3. CASE CloseSave(f)
    <3>1. winning'[call[f].bet] # "none"
      BY <2>3 DEF CloseSave, SaveWinning, DuplicateWinning, HasWinning,
                  TablesOK, CallsOK
    <3> QED
      BY <2>3, <1>a, <1>e, <3>1, GotoMoves, EndCloseMoves
         DEF CloseSave, Going, Owed, Same
  <2>4. CASE CloseCredit(f)
    <3>1. credits'[call[f].bet] # <<>>
      <4> DEFINE a == IF call[f].bet \in BonusBets THEN "bonus" ELSE call[f].amt
      <4>1. a \in Amounts /\ call[f].bet \in Bets
        BY <2>4 DEF CloseCredit, CallsOK
      <4> HIDE DEF a
      <4>2. credits' = [credits EXCEPT ![call[f].bet] = Append(@, a)]
        BY <2>4 DEF CloseCredit, Credit, a
      <4>3. credits[call[f].bet] \in Seq(Amounts)
        BY <4>1 DEF WalletOK
      <4>4. credits'[call[f].bet] = Append(credits[call[f].bet], a)
        BY <4>1, <4>2 DEF WalletOK
      <4>5. Append(credits[call[f].bet], a) # <<>>
        BY <4>1, <4>3, AppendNotEmpty
      <4> QED
        BY <4>4, <4>5
    <3> QED
      BY <2>4, <1>a, <1>e, <3>1, EndCloseMoves DEF CloseCredit, Going, Owed, Same
  <2> QED
    BY <1>3, <2>1, <2>2, <2>3, <2>4 DEF CloseStep
<1>4. ASSUME NEW f \in Fibers, SettlementStep(f) PROVE CarriesOn
  <2>1. CASE SettlementSelect(f)
    BY <2>1, <1>b, <1>e, ReturnMoves DEF SettlementSelect
  <2>2. CASE ResultBet(f)
    <3>1. PICK b \in Bets :
            \/ UNCHANGED <<bet, call>>
            \/ SetBet(b, BET_LOST, STATUS_LOST) /\ UNCHANGED call
            \/ SetBet(b, BET_PENDING, STATUS_WON) /\ Enter(f, "closure", b)
      BY <2>2 DEF ResultBet, JobsOK, Jobs
    <3>2. \A c \in Bets : Same(c)
      BY <3>1, <1>d, <1>e, <1>f
    <3> QED
      BY <2>2, <1>b, <1>c, <3>1, <3>2, EnterMoves DEF ResultBet
  <2>3. CASE ResultVoid(f)
    <3>1. \A c \in Bets : Same(c)
      BY <2>3 DEF ResultVoid, Same, TablesOK
    <3> QED
      BY <2>3, <1>b, <3>1, EnterMoves DEF ResultVoid
  <2>4. CASE ResultVoided(f)
    <3>1. \A c \in Bets : Same(c)
      BY <2>4, <1>d, <1>e, <1>f DEF ResultVoided, CallsOK
    <3> QED
      BY <2>4, <1>b, <3>1, ReturnMoves DEF ResultVoided
  <2>5. CASE UpsertClosure(f)
    BY <2>5, <1>b, <1>e, ReturnMoves DEF UpsertClosure
  <2> QED
    BY <1>4, <2>1, <2>2, <2>3, <2>4, <2>5 DEF SettlementStep
<1>5. ASSUME NEW f \in Fibers, UnsettledStep(f) PROVE CarriesOn
  <2>1. CASE UnsettledSelect(f)
    BY <2>1, <1>b, <1>e, ReturnMoves DEF UnsettledSelect
  <2>2. CASE UnsettledDecide(f)
    <3>1. PICK b \in Bets :
            /\ SetBet(b, BET_LOST, STATUS_LOST) \/ UNCHANGED bet
            /\ \/ \E g \in Closers : At(g, "idle") /\ Enter(g, "cb_select", b)
               \/ UNCHANGED call
      BY <2>2 DEF UnsettledDecide, JobsOK, Jobs
    <3>2. \A c \in Bets : Same(c)
      BY <3>1, <1>d, <1>e, <1>f
    <3> QED
      BY <2>2, <1>b, <1>c, <3>1, <3>2, EnterMoves DEF UnsettledDecide, Fibers
  <2> QED
    BY <1>5, <2>1, <2>2 DEF UnsettledStep
<1>6. ASSUME NEW f \in Fibers, CashoutStep(f) PROVE CarriesOn
  <2>1. CASE CashoutUpdate(f)
    <3>1. OthersStay(f) /\ call'[f].at = "co_winning"
      BY <2>1, GotoWithMoves DEF CashoutUpdate
    <3>2. call'[f].bet = call[f].bet
      BY <2>1 DEF CashoutUpdate, GotoWith, CallsOK
    <3>3. ASSUME NEW b \in Bets PROVE Owed(b)
      <4>1. CASE b = call[f].bet
        BY <3>1, <3>2, <4>1 DEF Owed, InHand
      <4>2. CASE b # call[f].bet
        BY <2>1, <4>2 DEF CashoutUpdate, Owed, TablesOK
      <4> QED
        BY <4>1, <4>2
    <3> QED
      BY <2>1, <1>a, <3>1, <3>3 DEF CashoutUpdate, Going
  <2>2. CASE CashoutSave(f)
    <3>1. winning'[call[f].bet] # "none"
      BY <2>2 DEF CashoutSave, SaveWinning, DuplicateWinning, HasWinning,
                  TablesOK, CallsOK
    <3> QED
      BY <2>2, <1>a, <1>e, <3>1, GotoMoves, ReturnMoves
         DEF CashoutSave, Going, Owed, Same
  <2>3. CASE CashoutCredit(f)
    <3>1. credits'[call[f].bet] # <<>>
      BY <2>3 DEF CashoutCredit, Credit, CallsOK, WalletOK
    <3> QED
      BY <2>3, <1>a, <1>e, <3>1, ReturnMoves
         DEF CashoutCredit, Going, Owed, Same
  <2> QED
    BY <1>6, <2>1, <2>2, <2>3 DEF CashoutStep
<1>7. ASSUME NEW f \in Fibers, ManualStep(f) PROVE CarriesOn
  <2>1. CASE ManualSave(f)
    BY <2>1, <1>b, <1>e, GotoMoves, ReturnMoves DEF ManualSave
  <2>2. CASE ManualCredit(f)
    <3>1. credits'[call[f].bet] # <<>>
      BY <2>2 DEF ManualCredit, Credit, CallsOK, WalletOK
    <3> QED
      BY <2>2, <1>a, <1>e, <3>1, GotoMoves
         DEF ManualCredit, Going, Owed, Same
  <2>3. CASE ManualRefund(f)
    BY <2>3, <1>b, <1>e, GotoMoves DEF ManualRefund
  <2>4. CASE ManualUpdate(f)
    <3>1. FinalStatus(call[f].cmd)[1] \in Finished => call[f].cmd = "won"
      BY DEF FinalStatus, Finished, BET_CANCELLED, BET_PENDING, BET_LOST,
             BET_WON, BET_VOIDED, BET_CASHOUT
    <3>2. call[f].cmd = "won" => winning'[call[f].bet] # "none"
      BY <2>4 DEF ManualUpdate, WonIsWrittenLast
    <3>3. ASSUME NEW b \in Bets PROVE Owed(b)
      BY <2>4, <3>1, <3>2 DEF ManualUpdate, SetBet, Owed, TablesOK
    <3> QED
      BY <2>4, <1>a, <3>3, ReturnMoves DEF ManualUpdate, Going
  <2> QED
    BY <1>7, <2>1, <2>2, <2>3, <2>4 DEF ManualStep
<1>8. ASSUME NEW f \in Fibers, Failure(f) PROVE CarriesOn
  BY <1>8 DEF Failure, StatementFails, CreditAnswerLost, WalletOK
<1>9. ASSUME NEW f \in Fibers, Request(f) PROVE CarriesOn
  <2>1. ASSUME NEW b \in Bets, CashoutRead(f, b) PROVE CarriesOn
    BY <2>1, <1>b, <1>e, EnterMoves DEF CashoutRead
  <2>2. ASSUME NEW b \in Bets, NEW c \in Commands, ManualRead(f, b, c)
        PROVE  CarriesOn
    <3>1. OthersStay(f)
      BY <2>2 DEF ManualRead, CallsOK, OthersStay
    <3> QED
      BY <2>2, <1>b, <1>e, <3>1 DEF ManualRead
  <2> QED
    BY <1>9, <2>1, <2>2 DEF Request
<1>10. CASE StartUp
  BY <1>10, <1>c, <1>e DEF StartUp, StartUpReset, StartUpFix
<1>11. CASE Crash
  BY <1>11 DEF Crash, WalletOK
<1>12. CASE UNCHANGED vars
  BY <1>12, <1>c, <1>e DEF vars
<1> QED
  BY <1>1, <1>2, <1>3, <1>4, <1>5, <1>6, <1>7, <1>8, <1>9, <1>10, <1>11,
     <1>12 DEF Next, Progress

(* A step that carries on keeps OnlyInterruptionsLoseMoney.                *)
LEMMA NothingLost ==
  TypeOK /\ PaymentInv /\ WonIsWrittenLast /\ [Next]_vars
    /\ OnlyInterruptionsLoseMoney => OnlyInterruptionsLoseMoney'
<1> SUFFICES ASSUME TypeOK, PaymentInv, WonIsWrittenLast, [Next]_vars,
                    OnlyInterruptionsLoseMoney, faults' = 0, crashes' = 0,
                    NEW b \in Bets
             PROVE  /\ bet'[b].status \in Finished /\ winning'[b] = "none" =>
                         InHand(Saving, b)'
                    /\ winning'[b] # "none" /\ credits'[b] = <<>> =>
                         InHand(Crediting, b)'
  BY DEF OnlyInterruptionsLoseMoney, Finished, InHand
<1>1. CarriesOn
  BY StepsCarryOn
<1>2. /\ winning[b] # "none" => winning'[b] # "none"
      /\ credits[b] # <<>> => credits'[b] # <<>>
  BY TablesGrow
<1>3. ASSUME bet'[b].status \in Finished, winning'[b] = "none"
      PROVE  InHand(Saving, b)'
  <2>1. CASE bet[b].status \in Finished
    <3>1. InHand(Saving, b)
      BY <1>1, <1>2, <1>3, <2>1
         DEF CarriesOn, OnlyInterruptionsLoseMoney, Finished, InHand
    <3>2. PICK f \in Fibers : call[f].bet = b /\ call[f].at \in Saving
      BY <3>1 DEF InHand
    <3>3. call'[f] = call[f]
      BY <1>1, <1>3, <3>2 DEF CarriesOn
    <3> QED
      BY <3>2, <3>3 DEF InHand
  <2>2. CASE bet[b].status \notin Finished
    BY <1>1, <1>3, <2>2 DEF CarriesOn
  <2> QED
    BY <2>1, <2>2
<1>4. ASSUME winning'[b] # "none", credits'[b] = <<>>
      PROVE  InHand(Crediting, b)'
  <2>1. CASE winning[b] # "none"
    <3>1. InHand(Crediting, b)
      BY <1>1, <1>2, <1>4, <2>1
         DEF CarriesOn, OnlyInterruptionsLoseMoney, InHand
    <3>2. PICK f \in Fibers : call[f].bet = b /\ call[f].at \in Crediting
      BY <3>1 DEF InHand
    <3>3. call'[f] = call[f]
      BY <1>1, <1>4, <3>2 DEF CarriesOn
    <3> QED
      BY <3>2, <3>3 DEF InHand
  <2>2. CASE winning[b] = "none"
    <3>1. PICK f \in Fibers : Records(f)
      BY StepKinds, <1>4, <2>2 DEF Neither, Pays
    <3>2. call[f].bet = b
      BY <1>4, <2>2, <3>1 DEF Records, TypeOK, TablesOK
    <3> QED
      BY <3>1, <3>2 DEF Records, InHand
  <2> QED
    BY <2>1, <2>2
<1> QED
  BY <1>3, <1>4

(* Without a failure or a crash no winning is lost, for any number of jobs,*)
(* cashouts and manual updates: a won or cashed out bet has its winning    *)
(* row or a call about to save it, and a winning row is credited or has a  *)
(* call about to credit it.                                                *)
THEOREM Winnings == Spec => []OnlyInterruptionsLoseMoney
<1> DEFINE Inv == /\ TypeOK /\ PaymentInv /\ WonIsWrittenLast
                  /\ OnlyInterruptionsLoseMoney
<1>1. Init => Inv
  <2>1. Init => WonIsWrittenLast
    BY DEF Init, Start, WonIsWrittenLast
  <2>2. Init => OnlyInterruptionsLoseMoney
    BY DEF Init, OnlyInterruptionsLoseMoney, BET_PENDING, BET_WON, BET_CASHOUT
  <2> QED
    BY <2>1, <2>2, TypeInit, PaymentInit
<1>2. Inv /\ [Next]_vars => Inv'
  BY TablesStep, WalletStep, JobsStep, CallsStep, PaymentStep, WonStep,
     NothingLost DEF TypeOK
<1>3. Inv => OnlyInterruptionsLoseMoney
  OBVIOUS
<1> QED
  BY <1>1, <1>2, <1>3, PTL DEF Spec

-----------------------------------------------------------------------------
(* The job locks.                                                          *)

(* An invocation is of one kind.                                           *)
LEMMA KindsApart ==
  /\ Jobs \cap (Closers \cup Cashouts \cup Admins) = {}
  /\ ResultingJobs \cap (SettlementJobs \cup UnsettledJobs) = {}
  /\ SettlementJobs \cap UnsettledJobs = {}
  /\ Closers \cap (Cashouts \cup Admins) = {} /\ Cashouts \cap Admins = {}
<1>1. /\ Pairwise[1] = ResultingJobs /\ Pairwise[2] = SettlementJobs
      /\ Pairwise[3] = UnsettledJobs /\ Pairwise[4] = Closers
      /\ Pairwise[5] = Cashouts /\ Pairwise[6] = Admins
  BY DEF Pairwise
<1>2. \A i, j \in 1..6 : i # j => Pairwise[i] \cap Pairwise[j] = {}
  BY FibersAssumption
<1>a. /\ Pairwise[1] \cap Pairwise[2] = {} /\ Pairwise[1] \cap Pairwise[3] = {}
      /\ Pairwise[1] \cap Pairwise[4] = {} /\ Pairwise[1] \cap Pairwise[5] = {}
      /\ Pairwise[1] \cap Pairwise[6] = {}
  BY <1>2
<1>b. /\ Pairwise[2] \cap Pairwise[3] = {} /\ Pairwise[2] \cap Pairwise[4] = {}
      /\ Pairwise[2] \cap Pairwise[5] = {} /\ Pairwise[2] \cap Pairwise[6] = {}
  BY <1>2
<1>c. /\ Pairwise[3] \cap Pairwise[4] = {} /\ Pairwise[3] \cap Pairwise[5] = {}
      /\ Pairwise[3] \cap Pairwise[6] = {} /\ Pairwise[4] \cap Pairwise[5] = {}
      /\ Pairwise[4] \cap Pairwise[6] = {} /\ Pairwise[5] \cap Pairwise[6] = {}
  BY <1>2
<1> QED
  BY <1>1, <1>a, <1>b, <1>c, Zenon DEF Jobs

(* A call of closeBet in the job goes on to unlist the bet, another ends.  *)
LEMMA EndCloseGoes ==
  ASSUME CallsOK, NEW f \in CloseBetCalls, EndClose(f)
  PROVE  /\ f \in ResultingJobs => call'[f].at = "delete"
         /\ f \notin ResultingJobs => call'[f].at = "idle" /\ f \notin Jobs
         /\ OthersStay(f)
<1>1. f \in Fibers
  BY DEF CloseBetCalls, Fibers, Jobs
<1>2. f \notin ResultingJobs => f \notin Jobs
  BY KindsApart DEF CloseBetCalls
<1> QED
  BY <1>1, <1>2, ReturnMoves, GotoWithMoves DEF EndClose

Unlocked == {"idle", "lock"}

(* A step leaves the locks, and the invocations that hold them unless a    *)
(* statement fails; or takes a lock, frees one, or frees all; or the       *)
(* process stops.                                                          *)
LocksKept ==
  /\ UNCHANGED running /\ faults' \in Nat /\ faults' >= faults
  /\ startup = "reset" => startup' = "reset"
  /\ \A g \in Jobs : call[g].at \notin Unlocked =>
       call'[g].at \notin Unlocked \/ (g \in ResultingJobs /\ faults' > 0)

Locks(f) ==
  /\ f \in Jobs /\ running' = running \cup {JobName(f)}
  /\ call'[f].at = "select" /\ OthersStay(f) /\ UNCHANGED <<startup, faults>>

Unlocks(f) ==
  /\ f \in Jobs /\ running' = running \ {JobName(f)}
  /\ OthersStay(f) /\ UNCHANGED <<startup, faults>>

LEMMA LockSteps ==
  TypeOK /\ [Next]_vars =>
    \/ LocksKept \/ running' = {} \/ startup' = "reset"
    \/ \E f \in Jobs : Locks(f) \/ Unlocks(f)
<1> DEFINE Kinds == \/ LocksKept \/ running' = {} \/ startup' = "reset"
                    \/ \E f \in Jobs : Locks(f) \/ Unlocks(f)
<1> SUFFICES ASSUME TypeOK, [Next]_vars PROVE Kinds
  OBVIOUS
<1> USE DEF TypeOK, At, rowVars, counters
<1>a. faults \in Nat
  BY DEF WalletOK
<1>0. ASSUME NEW f \in Fibers, UNCHANGED <<running, startup, faults>>,
             f \in Jobs => \/ call[f].at \in Unlocked
                           \/ call'[f].at \notin Unlocked,
             OthersStay(f)
      PROVE  LocksKept
  <2>1. \A g \in Jobs : g \in Fibers
    BY DEF Fibers
  <2> QED
    BY <1>0, <1>a, <2>1 DEF LocksKept, OthersStay
<1> HIDE DEF Kinds
<1>1. ASSUME NEW f \in Fibers, JobStep(f) PROVE Kinds
  <2>1. CASE JobCheck(f)
    BY <2>1, <1>0, ReturnMoves DEF JobCheck, Kinds, Unlocked
  <2>2. CASE JobLock(f)
    BY <2>2, ReturnMoves DEF JobLock, Kinds, Locks
  <2>3. CASE JobUnlock(f)
    BY <2>3, ReturnMoves DEF JobUnlock, Kinds, Unlocks
  <2> QED
    BY <1>1, <2>1, <2>2, <2>3 DEF JobStep
<1>2. ASSUME NEW f \in Fibers, ResultingStep(f) PROVE Kinds
  <2>1. CASE ResultingSelect(f)
    BY <2>1, <1>0, ReturnMoves DEF ResultingSelect, Kinds, Unlocked
  <2>2. CASE ResultingNext(f)
    BY <2>2, <1>0, EnterMoves DEF ResultingNext, Kinds, Unlocked
  <2>3. CASE DeleteClosure(f)
    BY <2>3, <1>0, ReturnMoves DEF DeleteClosure, Kinds, Unlocked
  <2> QED
    BY <1>2, <2>1, <2>2, <2>3 DEF ResultingStep
<1>3. ASSUME NEW f \in Fibers, CloseStep(f) PROVE Kinds
  <2>1. CASE CloseSelect(f)
    BY <2>1, <1>0, GotoWithMoves, EndCloseGoes DEF CloseSelect, Kinds, Unlocked
  <2>2. CASE CloseUpdate(f)
    BY <2>2, <1>0, GotoMoves DEF CloseUpdate, Kinds, Unlocked
  <2>3. CASE CloseSave(f)
    BY <2>3, <1>0, GotoMoves, EndCloseGoes DEF CloseSave, Kinds, Unlocked
  <2>4. CASE CloseCredit(f)
    BY <2>4, <1>0, EndCloseGoes DEF CloseCredit, Kinds, Unlocked
  <2> QED
    BY <1>3, <2>1, <2>2, <2>3, <2>4 DEF CloseStep
<1>4. ASSUME NEW f \in Fibers, SettlementStep(f) PROVE Kinds
  <2>1. CASE SettlementSelect(f)
    BY <2>1, <1>0, ReturnMoves DEF SettlementSelect, Kinds, Unlocked
  <2>2. CASE ResultBet(f)
    <3>1. \/ UNCHANGED call
          \/ \E b \in rows[f] : Enter(f, "closure", b)
      BY <2>2 DEF ResultBet
    <3>2. OthersStay(f) /\ (UNCHANGED call \/ call'[f].at = "closure")
      BY <3>1, EnterMoves DEF OthersStay
    <3> QED
      BY <2>2, <1>0, <3>2 DEF ResultBet, Kinds, Unlocked
  <2>3. CASE ResultVoid(f)
    BY <2>3, <1>0, EnterMoves DEF ResultVoid, Kinds, Unlocked
  <2>4. CASE ResultVoided(f)
    BY <2>4, <1>0, ReturnMoves DEF ResultVoided, Kinds, Unlocked
  <2>5. CASE UpsertClosure(f)
    BY <2>5, <1>0, ReturnMoves DEF UpsertClosure, Kinds, Unlocked
  <2> QED
    BY <1>4, <2>1, <2>2, <2>3, <2>4, <2>5 DEF SettlementStep
<1>5. ASSUME NEW f \in Fibers, UnsettledStep(f) PROVE Kinds
  <2>1. CASE UnsettledSelect(f)
    BY <2>1, <1>0, ReturnMoves DEF UnsettledSelect, Kinds, Unlocked
  <2>2. CASE UnsettledDecide(f)
    <3>1. \/ UNCHANGED call
          \/ \E g \in Closers, b \in rows[f] : Enter(g, "cb_select", b)
      BY <2>2 DEF UnsettledDecide
    <3>2. UNCHANGED <<running, startup, faults>>
      BY <2>2 DEF UnsettledDecide
    <3>3. CASE UNCHANGED call
      BY <3>3, <3>2, <1>a DEF LocksKept, Kinds
    <3>4. ASSUME NEW g \in Closers, NEW b \in rows[f], Enter(g, "cb_select", b)
          PROVE  Kinds
      <4>1. g \in Fibers /\ g \notin Jobs
        BY KindsApart DEF Fibers
      <4> QED
        BY <1>0, <3>2, <3>4, <4>1, EnterMoves DEF Kinds
    <3> QED
      BY <3>1, <3>3, <3>4
  <2> QED
    BY <1>5, <2>1, <2>2 DEF UnsettledStep
<1>6. ASSUME NEW f \in Fibers, CashoutStep(f) PROVE Kinds
  <2>1. f \notin Jobs /\ UNCHANGED <<running, startup, faults>>
    BY <1>6, KindsApart DEF CashoutStep, CashoutUpdate, CashoutSave, CashoutCredit
  <2>2. OthersStay(f)
    BY <1>6, ReturnMoves, GotoMoves, GotoWithMoves
       DEF CashoutStep, CashoutUpdate, CashoutSave, CashoutCredit
  <2> QED
    BY <1>0, <2>1, <2>2 DEF Kinds
<1>7. ASSUME NEW f \in Fibers, ManualStep(f) PROVE Kinds
  <2>1. f \notin Jobs /\ UNCHANGED <<running, startup, faults>>
    BY <1>7, KindsApart
       DEF ManualStep, ManualSave, ManualCredit, ManualRefund, ManualUpdate
  <2>2. OthersStay(f)
    BY <1>7, ReturnMoves, GotoMoves
       DEF ManualStep, ManualSave, ManualCredit, ManualRefund, ManualUpdate
  <2> QED
    BY <1>0, <2>1, <2>2 DEF Kinds
<1>8. ASSUME NEW f \in Fibers, Failure(f) PROVE Kinds
  <2>1. CASE StatementFails(f)
    <3>1. /\ f \in Jobs => f \in ResultingJobs
          /\ faults' = faults + 1 /\ UNCHANGED <<running, startup>>
      BY <2>1 DEF StatementFails, Jobs
    <3>2. OthersStay(f)
      BY <2>1, ReturnMoves, EndCloseMoves DEF StatementFails
    <3>3. \A g \in Jobs : g = f \/ call'[g] = call[g]
      BY <3>2 DEF OthersStay, Fibers
    <3> QED
      BY <1>a, <3>1, <3>3 DEF LocksKept, Kinds
  <2>2. CASE CreditAnswerLost(f)
    <3>1. /\ f \notin Jobs /\ faults' = faults + 1
          /\ UNCHANGED <<running, startup>>
      BY <2>2, KindsApart DEF CreditAnswerLost
    <3>2. OthersStay(f)
      BY <2>2, ReturnMoves DEF CreditAnswerLost
    <3>3. \A g \in Jobs : call'[g] = call[g]
      BY <3>1, <3>2 DEF OthersStay, Fibers
    <3> QED
      BY <1>a, <3>1, <3>3 DEF LocksKept, Kinds
  <2> QED
    BY <1>8, <2>1, <2>2 DEF Failure
<1>9. ASSUME NEW f \in Fibers, Request(f) PROVE Kinds
  <2>1. f \notin Jobs /\ UNCHANGED <<running, startup, faults>>
    BY <1>9, KindsApart DEF Request, CashoutRead, ManualRead
  <2>2. OthersStay(f)
    <3>1. ASSUME NEW b \in Bets, CashoutRead(f, b) PROVE OthersStay(f)
      BY <3>1, EnterMoves DEF CashoutRead
    <3>2. ASSUME NEW b \in Bets, NEW c \in Commands, ManualRead(f, b, c)
          PROVE  OthersStay(f)
      BY <3>2 DEF ManualRead, CallsOK, OthersStay
    <3> QED
      BY <1>9, <3>1, <3>2 DEF Request
  <2> QED
    BY <1>0, <2>1, <2>2 DEF Kinds
<1>10. CASE StartUp
  BY <1>10, <1>a DEF StartUp, StartUpReset, StartUpFix, LocksKept, Kinds
<1>11. CASE Crash
  BY <1>11 DEF Crash, Kinds
<1>12. CASE UNCHANGED vars
  BY <1>12, <1>a DEF vars, LocksKept, Kinds
<1> QED
  BY <1>1, <1>2, <1>3, <1>4, <1>5, <1>6, <1>7, <1>8, <1>9, <1>10, <1>11,
     <1>12 DEF Next, Progress

(* A job lock that is held is held for an invocation that runs, with the   *)
(* exceptions of LocksHaveHolders (taskProcessBetResulting and the others).*)
THEOREM Holders == Spec => []LocksHaveHolders
<1>1. Init => LocksHaveHolders
  BY DEF Init, LocksHaveHolders
<1>2. TypeOK /\ LocksHaveHolders /\ [Next]_vars => LocksHaveHolders'
  <2> SUFFICES ASSUME TypeOK, LocksHaveHolders, [Next]_vars
               PROVE  LocksHaveHolders'
    OBVIOUS
  <2>a. \A g \in Jobs : g \in Fibers
    BY DEF Fibers
  <2>1. CASE LocksKept
    <3> SUFFICES ASSUME NEW n \in running', startup' # "reset",
                        ~(n = "bet.resulting" /\ faults' > 0)
                 PROVE  \E f \in Jobs : /\ JobName(f) = n
                                        /\ call'[f].at \notin {"idle", "lock"}
      BY DEF LocksHaveHolders
    <3>1. n \in running /\ startup # "reset" /\ faults \in Nat
      BY <2>1 DEF LocksKept, TypeOK, WalletOK
    <3>2. ~(n = "bet.resulting" /\ faults > 0)
      BY <2>1, <3>1 DEF LocksKept
    <3>3. PICK f \in Jobs : JobName(f) = n /\ call[f].at \notin {"idle", "lock"}
      BY <3>1, <3>2 DEF LocksHaveHolders
    <3>4. ~(f \in ResultingJobs /\ faults' > 0)
      <4>1. f \in ResultingJobs => JobName(f) = "bet.resulting"
        BY KindsApart DEF JobName
      <4> QED
        BY <3>3, <4>1
    <3> QED
      BY <2>1, <3>3, <3>4 DEF LocksKept, Unlocked
  <2>2. CASE running' = {} \/ startup' = "reset"
    BY <2>2 DEF LocksHaveHolders
  <2>3. ASSUME NEW f \in Jobs, Locks(f) PROVE LocksHaveHolders'
    <3> SUFFICES ASSUME NEW n \in running', startup # "reset",
                        ~(n = "bet.resulting" /\ faults > 0)
                 PROVE  \E g \in Jobs : /\ JobName(g) = n
                                        /\ call'[g].at \notin {"idle", "lock"}
      BY <2>3 DEF LocksHaveHolders, Locks
    <3>1. CASE n = JobName(f)
      BY <2>3, <3>1 DEF Locks
    <3>2. CASE n # JobName(f)
      <4>1. PICK g \in Jobs : JobName(g) = n /\ call[g].at \notin {"idle", "lock"}
        BY <2>3, <3>2 DEF Locks, LocksHaveHolders
      <4> QED
        BY <2>3, <2>a, <3>2, <4>1 DEF Locks, OthersStay
    <3> QED
      BY <3>1, <3>2
  <2>4. ASSUME NEW f \in Jobs, Unlocks(f) PROVE LocksHaveHolders'
    <3> SUFFICES ASSUME NEW n \in running', startup # "reset",
                        ~(n = "bet.resulting" /\ faults > 0)
                 PROVE  \E g \in Jobs : /\ JobName(g) = n
                                        /\ call'[g].at \notin {"idle", "lock"}
      BY <2>4 DEF LocksHaveHolders, Unlocks
    <3>1. n # JobName(f) /\ n \in running
      BY <2>4 DEF Unlocks
    <3>2. PICK g \in Jobs : JobName(g) = n /\ call[g].at \notin {"idle", "lock"}
      BY <3>1 DEF LocksHaveHolders
    <3> QED
      BY <2>4, <2>a, <3>1, <3>2 DEF Unlocks, OthersStay
  <2> QED
    BY <2>1, <2>2, <2>3, <2>4, LockSteps
<1> QED
  BY <1>1, <1>2, TypeCorrect, PTL DEF Spec

-----------------------------------------------------------------------------
(***************************************************************************)
(* Won bets are listed.  A bet that the settlement job may still select or *)
(* has selected is not yet won, and nobody closes it; from then on it is   *)
(* resulted once, so that what the resulting job is about to unlist does   *)
(* not become won and unpaid again.                                        *)
(***************************************************************************)
Selectable(row) == /\ row.status \in {BET_PENDING, BET_LOST}
                   /\ row.won = STATUS_NOT_LOST_OR_WON

Undecided(b) == \/ Selectable(bet[b])
                \/ \E j \in SettlementJobs : b \in rows[j]

Working(f, b) == /\ call[f].at \in CloseLabels \cup {"delete"}
                 /\ call[f].bet = b

Unlisting(f, b) == call[f].at = "delete" /\ call[f].bet = b
Listing(j, b)   == call[j].at = "closure" /\ call[j].bet = b

Untouched(b) ==
  /\ b \notin closure /\ ~WonUnpaid(b)
  /\ \A f \in ResultingJobs : b \notin rows[f] /\ ~Working(f, b)
  /\ \A j \in SettlementJobs : ~Listing(j, b)

ListInv ==
  \A b \in Bets :
    /\ Undecided(b) => Untouched(b)
    /\ \A f \in ResultingJobs :
         Unlisting(f, b) /\ faults = 0 => ~WonUnpaid(b)
    /\ faults = 0 /\ startup = "done" /\ WonUnpaid(b) =>
         b \in closure \/ \E j \in SettlementJobs : Listing(j, b)

ManualLabels == {"ad_winning", "ad_credit", "ad_refund", "ad_update"}

Commanded ==
  \A f \in Fibers : call[f].at \in ManualLabels => call[f].cmd \in Commands

LEMMA CommandedStep ==
  ASSUME TypeOK, Commanded, [Next]_vars
  PROVE  Commanded'
<1> USE DEF TypeOK, At, ManualLabels
<1>a. ASSUME NEW f \in Fibers, OthersStay(f),
             \/ call'[f].at \notin ManualLabels
             \/ /\ call[f].at \in ManualLabels
                /\ call'[f].cmd = call[f].cmd
      PROVE  Commanded'
  BY <1>a DEF Commanded, OthersStay
<1>b. ASSUME UNCHANGED call PROVE Commanded'
  BY <1>b DEF Commanded
<1>1. ASSUME NEW f \in Fibers, JobStep(f) PROVE Commanded'
  BY <1>1, <1>a, ReturnMoves DEF JobStep, JobCheck, JobLock, JobUnlock
<1>2. ASSUME NEW f \in Fibers, ResultingStep(f) PROVE Commanded'
  BY <1>2, <1>a, ReturnMoves, EnterMoves
     DEF ResultingStep, ResultingSelect, ResultingNext, DeleteClosure
<1>3. ASSUME NEW f \in Fibers, CloseStep(f) PROVE Commanded'
  BY <1>3, <1>a, GotoMoves, GotoWithMoves, EndCloseMoves
     DEF CloseStep, CloseSelect, CloseUpdate, CloseSave, CloseCredit
<1>4. ASSUME NEW f \in Fibers, SettlementStep(f) PROVE Commanded'
  <2>1. CASE SettlementSelect(f) \/ ResultVoided(f) \/ UpsertClosure(f)
    BY <2>1, <1>a, ReturnMoves DEF SettlementSelect, ResultVoided, UpsertClosure
  <2>2. CASE ResultBet(f)
    BY <2>2, <1>a, <1>b, EnterMoves DEF ResultBet
  <2>3. CASE ResultVoid(f)
    BY <2>3, <1>a, EnterMoves DEF ResultVoid
  <2> QED
    BY <1>4, <2>1, <2>2, <2>3 DEF SettlementStep
<1>5. ASSUME NEW f \in Fibers, UnsettledStep(f) PROVE Commanded'
  <2>1. CASE UnsettledSelect(f)
    BY <2>1, <1>a, ReturnMoves DEF UnsettledSelect
  <2>2. CASE UnsettledDecide(f)
    BY <2>2, <1>a, <1>b, EnterMoves DEF UnsettledDecide, Fibers
  <2> QED
    BY <1>5, <2>1, <2>2 DEF UnsettledStep
<1>6. ASSUME NEW f \in Fibers, CashoutStep(f) PROVE Commanded'
  BY <1>6, <1>a, ReturnMoves, GotoMoves, GotoWithMoves
     DEF CashoutStep, CashoutUpdate, CashoutSave, CashoutCredit
<1>7. ASSUME NEW f \in Fibers, ManualStep(f) PROVE Commanded'
  BY <1>7, <1>a, ReturnMoves, GotoMoves, GotoKeeps
     DEF ManualStep, ManualSave, ManualCredit, ManualRefund, ManualUpdate
<1>8. ASSUME NEW f \in Fibers, Failure(f) PROVE Commanded'
  BY <1>8, <1>a, ReturnMoves, EndCloseMoves
     DEF Failure, StatementFails, CreditAnswerLost
<1>9. ASSUME NEW f \in Fibers, Request(f) PROVE Commanded'
  <2>1. ASSUME NEW b \in Bets, CashoutRead(f, b) PROVE Commanded'
    BY <2>1, <1>a, EnterMoves DEF CashoutRead
  <2>2. ASSUME NEW b \in Bets, NEW c \in Commands, ManualRead(f, b, c)
        PROVE  Commanded'
    <3>1. call'[f].cmd = c /\ OthersStay(f)
      BY <2>2 DEF ManualRead, CallsOK, OthersStay
    <3> QED
      BY <3>1 DEF Commanded, OthersStay
  <2> QED
    BY <1>9, <2>1, <2>2 DEF Request
<1>10. CASE StartUp
  BY <1>10, <1>b DEF StartUp, StartUpReset, StartUpFix
<1>11. CASE Crash
  BY <1>11 DEF Crash, Start, Commanded
<1>12. CASE UNCHANGED vars
  BY <1>12, <1>b DEF vars
<1> QED
  BY <1>1, <1>2, <1>3, <1>4, <1>5, <1>6, <1>7, <1>8, <1>9, <1>10, <1>11,
     <1>12 DEF Next, Progress

(* The settlement job results b as won and goes on to list it.             *)
ResultsWon(j, b) ==
  /\ b \in rows[j] /\ rows' = [rows EXCEPT ![j] = @ \ {b}]
  /\ Listing(j, b)' /\ OthersStay(j)
  /\ bet'[b].status = BET_PENDING /\ bet'[b].won = STATUS_WON
  /\ UNCHANGED <<winning, closure, startup, faults>>

(* What a step may do to the row of b.                                     *)
RowKept(b) == bet'[b].status = bet[b].status /\ bet'[b].won = bet[b].won

RowClosed(b) ==
  /\ ~Selectable(bet'[b])
  /\ ~(bet'[b].status = BET_PENDING /\ bet'[b].won = STATUS_WON)

LEMMA RowSteps ==
  ASSUME TypeOK, Commanded, "pending" \notin Commands, [Next]_vars,
         NEW b \in Bets
  PROVE  \/ RowKept(b) \/ RowClosed(b)
         \/ \E j \in SettlementJobs : ResultsWon(j, b)
<1> DEFINE Kinds == \/ RowKept(b) \/ RowClosed(b)
                    \/ \E j \in SettlementJobs : ResultsWon(j, b)
<1> SUFFICES Kinds
  OBVIOUS
<1> USE DEF TypeOK, TablesOK, At, rowVars, counters
<1>s. /\ BET_PENDING # BET_LOST /\ BET_WON \notin {BET_PENDING, BET_LOST}
      /\ BET_VOIDED \notin {BET_PENDING, BET_LOST}
      /\ BET_CANCELLED \notin {BET_PENDING, BET_LOST}
      /\ BET_CASHOUT \notin {BET_PENDING, BET_LOST}
      /\ STATUS_LOST \notin {STATUS_WON, STATUS_NOT_LOST_OR_WON}
      /\ STATUS_WON # STATUS_NOT_LOST_OR_WON
  BY DEF BET_CANCELLED, BET_PENDING, BET_LOST, BET_WON, BET_VOIDED,
     BET_CASHOUT, STATUS_NOT_LOST_OR_WON, STATUS_LOST, STATUS_WON
<1>0. ASSUME UNCHANGED bet PROVE Kinds
  BY <1>0 DEF RowKept
<1>a. ASSUME NEW d \in Bets, NEW s, NEW w, SetBet(d, s, w),
             \/ s \notin {BET_PENDING, BET_LOST}
             \/ w = STATUS_LOST
      PROVE  Kinds
  <2>1. \/ bet'[b] = bet[b]
        \/ bet'[b].status = s /\ bet'[b].won = w
    BY <1>a DEF SetBet
  <2> QED
    BY <1>a, <1>s, <2>1 DEF RowKept, RowClosed, Selectable
<1> HIDE DEF Kinds
<1>1. ASSUME NEW f \in Fibers, JobStep(f) PROVE Kinds
  BY <1>1, <1>0 DEF JobStep, JobCheck, JobLock, JobUnlock
<1>2. ASSUME NEW f \in Fibers, ResultingStep(f) PROVE Kinds
  BY <1>2, <1>0 DEF ResultingStep, ResultingSelect, ResultingNext, DeleteClosure
<1>3. ASSUME NEW f \in Fibers, CloseStep(f) PROVE Kinds
  <2>1. CASE CloseUpdate(f)
    <3>1. call[f].bet \in Bets
      BY <2>1 DEF CloseUpdate, CallsOK
    <3> QED
      BY <2>1, <3>1, <1>a, <1>s DEF CloseUpdate
  <2> QED
    BY <1>3, <2>1, <1>0 DEF CloseStep, CloseSelect, CloseSave, CloseCredit
<1>4. ASSUME NEW f \in Fibers, SettlementStep(f) PROVE Kinds
  <2>1. CASE SettlementSelect(f) \/ UpsertClosure(f)
    BY <2>1, <1>0 DEF SettlementSelect, UpsertClosure
  <2>2. CASE ResultBet(f)
    <3>1. PICK d \in rows[f] :
            /\ rows' = [rows EXCEPT ![f] = @ \ {d}]
            /\ \/ UNCHANGED bet
               \/ SetBet(d, BET_LOST, STATUS_LOST)
               \/ SetBet(d, BET_PENDING, STATUS_WON) /\ Enter(f, "closure", d)
      BY <2>2 DEF ResultBet
    <3>2. /\ UNCHANGED <<winning, closure, startup, faults>>
          /\ f \in SettlementJobs /\ d \in Bets
      BY <2>2 DEF ResultBet, JobsOK, Jobs
    <3>3. CASE SetBet(d, BET_PENDING, STATUS_WON) /\ Enter(f, "closure", d)
      <4>1. call'[f].at = "closure" /\ call'[f].bet = d /\ OthersStay(f)
        BY <3>3, EnterMoves, EnterForgets
      <4>2. CASE d # b
        BY <3>2, <3>3, <4>2 DEF SetBet, RowKept, Kinds
      <4>3. CASE d = b
        <5>1. bet'[b].status = BET_PENDING /\ bet'[b].won = STATUS_WON
          BY <3>3, <4>3 DEF SetBet
        <5>2. ResultsWon(f, b)
          BY <3>1, <3>2, <4>1, <4>3, <5>1 DEF ResultsWon, Listing
        <5> QED
          BY <3>2, <5>2 DEF Kinds
      <4> QED
        BY <4>2, <4>3
    <3> QED
      BY <3>1, <3>2, <3>3, <1>0, <1>a
  <2>3. CASE ResultVoid(f)
    <3>1. PICK d \in rows[f] : bet' = [bet EXCEPT ![d].payout = "reduced"]
      BY <2>3 DEF ResultVoid
    <3> QED
      BY <3>1 DEF RowKept, Kinds
  <2>4. CASE ResultVoided(f)
    <3>1. call[f].bet \in Bets
      BY <2>4 DEF ResultVoided, CallsOK
    <3> QED
      BY <2>4, <3>1, <1>0, <1>a DEF ResultVoided
  <2> QED
    BY <1>4, <2>1, <2>2, <2>3, <2>4 DEF SettlementStep
<1>5. ASSUME NEW f \in Fibers, UnsettledStep(f) PROVE Kinds
  <2>1. CASE UnsettledSelect(f)
    BY <2>1, <1>0 DEF UnsettledSelect
  <2>2. CASE UnsettledDecide(f)
    <3>1. \A d \in rows[f] : d \in Bets
      BY <2>2 DEF UnsettledDecide, JobsOK, Jobs
    <3> QED
      BY <2>2, <3>1, <1>0, <1>a DEF UnsettledDecide
  <2> QED
    BY <1>5, <2>1, <2>2 DEF UnsettledStep
<1>6. ASSUME NEW f \in Fibers, CashoutStep(f) PROVE Kinds
  <2>1. CASE CashoutUpdate(f)
    <3>1. call[f].bet \in Bets
      BY <2>1 DEF CashoutUpdate, CallsOK
    <3>2. \/ bet'[b] = bet[b]
          \/ bet'[b].status = BET_CASHOUT
      BY <2>1, <3>1 DEF CashoutUpdate
    <3> QED
      BY <1>s, <3>2 DEF RowKept, RowClosed, Selectable, Kinds
  <2> QED
    BY <1>6, <2>1, <1>0 DEF CashoutStep, CashoutSave, CashoutCredit
<1>7. ASSUME NEW f \in Fibers, ManualStep(f) PROVE Kinds
  <2>1. CASE ManualUpdate(f)
    <3> DEFINE s == FinalStatus(call[f].cmd)
    <3>1. call[f].bet \in Bets /\ call[f].cmd \in Commands
      BY <2>1 DEF ManualUpdate, CallsOK, Commanded, ManualLabels
    <3>2. call[f].cmd \in {"won", "lost", "void", "cancel"}
      BY <3>1, BoundsAssumption
    <3>3. s[1] \notin {BET_PENDING, BET_LOST} \/ s[2] = STATUS_LOST
      BY <3>2, <1>s DEF FinalStatus
    <3>4. SetBet(call[f].bet, s[1], s[2])
      BY <2>1 DEF ManualUpdate
    <3> QED
      BY <3>1, <3>3, <3>4, <1>a
  <2> QED
    BY <1>7, <2>1, <1>0 DEF ManualStep, ManualSave, ManualCredit, ManualRefund
<1>8. ASSUME NEW f \in Fibers, Failure(f) PROVE Kinds
  BY <1>8, <1>0 DEF Failure, StatementFails, CreditAnswerLost
<1>9. ASSUME NEW f \in Fibers, Request(f) PROVE Kinds
  BY <1>9, <1>0 DEF Request, CashoutRead, ManualRead
<1>10. CASE StartUp
  BY <1>10, <1>0 DEF StartUp, StartUpReset, StartUpFix
<1>11. CASE Crash
  BY <1>11, <1>0 DEF Crash
<1>12. CASE UNCHANGED vars
  BY <1>12, <1>0 DEF vars
<1> QED
  BY <1>1, <1>2, <1>3, <1>4, <1>5, <1>6, <1>7, <1>8, <1>9, <1>10, <1>11,
     <1>12 DEF Next, Progress

(* What a step may do to the listing of b: the tables' part of it, and the *)
(* jobs'.                                                                  *)
Lists(b) ==
  /\ b \in closure' => \/ b \in closure \/ WonUnpaid(b)
                       \/ \E j \in SettlementJobs : Listing(j, b)
  /\ b \in closure \/ (\E j \in SettlementJobs : Listing(j, b)) =>
       \/ b \in closure' \/ startup' # "done"
       \/ \E j \in SettlementJobs : Listing(j, b)'
       \/ /\ \E f \in ResultingJobs : Unlisting(f, b)
          /\ UNCHANGED <<bet, winning>>
  /\ startup' = "done" =>
       startup = "done" \/ (WonUnpaid(b)' => b \in closure')
  /\ faults' >= faults

Works(b) ==
  /\ \A f \in ResultingJobs :
       /\ b \in rows'[f] => b \in rows[f] \/ b \in closure
       /\ Working(f, b)' => Working(f, b) \/ b \in rows[f]
       /\ Unlisting(f, b)' =>
            call'[f] = call[f] \/ faults' > 0 \/ ~WonUnpaid(b)'
  /\ \A j \in SettlementJobs :
       /\ b \in rows'[j] => b \in rows[j] \/ Selectable(bet[b])
       /\ Listing(j, b)' => Listing(j, b) \/ ResultsWon(j, b)

(* What the helpers do to the bet of the call they move.                   *)
LEMMA GotoWithKeeps ==
  ASSUME CallsOK, NEW f \in Fibers, NEW l, NEW a, GotoWith(f, l, a)
  PROVE  call'[f].bet = call[f].bet
<1> DEFINE new == [call[f] EXCEPT !.at = l, !.amt = a]
<1>1. new.bet = call[f].bet
  BY DEF CallsOK
<1>2. call' = [call EXCEPT ![f] = new]
  BY DEF GotoWith
<1> HIDE DEF new
<1> QED
  BY <1>1, <1>2 DEF CallsOK

(* A call that leaves closeBet has found its bet closed, or failed.        *)
LEMMA EndCloseKeeps ==
  ASSUME CallsOK, NEW f \in ResultingJobs, EndClose(f)
  PROVE  call'[f].at = "delete" /\ call'[f].bet = call[f].bet
<1>1. f \in Fibers /\ f \in CloseBetCalls
  BY DEF CloseBetCalls, Fibers, Jobs
<1> QED
  BY <1>1, EndCloseGoes, GotoWithKeeps DEF EndClose

LEMMA ListSteps ==
  ASSUME TypeOK, PaymentInv, [Next]_vars, NEW b \in Bets
  PROVE  Lists(b) /\ Works(b)
<1> DEFINE Kinds == Lists(b) /\ Works(b)
<1> SUFFICES Kinds
  OBVIOUS
<1> USE DEF TypeOK, At, rowVars, counters
<1>t. /\ ResultingJobs \subseteq Fibers /\ SettlementJobs \subseteq Fibers
      /\ ResultingJobs \subseteq Jobs /\ SettlementJobs \subseteq Jobs
      /\ ResultingJobs \cap SettlementJobs = {} /\ faults \in Nat
  BY KindsApart DEF Fibers, Jobs, WalletOK
(* Most steps move a call that neither lists nor unlists.                  *)
<1>a. ASSUME NEW f \in Fibers, OthersStay(f),
             UNCHANGED <<closure, startup, rows>>, faults' >= faults,
             f \in SettlementJobs =>
               call[f].at # "closure" /\ call'[f].at # "closure",
             f \in ResultingJobs =>
               /\ Working(f, b)' => Working(f, b)
               /\ Unlisting(f, b)' => faults' > 0 \/ ~WonUnpaid(b)'
      PROVE  Kinds
  <2>1. \A g \in Fibers : g = f \/ call'[g] = call[g]
    BY <1>a DEF OthersStay
  <2>2. Lists(b)
    BY <1>a, <1>t, <2>1 DEF Lists, Listing
  <2>3. Works(b)
    BY <1>a, <1>t, <2>1 DEF Works, Working, Unlisting, Listing
  <2> QED
    BY <2>2, <2>3
<1>b. ASSUME UNCHANGED <<call, closure, startup>>, faults' >= faults,
             \A f \in ResultingJobs : rows'[f] = rows[f],
             \A j \in SettlementJobs : rows'[j] \subseteq rows[j]
      PROVE  Kinds
  BY <1>b DEF Lists, Works, Listing, Working, Unlisting
<1>c. ASSUME NEW f \in Fibers \ (ResultingJobs \cup SettlementJobs),
             OthersStay(f), UNCHANGED <<closure, startup>>, faults' >= faults,
             \A g \in ResultingJobs \cup SettlementJobs : rows'[g] = rows[g]
      PROVE  Kinds
  <2>1. \A g \in ResultingJobs \cup SettlementJobs : call'[g] = call[g]
    BY <1>c, <1>t DEF OthersStay
  <2>2. Lists(b)
    BY <1>c, <1>t, <2>1 DEF Lists, Listing
  <2>3. Works(b)
    BY <1>c, <1>t, <2>1 DEF Works, Working, Unlisting, Listing
  <2> QED
    BY <2>2, <2>3
<1> HIDE DEF Kinds
<1>1. ASSUME NEW f \in Fibers, JobStep(f) PROVE Kinds
  <2>1. /\ call[f].at # "closure" /\ call'[f].at \in {"lock", "select", "idle"}
        /\ OthersStay(f) /\ UNCHANGED <<closure, startup, rows, faults>>
    BY <1>1, ReturnMoves DEF JobStep, JobCheck, JobLock, JobUnlock
  <2> QED
    BY <1>a, <1>t, <2>1 DEF Working, Unlisting
<1>2. ASSUME NEW f \in Fibers, ResultingStep(f) PROVE Kinds
  <2>1. CASE ResultingSelect(f)
    <3>1. /\ rows' = [rows EXCEPT ![f] = closure] /\ f \in ResultingJobs
          /\ call'[f].at = "next" /\ OthersStay(f)
          /\ UNCHANGED <<closure, startup, faults>>
      BY <2>1, ReturnMoves DEF ResultingSelect
    <3>2. \A g \in Fibers : g = f \/ call'[g] = call[g]
      BY <3>1 DEF OthersStay
    <3>3. \A g \in Jobs : rows'[g] = IF g = f THEN closure ELSE rows[g]
      BY <3>1, <1>t DEF JobsOK
    <3>4. Lists(b)
      BY <1>t, <3>1, <3>2 DEF Lists, Listing
    <3>5. Works(b)
      BY <1>t, <3>1, <3>2, <3>3 DEF Works, Listing, Working, Unlisting
    <3> QED
      BY <3>4, <3>5 DEF Kinds
  <2>2. CASE ResultingNext(f)
    <3>1. PICK d \in rows[f] : /\ Enter(f, "cb_select", d)
                               /\ rows' = [rows EXCEPT ![f] = @ \ {d}]
      BY <2>2 DEF ResultingNext
    <3>2. /\ f \in ResultingJobs /\ call'[f].at = "cb_select"
          /\ call'[f].bet = d /\ OthersStay(f)
          /\ UNCHANGED <<closure, startup, faults>>
      BY <2>2, <3>1, EnterMoves, EnterForgets DEF ResultingNext
    <3>3. \A g \in Fibers : g = f \/ call'[g] = call[g]
      BY <3>2 DEF OthersStay
    <3>4. \A g \in Jobs : rows'[g] \subseteq rows[g]
      BY <3>1, <3>2, <1>t DEF JobsOK
    <3>5. Lists(b)
      BY <1>t, <3>2, <3>3 DEF Lists, Listing
    <3>6. Works(b)
      BY <1>t, <3>1, <3>2, <3>3, <3>4 DEF Works, Listing, Working, Unlisting
    <3> QED
      BY <3>5, <3>6 DEF Kinds
  <2>3. CASE DeleteClosure(f)
    <3>1. /\ f \in ResultingJobs /\ call[f].at = "delete"
          /\ closure' = closure \ {call[f].bet}
          /\ call'[f].at = "next" /\ OthersStay(f)
          /\ UNCHANGED <<bet, winning, rows, startup, faults>>
      BY <2>3, ReturnMoves DEF DeleteClosure
    <3>2. \A g \in Fibers : g = f \/ call'[g] = call[g]
      BY <3>1 DEF OthersStay
    <3>3. Lists(b)
      BY <1>t, <3>1, <3>2 DEF Lists, Listing, Unlisting
    <3>4. Works(b)
      BY <1>t, <3>1, <3>2 DEF Works, Listing, Working, Unlisting
    <3> QED
      BY <3>3, <3>4 DEF Kinds
  <2> QED
    BY <1>2, <2>1, <2>2, <2>3 DEF ResultingStep
<1>3. ASSUME NEW f \in Fibers, CloseStep(f) PROVE Kinds
  <2>0. /\ f \notin SettlementJobs /\ UNCHANGED <<closure, startup, rows, faults>>
        /\ call[f].at \in CloseLabels
    <3>1. f \notin SettlementJobs
      BY <1>3, KindsApart
         DEF CloseStep, CloseSelect, CloseUpdate, CloseSave, CloseCredit,
             CloseBetCalls, Jobs
    <3>2. UNCHANGED <<closure, startup, rows, faults>>
          /\ call[f].at \in CloseLabels
      BY <1>3 DEF CloseStep, CloseSelect, CloseUpdate, CloseSave, CloseCredit
    <3> QED
      BY <3>1, <3>2
  <2>a. ASSUME OthersStay(f), call'[f].bet = call[f].bet,
               call'[f].at # "delete"
        PROVE  Kinds
    BY <1>a, <1>t, <2>0, <2>a DEF Working, Unlisting
  <2>b. ASSUME EndClose(f),
               f \in ResultingJobs => ~WonUnpaid(call[f].bet)'
        PROVE  Kinds
    <3>1. OthersStay(f)
      BY <2>b, EndCloseMoves
    <3>2. CASE f \in ResultingJobs
      <4>1. call'[f].at = "delete" /\ call'[f].bet = call[f].bet
        BY <2>b, <3>2, EndCloseKeeps
      <4>2. Unlisting(f, b)' => ~WonUnpaid(b)'
        BY <2>b, <3>2, <4>1 DEF Unlisting, WonUnpaid
      <4>3. Working(f, b)' => Working(f, b)
        BY <2>0, <4>1 DEF Working
      <4> QED
        BY <1>a, <1>t, <2>0, <3>1, <4>2, <4>3
    <3>3. CASE f \notin ResultingJobs
      BY <1>a, <1>t, <2>0, <3>1, <3>3
    <3> QED
      BY <3>2, <3>3
  <2>1. CASE CloseSelect(f)
    <3>1. CASE GotoWith(f, "cb_update", bet[call[f].bet].payout)
      BY <2>a, <3>1, GotoWithMoves, GotoWithKeeps
    <3>2. CASE ~Closable(f, call[f].bet) /\ EndClose(f)
      <4>1. UNCHANGED <<bet, winning>>
        BY <2>1 DEF CloseSelect
      <4>2. f \in ResultingJobs => ~WonUnpaid(call[f].bet)
        BY <3>2 DEF Closable, WonUnpaid
      <4>3. f \in ResultingJobs => ~WonUnpaid(call[f].bet)'
        <5>1. CASE f \in ResultingJobs
          <6>1. call'[f].bet = call[f].bet
            BY <3>2, <5>1, EndCloseKeeps
          <6> QED
            BY <4>1, <4>2, <5>1, <6>1 DEF WonUnpaid
        <5> QED
          BY <5>1
      <4> QED
        BY <2>b, <3>2, <4>3
    <3> QED
      BY <2>1, <3>1, <3>2 DEF CloseSelect
  <2>2. CASE CloseUpdate(f)
    BY <2>2, <2>a, GotoMoves DEF CloseUpdate
  <2>3. CASE CloseSave(f)
    <3>1. CASE Goto(f, "cb_credit")
      BY <3>1, <2>a, GotoMoves
    <3>2. CASE DuplicateWinning(f) /\ EndClose(f)
      <4>1. f \in ResultingJobs => ~WonUnpaid(call[f].bet)'
        <5>1. CASE f \in ResultingJobs
          <6>1. call'[f].bet = call[f].bet
            BY <3>2, <5>1, EndCloseKeeps
          <6> QED
            BY <3>2, <6>1 DEF WonUnpaid, DuplicateWinning, HasWinning
        <5> QED
          BY <5>1
      <4> QED
        BY <2>b, <3>2, <4>1
    <3> QED
      BY <2>3, <3>1, <3>2 DEF CloseSave
  <2>4. CASE CloseCredit(f)
    <3>1. winning[call[f].bet] # "none" /\ EndClose(f) /\ UNCHANGED winning
      BY <2>4 DEF CloseCredit, PaymentInv, Claim, CallsOK
    <3>2. f \in ResultingJobs => ~WonUnpaid(call[f].bet)'
      <4>1. CASE f \in ResultingJobs
        <5>1. call'[f].bet = call[f].bet
          BY <3>1, <4>1, EndCloseKeeps
        <5> QED
          BY <3>1, <5>1 DEF WonUnpaid
      <4> QED
        BY <4>1
    <3> QED
      BY <2>b, <3>1, <3>2
  <2> QED
    BY <1>3, <2>1, <2>2, <2>3, <2>4 DEF CloseStep
<1>4. ASSUME NEW f \in Fibers, SettlementStep(f) PROVE Kinds
  <2>0. f \in SettlementJobs /\ UNCHANGED <<startup, faults>>
    BY <1>4 DEF SettlementStep, SettlementSelect, ResultBet, ResultVoid,
       ResultVoided, UpsertClosure
  <2>1. CASE SettlementSelect(f)
    <3>1. PICK S \in SUBSET {d \in Bets : Selectable(bet[d])} :
            rows' = [rows EXCEPT ![f] = S]
      BY <2>1 DEF SettlementSelect, Selectable
    <3>2. /\ call[f].at = "select" /\ call'[f].at = "next" /\ OthersStay(f)
          /\ UNCHANGED closure
      BY <2>1, ReturnMoves DEF SettlementSelect
    <3>3. \A g \in Fibers : g = f \/ call'[g] = call[g]
      BY <3>2 DEF OthersStay
    <3>4. \A g \in Jobs : rows'[g] = IF g = f THEN S ELSE rows[g]
      BY <3>1, <2>0, <1>t DEF JobsOK
    <3>5. Lists(b)
      BY <1>t, <2>0, <3>2, <3>3 DEF Lists, Listing
    <3>6. Works(b)
      BY <1>t, <2>0, <3>1, <3>2, <3>3, <3>4 DEF Works, Listing, Working, Unlisting
    <3> QED
      BY <3>5, <3>6 DEF Kinds
  <2>2. CASE ResultBet(f)
    <3>1. PICK d \in rows[f] :
            /\ rows' = [rows EXCEPT ![f] = @ \ {d}]
            /\ \/ UNCHANGED call
               \/ SetBet(d, BET_PENDING, STATUS_WON) /\ Enter(f, "closure", d)
      BY <2>2 DEF ResultBet
    <3>2. UNCHANGED <<winning, closure>> /\ d \in Bets /\ call[f].at = "next"
      BY <2>0, <2>2, <1>t DEF ResultBet, JobsOK
    <3>3. /\ \A g \in Jobs : rows'[g] = IF g = f THEN rows[g] \ {d} ELSE rows[g]
          /\ \A j \in SettlementJobs : rows'[j] \subseteq rows[j]
          /\ \A g \in ResultingJobs : rows'[g] = rows[g]
      BY <3>1, <2>0, <1>t DEF JobsOK
    <3>4. CASE UNCHANGED call
      BY <1>b, <1>t, <2>0, <3>2, <3>3, <3>4
    <3>5. CASE SetBet(d, BET_PENDING, STATUS_WON) /\ Enter(f, "closure", d)
      <4>1. call'[f].at = "closure" /\ call'[f].bet = d /\ OthersStay(f)
        BY <3>5, EnterMoves, EnterForgets
      <4>2. \A g \in Fibers : g = f \/ call'[g] = call[g]
        BY <4>1 DEF OthersStay
      <4>3. Listing(f, b)' => ResultsWon(f, b)
        <5>1. CASE d = b
          <6>1. bet'[b].status = BET_PENDING /\ bet'[b].won = STATUS_WON
            BY <3>5, <5>1 DEF SetBet, TablesOK
          <6> QED
            BY <2>0, <3>1, <3>2, <4>1, <5>1, <6>1 DEF ResultsWon, Listing
        <5>2. CASE d # b
          BY <4>1, <5>2 DEF Listing
        <5> QED
          BY <5>1, <5>2
      <4>4. Lists(b)
        BY <1>t, <2>0, <3>2, <4>2 DEF Lists, Listing
      <4>5. ASSUME NEW g \in ResultingJobs PROVE call'[g] = call[g] /\ rows'[g] = rows[g]
        BY <1>t, <2>0, <3>3, <4>2
      <4>6. ASSUME NEW j \in SettlementJobs
            PROVE  Listing(j, b)' => Listing(j, b) \/ ResultsWon(j, b)
        BY <1>t, <4>2, <4>3 DEF Listing
      <4>7. Works(b)
        BY <3>3, <4>5, <4>6 DEF Works, Working, Unlisting
      <4> QED
        BY <4>4, <4>7 DEF Kinds
    <3> QED
      BY <3>1, <3>4, <3>5
  <2>3. CASE ResultVoid(f)
    <3>1. PICK d \in rows[f] : /\ rows' = [rows EXCEPT ![f] = @ \ {d}]
                               /\ Enter(f, "voided", d)
      BY <2>3 DEF ResultVoid
    <3>2. /\ UNCHANGED closure /\ call[f].at = "next"
          /\ call'[f].at = "voided" /\ OthersStay(f)
      BY <2>3, <3>1, EnterMoves DEF ResultVoid
    <3>3. \A g \in Fibers : g = f \/ call'[g] = call[g]
      BY <3>2 DEF OthersStay
    <3>4. \A g \in Jobs : rows'[g] \subseteq rows[g]
      BY <3>1, <2>0, <1>t DEF JobsOK
    <3>5. Lists(b)
      BY <1>t, <2>0, <3>2, <3>3 DEF Lists, Listing
    <3>6. Works(b)
      BY <1>t, <2>0, <3>2, <3>3, <3>4 DEF Works, Listing, Working, Unlisting
    <3> QED
      BY <3>5, <3>6 DEF Kinds
  <2>4. CASE ResultVoided(f)
    <3>1. /\ UNCHANGED <<closure, rows>> /\ call[f].at = "voided"
          /\ call'[f].at = "next" /\ OthersStay(f)
      BY <2>4, ReturnMoves DEF ResultVoided
    <3> QED
      BY <1>a, <1>t, <2>0, <3>1
  <2>5. CASE UpsertClosure(f)
    <3>1. /\ closure' = closure \cup {call[f].bet} /\ call[f].at = "closure"
          /\ UNCHANGED rows /\ call'[f].at = "next" /\ OthersStay(f)
      BY <2>5, ReturnMoves DEF UpsertClosure
    <3>2. \A g \in Fibers : g = f \/ call'[g] = call[g]
      BY <3>1 DEF OthersStay
    <3>3. Lists(b)
      BY <1>t, <2>0, <3>1, <3>2 DEF Lists, Listing
    <3>4. Works(b)
      BY <1>t, <2>0, <3>1, <3>2 DEF Works, Listing, Working, Unlisting
    <3> QED
      BY <3>3, <3>4 DEF Kinds
  <2> QED
    BY <1>4, <2>1, <2>2, <2>3, <2>4, <2>5 DEF SettlementStep
<1>5. ASSUME NEW f \in Fibers, UnsettledStep(f) PROVE Kinds
  <2>0. /\ f \in UnsettledJobs /\ UNCHANGED <<closure, startup, faults>>
        /\ f \notin ResultingJobs \cup SettlementJobs
    BY <1>5, KindsApart DEF UnsettledStep, UnsettledSelect, UnsettledDecide
  <2>1. CASE UnsettledSelect(f)
    <3>1. \E S : rows' = [rows EXCEPT ![f] = S]
      BY <2>1 DEF UnsettledSelect
    <3>2. OthersStay(f)
      BY <2>1, ReturnMoves DEF UnsettledSelect
    <3> QED
      BY <1>c, <1>t, <2>0, <3>1, <3>2 DEF JobsOK
  <2>2. CASE UnsettledDecide(f)
    <3>1. /\ \E d \in rows[f] : rows' = [rows EXCEPT ![f] = @ \ {d}]
          /\ \/ UNCHANGED call
             \/ \E d \in rows[f], g \in Closers : Enter(g, "cb_select", d)
      BY <2>2 DEF UnsettledDecide
    <3>2. \A g \in ResultingJobs \cup SettlementJobs : rows'[g] = rows[g]
      BY <1>t, <2>0, <3>1 DEF JobsOK
    <3>3. CASE UNCHANGED call
      BY <1>b, <1>t, <2>0, <3>2, <3>3
    <3>4. ASSUME NEW g \in Closers, NEW d, Enter(g, "cb_select", d)
          PROVE  Kinds
      <4>1. g \in Fibers \ (ResultingJobs \cup SettlementJobs)
        BY KindsApart DEF Fibers, Jobs
      <4>2. OthersStay(g)
        BY <3>4, <4>1, EnterMoves
      <4> QED
        BY <1>c, <1>t, <2>0, <3>2, <4>1, <4>2
    <3> QED
      BY <3>1, <3>3, <3>4
  <2> QED
    BY <1>5, <2>1, <2>2 DEF UnsettledStep
<1>d. ASSUME NEW f \in Fibers, CashoutStep(f) \/ ManualStep(f) \/ Request(f)
      PROVE  Kinds
  <2>1. f \in Cashouts \cup Admins
    BY <1>d DEF CashoutStep, CashoutUpdate, CashoutSave, CashoutCredit,
       ManualStep, ManualSave, ManualCredit, ManualRefund, ManualUpdate,
       Request, CashoutRead, ManualRead
  <2>2. UNCHANGED <<closure, startup, rows, faults>>
    BY <1>d DEF CashoutStep, CashoutUpdate, CashoutSave, CashoutCredit,
       ManualStep, ManualSave, ManualCredit, ManualRefund, ManualUpdate,
       Request, CashoutRead, ManualRead
  <2>3. OthersStay(f)
    <3>1. CASE CashoutStep(f)
      BY <3>1, ReturnMoves, GotoMoves, GotoWithMoves
         DEF CashoutStep, CashoutUpdate, CashoutSave, CashoutCredit
    <3>2. CASE ManualStep(f)
      BY <3>2, ReturnMoves, GotoMoves
         DEF ManualStep, ManualSave, ManualCredit, ManualRefund, ManualUpdate
    <3>3. ASSUME NEW d \in Bets, CashoutRead(f, d) PROVE OthersStay(f)
      BY <3>3, EnterMoves DEF CashoutRead
    <3>4. ASSUME NEW d \in Bets, NEW c \in Commands, ManualRead(f, d, c)
          PROVE  OthersStay(f)
      BY <3>4 DEF ManualRead, CallsOK, OthersStay
    <3> QED
      BY <1>d, <3>1, <3>2, <3>3, <3>4 DEF Request
  <2>4. f \notin ResultingJobs \cup SettlementJobs
    BY <2>1, KindsApart DEF Jobs
  <2> QED
    BY <1>c, <1>t, <2>2, <2>3, <2>4
<1>8. ASSUME NEW f \in Fibers, Failure(f) PROVE Kinds
  <2>1. /\ f \notin SettlementJobs /\ faults' = faults + 1
        /\ UNCHANGED <<closure, startup, rows>>
    BY <1>8, KindsApart DEF Failure, StatementFails, CreditAnswerLost, Jobs
  <2>2. OthersStay(f)
    BY <1>8, ReturnMoves, EndCloseMoves DEF Failure, StatementFails,
       CreditAnswerLost
  <2>3. CASE f \notin ResultingJobs
    BY <1>c, <1>t, <2>1, <2>2, <2>3
  <2>4. CASE f \in ResultingJobs
    <3>1. StatementFails(f)
      BY <1>8, <2>4, KindsApart DEF Failure, CreditAnswerLost, Jobs
    <3>2. \/ call'[f].at \in {"idle", "next"}
          \/ call[f].at \in CloseLabels /\ EndClose(f)
      BY <3>1, ReturnMoves DEF StatementFails
    <3>3. Working(f, b)' => Working(f, b)
      BY <2>4, <3>2, EndCloseKeeps DEF Working
    <3> QED
      BY <1>a, <1>t, <2>1, <2>2, <3>3
  <2> QED
    BY <2>3, <2>4
<1>10. CASE StartUp
  <2>1. CASE StartUpReset
    <3>1. /\ startup = "reset" /\ startup' = "fix"
          /\ UNCHANGED <<closure, call, rows, faults>>
      BY <2>1 DEF StartUpReset
    <3> QED
      BY <3>1, <1>t DEF Kinds, Lists, Works, Listing, Working, Unlisting
  <2>2. CASE StartUpFix
    <3>1. /\ closure' = closure \cup {d \in Bets : WonUnpaid(d)}
          /\ startup' = "done" /\ UNCHANGED <<bet, winning, call, rows, faults>>
      BY <2>2 DEF StartUpFix
    <3>2. WonUnpaid(b)' = WonUnpaid(b)
      BY <3>1 DEF WonUnpaid
    <3>3. Lists(b)
      BY <1>t, <3>1, <3>2 DEF Lists, Listing
    <3>4. Works(b)
      BY <3>1 DEF Works, Listing, Working, Unlisting
    <3> QED
      BY <3>3, <3>4 DEF Kinds
  <2> QED
    BY <1>10, <2>1, <2>2 DEF StartUp
<1>11. CASE Crash
  <2>1. /\ startup' = "reset" /\ UNCHANGED <<closure, faults>>
        /\ \A f \in Fibers : call'[f].at = "idle"
        /\ \A f \in Jobs : rows'[f] = {}
    BY <1>11 DEF Crash, Start
  <2>2. Lists(b)
    BY <1>t, <2>1 DEF Lists, Listing
  <2>3. Works(b)
    BY <1>t, <2>1 DEF Works, Listing, Working, Unlisting
  <2> QED
    BY <2>2, <2>3 DEF Kinds
<1>12. CASE UNCHANGED vars
  BY <1>12, <1>b, <1>t DEF vars
<1> QED
  BY <1>1, <1>2, <1>3, <1>4, <1>5, <1>d, <1>8, <1>10, <1>11, <1>12
     DEF Next, Progress

LEMMA ListInvStep ==
  ASSUME TypeOK, PaymentInv, Commanded, ListInv, [Next]_vars,
         "pending" \notin Commands, \A j, k \in SettlementJobs : j = k
  PROVE  ListInv'
<1> SUFFICES ASSUME NEW b \in Bets
    PROVE  /\ Undecided(b)' => Untouched(b)'
           /\ \A f \in ResultingJobs :
                Unlisting(f, b)' /\ faults' = 0 => ~WonUnpaid(b)'
           /\ faults' = 0 /\ startup' = "done" /\ WonUnpaid(b)' =>
                b \in closure' \/ \E j \in SettlementJobs : Listing(j, b)'
  BY DEF ListInv
<1>1. \/ RowKept(b) \/ RowClosed(b)
      \/ \E j \in SettlementJobs : ResultsWon(j, b)
  BY RowSteps
<1>2. Lists(b) /\ Works(b)
  BY ListSteps
<1>3. winning'[b] = "none" => winning[b] = "none"
  BY TablesGrow
<1>t. /\ faults \in Nat /\ faults' \in Nat
      /\ SettlementJobs \subseteq Jobs /\ rows \in [Jobs -> SUBSET Bets]
      /\ BET_PENDING # BET_LOST /\ STATUS_WON # STATUS_NOT_LOST_OR_WON
  BY WalletStep DEF TypeOK, WalletOK, JobsOK, Jobs, BET_PENDING, BET_LOST,
     STATUS_WON, STATUS_NOT_LOST_OR_WON
(* A bet is resulted as won once, and is undecided no more.                *)
<1>4. ASSUME NEW j \in SettlementJobs, ResultsWon(j, b)
      PROVE  ~Undecided(b)' /\ Undecided(b)
  <2>1. ~Selectable(bet'[b])
    BY <1>4, <1>t DEF ResultsWon, Selectable
  <2>2. \A k \in SettlementJobs : b \notin rows'[k]
    BY <1>4, <1>t DEF ResultsWon
  <2> QED
    BY <1>4, <2>1, <2>2 DEF Undecided, ResultsWon
<1>5. Undecided(b)' => Undecided(b)
  <2>1. Selectable(bet'[b]) => Selectable(bet[b]) \/ Undecided(b)
    BY <1>1, <1>4 DEF RowKept, RowClosed, Selectable
  <2>2. \A j \in SettlementJobs : b \in rows'[j] => Undecided(b)
    BY <1>2 DEF Works, Undecided
  <2> QED
    BY <2>1, <2>2 DEF Undecided
<1>6. \/ WonUnpaid(b)' => WonUnpaid(b)
      \/ \E j \in SettlementJobs : ResultsWon(j, b)
  BY <1>1, <1>3 DEF RowKept, RowClosed, WonUnpaid
<1>7. Undecided(b)' => Untouched(b)'
  <2> SUFFICES ASSUME Undecided(b)' PROVE Untouched(b)'
    OBVIOUS
  <2>1. Untouched(b)
    BY <1>5 DEF ListInv
  <2>2. \A j \in SettlementJobs : ~ResultsWon(j, b)
    BY <1>4
  <2>3. ~WonUnpaid(b)'
    BY <1>6, <2>1, <2>2 DEF Untouched
  <2>4. b \notin closure'
    BY <1>2, <2>1 DEF Lists, Untouched
  <2>5. \A f \in ResultingJobs : b \notin rows'[f] /\ ~Working(f, b)'
    BY <1>2, <2>1 DEF Works, Untouched
  <2>6. \A j \in SettlementJobs : ~Listing(j, b)'
    BY <1>2, <2>1, <2>2 DEF Works, Untouched
  <2> QED
    BY <2>3, <2>4, <2>5, <2>6 DEF Untouched
<1>8. ASSUME NEW f \in ResultingJobs, Unlisting(f, b)', faults' = 0
      PROVE  ~WonUnpaid(b)'
  <2>1. call'[f] = call[f] \/ ~WonUnpaid(b)'
    BY <1>2, <1>8, <1>t DEF Works
  <2>2. CASE call'[f] = call[f]
    <3>1. Unlisting(f, b) /\ Working(f, b) /\ faults = 0
      BY <1>2, <1>8, <1>t, <2>2 DEF Unlisting, Working, Lists
    <3>2. ~WonUnpaid(b)
      BY <3>1 DEF ListInv
    <3>3. ~Undecided(b)
      BY <3>1 DEF ListInv, Untouched
    <3> QED
      BY <1>4, <1>6, <3>2, <3>3
  <2> QED
    BY <2>1, <2>2
<1>9. ASSUME faults' = 0, startup' = "done", WonUnpaid(b)'
      PROVE  b \in closure' \/ \E j \in SettlementJobs : Listing(j, b)'
  <2>1. CASE \E j \in SettlementJobs : ResultsWon(j, b)
    BY <2>1 DEF ResultsWon
  <2>2. CASE WonUnpaid(b)
    <3>1. faults = 0
      BY <1>2, <1>9, <1>t DEF Lists
    <3>2. startup = "done" \/ b \in closure'
      BY <1>2, <1>9 DEF Lists
    <3>3. CASE startup = "done"
      <4>1. b \in closure \/ \E j \in SettlementJobs : Listing(j, b)
        BY <2>2, <3>1, <3>3 DEF ListInv
      <4>2. \A f \in ResultingJobs : ~Unlisting(f, b)
        BY <2>2, <3>1 DEF ListInv
      <4> QED
        BY <1>2, <1>9, <4>1, <4>2 DEF Lists
    <3> QED
      BY <3>2, <3>3
  <2> QED
    BY <1>6, <1>9, <2>1, <2>2
<1> QED
  BY <1>7, <1>8, <1>9

(* A bet that was resulted as won and not yet paid is listed for the       *)
(* resulting job, or about to be, with the exceptions of WonBetsAreListed  *)
(* (resultBet, taskFixInvalidBetStatus and taskProcessBetResulting).       *)
THEOREM Listed == Spec => []WonBetsAreListed
<1> DEFINE Sole == /\ "pending" \notin Commands
                   /\ \A j, k \in SettlementJobs : j = k
           Inv == /\ TypeOK /\ PaymentInv /\ Commanded /\ (Sole => ListInv)
<1>1. Init => Inv
  <2> SUFFICES ASSUME Init PROVE Commanded /\ ListInv
    BY TypeInit, PaymentInit
  <2>1. Commanded
    BY DEF Init, Start, Commanded, ManualLabels
  <2>2. ASSUME NEW b \in Bets PROVE ~WonUnpaid(b) /\ Untouched(b)
    <3>1. ~WonUnpaid(b)
      BY DEF Init, WonUnpaid, STATUS_WON, STATUS_NOT_LOST_OR_WON
    <3>2. \A f \in ResultingJobs \cup SettlementJobs :
            call[f].at = "idle" /\ rows[f] = {}
      BY DEF Init, Start, Fibers, Jobs
    <3> QED
      BY <3>1, <3>2 DEF Init, Untouched, Working, Listing
  <2> QED
    BY <2>1, <2>2 DEF ListInv
<1>2. Inv /\ [Next]_vars => Inv'
  <2>1. ASSUME Inv, [Next]_vars PROVE TypeOK' /\ PaymentInv' /\ Commanded'
    BY <2>1, TablesStep, WalletStep, JobsStep, CallsStep, PaymentStep,
       CommandedStep DEF TypeOK
  <2>2. ASSUME Inv, [Next]_vars, Sole PROVE ListInv'
    BY <2>2, ListInvStep
  <2> QED
    BY <2>1, <2>2
<1>3. Inv => WonBetsAreListed
  BY DEF ListInv, WonBetsAreListed, Listing
<1> QED
  BY <1>1, <1>2, <1>3, PTL DEF Spec
=============================================================================
