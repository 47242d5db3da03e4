-------------------------- MODULE LifecycleProofs ---------------------------
(***************************************************************************)
(* Proofs about Lifecycle, for any number of bets, selections, answers and *)
(* calls of each kind, failures and crashes: what a rejection refunds is   *)
(* not paid, and what the jobs pay was accepted.  The composition          *)
(* implements PayOnce, as the jobs alone do in Closing.                    *)
(***************************************************************************)
EXTENDS Lifecycle, FiniteSetTheorems, TLAPS

AnswerRow == [at  : RejectLabels \cup {"unsent", "accept", "acked"},
              bet : Bets \cup {"none"}]

(* The part of Acceptance's types that other calls do not write.           *)
AcceptanceTyped ==
  /\ request \in [Bets -> PlaceLabels]
  /\ slips \in [Bets -> {BET_PENDING, BET_CANCELLED}]
  /\ betStatus \in [Bets -> {0, 1, BET_CANCELLED}] /\ sent \subseteq Bets
  /\ answer \in [Answers -> AnswerRow]
  /\ \A m \in Answers : answer[m].at # "unsent" => answer[m].bet \in sent
  /\ refunds \in [Bets -> Nat]

Typed == LifeTypeOK /\ AcceptanceTyped

(* An acceptance is of a bet that was sent, with all its slips, and slips  *)
(* are cancelled by the answers that reject their bet.                     *)
Ruled ==
  /\ \A m \in Answers : answer[m].at = "accept" =>
                          "accept" \in ruled[answer[m].bet]
  /\ \A b \in Bets : betStatus[b] = 1 => "accept" \in ruled[b] /\ b \in sent
  /\ \A b \in sent : Saved(b) = Selections
  /\ \A m \in Answers : answer[m].at \in RejectLabels =>
                          "find" \in ruled[answer[m].bet]
  /\ \A b \in Bets : slips[b] = BET_CANCELLED => "find" \in ruled[b]

(* A bet that was neither accepted nor taken up early: no call is at work  *)
(* on it, but for a settlement that found it not accepted.                 *)
Unready(b) == b \notin early /\ "accept" \notin ruled[b]

Untouched(b) ==
  /\ bet[b] \in {BET_PENDING, BET_CANCELLED} /\ Unresulted(b)
  /\ b \notin closure /\ winning[b] = "none" /\ credits[b] = 0
  /\ \A c \in Calls : call[c].at \notin {"idle", "mark"} => call[c].bet # b

Refunding(b) == \/ refunds[b] > 0
                \/ \E m \in Answers : answer[m].at = "credit" /\ answer[m].bet = b

Out(b) == Untouched(b) /\ (Refunding(b) => bet[b] = BET_CANCELLED)

(* What the job's closeBet takes for a won bet, and what the sweep does.   *)
RowWon(b) == \A x \in Selections : row[b][x] = "won"
Won(b) == b \in sent /\ "accept" \in ruled[b] /\ RowWon(b)

Closing    == {"cb_update", "cb_winning"}
Deciding   == {"lost", "update", "decide"}
Sweeping   == {"total", "won"} \cup Deciding

SettlerKnows(c) ==
  /\ call[c].at \in {"slips", "result"} => betStatus[call[c].bet] = 1
  /\ call[c].at = "result" /\ call[c].read = "won" => Won(call[c].bet)

ResulterKnows(c) == call[c].at \in Closing => Won(call[c].bet)

SweeperKnows(c) ==
  call[c].bet \notin early =>
    /\ call[c].at \in Sweeping => /\ call[c].bet \in sent
                                  /\ "accept" \in ruled[call[c].bet]
    /\ call[c].at \in Sweeping \ {"total"} =>
         call[c].total = Cardinality(Selections)
    /\ call[c].at \in Deciding /\ call[c].won = Cardinality(Selections) =>
         RowWon(call[c].bet)
    /\ call[c].at \in Closing \cup {"cb_select"} => Won(call[c].bet)

PaidHaveWon ==
  \A b \in Bets :
    winning[b] = "resulting" \/ (winning[b] = "sweep" /\ b \notin early) =>
      Won(b)

Known ==
  /\ \A b \in Bets : bet[b] \in {BET_PENDING, BET_VOIDED}
                      /\ won[b] = STATUS_WON => Won(b)
  /\ \A c \in Settlers : SettlerKnows(c)
  /\ \A c \in Resulters : ResulterKnows(c)
  /\ \A c \in Sweepers : SweeperKnows(c)
  /\ PaidHaveWon

IInv == /\ Typed /\ Ruled
        /\ \A b \in Bets : Unready(b) => Out(b)
        /\ Known

-----------------------------------------------------------------------------
(* The steps of a call: one of a job or a cashout, or one that fails.      *)
CallStep(c) == Settle(c) \/ Sweep(c) \/ Close(c) \/ Cashout(c) \/ CallFails(c)

LEMMA CallsLeave ==
  ASSUME NEW c \in Calls, CallStep(c)
  PROVE  UNCHANGED <<request, slips, betStatus, sent, answer, wallet, row,
                     ruled, startup>>
<1>1. CASE Settle(c)
  BY <1>1 DEF Settle, SettleSelect, SettleSlips, SettleResult, SettleClosure,
     SettleMark, vars, tables, wallet, results
<1>2. CASE Sweep(c)
  BY <1>2 DEF Sweep, SweepSelect, SweepTotal, SweepWon, SweepLost, SweepUpdate,
     SweepDecide, vars, tables, wallet, results
<1>3. CASE Close(c)
  BY <1>3 DEF Close, ResultingNext, CloseSelect, CloseUpdate, CloseSave,
     CloseCredit, CloseDelete, vars, tables, wallet, results
<1>4. CASE Cashout(c)
  BY <1>4 DEF Cashout, CashoutRead, CashoutUpdate, CashoutSave, CashoutCredit,
     vars, tables, wallet, results
<1>5. CASE CallFails(c)
  BY <1>5 DEF CallFails, tables, wallet, results
<1> QED
  BY <1>1, <1>2, <1>3, <1>4, <1>5 DEF CallStep

(* The steps of placeBet and of the MTS's answers leave the calls alone.   *)
AnswerStep == Answering \/ \E m \in Answers : MtsRules(m) \/ CancelBet(m)

LEMMA AnswersLeave ==
  ASSUME Typed, AnswerStep
  PROVE  /\ UNCHANGED <<row, processed, closure, winning, credits, call,
                        startup, early>>
         /\ won' \in [Bets -> WonStatuses]
         /\ \A b \in Bets : won'[b] \in {won[b], STATUS_NOT_LOST_OR_WON}
<1>1. won \in [Bets -> WonStatuses]
  BY DEF Typed, LifeTypeOK
<1>2. CASE Answering \/ \E m \in Answers : MtsRules(m)
  BY <1>1, <1>2 DEF Answering, MtsRules, life, results, paying
<1>3. CASE \E m \in Answers : CancelBet(m)
  BY <1>1, <1>3 DEF CancelBet, results, WonStatuses
<1> QED
  BY <1>2, <1>3 DEF AnswerStep

LEMMA Steps ==
  ASSUME [LifeNext]_lifeVars
  PROVE  \/ AnswerStep \/ StartUpFix \/ LifeCrash
         \/ \E b \in Bets, x \in Selections : SaveSlip(b, x) \/ Grade(b, x)
         \/ \E c \in Calls : CallStep(c)
         \/ UNCHANGED lifeVars
BY DEF LifeNext, AnswerStep, CallStep

(* What a handler or a placement does to the tables.                       *)
LEMMA AcceptanceSteps ==
  ASSUME AcceptanceTyped, AnswerStep \/ LifeCrash
  PROVE  AcceptanceTyped'
<1> USE DEF AcceptanceTyped, AnswerRow, RequestGoto, At, Goto, HasStatus
<1>1. CASE \E b \in Bets : \/ Refuse(b) \/ SaveBet(b) \/ Debit(b) \/ Publish(b)
                           \/ SaveSlips(b) \/ PlacementFails(b)
  BY <1>1 DEF Refuse, SaveBet, Debit, Publish, SaveSlips, PlacementFails,
     tables, wallet, PlaceLabels
<1>2. ASSUME NEW m \in Answers,
             Accept(m) \/ RejectFind(m) \/ RejectSave(m) \/ MtsAnswers(m)
      PROVE  AcceptanceTyped'
  <2> USE DEF tables, wallet, RejectLabels
  <2>1. CASE Accept(m)      BY <2>1 DEF Accept
  <2>2. CASE RejectFind(m)  BY <2>2 DEF RejectFind
  <2>3. CASE RejectSave(m)  BY <2>3 DEF RejectSave
  <2>4. CASE MtsAnswers(m)  BY <2>4 DEF MtsAnswers
  <2> QED BY <1>2, <2>1, <2>2, <2>3, <2>4
<1>3. ASSUME NEW m \in Answers,
             RejectSlips(m) \/ RejectBet(m) \/ RejectCredit(m)
               \/ HandlerFails(m)
      PROVE  AcceptanceTyped'
  <2> USE DEF tables, wallet, RejectLabels
  <2>1. CASE RejectSlips(m)   BY <2>1 DEF RejectSlips
  <2>2. CASE RejectBet(m)     BY <2>2 DEF RejectBet
  <2>3. CASE RejectCredit(m)  BY <2>3 DEF RejectCredit
  <2>4. CASE HandlerFails(m)  BY <2>4 DEF HandlerFails
  <2> QED BY <1>3, <2>1, <2>2, <2>3, <2>4
<1>4. CASE LifeCrash
  BY <1>4 DEF LifeCrash, Crash, tables, wallet, PlaceLabels, RejectLabels
<1> QED
  BY <1>1, <1>2, <1>3, <1>4 DEF AnswerStep, Answering, MtsRules, CancelBet

CallRow == [at : CallLabels, bet : Bets \cup {"none"},
            sel : Selections \cup {"none"},
            read : {"none", "won", "lost", "pending"}, total : Nat, won : Nat]

LEMMA SlipCounts ==
  ASSUME NEW b
  PROVE  /\ Cardinality(Saved(b)) \in Nat /\ Cardinality(WonOf(b)) \in Nat
         /\ Cardinality(WonOf(b)) = Cardinality(Selections) => RowWon(b)
<1>1. Saved(b) \subseteq Selections /\ WonOf(b) \subseteq Selections
  BY DEF Saved, WonOf
<1>2. /\ IsFiniteSet(Saved(b)) /\ IsFiniteSet(WonOf(b))
      /\ Cardinality(WonOf(b)) = Cardinality(Selections) =>
           WonOf(b) = Selections
  BY <1>1, CallsAssumption, FS_Subset
<1> QED
  BY <1>2, FS_CardinalityType DEF WonOf, Stands, RowWon

(* A call at work has a bet, and one of the settlement job a slip.         *)
AtWork(r) == /\ r.at # "idle" => r.bet \in Bets
             /\ r.at \in Settling => r.sel \in Selections

(* What a call makes of itself.                                            *)
LEMMA CallTypes ==
  ASSUME Typed, NEW c \in Calls, CallStep(c)
  PROVE  /\ call' \in [Calls -> CallRow]
         /\ \A d \in Calls : AtWork(call'[d])
         /\ \A d \in Calls : d # c => call'[d] = call[d]
<1>a. call \in [Calls -> CallRow]
  BY DEF Typed, LifeTypeOK, CallRow
<1>0. call \in [Calls -> CallRow]
      /\ \A d \in Calls : AtWork(call[d])
  BY <1>a DEF Typed, LifeTypeOK, AtWork
<1>1. ASSUME NEW r \in CallRow, AtWork(r),
             call' = [call EXCEPT ![c] = r]
      PROVE  /\ call' \in [Calls -> CallRow]
             /\ \A d \in Calls : AtWork(call'[d])
             /\ \A d \in Calls : d # c => call'[d] = call[d]
  BY <1>0, <1>1
<1>2. \E r \in CallRow : AtWork(r) /\ call' = [call EXCEPT ![c] = r]
  <2>1. Idle \in CallRow /\ AtWork(Idle)
    BY DEF Idle, CallRow, CallLabels, AtWork, Settling
  <2>2. CASE End(c)
    BY <2>1, <2>2 DEF End
  <2>3. ASSUME NEW l \in CallLabels, Go(c, l), call[c].at # "idle",
               l \in Settling => call[c].at \in Settling
        PROVE  \E r \in CallRow : AtWork(r) /\ call' = [call EXCEPT ![c] = r]
    <3>1. [call[c] EXCEPT !.at = l] \in CallRow
      BY <1>0 DEF CallRow
    <3>2. call' = [call EXCEPT ![c] = [call[c] EXCEPT !.at = l]]
      BY <2>3, <1>0 DEF Go
    <3>3. AtWork([call[c] EXCEPT !.at = l])
      BY <1>0, <2>3 DEF CallRow, AtWork
    <3> QED
      BY <3>1, <3>2, <3>3
  <2>4. ASSUME NEW l \in CallLabels \ Settling, NEW b \in Bets, Enter(c, l, b)
        PROVE  \E r \in CallRow : AtWork(r) /\ call' = [call EXCEPT ![c] = r]
    <3>1. [Idle EXCEPT !.at = l, !.bet = b] \in CallRow
          /\ AtWork([Idle EXCEPT !.at = l, !.bet = b])
      BY <2>4 DEF Idle, CallRow, AtWork
    <3> QED
      BY <2>4, <3>1 DEF Enter
  <2>5. CASE Settle(c)
    <3>1. ASSUME NEW b \in Bets, NEW x \in Selections, SettleSelect(c, b, x)
          PROVE  \E r \in CallRow : AtWork(r) /\ call' = [call EXCEPT ![c] = r]
      <4> DEFINE r == [Idle EXCEPT !.at = IF Settleable(b) THEN "slips"
                                                           ELSE "mark",
                                   !.bet = b, !.sel = x]
      <4>1. r \in CallRow /\ AtWork(r)
        BY DEF Idle, CallRow, CallLabels, AtWork
      <4>2. call' = [call EXCEPT ![c] = r]
        BY <3>1 DEF SettleSelect
      <4> HIDE DEF r
      <4> QED
        BY <4>1, <4>2
    <3>2. CASE SettleSlips(c)
      <4> DEFINE r == [call[c] EXCEPT !.at = "result",
                                      !.read = Result(call[c].bet)]
      <4>1. r \in CallRow /\ r.bet = call[c].bet /\ r.sel = call[c].sel
        BY <1>0 DEF Result, CallRow, CallLabels, Settling
      <4>2. call' = [call EXCEPT ![c] = r]
        BY <1>0, <3>2 DEF SettleSlips
      <4>3. AtWork(r)
        BY <1>0, <3>2, <4>1 DEF SettleSlips, Is, AtWork, Settling
      <4> HIDE DEF r
      <4> QED
        BY <4>1, <4>2, <4>3
    <3>3. CASE SettleResult(c) \/ SettleClosure(c) \/ SettleMark(c)
      BY <2>2, <2>3, <3>3 DEF SettleResult, SettleClosure, SettleMark, Is,
         CallLabels, Settling
    <3> QED
      BY <2>5, <3>1, <3>2, <3>3 DEF Settle
  <2>6. CASE Sweep(c)
    <3>1. CASE \E b \in Bets : SweepSelect(c, b)
      BY <2>4, <3>1 DEF SweepSelect, CallLabels, Settling
    <3>2. CASE SweepTotal(c)
      <4> DEFINE r == [call[c] EXCEPT !.at = "won",
                         !.total = Cardinality(Saved(call[c].bet))]
      <4>1. r \in CallRow /\ r.bet = call[c].bet /\ r.at \notin Settling
        BY <1>0, SlipCounts DEF CallRow, CallLabels, Settling
      <4>2. call' = [call EXCEPT ![c] = r]
        BY <1>0, <3>2 DEF SweepTotal
      <4>3. AtWork(r)
        BY <1>0, <3>2, <4>1 DEF SweepTotal, Is, AtWork, Settling
      <4> HIDE DEF r
      <4> QED
        BY <4>1, <4>2, <4>3
    <3>3. CASE SweepWon(c)
      <4> DEFINE r == [call[c] EXCEPT !.at = "lost",
                         !.won = Cardinality(WonOf(call[c].bet))]
      <4>1. r \in CallRow /\ r.bet = call[c].bet /\ r.at \notin Settling
        BY <1>0, SlipCounts DEF CallRow, CallLabels, Settling
      <4>2. call' = [call EXCEPT ![c] = r]
        BY <1>0, <3>3 DEF SweepWon
      <4>3. AtWork(r)
        BY <1>0, <3>3, <4>1 DEF SweepWon, Is, AtWork, Settling
      <4> HIDE DEF r
      <4> QED
        BY <4>1, <4>2, <4>3
    <3>4. CASE SweepLost(c) \/ SweepUpdate(c)
      BY <2>3, <3>4 DEF SweepLost, SweepUpdate, Is, CallLabels, Settling
    <3>5. CASE SweepDecide(c)
      <4>1. call[c].bet \in Bets
        BY <1>0, <3>5 DEF SweepDecide, Is, AtWork
      <4> QED
        BY <2>2, <2>4, <3>5, <4>1 DEF SweepDecide, CallLabels, Settling
    <3> QED
      BY <2>6, <3>1, <3>2, <3>3, <3>4, <3>5 DEF Sweep
  <2>7. CASE Close(c)
    <3>1. CASE \E b \in Bets : ResultingNext(c, b)
      BY <2>4, <3>1 DEF ResultingNext, CallLabels, Settling
    <3>2. CASE \/ CloseSelect(c) \/ CloseUpdate(c) \/ CloseSave(c)
               \/ CloseCredit(c) \/ CloseDelete(c)
      BY <2>2, <2>3, <3>2 DEF CloseSelect, CloseUpdate, CloseSave,
         CloseCredit, CloseDelete, EndClose, Is, CallLabels, Settling
    <3> QED
      BY <2>7, <3>1, <3>2 DEF Close
  <2>8. CASE Cashout(c)
    <3>1. CASE \E b \in Bets : CashoutRead(c, b)
      BY <2>4, <3>1 DEF CashoutRead, CallLabels, Settling
    <3>2. CASE CashoutUpdate(c) \/ CashoutSave(c) \/ CashoutCredit(c)
      BY <2>2, <2>3, <3>2 DEF CashoutUpdate, CashoutSave, CashoutCredit, Is,
         CallLabels, Settling
    <3> QED
      BY <2>8, <3>1, <3>2 DEF Cashout
  <2>9. CASE CallFails(c)
    BY <2>2, <2>3, <2>9 DEF CallFails, EndClose, CallLabels, Settling
  <2> QED
    BY <2>5, <2>6, <2>7, <2>8, <2>9 DEF CallStep
<1> QED
  BY <1>1, <1>2

(* What a call makes of the bet it works on, and of no other.              *)
LEMMA CallWrites ==
  ASSUME Typed, NEW c \in Calls, CallStep(c)
  PROVE  /\ bet' \in [Bets -> BetStatuses] /\ won' \in [Bets -> WonStatuses]
         /\ processed' \subseteq Bets \X Selections /\ closure' \subseteq Bets
         /\ winning' \in [Bets -> {"none", "resulting", "sweep", "cashout"}]
         /\ credits' \in [Bets -> Nat] /\ early' \subseteq Bets
         /\ early \subseteq early'
<1> USE DEF SetBet, Is
<1>0. /\ bet \in [Bets -> BetStatuses] /\ won \in [Bets -> WonStatuses]
      /\ processed \subseteq Bets \X Selections /\ closure \subseteq Bets
      /\ winning \in [Bets -> {"none", "resulting", "sweep", "cashout"}]
      /\ credits \in [Bets -> Nat] /\ early \subseteq Bets
      /\ call[c].at # "idle" => call[c].bet \in Bets
      /\ call[c].at = "mark" => call[c].sel \in Selections
  <2>1. call[c].at \in Settling => call[c].sel \in Selections
    BY DEF Typed, LifeTypeOK
  <2> QED
    BY <2>1 DEF Typed, LifeTypeOK, Settling
<1>1. CASE Settle(c)
  <2>1. CASE SettleResult(c)
    BY <1>0, <2>1 DEF SettleResult, BetStatuses, WonStatuses, results
  <2>2. CASE SettleMark(c)
    BY <1>0, <2>2 DEF SettleMark, vars, tables, paying
  <2>3. CASE \/ \E b \in Bets, x \in Selections : SettleSelect(c, b, x)
             \/ SettleSlips(c) \/ SettleClosure(c)
    BY <1>0, <2>3 DEF SettleSelect, SettleSlips, SettleClosure, vars, tables,
       paying, results
  <2> QED
    BY <1>1, <2>1, <2>2, <2>3 DEF Settle
<1>2. CASE Sweep(c)
  BY <1>0, <1>2 DEF Sweep, SweepSelect, SweepTotal, SweepWon, SweepLost,
     SweepUpdate, SweepDecide, Early, vars, tables, paying, results,
     BetStatuses, WonStatuses
<1>3. CASE Close(c)
  <2>1. CASE CloseUpdate(c)
    BY <1>0, <2>1 DEF CloseUpdate, BetStatuses, WonStatuses, results
  <2>2. CASE CloseSave(c)
    BY <1>0, <2>2 DEF CloseSave, vars, tables, results
  <2>3. CASE CloseCredit(c)
    BY <1>0, <2>3 DEF CloseCredit, vars, tables, results
  <2>4. CASE \/ \E b \in Bets : ResultingNext(c, b)
             \/ CloseSelect(c) \/ CloseDelete(c)
    BY <1>0, <2>4 DEF ResultingNext, CloseSelect, CloseDelete, vars, tables,
       paying, results
  <2> QED
    BY <1>3, <2>1, <2>2, <2>3, <2>4 DEF Close
<1>4. CASE Cashout(c)
  <2>1. CASE CashoutUpdate(c)
    BY <1>0, <2>1 DEF CashoutUpdate, BetStatuses, WonStatuses, results
  <2>2. CASE CashoutSave(c)
    BY <1>0, <2>2 DEF CashoutSave, vars, tables, results
  <2>3. CASE CashoutCredit(c)
    BY <1>0, <2>3 DEF CashoutCredit, vars, tables, results
  <2>4. CASE \E b \in Bets : CashoutRead(c, b)
    BY <1>0, <2>4 DEF CashoutRead, Early, vars, tables, paying, results
  <2> QED
    BY <1>4, <2>1, <2>2, <2>3, <2>4 DEF Cashout
<1>5. CASE CallFails(c)
  BY <1>0, <1>5 DEF CallFails, tables, paying, results
<1> QED
  BY <1>1, <1>2, <1>3, <1>4, <1>5 DEF CallStep

(* The results that slips were given stay, and so do acceptances.          *)
LEMMA Grows ==
  ASSUME Typed, [LifeNext]_lifeVars
  PROVE  /\ sent \subseteq sent' /\ early \subseteq early'
         /\ \A b \in Bets : /\ ruled[b] \subseteq ruled'[b]
                            /\ betStatus[b] = 1 => betStatus'[b] = 1
                            /\ RowWon(b) => RowWon(b)'
                            /\ Saved(b) \subseteq Saved(b)'
<1>0. /\ row \in [Bets -> [Selections -> {"none", "pending", "won", "lost"}]]
      /\ ruled \in [Bets -> SUBSET {"accept", "find"}]
      /\ betStatus \in [Bets -> {0, 1, BET_CANCELLED}]
  BY DEF Typed, LifeTypeOK, AcceptanceTyped
<1>1. CASE AnswerStep
  <2>1. row' = row /\ early' = early
    BY <1>1, AnswersLeave
  <2>2. sent \subseteq sent'
        /\ \A b \in Bets : betStatus[b] = 1 => betStatus'[b] = 1
    <3>1. CASE \E b \in Bets : \/ Refuse(b) \/ SaveBet(b) \/ Debit(b)
                               \/ Publish(b) \/ SaveSlips(b)
                               \/ PlacementFails(b)
      BY <3>1 DEF Refuse, SaveBet, Debit, Publish, SaveSlips, PlacementFails,
         tables
    <3>2. CASE \E m \in Answers : Accept(m) \/ RejectSave(m)
      BY <1>0, <3>2 DEF Accept, RejectSave, HasStatus
    <3>3. CASE \E m \in Answers : \/ RejectFind(m) \/ MtsAnswers(m)
                                  \/ RejectSlips(m) \/ RejectBet(m)
                                  \/ RejectCredit(m) \/ HandlerFails(m)
      BY <3>3 DEF RejectFind, MtsAnswers, RejectSlips, RejectBet,
         RejectCredit, HandlerFails, tables
    <3> QED
      BY <1>1, <3>1, <3>2, <3>3 DEF AnswerStep, Answering, MtsRules, CancelBet
  <2>3. \A b \in Bets : ruled[b] \subseteq ruled'[b]
    BY <1>0, <1>1 DEF AnswerStep, Answering, MtsRules, CancelBet
  <2> QED
    BY <2>1, <2>2, <2>3 DEF RowWon, Saved
<1>2. CASE StartUpFix \/ LifeCrash \/ UNCHANGED lifeVars
  BY <1>2 DEF StartUpFix, LifeCrash, Crash, lifeVars, life, vars, tables,
     results, RowWon, Saved
<1>3. ASSUME NEW b \in Bets, NEW x \in Selections,
             SaveSlip(b, x) \/ Grade(b, x)
      PROVE  /\ UNCHANGED <<sent, early, ruled, betStatus>>
             /\ \A a \in Bets : (RowWon(a) => RowWon(a)')
                                /\ Saved(a) \subseteq Saved(a)'
  <2>1. UNCHANGED <<sent, early, ruled, betStatus>>
    BY <1>3 DEF SaveSlip, Grade, vars, tables
  <2>2. PICK r \in {"pending", "won", "lost"} :
          row' = [row EXCEPT ![b][x] = r] /\ row[b][x] \in {"none", "pending"}
    BY <1>3 DEF SaveSlip, Grade
  <2> QED
    BY <1>0, <2>1, <2>2 DEF RowWon, Saved
<1>4. ASSUME NEW c \in Calls, CallStep(c)
      PROVE  /\ UNCHANGED <<sent, ruled, betStatus, row>>
             /\ early \subseteq early'
  BY <1>4, CallsLeave, CallWrites
<1> QED
  BY <1>1, <1>2, <1>3, <1>4, Steps DEF RowWon, Saved

(* Every step keeps the types.                                             *)
LEMMA TypedStep == Typed /\ [LifeNext]_lifeVars => Typed'
<1> SUFFICES ASSUME Typed, [LifeNext]_lifeVars PROVE Typed'
  OBVIOUS
<1> DEFINE Stage == \A b \in Bets : request[b] \in {"debit", "publish", "placed"}
                                      => Saved(b) = Selections
<1>0. Stage
  BY DEF Typed, LifeTypeOK
<1>1. CASE AnswerStep
  <2>1. AcceptanceTyped'
    BY <1>1, AcceptanceSteps DEF Typed
  <2>2. UNCHANGED <<row, processed, closure, winning, credits, call, startup,
                    early>> /\ won' \in [Bets -> WonStatuses]
    BY <1>1, AnswersLeave
  <2>3. bet' \in [Bets -> BetStatuses]
    <3>1. bet \in [Bets -> BetStatuses]
      BY DEF Typed, LifeTypeOK
    <3>2. CASE \E m \in Answers : RejectBet(m)
      BY <3>1, <3>2 DEF RejectBet, BetStatuses
    <3>3. CASE bet' = bet
      BY <3>1, <3>3
    <3> QED
      BY <1>1, <3>2, <3>3 DEF AnswerStep, Answering, MtsRules, CancelBet, Refuse,
         SaveBet, Debit, Publish, SaveSlips, PlacementFails, MtsAnswers,
         Accept, RejectFind, RejectSave, RejectSlips, RejectCredit,
         HandlerFails, tables
  <2>4. ruled' \in [Bets -> SUBSET {"accept", "find"}]
    BY <1>1 DEF AnswerStep, Answering, MtsRules, MtsAnswers, CancelBet, Typed,
       LifeTypeOK, AcceptanceTyped, AnswerRow, At
  <2>5. Stage'
    <3>1. request \in [Bets -> PlaceLabels]
      BY DEF Typed, AcceptanceTyped
    <3>2. \A b \in Bets : request'[b] \in {"debit", "publish", "placed"} =>
            request[b] \in {"debit", "publish", "placed"}
              \/ Saved(b) = Selections
      <4>1. CASE \E b \in Bets : \/ Refuse(b) \/ SaveBet(b) \/ Debit(b)
                                 \/ Publish(b) \/ PlacementFails(b)
                                 \/ SlipsAreSaved(b) /\ SaveSlips(b)
        BY <3>1, <4>1 DEF Refuse, SaveBet, Debit, Publish, PlacementFails,
           SaveSlips, SlipsAreSaved, RequestGoto
      <4>2. CASE request' = request
        BY <4>2
      <4> QED
        BY <1>1, <4>1, <4>2 DEF AnswerStep, Answering, MtsRules, CancelBet,
           MtsAnswers, Accept, RejectFind, RejectSave, RejectSlips, RejectBet,
           RejectCredit, HandlerFails
    <3> QED
      BY <1>0, <2>2, <3>2 DEF Saved
  <2> QED
    BY <2>1, <2>2, <2>3, <2>4, <2>5 DEF Typed, LifeTypeOK
<1>2. CASE StartUpFix
  BY <1>2 DEF StartUpFix, Typed, LifeTypeOK, AcceptanceTyped, vars, tables,
     wallet, results, Saved
<1>3. CASE LifeCrash
  <2>1. AcceptanceTyped'
    BY <1>3, AcceptanceSteps DEF Typed
  <2>2. call' = [c \in Calls |-> Idle] /\ startup' = TRUE
        /\ UNCHANGED <<bet, row, processed, won, closure, winning, credits,
                       early, ruled>>
    BY <1>3 DEF LifeCrash, Crash, tables, results, paying
  <2>3. call' \in [Calls -> CallRow] /\ \A c \in Calls : call'[c].at = "idle"
    BY <2>2 DEF Idle, CallRow, CallLabels
  <2>4. Stage'
    BY <1>0, <1>3, <2>2 DEF LifeCrash, Crash, Saved, Typed, AcceptanceTyped
  <2> QED
    BY <2>1, <2>2, <2>3, <2>4 DEF Typed, LifeTypeOK, CallRow, Settling
<1>4. ASSUME NEW b \in Bets, NEW x \in Selections, SaveSlip(b, x) \/ Grade(b, x)
      PROVE  Typed'
  <2>1. UNCHANGED <<request, slips, betStatus, sent, answer, refunds, bet,
                    processed, won, closure, winning, credits, call, startup,
                    early, ruled>>
    BY <1>4 DEF SaveSlip, Grade, vars, tables, wallet, paying
  <2>2. row' \in [Bets -> [Selections -> {"none", "pending", "won", "lost"}]]
    <3>1. PICK r \in {"pending", "won", "lost"} :
            row' = [row EXCEPT ![b][x] = r]
      BY <1>4 DEF SaveSlip, Grade
    <3> QED
      BY <3>1 DEF Typed, LifeTypeOK
  <2>3. Stage'
    <3>1. \A a \in Bets : Saved(a) \subseteq Saved(a)'
      BY Grows
    <3> QED
      BY <1>0, <2>1, <3>1 DEF Saved
  <2> QED
    BY <2>1, <2>2, <2>3 DEF Typed, LifeTypeOK, AcceptanceTyped
<1>5. ASSUME NEW c \in Calls, CallStep(c) PROVE Typed'
  <2>1. UNCHANGED <<request, slips, betStatus, sent, answer, refunds, row,
                    ruled, startup>>
    BY <1>5, CallsLeave DEF wallet
  <2>2. call' \in [Calls -> CallRow] /\ \A d \in Calls : AtWork(call'[d])
    BY <1>5, CallTypes
  <2>3. Stage'
    BY <1>0, <2>1 DEF Saved
  <2> QED
    BY <1>5, <2>1, <2>2, <2>3, CallWrites DEF Typed, LifeTypeOK,
       AcceptanceTyped, CallRow, AtWork
<1>6. CASE UNCHANGED lifeVars
  BY <1>6 DEF lifeVars, life, vars, tables, wallet, results, paying, Typed,
     LifeTypeOK, AcceptanceTyped, Saved
<1> QED
  BY <1>1, <1>2, <1>3, <1>4, <1>5, <1>6, Steps

LEMMA Apart ==
  ASSUME NEW c
  PROVE  /\ c \in Settlers  => c \notin Sweepers \cup Resulters \cup Cashouts
         /\ c \in Sweepers  => c \notin Resulters \cup Cashouts
         /\ c \in Resulters => c \notin Cashouts
<1>1. /\ Pairwise[1] \cap Pairwise[2] = {} /\ Pairwise[1] \cap Pairwise[3] = {}
      /\ Pairwise[1] \cap Pairwise[4] = {} /\ Pairwise[2] \cap Pairwise[3] = {}
      /\ Pairwise[2] \cap Pairwise[4] = {} /\ Pairwise[3] \cap Pairwise[4] = {}
  BY CallsAssumption
<1> QED
  BY <1>1 DEF Pairwise

LEMMA InitIInv == LifeInit => IInv
<1> SUFFICES ASSUME LifeInit PROVE IInv
  OBVIOUS
<1> USE DEF LifeInit, Init
<1>1. call \in [Calls -> CallRow] /\ \A c \in Calls : call[c].at = "idle"
  BY DEF Idle, CallRow, CallLabels
<1>2. AcceptanceTyped
  BY DEF AcceptanceTyped, PlaceLabels, AnswerRow
<1>3. LifeTypeOK
  <2>1. /\ bet \in [Bets -> BetStatuses] /\ won \in [Bets -> WonStatuses]
        /\ ruled \in [Bets -> SUBSET {"accept", "find"}]
    BY DEF BetStatuses, WonStatuses
  <2>2. row \in [Bets -> [Selections -> {"none", "pending", "won", "lost"}]]
    OBVIOUS
  <2>3. /\ processed \subseteq Bets \X Selections /\ closure \subseteq Bets
        /\ winning \in [Bets -> {"none", "resulting", "sweep", "cashout"}]
        /\ credits \in [Bets -> Nat]
        /\ startup \in BOOLEAN /\ early \subseteq Bets
    OBVIOUS
  <2> QED
    BY <1>1, <2>1, <2>2, <2>3 DEF LifeTypeOK, CallRow, Settling
<1>4. Ruled
  BY DEF Ruled, RejectLabels, BET_PENDING, BET_CANCELLED
<1>5. \A b \in Bets : Out(b)
  BY <1>1 DEF Out, Untouched, Refunding, Unresulted
<1>6. Known
  BY <1>1, Apart DEF Known, SettlerKnows, ResulterKnows, SweeperKnows,
     PaidHaveWon, Calls, Closing, Deciding, Sweeping, STATUS_WON,
     STATUS_NOT_LOST_OR_WON
<1> QED
  BY <1>2, <1>3, <1>4, <1>5, <1>6 DEF IInv, Typed

(* An acceptance is of a bet that was sent, and a bet is sent when all its *)
(* slips are saved.                                                        *)
LEMMA RuledStep == Typed /\ Ruled /\ [LifeNext]_lifeVars => Ruled'
<1> SUFFICES ASSUME Typed, Ruled, [LifeNext]_lifeVars PROVE Ruled'
  OBVIOUS
<1> DEFINE Accepting == \A m \in Answers : answer[m].at = "accept" =>
                                             "accept" \in ruled[answer[m].bet]
           Accepted == \A b \in Bets : betStatus[b] = 1 =>
                                         "accept" \in ruled[b] /\ b \in sent
           Complete == \A b \in sent : Saved(b) = Selections
           Rejecting == \A m \in Answers : answer[m].at \in RejectLabels =>
                                             "find" \in ruled[answer[m].bet]
           Withdrawn == \A b \in Bets : slips[b] = BET_CANCELLED =>
                                          "find" \in ruled[b]
<1>0. Accepting /\ Accepted /\ Complete /\ Rejecting /\ Withdrawn
  BY DEF Ruled
<1>1. /\ answer \in [Answers -> AnswerRow] /\ sent \subseteq Bets
      /\ \A m \in Answers : answer[m].at # "unsent" => answer[m].bet \in sent
      /\ betStatus \in [Bets -> {0, 1, BET_CANCELLED}]
      /\ ruled \in [Bets -> SUBSET {"accept", "find"}]
      /\ \A b \in Bets : request[b] = "publish" => Saved(b) = Selections
  BY DEF Typed, AcceptanceTyped, LifeTypeOK
<1>2. \A b \in Bets : Saved(b) \subseteq Saved(b)' /\ Saved(b)' \subseteq Selections
  BY Grows DEF Saved
<1>3. Complete'
  <2>1. \A b \in sent' : \/ b \in sent
                         \/ b \in Bets /\ request[b] = "publish"
    <3>1. CASE AnswerStep
      BY <3>1 DEF AnswerStep, Answering, MtsRules, CancelBet, Refuse, SaveBet,
         Debit, Publish, SaveSlips, PlacementFails, MtsAnswers, Accept,
         RejectFind, RejectSave, RejectSlips, RejectBet, RejectCredit,
         HandlerFails
    <3>2. ASSUME NEW c \in Calls, CallStep(c) PROVE sent' = sent
      BY <3>2, CallsLeave
    <3>3. CASE \/ StartUpFix \/ LifeCrash \/ UNCHANGED lifeVars
               \/ \E b \in Bets, x \in Selections : SaveSlip(b, x) \/ Grade(b, x)
      BY <3>3 DEF StartUpFix, LifeCrash, Crash, lifeVars, vars, SaveSlip, Grade
    <3> QED
      BY <3>1, <3>2, <3>3, Steps
  <2>2. ASSUME NEW b \in sent' PROVE Saved(b)' = Selections
    <3>1. b \in Bets /\ Saved(b) = Selections
      BY <1>0, <1>1, <2>1
    <3> QED
      BY <1>2, <3>1
  <2> QED
    BY <2>2
<1>4. Accepting' /\ Accepted'
  <2>1. CASE UNCHANGED <<answer, betStatus, ruled>>
    BY <1>0, <2>1, Grows
  <2>2. CASE LifeCrash
    BY <1>0, <1>1, <2>2 DEF LifeCrash, Crash, tables, RejectLabels, AnswerRow
  <2>3. ASSUME NEW m \in Answers, MtsRules(m) PROVE Accepting' /\ Accepted'
    <3>1. PICK b \in sent, f \in {"accept", "find"} :
            answer' = [answer EXCEPT ![m] = [at |-> f, bet |-> b]]
      BY <2>3 DEF MtsRules, MtsAnswers
    <3>2. ruled' = [ruled EXCEPT ![b] = @ \cup {f}]
      BY <1>1, <2>3, <3>1 DEF MtsRules
    <3>3. betStatus' = betStatus /\ sent' = sent
      BY <2>3 DEF MtsRules, MtsAnswers, tables
    <3>4. \A a \in Bets : "accept" \in ruled[a] => "accept" \in ruled'[a]
      BY <1>1, <3>2
    <3>5. Accepting'
      <4> SUFFICES ASSUME NEW n \in Answers, answer'[n].at = "accept"
                   PROVE  "accept" \in ruled'[answer'[n].bet]
        OBVIOUS
      <4>1. CASE n = m
        BY <1>1, <3>1, <3>2, <4>1
      <4>2. CASE n # m
        BY <1>0, <1>1, <3>1, <3>4, <4>2
      <4> QED
        BY <4>1, <4>2
    <3> QED
      BY <1>0, <3>3, <3>4, <3>5
  <2>4. ASSUME NEW m \in Answers, Accept(m) PROVE Accepting' /\ Accepted'
    <3>1. /\ answer' = [answer EXCEPT ![m].at = "acked"]
          /\ betStatus' = [betStatus EXCEPT ![answer[m].bet] = 1]
          /\ answer[m].at = "accept" /\ sent' = sent
      BY <2>4 DEF Accept, At, Goto
    <3>2. ruled \in [Bets -> SUBSET {"accept", "find"}]
          /\ \A b \in Bets : ruled[b] \subseteq ruled'[b]
      BY <1>1, Grows
    <3> QED
      BY <1>0, <1>1, <3>1, <3>2 DEF AnswerRow
  <2>5. ASSUME NEW m \in Answers, UNCHANGED ruled,
               \/ RejectFind(m) \/ RejectSave(m) \/ RejectSlips(m)
               \/ RejectBet(m) \/ RejectCredit(m) \/ HandlerFails(m)
        PROVE  Accepting' /\ Accepted'
    <3>1. PICK l \in RejectLabels \cup {"acked"} :
            answer' = [answer EXCEPT ![m].at = l]
      BY <2>5 DEF RejectFind, RejectSave, RejectSlips, RejectBet,
         RejectCredit, HandlerFails, Goto, RejectLabels
    <3>2. \A b \in Bets : betStatus'[b] = 1 => betStatus[b] = 1
      BY <1>1, <2>5 DEF RejectFind, RejectSave, RejectSlips, RejectBet,
         RejectCredit, HandlerFails, tables, BET_CANCELLED
    <3>3. sent' = sent
      BY <2>5 DEF RejectFind, RejectSave, RejectSlips, RejectBet,
         RejectCredit, HandlerFails
    <3> QED
      BY <1>0, <1>1, <2>5, <3>1, <3>2, <3>3 DEF AnswerRow, RejectLabels
  <2>6. CASE AnswerStep
    BY <2>1, <2>3, <2>4, <2>5, <2>6 DEF AnswerStep, Answering, CancelBet, Refuse,
       SaveBet, Debit, Publish, SaveSlips, PlacementFails, tables
  <2>7. CASE \E c \in Calls : CallStep(c)
    BY <2>1, <2>7, CallsLeave
  <2>8. CASE \/ StartUpFix \/ UNCHANGED lifeVars
             \/ \E b \in Bets, x \in Selections : SaveSlip(b, x) \/ Grade(b, x)
    BY <2>1, <2>8 DEF StartUpFix, lifeVars, vars, tables, SaveSlip, Grade
  <2> QED
    BY <2>2, <2>6, <2>7, <2>8, Steps
<1>5. Rejecting' /\ Withdrawn'
  <2>1. CASE UNCHANGED <<answer, slips, ruled>>
    BY <1>0, <2>1
  <2>2. CASE LifeCrash
    BY <1>0, <1>1, <2>2 DEF LifeCrash, Crash, tables, RejectLabels, AnswerRow
  <2>3. ASSUME NEW m \in Answers, MtsRules(m) PROVE Rejecting' /\ Withdrawn'
    <3>1. PICK b \in sent, f \in {"accept", "find"} :
            answer' = [answer EXCEPT ![m] = [at |-> f, bet |-> b]]
      BY <2>3 DEF MtsRules, MtsAnswers
    <3>2. ruled' = [ruled EXCEPT ![b] = @ \cup {f}] /\ slips' = slips
      BY <1>1, <2>3, <3>1 DEF MtsRules, MtsAnswers, tables
    <3>3. \A a \in Bets : "find" \in ruled[a] => "find" \in ruled'[a]
      BY <1>1, <3>2
    <3>4. ASSUME NEW n \in Answers, answer'[n].at \in RejectLabels
          PROVE  "find" \in ruled'[answer'[n].bet]
      <4>1. CASE n = m
        <5>1. answer'[n].bet = b /\ f = "find"
          BY <1>1, <3>1, <3>4, <4>1 DEF RejectLabels
        <5> QED
          BY <1>1, <3>2, <5>1
      <4>2. CASE n # m
        BY <1>0, <1>1, <3>1, <3>3, <3>4, <4>2 DEF RejectLabels
      <4> QED
        BY <4>1, <4>2
    <3> QED
      BY <1>0, <3>2, <3>3, <3>4
  <2>4. ASSUME NEW m \in Answers, UNCHANGED ruled,
               \/ Accept(m) \/ RejectFind(m) \/ RejectSave(m) \/ RejectSlips(m)
               \/ RejectBet(m) \/ RejectCredit(m) \/ HandlerFails(m)
        PROVE  Rejecting' /\ Withdrawn'
    <3>1. PICK l \in RejectLabels \cup {"acked"} :
            /\ answer' = [answer EXCEPT ![m].at = l]
            /\ l = "acked" \/ answer[m].at \in RejectLabels
      BY <2>4 DEF Accept, RejectFind, RejectSave, RejectSlips, RejectBet,
         RejectCredit, HandlerFails, At, Goto, RejectLabels
    <3>2. Rejecting'
      BY <1>0, <1>1, <2>4, <3>1 DEF AnswerRow, RejectLabels
    <3>3. CASE RejectSlips(m)
      <4>1. slips' = [slips EXCEPT ![answer[m].bet] = BET_CANCELLED]
            /\ "find" \in ruled[answer[m].bet]
        BY <1>0, <3>3 DEF RejectSlips, At, RejectLabels
      <4>2. slips \in [Bets -> {BET_PENDING, BET_CANCELLED}]
        BY DEF Typed, AcceptanceTyped
      <4> QED
        BY <1>0, <2>4, <3>2, <4>1, <4>2
    <3>4. CASE slips' = slips
      BY <1>0, <2>4, <3>2, <3>4
    <3> QED
      BY <2>4, <3>3, <3>4 DEF Accept, RejectFind, RejectSave, RejectBet,
         RejectCredit, HandlerFails, tables
  <2>5. CASE AnswerStep
    BY <2>1, <2>3, <2>4, <2>5 DEF AnswerStep, Answering, CancelBet, Refuse,
       SaveBet, Debit, Publish, SaveSlips, PlacementFails, tables
  <2>6. CASE \E c \in Calls : CallStep(c)
    BY <2>1, <2>6, CallsLeave
  <2>7. CASE \/ StartUpFix \/ UNCHANGED lifeVars
             \/ \E b \in Bets, x \in Selections : SaveSlip(b, x) \/ Grade(b, x)
    BY <2>1, <2>7 DEF StartUpFix, lifeVars, vars, tables, SaveSlip, Grade
  <2> QED
    BY <2>2, <2>5, <2>6, <2>7, Steps
<1> QED
  BY <1>3, <1>4, <1>5 DEF Ruled

(* A call does nothing to a bet that was neither accepted nor taken up     *)
(* early, except that a settlement marks itself processed.                 *)
LEMMA CallsLeaveUnready ==
  ASSUME IInv, NEW c \in Calls, CallStep(c), NEW b \in Bets, Unready(b)'
  PROVE  Untouched(b)' /\ bet'[b] = bet[b]
<1> USE DEF SetBet, Is, Go, End
<1>1. /\ bet \in [Bets -> BetStatuses] /\ won \in [Bets -> WonStatuses]
      /\ winning \in [Bets -> {"none", "resulting", "sweep", "cashout"}]
      /\ credits \in [Bets -> Nat] /\ call \in [Calls -> CallRow]
      /\ call[c].at # "idle" => call[c].bet \in Bets
  BY DEF IInv, Typed, LifeTypeOK, CallRow
<1>2. betStatus[b] # 1 /\ b \notin early /\ Untouched(b)
  BY CallsLeave, CallWrites DEF IInv, Ruled, Unready, Out
<1>3. \A d \in Calls : d # c => call'[d] = call[d]
  BY CallTypes DEF IInv
<1> SUFFICES /\ b \notin closure'
             /\ UNCHANGED <<bet[b], won[b], winning[b], credits[b]>>
             /\ call'[c].at \notin {"idle", "mark"} => call'[c].bet # b
  BY <1>2, <1>3 DEF Untouched, Unresulted
<1>4. /\ b \notin closure /\ Unresulted(b)
      /\ call[c].at \notin {"idle", "mark"} => call[c].bet # b
  BY <1>2 DEF Untouched
<1>5. CASE Settle(c)
  <2>1. CASE \E a \in Bets, x \in Selections : SettleSelect(c, a, x)
    BY <1>1, <1>2, <1>4, <2>1 DEF SettleSelect, Settleable, vars, tables,
       paying, Idle
  <2>2. CASE SettleClosure(c) \/ SettleMark(c)
    BY <1>1, <1>4, <2>2 DEF SettleClosure, SettleMark, vars, tables, paying,
       Idle, CallRow
  <2>4. CASE SettleSlips(c)
    <3>1. call'[c].bet = call[c].bet
      BY <1>1, <2>4 DEF SettleSlips, CallRow
    <3> QED
      BY <1>4, <2>4, <3>1 DEF SettleSlips, vars, tables, paying
  <2>3. CASE SettleResult(c)
    BY <1>1, <1>4, <2>3 DEF SettleResult, CallRow
  <2> QED
    BY <1>5, <2>1, <2>2, <2>3, <2>4 DEF Settle
<1>6. CASE Sweep(c)
  <2>1. CASE \E a \in Bets : SweepSelect(c, a)
    <3>1. PICK a \in Bets : SweepSelect(c, a)
      BY <2>1
    <3>2. a # b
      BY <1>2, <3>1 DEF SweepSelect, Early, Unready
    <3> QED
      BY <1>1, <1>4, <3>1, <3>2 DEF SweepSelect, Enter, vars, tables, paying,
         Idle
  <2>2. CASE SweepLost(c) \/ SweepUpdate(c)
    BY <1>1, <1>4, <2>2 DEF SweepLost, SweepUpdate, vars, tables, paying,
       CallRow
  <2>4. CASE SweepDecide(c)
    <3>2. ASSUME End(c) PROVE call'[c].at = "idle"
      BY <1>1, <3>2 DEF Idle
    <3>3. ASSUME NEW a \in Bets, Enter(c, "cb_select", a)
          PROVE  call'[c].bet = a
      BY <1>1, <3>3 DEF Enter, Idle
    <3>1. call'[c].at = "idle" \/ call'[c].bet = call[c].bet
      BY <1>1, <2>4, <3>2, <3>3 DEF SweepDecide
    <3> QED
      BY <1>4, <2>4, <3>1 DEF SweepDecide, vars, tables, paying
  <2>3. CASE SweepTotal(c) \/ SweepWon(c)
    <3>1. call'[c].bet = call[c].bet
      BY <1>1, <2>3 DEF SweepTotal, SweepWon, CallRow
    <3> QED
      BY <1>4, <2>3, <3>1 DEF SweepTotal, SweepWon, vars, tables, paying
  <2> QED
    BY <1>6, <2>1, <2>2, <2>3, <2>4 DEF Sweep
<1>7. CASE Close(c)
  <2>1. CASE \E a \in Bets : ResultingNext(c, a)
    BY <1>1, <1>4, <2>1 DEF ResultingNext, Enter, vars, tables, paying, Idle
  <2>2. CASE CloseSelect(c) \/ CloseUpdate(c) \/ CloseDelete(c)
    BY <1>1, <1>4, <2>2 DEF CloseSelect, CloseUpdate, CloseDelete, EndClose,
       vars, tables, paying, Idle, CallRow
  <2>3. CASE CloseSave(c) \/ CloseCredit(c)
    BY <1>1, <1>4, <2>3 DEF CloseSave, CloseCredit, EndClose, vars, tables,
       Idle, CallRow
  <2> QED
    BY <1>7, <2>1, <2>2, <2>3 DEF Close
<1>8. CASE Cashout(c)
  <2>1. CASE \E a \in Bets : CashoutRead(c, a)
    <3>1. PICK a \in Bets : CashoutRead(c, a)
      BY <2>1
    <3>2. a # b
      BY <1>2, <3>1 DEF CashoutRead, Early, Unready
    <3> QED
      BY <1>1, <1>4, <3>1, <3>2 DEF CashoutRead, Enter, vars, tables, paying,
         Idle
  <2>2. CASE CashoutUpdate(c) \/ CashoutSave(c) \/ CashoutCredit(c)
    BY <1>1, <1>4, <2>2 DEF CashoutUpdate, CashoutSave, CashoutCredit, vars,
       tables, Idle, CallRow
  <2> QED
    BY <1>8, <2>1, <2>2 DEF Cashout
<1>9. CASE CallFails(c)
  BY <1>1, <1>4, <1>9 DEF CallFails, EndClose, tables, paying, Idle, CallRow
<1> QED
  BY <1>5, <1>6, <1>7, <1>8, <1>9 DEF CallStep

(* What nobody accepted nor took up early stays out of the jobs' hands.    *)
LEMMA OutStep ==
  ASSUME IInv, [LifeNext]_lifeVars, NEW b \in Bets, Unready(b)'
  PROVE  Out(b)'
<1>1. Unready(b) /\ Out(b) /\ Untouched(b)
  BY Grows DEF IInv, Unready, Out
<1>2. /\ bet \in [Bets -> BetStatuses] /\ refunds \in [Bets -> Nat]
      /\ answer \in [Answers -> AnswerRow] /\ sent \subseteq Bets
      /\ \A m \in Answers : answer[m].at # "unsent" => answer[m].bet \in sent
  BY DEF IInv, Typed, LifeTypeOK, AcceptanceTyped
<1>3. CASE AnswerStep
  <2>1. Untouched(b)' \/ ~(bet'[b] \in {BET_PENDING, BET_CANCELLED})
    BY <1>1, <1>3, AnswersLeave DEF Untouched, Unresulted, IInv
  <2>2. ASSUME NEW m \in Answers, RejectBet(m)
        PROVE  /\ bet'[b] \in {bet[b], BET_CANCELLED}
               /\ Refunding(b)' => Refunding(b) \/ bet'[b] = BET_CANCELLED
    BY <1>2, <2>2 DEF RejectBet, Refunding, At, Goto, wallet, AnswerRow
  <2>3. ASSUME NEW m \in Answers, RejectCredit(m) \/ HandlerFails(m)
        PROVE  bet' = bet /\ (Refunding(b)' => Refunding(b))
    BY <1>2, <2>3 DEF RejectCredit, HandlerFails, Refunding, At, Goto, tables,
       AnswerRow
  <2>4. ASSUME NEW m \in Answers,
               \/ MtsAnswers(m) \/ Accept(m) \/ RejectFind(m) \/ RejectSave(m)
               \/ RejectSlips(m)
        PROVE  bet' = bet /\ (Refunding(b)' => Refunding(b))
    BY <1>2, <2>4 DEF MtsAnswers, Accept, RejectFind, RejectSave, RejectSlips,
       Refunding, At, Goto, tables, wallet, AnswerRow
  <2>5. ASSUME UNCHANGED <<bet, refunds, answer>>
        PROVE  bet' = bet /\ (Refunding(b)' => Refunding(b))
    BY <2>5 DEF Refunding
  <2>6. /\ bet'[b] \in {bet[b], BET_CANCELLED}
        /\ Refunding(b)' => Refunding(b) \/ bet'[b] = BET_CANCELLED
    BY <1>3, <2>2, <2>3, <2>4, <2>5 DEF AnswerStep, Answering, MtsRules,
       CancelBet, Refuse, SaveBet, Debit, Publish, SaveSlips, PlacementFails,
       tables, wallet
  <2> QED
    BY <1>1, <2>1, <2>6 DEF Out, Untouched
<1>4. CASE StartUpFix
  BY <1>1, <1>4 DEF StartUpFix, Out, Untouched, Refunding, Unresulted, vars,
     tables, wallet, STATUS_WON, STATUS_NOT_LOST_OR_WON
<1>5. CASE LifeCrash
  <2>1. Untouched(b)'
    BY <1>1, <1>5 DEF LifeCrash, Crash, Untouched, Unresulted, tables, paying,
       Idle
  <2>2. bet' = bet /\ (Refunding(b)' => Refunding(b))
    BY <1>2, <1>5 DEF LifeCrash, Crash, Refunding, tables, wallet, AnswerRow,
       RejectLabels
  <2> QED
    BY <1>1, <2>1, <2>2 DEF Out
<1>6. CASE \/ UNCHANGED lifeVars
           \/ \E a \in Bets, x \in Selections : SaveSlip(a, x) \/ Grade(a, x)
  BY <1>1, <1>6 DEF SaveSlip, Grade, lifeVars, life, vars, tables, wallet,
     paying, Out, Untouched, Refunding, Unresulted
<1>7. ASSUME NEW c \in Calls, CallStep(c) PROVE Out(b)'
  <2>1. UNCHANGED <<refunds, answer>>
    BY <1>7, CallsLeave DEF wallet
  <2>2. Untouched(b)' /\ bet'[b] = bet[b]
    BY <1>7, CallsLeaveUnready
  <2> QED
    BY <1>1, <2>1, <2>2 DEF Out, Refunding
<1> QED
  BY <1>3, <1>4, <1>5, <1>6, <1>7, Steps

(* What a call knows of its bet stays true while others take steps.        *)
LEMMA KnowledgeStays ==
  ASSUME Typed, [LifeNext]_lifeVars
  PROVE  /\ \A b \in Bets : Won(b) => Won(b)'
         /\ \A d \in Calls : call'[d] = call[d] =>
              /\ SettlerKnows(d) => SettlerKnows(d)'
              /\ ResulterKnows(d) => ResulterKnows(d)'
              /\ SweeperKnows(d) => SweeperKnows(d)'
<1>1. \A b \in Bets : Won(b) => Won(b)'
  BY Grows DEF Won
<1>2. ASSUME NEW d \in Calls, call'[d] = call[d]
      PROVE  /\ SettlerKnows(d) => SettlerKnows(d)'
             /\ ResulterKnows(d) => ResulterKnows(d)'
             /\ SweeperKnows(d) => SweeperKnows(d)'
  <2>1. CASE call[d].at = "idle"
    BY <1>2, <2>1 DEF SettlerKnows, ResulterKnows, SweeperKnows, Closing,
       Sweeping, Deciding
  <2>2. CASE call[d].at # "idle"
    <3>1. call[d].bet \in Bets
      BY <2>2 DEF Typed, LifeTypeOK
    <3>2. /\ SettlerKnows(d) => SettlerKnows(d)'
          /\ ResulterKnows(d) => ResulterKnows(d)'
      BY <1>1, <1>2, <3>1, Grows DEF SettlerKnows, ResulterKnows
    <3>3. SweeperKnows(d) => SweeperKnows(d)'
      BY <1>1, <1>2, <3>1, Grows DEF SweeperKnows
    <3> QED
      BY <3>2, <3>3
  <2> QED
    BY <2>1, <2>2
<1> QED
  BY <1>1, <1>2

LEMMA CallFacts ==
  ASSUME IInv, NEW c \in Calls, CallStep(c)
  PROVE  /\ [LifeNext]_lifeVars
         /\ call \in [Calls -> CallRow] /\ call' \in [Calls -> CallRow]
         /\ call[c].at # "idle" => call[c].bet \in Bets
         /\ UNCHANGED <<betStatus, sent, row, ruled>>
         /\ \A b : Won(b)' <=> Won(b)
         /\ \A b : RowWon(b)' <=> RowWon(b)
<1>1. LifeNext
  BY DEF LifeNext, CallStep
<1>2. UNCHANGED <<betStatus, sent, row, ruled>>
  BY CallsLeave
<1> QED
  BY <1>1, <1>2, CallTypes DEF IInv, Typed, LifeTypeOK, CallRow, Won, RowWon

(* A settlement's job knows that its bet was accepted, and of a bet that   *)
(* it read as won that it has won.                                         *)
LEMMA SettlersLearn ==
  ASSUME IInv, NEW c \in Settlers, CallStep(c)
  PROVE  SettlerKnows(c)'
<1> c \in Calls /\ c \notin Sweepers \cup Resulters \cup Cashouts
  BY Apart DEF Calls
<1>0. SettlerKnows(c)
  BY DEF IInv, Known
<1> USE CallFacts DEF Is, Go, End, SettlerKnows
<1>1. ASSUME NEW b \in Bets, NEW x \in Selections, SettleSelect(c, b, x)
      PROVE  SettlerKnows(c)'
  <2>1. /\ call'[c].at \in {"slips", "mark"} /\ call'[c].bet = b
        /\ call'[c].at = "slips" => betStatus[b] = 1
    BY <1>1 DEF SettleSelect, Settleable, Idle
  <2> QED
    BY <2>1
<1>2. CASE SettleSlips(c)
  <2>1. /\ call'[c].at = "result" /\ call'[c].bet = call[c].bet
        /\ call'[c].read = Result(call[c].bet)
    BY <1>2 DEF SettleSlips, CallRow
  <2>2. call[c].bet \in Bets /\ betStatus[call[c].bet] = 1
    BY <1>0, <1>2 DEF SettleSlips
  <2>3. call[c].bet \in sent /\ "accept" \in ruled[call[c].bet]
    BY <2>2 DEF IInv, Ruled
  <2>4. Result(call[c].bet) = "won" => RowWon(call[c].bet)
    BY DEF Result, AllWon, Stands, RowWon
  <2> QED
    BY <2>1, <2>2, <2>3, <2>4 DEF Won
<1>3. CASE SettleResult(c) \/ SettleClosure(c) \/ SettleMark(c)
  <2>1. call'[c].at \in {"closure", "mark", "idle"}
    BY <1>3 DEF SettleResult, SettleClosure, SettleMark, Idle, CallRow
  <2> QED
    BY <2>1
<1>4. CASE CallFails(c)
  <2>1. call'[c].at = "idle"
    BY <1>4 DEF CallFails, EndClose, Idle
  <2> QED
    BY <2>1
<1> QED
  BY <1>1, <1>2, <1>3, <1>4 DEF CallStep, Settle, Sweep, SweepSelect,
     SweepTotal, SweepWon, SweepLost, SweepUpdate, SweepDecide, Close,
     ResultingNext, CloseSelect, CloseUpdate, CloseSave, CloseCredit,
     CloseDelete, Cashout, CashoutRead, CashoutUpdate, CashoutSave,
     CashoutCredit

(* The resulting job pays what a settlement noted as won.                  *)
LEMMA ResultersLearn ==
  ASSUME IInv, NEW c \in Resulters, CallStep(c)
  PROVE  ResulterKnows(c)'
<1> c \in Calls /\ c \notin Sweepers \cup Settlers \cup Cashouts
  BY Apart DEF Calls
<1>0. ResulterKnows(c)
      /\ \A b \in Bets : bet[b] \in {BET_PENDING, BET_VOIDED}
                          /\ won[b] = STATUS_WON => Won(b)
  BY DEF IInv, Known
<1> USE CallFacts DEF Is, Go, End, EndClose, ResulterKnows, Closing
<1>1. CASE \E b \in Bets : ResultingNext(c, b)
  <2>1. call'[c].at = "cb_select"
    BY <1>1 DEF ResultingNext, Enter, Idle
  <2> QED
    BY <2>1
<1>2. CASE CloseSelect(c)
  <2>1. call'[c].bet = call[c].bet
        /\ call'[c].at = (IF Closable(c, call[c].bet) THEN "cb_update"
                                                      ELSE "delete")
    BY <1>2 DEF CloseSelect, CallRow
  <2> QED
    BY <1>0, <1>2, <2>1 DEF CloseSelect, Closable
<1>3. CASE CloseUpdate(c)
  <2>1. call'[c].bet = call[c].bet /\ call[c].at = "cb_update"
    BY <1>3 DEF CloseUpdate, CallRow
  <2> QED
    BY <1>0, <2>1
<1>4. CASE \/ CloseSave(c) \/ CloseCredit(c) \/ CloseDelete(c) \/ CallFails(c)
  <2>1. call'[c].at \in {"cb_credit", "delete", "idle"}
    BY <1>4 DEF CloseSave, CloseCredit, CloseDelete, CallFails, Idle, CallRow
  <2> QED
    BY <2>1
<1> QED
  BY <1>1, <1>2, <1>3, <1>4 DEF CallStep, Settle, SettleSelect, SettleSlips,
     SettleResult, SettleClosure, SettleMark, Sweep, SweepSelect, SweepTotal,
     SweepWon, SweepLost, SweepUpdate, SweepDecide, Close, Cashout,
     CashoutRead, CashoutUpdate, CashoutSave, CashoutCredit

(* The sweep knows of an accepted bet that all its slips are counted, so   *)
(* that as many won slips are all of them, although it counts them in      *)
(* steps of their own.                                                     *)
LEMMA SweepersLearn ==
  ASSUME IInv, NEW c \in Sweepers, CallStep(c)
  PROVE  SweeperKnows(c)'
<1> c \in Calls /\ c \notin Resulters \cup Settlers \cup Cashouts
  BY Apart DEF Calls
<1> DEFINE b == call[c].bet
           N == Cardinality(Selections)
<1>0. /\ SweeperKnows(c) /\ early \subseteq early'
      /\ \A a \in sent : Saved(a) = Selections
      /\ sent \subseteq Bets /\ N \in Nat
  BY CallWrites, CallsAssumption, FS_CardinalityType DEF IInv, Known, Ruled,
     Typed, AcceptanceTyped
<1> USE CallFacts DEF Is, Go, End
<1>1. ASSUME NEW a \in Bets, SweepSelect(c, a) PROVE SweeperKnows(c)'
  <2>1. call'[c].at = "total" /\ call'[c].bet = a
    BY <1>1 DEF SweepSelect, Enter, Idle
  <2>2. a \notin early' => a \in sent /\ "accept" \in ruled[a]
    BY <1>1 DEF SweepSelect, Early, IInv, Ruled
  <2> QED
    BY <2>1, <2>2 DEF SweeperKnows, Sweeping, Deciding, Closing
<1>2. CASE SweepTotal(c)
  <2>1. /\ call'[c].at = "won" /\ call'[c].bet = b
        /\ call'[c].total = Cardinality(Saved(b)) /\ call[c].at = "total"
    BY <1>2 DEF SweepTotal, CallRow
  <2> QED
    BY <1>0, <2>1 DEF SweeperKnows, Sweeping, Deciding, Closing
<1>3. CASE SweepWon(c)
  <2>1. /\ call'[c].at = "lost" /\ call'[c].bet = b /\ call[c].at = "won"
        /\ call'[c].won = Cardinality(WonOf(b))
        /\ call'[c].total = call[c].total
    BY <1>3 DEF SweepWon, CallRow
  <2>2. call'[c].won = N => RowWon(b)
    BY <2>1, SlipCounts
  <2> QED
    BY <1>0, <2>1, <2>2 DEF SweeperKnows, Sweeping, Deciding, Closing
<1>4. CASE SweepLost(c) \/ SweepUpdate(c)
  <2>1. /\ call'[c].at \in {"update", "decide"} /\ call'[c].bet = b
        /\ call[c].at \in {"lost", "update"}
        /\ call'[c].won = call[c].won /\ call'[c].total = call[c].total
    BY <1>4 DEF SweepLost, SweepUpdate, CallRow
  <2> QED
    BY <1>0, <2>1 DEF SweeperKnows, Sweeping, Deciding, Closing
<1>5. CASE SweepDecide(c)
  <2>1. CASE ~WonTotal(call[c].total, call[c].won)
    <3>1. call'[c].at = "idle"
      BY <1>5, <2>1 DEF SweepDecide, Idle
    <3> QED
      BY <3>1 DEF SweeperKnows, Sweeping, Deciding, Closing
  <2>2. CASE WonTotal(call[c].total, call[c].won)
    <3>1. b \in Bets /\ Enter(c, "cb_select", b) /\ call[c].at = "decide"
      BY <1>5, <2>2 DEF SweepDecide
    <3>2. call'[c].at = "cb_select" /\ call'[c].bet = b
      BY <3>1 DEF Enter, Idle
    <3>3. b \notin early' => Won(b)
      BY <1>0, <2>2, <3>1 DEF SweeperKnows, Sweeping, Deciding, WonTotal, Won
    <3> QED
      BY <3>2, <3>3 DEF SweeperKnows, Sweeping, Deciding, Closing
  <2> QED
    BY <2>1, <2>2
<1>6. CASE \/ CloseSelect(c) \/ CloseUpdate(c) \/ CloseSave(c)
           \/ CloseCredit(c) \/ CallFails(c)
  <2>1. \/ call'[c].at \in {"idle", "cb_credit"}
        \/ /\ call'[c].at \in Closing /\ call'[c].bet = b
           /\ call[c].at \in {"cb_select", "cb_update"}
    BY <1>6 DEF CloseSelect, CloseUpdate, CloseSave, CloseCredit, CallFails,
       EndClose, Idle, CallRow, Closing
  <2> QED
    BY <1>0, <2>1 DEF SweeperKnows, Sweeping, Deciding, Closing
<1> QED
  BY <1>1, <1>2, <1>3, <1>4, <1>5, <1>6 DEF CallStep, Settle, SettleSelect,
     SettleSlips, SettleResult, SettleClosure, SettleMark, Sweep, Close,
     ResultingNext, CloseDelete, Cashout, CashoutRead, CashoutUpdate,
     CashoutSave, CashoutCredit

(* A pending bet that is noted as won has won, and so has one that is paid.*)
LEMMA CallsPay ==
  ASSUME IInv, NEW c \in Calls, CallStep(c)
  PROVE  /\ \A b \in Bets : bet'[b] \in {BET_PENDING, BET_VOIDED}
                              /\ won'[b] = STATUS_WON => Won(b)'
         /\ PaidHaveWon'
<1> DEFINE Noted == \A b \in Bets : bet[b] \in {BET_PENDING, BET_VOIDED}
                                      /\ won[b] = STATUS_WON => Won(b)
<1>0. /\ Noted /\ PaidHaveWon /\ early \subseteq early'
      /\ c \in Settlers => SettlerKnows(c)
      /\ c \in Resulters => ResulterKnows(c)
      /\ c \in Sweepers => SweeperKnows(c)
      /\ bet \in [Bets -> BetStatuses] /\ won \in [Bets -> WonStatuses]
      /\ winning \in [Bets -> {"none", "resulting", "sweep", "cashout"}]
  BY CallWrites DEF IInv, Known, Typed, LifeTypeOK
<1> USE CallFacts DEF Is
<1>1. Noted'
  <2>1. CASE UNCHANGED <<bet, won>>
    BY <1>0, <2>1
  <2>2. CASE SettleResult(c)
    BY <1>0, <2>2 DEF SettleResult, SetBet, SettlerKnows, STATUS_WON,
       STATUS_LOST
  <2>3. CASE SweepUpdate(c)
    BY <1>0, <2>3 DEF SweepUpdate, SetBet, STATUS_WON, STATUS_LOST
  <2>4. CASE CloseUpdate(c)
    BY <1>0, <2>4 DEF CloseUpdate, SetBet, BET_WON, BET_PENDING, BET_VOIDED
  <2>5. CASE CashoutUpdate(c)
    BY <1>0, <2>5 DEF CashoutUpdate, SetBet, BET_CASHOUT, BET_PENDING,
       BET_VOIDED
  <2> QED
    BY <2>1, <2>2, <2>3, <2>4, <2>5 DEF CallStep, Settle, SettleSelect,
       SettleSlips, SettleClosure, SettleMark, Sweep, SweepSelect, SweepTotal,
       SweepWon, SweepLost, SweepDecide, Close, ResultingNext, CloseSelect,
       CloseSave, CloseCredit, CloseDelete, Cashout, CashoutRead, CashoutSave,
       CashoutCredit, CallFails, vars, tables, paying
<1>2. PaidHaveWon'
  <2>1. CASE UNCHANGED winning
    BY <1>0, <2>1 DEF PaidHaveWon
  <2>2. CASE CloseSave(c)
    <3>1. PICK w \in {"none", "resulting", "sweep"} :
            /\ winning' = [winning EXCEPT ![call[c].bet] = w] \/ winning' = winning
            /\ w = IF c \in Resulters THEN "resulting" ELSE "sweep"
      BY <2>2 DEF CloseSave
    <3>2. c \in Resulters => Won(call[c].bet)
      BY <1>0, <2>2 DEF CloseSave, ResulterKnows, Closing
    <3>3. c \notin Resulters /\ call[c].bet \notin early => Won(call[c].bet)
      BY <1>0, <2>2 DEF CloseSave, SweeperKnows, Closing
    <3> QED
      BY <1>0, <3>1, <3>2, <3>3 DEF PaidHaveWon, Won
  <2>3. CASE CashoutSave(c)
    BY <1>0, <2>3 DEF CashoutSave, PaidHaveWon
  <2> QED
    BY <2>1, <2>2, <2>3 DEF CallStep, Settle, SettleSelect, SettleSlips,
       SettleResult, SettleClosure, SettleMark, Sweep, SweepSelect, SweepTotal,
       SweepWon, SweepLost, SweepUpdate, SweepDecide, Close, ResultingNext,
       CloseSelect, CloseUpdate, CloseCredit, CloseDelete, Cashout,
       CashoutRead, CashoutUpdate, CashoutCredit, CallFails, paying
<1> QED
  BY <1>1, <1>2

LEMMA KnownStep == IInv /\ [LifeNext]_lifeVars => Known'
<1> SUFFICES ASSUME IInv, [LifeNext]_lifeVars PROVE Known'
  OBVIOUS
<1> DEFINE Noted == \A b \in Bets : bet[b] \in {BET_PENDING, BET_VOIDED}
                                      /\ won[b] = STATUS_WON => Won(b)
<1>0. /\ Typed /\ Known /\ Noted /\ Settlers \subseteq Calls
      /\ Sweepers \subseteq Calls /\ Resulters \subseteq Calls
  BY DEF IInv, Known, Calls
<1>1. ASSUME NEW c \in Calls, CallStep(c) PROVE Known'
  <2>1. \A d \in Calls : d # c => call'[d] = call[d]
    BY <1>1, CallTypes, <1>0
  <2>2. \A d \in Settlers : SettlerKnows(d)'
    BY <1>0, <1>1, <2>1, KnowledgeStays, SettlersLearn DEF Known
  <2>3. \A d \in Resulters : ResulterKnows(d)'
    BY <1>0, <1>1, <2>1, KnowledgeStays, ResultersLearn DEF Known
  <2>4. \A d \in Sweepers : SweeperKnows(d)'
    BY <1>0, <1>1, <2>1, KnowledgeStays, SweepersLearn DEF Known
  <2> QED
    BY <1>1, <2>2, <2>3, <2>4, CallsPay DEF Known
<1>2. ASSUME call' = call \/ call' = [c \in Calls |-> Idle],
             UNCHANGED winning, Noted'
      PROVE  Known'
  <2>1. ASSUME NEW d \in Calls
        PROVE  /\ SettlerKnows(d) => SettlerKnows(d)'
               /\ ResulterKnows(d) => ResulterKnows(d)'
               /\ SweeperKnows(d) => SweeperKnows(d)'
    <3>1. CASE call' = call
      BY <1>0, <3>1, KnowledgeStays
    <3>2. CASE call' = [c \in Calls |-> Idle]
      BY <3>2 DEF Idle, SettlerKnows, ResulterKnows, SweeperKnows, Closing,
         Sweeping, Deciding
    <3> QED
      BY <1>2, <3>1, <3>2
  <2>2. PaidHaveWon'
    BY <1>0, <1>2, Grows, KnowledgeStays DEF Known, PaidHaveWon
  <2> QED
    BY <1>0, <1>2, <2>1, <2>2 DEF Known
<1>3. CASE AnswerStep
  <2>1. \A b \in Bets : bet'[b] \in {bet[b], BET_CANCELLED}
    BY <1>3 DEF AnswerStep, Answering, MtsRules, CancelBet, Refuse, SaveBet,
       Debit, Publish, SaveSlips, PlacementFails, MtsAnswers, Accept,
       RejectFind, RejectSave, RejectSlips, RejectBet, RejectCredit,
       HandlerFails, tables, IInv, Typed, LifeTypeOK
  <2>2. Noted'
    BY <1>0, <1>3, <2>1, AnswersLeave, KnowledgeStays DEF BET_CANCELLED,
       BET_PENDING, BET_VOIDED, STATUS_WON, STATUS_NOT_LOST_OR_WON
  <2> QED
    BY <1>0, <1>2, <1>3, <2>2, AnswersLeave
<1>4. CASE \/ StartUpFix \/ LifeCrash \/ UNCHANGED lifeVars
           \/ \E b \in Bets, x \in Selections : SaveSlip(b, x) \/ Grade(b, x)
  <2>1. /\ call' = call \/ call' = [c \in Calls |-> Idle]
        /\ UNCHANGED <<bet, won, winning>>
    BY <1>4 DEF StartUpFix, LifeCrash, Crash, SaveSlip, Grade, lifeVars, life,
       vars, tables, paying
  <2>2. Noted'
    BY <1>0, <2>1, KnowledgeStays
  <2> QED
    BY <1>2, <2>1, <2>2
<1> QED
  BY <1>1, <1>3, <1>4, Steps

-----------------------------------------------------------------------------
LEMMA IInvAlways == LifeSpec => []IInv
<1>1. IInv /\ [LifeNext]_lifeVars => IInv'
  <2> SUFFICES ASSUME IInv, [LifeNext]_lifeVars PROVE IInv'
    OBVIOUS
  <2> QED
    BY TypedStep, RuledStep, OutStep, KnownStep DEF IInv
<1> QED
  BY InitIInv, <1>1, PTL DEF LifeSpec

(* Placement, the MTS's answers and the jobs leave in the tables and in    *)
(* the calls only what they may hold, and no bet gets past its slips       *)
(* before all of them are saved.                                           *)
THEOREM LifeTypes == LifeSpec => []LifeTypeOK
<1>1. IInv => LifeTypeOK
  BY DEF IInv, Typed
<1> QED
  BY <1>1, IInvAlways, PTL

(* However many answers, jobs, cashouts, failures and crashes there are, a *)
(* bet whose stake a rejection gave back is cancelled and nothing is paid  *)
(* for it, unless the MTS also accepted it or a job that asks for no       *)
(* answer took it up first.                                                *)
THEOREM Refunded == LifeSpec => []RefundedBetsStayOut
<1>1. IInv => RefundedBetsStayOut
  BY DEF IInv, RefundedBetsStayOut, Unready, Out, Untouched, Refunding
<1> QED
  BY <1>1, IInvAlways, PTL

(* The bets the resulting job pays were sent to the MTS and accepted, and  *)
(* their slips were all resulted as won and say so until a rejection       *)
(* resets them; so it is with those the sweep pays unless it took them up  *)
(* without an acceptance.                                                  *)
THEOREM Paid == LifeSpec => []PaidBetsWereAccepted
<1>1. IInv => PaidBetsWereAccepted
  <2> SUFFICES ASSUME IInv, NEW b \in Bets, Won(b)
               PROVE  AllWon(b) \/ "find" \in ruled[b]
    BY DEF IInv, Known, PaidHaveWon, PaidBetsWereAccepted, Won, RowWon
  <2>1. slips[b] = BET_PENDING \/ "find" \in ruled[b]
    BY DEF IInv, Typed, AcceptanceTyped, Ruled
  <2> QED
    BY <2>1 DEF Won, RowWon, AllWon, Stands
<1> QED
  BY <1>1, IInvAlways, PTL

-----------------------------------------------------------------------------
(* A call that has saved the winning of its bet and has still to credit it *)
(* is the only one of that bet, and nobody has credited it.                *)
Crediting(c) == call[c].at \in {"cb_credit", "co_credit"}

PayInv ==
  /\ \A b \in Bets : credits[b] <= 1 /\ (credits[b] = 1 => winning[b] # "none")
  /\ \A c \in Calls : Crediting(c) => /\ winning[call[c].bet] # "none"
                                      /\ credits[call[c].bet] = 0
  /\ \A c, d \in Calls :
       Crediting(c) /\ Crediting(d) /\ call[c].bet = call[d].bet => c = d

Ledger  == [b \in Bets |-> [i \in 1..credits[b] |-> winning[b]]]
PayStep == [PO!Next]_<<winning, Ledger>>

(* The three things a call does to the money of bets.                      *)
Records(c) ==
  \E b \in Bets, kind \in {"resulting", "sweep", "cashout"} :
    /\ winning[b] = "none" /\ winning' = [winning EXCEPT ![b] = kind]
    /\ UNCHANGED credits
    /\ ~Crediting(c) /\ call'[c].bet = b

Pays(c) ==
  /\ Crediting(c) /\ ~Crediting(c)'
  /\ UNCHANGED winning
  /\ credits' = [credits EXCEPT ![call[c].bet] = @ + 1]

Neither(c) == UNCHANGED <<winning, credits>> /\ ~Crediting(c)'

LEMMA CallKinds ==
  ASSUME Typed, NEW c \in Calls, CallStep(c)
  PROVE  Records(c) \/ Pays(c) \/ Neither(c)
<1>0. /\ call \in [Calls -> CallRow]
      /\ call[c].at # "idle" => call[c].bet \in Bets
  BY DEF Typed, LifeTypeOK, CallRow
<1>1. ASSUME NEW l \in CallLabels, Go(c, l)
      PROVE  call'[c].at = l /\ call'[c].bet = call[c].bet
  BY <1>0, <1>1 DEF Go, CallRow
<1>2. ASSUME End(c) PROVE call'[c].at = "idle"
  BY <1>0, <1>2 DEF End, Idle
<1>3. ASSUME NEW l \in CallLabels, NEW b \in Bets, Enter(c, l, b)
      PROVE  call'[c].at = l
  BY <1>0, <1>3 DEF Enter, Idle
<1>4. ASSUME EndClose(c) PROVE call'[c].at \in {"idle", "delete"}
  BY <1>1, <1>2, <1>4 DEF EndClose, CallLabels
<1> USE DEF Is, Crediting, vars, paying
<1>5. CASE Settle(c)
  <2>1. CASE \E b \in Bets, x \in Selections : SettleSelect(c, b, x)
    BY <1>0, <2>1 DEF SettleSelect, Idle, Neither
  <2>2. CASE SettleSlips(c)
    BY <1>0, <2>2 DEF SettleSlips, Neither, CallRow
  <2>3. CASE SettleResult(c) \/ SettleClosure(c) \/ SettleMark(c)
    BY <1>1, <1>2, <2>3 DEF SettleResult, SettleClosure, SettleMark, Neither,
       CallLabels
  <2> QED
    BY <1>5, <2>1, <2>2, <2>3 DEF Settle
<1>6. CASE Sweep(c)
  <2>1. CASE SweepTotal(c) \/ SweepWon(c)
    BY <1>0, <2>1 DEF SweepTotal, SweepWon, Neither, CallRow
  <2>2. CASE (\E b \in Bets : SweepSelect(c, b)) \/ SweepDecide(c)
    BY <1>0, <1>2, <1>3, <2>2 DEF SweepSelect, SweepDecide, Neither, CallLabels
  <2>3. CASE SweepLost(c) \/ SweepUpdate(c)
    BY <1>1, <2>3 DEF SweepLost, SweepUpdate, Neither, CallLabels
  <2> QED
    BY <1>6, <2>1, <2>2, <2>3 DEF Sweep
<1>7. CASE Close(c)
  <2>1. CASE CloseSave(c)
    <3> DEFINE b == call[c].bet
    <3>1. b \in Bets /\ ~Crediting(c)
      BY <1>0, <2>1 DEF CloseSave
    <3>2. CASE winning[b] = "none"
      <4>1. call'[c].bet = b
        BY <1>1, <2>1, <3>2 DEF CloseSave, CallLabels
      <4> QED
        BY <2>1, <3>1, <3>2, <4>1 DEF CloseSave, Records
    <3>3. CASE winning[b] # "none"
      BY <1>4, <2>1, <3>3 DEF CloseSave, Neither
    <3> QED
      BY <3>2, <3>3
  <2>2. CASE CloseCredit(c)
    BY <1>4, <2>2 DEF CloseCredit, Pays
  <2>3. CASE (\E b \in Bets : ResultingNext(c, b)) \/ CloseSelect(c)
    BY <1>1, <1>3, <1>4, <2>3 DEF ResultingNext, CloseSelect, Neither,
       CallLabels
  <2>4. CASE CloseUpdate(c) \/ CloseDelete(c)
    BY <1>1, <1>2, <2>4 DEF CloseUpdate, CloseDelete, Neither, CallLabels
  <2> QED
    BY <1>7, <2>1, <2>2, <2>3, <2>4 DEF Close
<1>8. CASE Cashout(c)
  <2>1. CASE CashoutSave(c)
    <3> DEFINE b == call[c].bet
    <3>1. b \in Bets /\ ~Crediting(c)
      BY <1>0, <2>1 DEF CashoutSave
    <3>2. CASE winning[b] = "none"
      <4>1. call'[c].bet = b
        BY <1>1, <2>1, <3>2 DEF CashoutSave, CallLabels
      <4> QED
        BY <2>1, <3>1, <3>2, <4>1 DEF CashoutSave, Records
    <3>3. CASE winning[b] # "none"
      BY <1>2, <2>1, <3>3 DEF CashoutSave, Neither
    <3> QED
      BY <3>2, <3>3
  <2>2. CASE CashoutCredit(c)
    BY <1>2, <2>2 DEF CashoutCredit, Pays
  <2>3. CASE (\E b \in Bets : CashoutRead(c, b)) \/ CashoutUpdate(c)
    BY <1>1, <1>3, <2>3 DEF CashoutRead, CashoutUpdate, Neither, CallLabels
  <2> QED
    BY <1>8, <2>1, <2>2, <2>3 DEF Cashout
<1>9. CASE CallFails(c)
  BY <1>4, <1>9 DEF CallFails, Neither
<1> QED
  BY <1>5, <1>6, <1>7, <1>8, <1>9 DEF CallStep

(* What each of the three means for PayOnce.                               *)
LEMMA LifePayCall ==
  ASSUME Typed, PayInv, NEW c \in Calls, CallStep(c)
  PROVE  PayInv' /\ PayStep
<1>0. /\ winning \in [Bets -> {"none", "resulting", "sweep", "cashout"}]
      /\ credits \in [Bets -> Nat]
      /\ \A d \in Calls : Crediting(d) => call[d].bet \in Bets
      /\ \A d \in Calls : Crediting(d)' => call'[d].bet \in Bets
      /\ \A d \in Calls : d # c => call'[d] = call[d]
  BY CallTypes DEF Typed, LifeTypeOK, Crediting, AtWork
<1>1. CASE Neither(c)
  <2>1. PayInv'
    BY <1>0, <1>1 DEF Neither, PayInv, Crediting
  <2> QED
    BY <1>1, <2>1 DEF Neither, PayStep, Ledger
<1>2. CASE Records(c)
  <2>1. PICK b \in Bets, kind \in {"resulting", "sweep", "cashout"} :
          /\ winning[b] = "none" /\ winning' = [winning EXCEPT ![b] = kind]
          /\ UNCHANGED credits
          /\ ~Crediting(c) /\ call'[c].bet = b
    BY <1>2 DEF Records
  <2>2. credits[b] = 0
    BY <1>0, <2>1 DEF PayInv
  <2>3. \A d \in Calls : Crediting(d) => call[d].bet # b
    BY <2>1 DEF PayInv
  <2>4. PayInv'
    BY <1>0, <2>1, <2>2, <2>3 DEF PayInv, Crediting
  <2>5. Ledger' = Ledger
    <3>1. [i \in 1..0 |-> kind] = [i \in 1..0 |-> winning[b]]
      OBVIOUS
    <3>2. ASSUME NEW a \in Bets
          PROVE  [i \in 1..credits'[a] |-> winning'[a]]
                   = [i \in 1..credits[a] |-> winning[a]]
      <4>1. CASE a = b
        BY <1>0, <2>1, <2>2, <3>1, <4>1
      <4>2. CASE a # b
        BY <1>0, <2>1, <4>2
      <4> QED
        BY <4>1, <4>2
    <3> QED
      BY <3>2 DEF Ledger
  <2>6. PO!Record(b, kind)
    BY <2>1, <2>5 DEF PO!Record, Ledger
  <2> QED
    BY <2>4, <2>6 DEF PayStep, PO!Next
<1>3. CASE Pays(c)
  <2>1. PICK b \in Bets : b = call[c].bet
    BY <1>0, <1>3 DEF Pays
  <2>2. winning[b] # "none" /\ credits[b] = 0
    BY <1>3, <2>1 DEF Pays, PayInv
  <2>3. credits' = [credits EXCEPT ![b] = 1] /\ winning' = winning
    BY <1>3, <2>1, <2>2 DEF Pays
  <2>4. \A d \in Calls : Crediting(d)' =>
          Crediting(d) /\ call'[d].bet = call[d].bet /\ call[d].bet # b
    BY <1>0, <1>3, <2>1 DEF Pays, PayInv, Crediting
  <2>5. PayInv'
    BY <1>0, <2>2, <2>3, <2>4 DEF PayInv
  <2>6. PICK a \in {"resulting", "sweep", "cashout"} : a = winning[b]
    BY <1>0, <2>2
  <2>7. Ledger[b] = <<>>
    BY <2>2 DEF Ledger
  <2>8. Ledger' = [Ledger EXCEPT ![b] = <<a>>]
    <3>1. [i \in 1..1 |-> a] = <<a>>
      OBVIOUS
    <3>2. Ledger'[b] = <<a>>
      BY <1>0, <2>3, <2>6, <3>1 DEF Ledger
    <3>3. \A e \in Bets : e # b => Ledger'[e] = Ledger[e]
      BY <1>0, <2>3 DEF Ledger
    <3> QED
      BY <3>2, <3>3 DEF Ledger
  <2>9. PO!Pay(b, a)
    BY <2>2, <2>3, <2>6, <2>7, <2>8 DEF PO!Pay, Ledger
  <2> QED
    BY <2>5, <2>9 DEF PayStep, PO!Next
<1> QED
  BY <1>1, <1>2, <1>3, CallKinds

LEMMA LifePayStep ==
  ASSUME Typed, PayInv, [LifeNext]_lifeVars
  PROVE  PayInv' /\ PayStep
<1>1. CASE \E c \in Calls : CallStep(c)
  BY <1>1, LifePayCall
<1>2. ASSUME UNCHANGED <<winning, credits>>,
             call' = call \/ call' = [c \in Calls |-> Idle]
      PROVE  PayInv' /\ PayStep
  <2>1. \A c \in Calls : Crediting(c)' => call'[c] = call[c]
    BY <1>2 DEF Crediting, Idle
  <2>2. PayInv'
    BY <1>2, <2>1 DEF PayInv, Crediting
  <2>3. PayStep
    BY <1>2 DEF PayStep, Ledger
  <2> QED
    BY <2>2, <2>3
<1>3. CASE AnswerStep
  BY <1>2, <1>3, AnswersLeave
<1>4. CASE \/ StartUpFix \/ LifeCrash \/ UNCHANGED lifeVars
           \/ \E b \in Bets, x \in Selections : SaveSlip(b, x) \/ Grade(b, x)
  BY <1>2, <1>4 DEF StartUpFix, LifeCrash, SaveSlip, Grade, lifeVars, life,
     paying
<1> QED
  BY <1>1, <1>3, <1>4, Steps

(* However the resulting job, the sweep, cashouts, failures and crashes    *)
(* interleave while bets are placed and answered, one of them saves the    *)
(* winning of a bet, and it alone credits it, once.                        *)
THEOREM LifePaysOnce == LifeSpec => ImplementsPayOnce
<1>1. LifeInit => PayInv /\ PO!Init
  <2> SUFFICES ASSUME LifeInit PROVE PayInv /\ PO!Init
    OBVIOUS
  <2>1. PayInv
    BY DEF LifeInit, PayInv, Crediting, Idle
  <2>2. \A b \in Bets : [i \in 1..credits[b] |-> winning[b]] = <<>>
    BY DEF LifeInit
  <2>3. [b \in Bets |-> [i \in 1..credits[b] |-> winning[b]]]
          = [b \in Bets |-> <<>>]
    BY <2>2
  <2> QED
    BY <2>1, <2>3 DEF LifeInit, PO!Init
<1>2. Typed /\ PayInv /\ [LifeNext]_lifeVars => PayInv' /\ PayStep
  BY LifePayStep
<1>3. PayStep => [PO!Next]_<<winning,
                    [b \in Bets |-> [i \in 1..credits[b] |-> winning[b]]]>>
  BY DEF PayStep, Ledger
<1>4. IInv => Typed
  BY DEF IInv
<1> QED
  BY <1>1, <1>2, <1>3, <1>4, IInvAlways, PTL DEF LifeSpec, ImplementsPayOnce,
     PO!Spec
=============================================================================
