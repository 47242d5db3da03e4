------------------------------ MODULE Lifecycle ------------------------------
(***************************************************************************)
(* Acceptance composed with the jobs and requests that finish a bet, which *)
(* start before the MTS has answered and before placeBet has ended: slips  *)
(* are saved and resulted one at a time, the bet.settlement job asks for   *)
(* an accepted bet, and unsettled.bet and a cashout ask for no answer.     *)
(*                                                                         *)
(* A slip has one result and no void factor here (Settling has the rest),  *)
(* and each has a settlement of its own.  Both sides write the tables of   *)
(* bets and slips: their status columns are bet and slips of Acceptance,   *)
(* and a rejection resets their columns won too.                           *)
(***************************************************************************)
EXTENDS Acceptance, FiniteSets

CONSTANTS
  Selections,  (* the selections of each bet                               *)
  Settlers,    (* invocations of createBetSettlement, with one bet         *)
  Sweepers,    (* rows of taskProcessUnSettledBet, and their closeBet      *)
  Resulters,   (* rows of taskProcessBetResulting                          *)
  Cashouts     (* processCashout requests                                  *)

Pairwise == << Settlers, Sweepers, Resulters, Cashouts >>
Calls    == Settlers \cup Sweepers \cup Resulters \cup Cashouts

ASSUME CallsAssumption ==
  /\ IsFiniteSet(Selections) /\ Selections # {}
  /\ \A i, j \in 1..4 : i # j => Pairwise[i] \cap Pairwise[j] = {}

VARIABLES
  row,        (* table bet_slip: the result each slip was given, "none" if *)
              (* the slip is not saved; where slips[b] is cancelled, the   *)
              (* rejection has set column won back to -1 (see Stands)      *)
  won,        (* table bet, column won                                     *)
  processed,  (* the slips whose settlement has processed = 1              *)
  closure,    (* table bet_closure                                         *)
  winning,    (* table winning: who saved the row, or "none"               *)
  credits,    (* wallet: how often the winnings were credited              *)
  call,       (* each invocation: where it is, its bet and slip, and what  *)
              (* it has read: a result or the numbers of slips             *)
  startup,    (* whether startUp has still to list the won bets            *)
  ruled,      (* for checking: the kinds of answers the MTS gave of a bet  *)
  early       (* for checking: the bets that a sweep or cashout took up    *)
              (* while no acceptance was noted of them                     *)

results == <<row, processed>>
paying  == <<won, closure, winning, credits>>
life    == <<results, paying, call, startup, early>>
lifeVars == <<vars, life, ruled>>

Idle == [at |-> "idle", bet |-> "none", sel |-> "none", read |-> "none",
         total |-> 0, won |-> 0]

LifeInit ==
  /\ Init
  /\ row = [b \in Bets |-> [x \in Selections |-> "none"]]
  /\ won = [b \in Bets |-> STATUS_NOT_LOST_OR_WON]
  /\ processed = {} /\ closure = {}
  /\ winning = [b \in Bets |-> "none"]
  /\ credits = [b \in Bets |-> 0]
  /\ call = [c \in Calls |-> Idle]
  /\ startup = TRUE
  /\ ruled = [b \in Bets |-> {}]
  /\ early = {}

Is(c, label)   == call[c].at = label
Go(c, label)   == call' = [call EXCEPT ![c].at = label]
Enter(c, label, b) ==
  call' = [call EXCEPT ![c] = [Idle EXCEPT !.at = label, !.bet = b]]
End(c)         == call' = [call EXCEPT ![c] = Idle]

Saved(b)      == {x \in Selections : row[b][x] # "none"}

(* Column won of a slip: its result, until a rejection resets it.          *)
Stands(b, x, r) == slips[b] = BET_PENDING /\ row[b][x] = r

WonOf(b)      == {x \in Selections : Stands(b, x, "won")}
LostOf(b)     == {x \in Selections : Stands(b, x, "lost")}
AllWon(b)     == \A x \in Selections : Stands(b, x, "won")
Unresulted(b) == won[b] = STATUS_NOT_LOST_OR_WON

SetBet(b, s, w) == bet' = [bet EXCEPT ![b] = s] /\ won' = [won EXCEPT ![b] = w]

-----------------------------------------------------------------------------
(* placeBet saves the slips one after the other.                           *)
SaveSlip(b, x) ==
  /\ request[b] = "slips" /\ row[b][x] = "none"
  /\ row' = [row EXCEPT ![b][x] = "pending"]
  /\ UNCHANGED <<vars, processed, paying, call, startup, early, ruled>>

(* A bug: the slips are not awaited.                                       *)
SomeSaved(b) == Saved(b) # {}

SlipsAreSaved(b) == Saved(b) = Selections

(* The steps of Acceptance that leave column won of the bet alone; past    *)
(* the slips all of them are saved.                                        *)
Answering ==
  /\ \/ \E b \in Bets : \/ Refuse(b) \/ SaveBet(b) \/ Debit(b) \/ Publish(b)
                        \/ SlipsAreSaved(b) /\ SaveSlips(b)
                        \/ PlacementFails(b)
     \/ \E m \in Answers : \/ Accept(m) \/ RejectFind(m) \/ RejectSave(m)
                           \/ RejectSlips(m) \/ RejectCredit(m)
                           \/ HandlerFails(m)
  /\ UNCHANGED <<life, ruled>>

(* A rejection cancels the bet, and what it had noted of its result goes.  *)
CancelBet(m) ==
  /\ RejectBet(m)
  /\ won' = [won EXCEPT ![answer[m].bet] = STATUS_NOT_LOST_OR_WON]
  /\ UNCHANGED <<results, closure, winning, credits, call, startup, early,
                 ruled>>

MtsRules(m) ==
  /\ MtsAnswers(m)
  /\ ruled' = [ruled EXCEPT ![answer'[m].bet] = @ \cup {answer'[m].at}]
  /\ UNCHANGED life

(* The settlement consumer: a slip that is still pending takes a result.   *)
Grade(b, x) ==
  /\ row[b][x] = "pending" /\ slips[b] = BET_PENDING
  /\ \E r \in {"won", "lost"} : row' = [row EXCEPT ![b][x] = r]
  /\ UNCHANGED <<vars, processed, paying, call, startup, early, ruled>>

Graded(b, x) == row[b][x] \in {"won", "lost"}

-----------------------------------------------------------------------------
(* The bet.settlement job, with one bet of a settlement.                   *)

(* A bug: the select does not join bet_status.                             *)
SettleableAnyway(b) == bet[b] \in {BET_PENDING, BET_LOST} /\ Unresulted(b)

Settleable(b) == /\ betStatus[b] = 1
                 /\ bet[b] \in {BET_PENDING, BET_LOST} /\ Unresulted(b)

SettleSelect(c, b, x) ==
  /\ c \in Settlers /\ Is(c, "idle")
  /\ Graded(b, x) /\ <<b, x>> \notin processed
  /\ call' = [call EXCEPT ![c] =
                [Idle EXCEPT !.at = IF Settleable(b) THEN "slips" ELSE "mark",
                             !.bet = b, !.sel = x]]
  /\ UNCHANGED <<vars, results, paying, startup, early, ruled>>

(* A bug: a bet is won when no slip of it has lost.                        *)
ResultIfNoneLost(b) == IF LostOf(b) # {} THEN "lost" ELSE "won"

Result(b) == IF AllWon(b) THEN "won"
             ELSE IF LostOf(b) # {} THEN "lost" ELSE "pending"

SettleSlips(c) ==
  /\ c \in Settlers /\ Is(c, "slips")
  /\ call' = [call EXCEPT ![c] = [@ EXCEPT !.at = "result",
                                           !.read = Result(call[c].bet)]]
  /\ UNCHANGED <<vars, results, paying, startup, early, ruled>>

(* The update is on the id alone.                                          *)
SettleResult(c) ==
  /\ c \in Settlers /\ Is(c, "result")
  /\ LET b == call[c].bet
     IN  \/ call[c].read = "won" /\ SetBet(b, BET_PENDING, STATUS_WON)
                                 /\ Go(c, "closure")
         \/ call[c].read = "lost" /\ SetBet(b, BET_LOST, STATUS_LOST)
                                  /\ Go(c, "mark")
         \/ call[c].read = "pending" /\ Go(c, "mark") /\ UNCHANGED <<bet, won>>
  /\ UNCHANGED <<request, slips, betStatus, sent, answer, wallet, counters>>
  /\ UNCHANGED <<results, closure, winning, credits, startup, early, ruled>>

SettleClosure(c) ==
  /\ c \in Settlers /\ Is(c, "closure")
  /\ closure' = closure \cup {call[c].bet}
  /\ Go(c, "mark")
  /\ UNCHANGED <<vars, results, won, winning, credits, startup, early, ruled>>

SettleMark(c) ==
  /\ c \in Settlers /\ Is(c, "mark")
  /\ processed' = processed \cup {<<call[c].bet, call[c].sel>>}
  /\ End(c)
  /\ UNCHANGED <<vars, row, paying, startup, early, ruled>>

Settle(c) == \/ \E b \in Bets, x \in Selections : SettleSelect(c, b, x)
             \/ SettleSlips(c) \/ SettleResult(c) \/ SettleClosure(c)
             \/ SettleMark(c)

-----------------------------------------------------------------------------
(* The unsettled.bet job with one of its bets.  It asks for no acceptance  *)
(* and counts the slips there are; the lost ones are counted last.         *)

Early(b) == early' = IF betStatus[b] = 1 THEN early ELSE early \cup {b}

SweepSelect(c, b) ==
  /\ c \in Sweepers /\ Is(c, "idle")
  /\ \E x \in Saved(b) : slips[b] # BET_PENDING \/ row[b][x] # "pending"
  /\ bet[b] = BET_PENDING /\ Unresulted(b)
  /\ Enter(c, "total", b) /\ Early(b)
  /\ UNCHANGED <<vars, results, paying, startup, ruled>>

SweepTotal(c) ==
  /\ c \in Sweepers /\ Is(c, "total")
  /\ call' = [call EXCEPT ![c] = [@ EXCEPT !.at = "won",
                                    !.total = Cardinality(Saved(call[c].bet))]]
  /\ UNCHANGED <<vars, results, paying, startup, early, ruled>>

SweepWon(c) ==
  /\ c \in Sweepers /\ Is(c, "won")
  /\ call' = [call EXCEPT ![c] = [@ EXCEPT !.at = "lost",
                                    !.won = Cardinality(WonOf(call[c].bet))]]
  /\ UNCHANGED <<vars, results, paying, startup, early, ruled>>

SweepLost(c) ==
  /\ c \in Sweepers /\ Is(c, "lost")
  /\ Go(c, IF LostOf(call[c].bet) # {} THEN "update" ELSE "decide")
  /\ UNCHANGED <<vars, results, paying, startup, early, ruled>>

SweepUpdate(c) ==
  /\ c \in Sweepers /\ Is(c, "update")
  /\ SetBet(call[c].bet, BET_LOST, STATUS_LOST)
  /\ Go(c, "decide")
  /\ UNCHANGED <<request, slips, betStatus, sent, answer, wallet, counters>>
  /\ UNCHANGED <<results, closure, winning, credits, startup, early, ruled>>

WonTotal(total, n) == n = total

SweepDecide(c) ==
  /\ c \in Sweepers /\ Is(c, "decide")
  /\ IF WonTotal(call[c].total, call[c].won)
       THEN Enter(c, "cb_select", call[c].bet)
       ELSE End(c)
  /\ UNCHANGED <<vars, results, paying, startup, early, ruled>>

Sweep(c) == \/ \E b \in Bets : SweepSelect(c, b)
            \/ SweepTotal(c) \/ SweepWon(c) \/ SweepLost(c) \/ SweepUpdate(c)
            \/ SweepDecide(c)

-----------------------------------------------------------------------------
(* closeBet, for a row of bet_closure and for the sweep.                   *)

ResultingNext(c, b) ==
  /\ c \in Resulters /\ Is(c, "idle") /\ b \in closure
  /\ Enter(c, "cb_select", b)
  /\ UNCHANGED <<vars, results, paying, startup, early, ruled>>

EndClose(c) == IF c \in Resulters THEN Go(c, "delete") ELSE End(c)

Closable(c, b) == /\ bet[b] \in {BET_PENDING, BET_VOIDED}
                  /\ c \in Resulters => won[b] = STATUS_WON
                  /\ winning[b] = "none"

CloseSelect(c) ==
  /\ c \in Resulters \cup Sweepers /\ Is(c, "cb_select")
  /\ IF Closable(c, call[c].bet) THEN Go(c, "cb_update") ELSE EndClose(c)
  /\ UNCHANGED <<vars, results, paying, startup, early, ruled>>

CloseUpdate(c) ==
  /\ c \in Resulters \cup Sweepers /\ Is(c, "cb_update")
  /\ LET b == call[c].bet
     IN  SetBet(b, BET_WON, IF c \in Sweepers THEN STATUS_WON ELSE won[b])
  /\ Go(c, "cb_winning")
  /\ UNCHANGED <<request, slips, betStatus, sent, answer, wallet, counters>>
  /\ UNCHANGED <<results, closure, winning, credits, startup, early, ruled>>

(* The unique index refuses a second row.                                  *)
CloseSave(c) ==
  /\ c \in Resulters \cup Sweepers /\ Is(c, "cb_winning")
  /\ LET b == call[c].bet
     IN  \/ /\ winning[b] = "none"
            /\ winning' = [winning EXCEPT ![b] =
                             IF c \in Resulters THEN "resulting" ELSE "sweep"]
            /\ Go(c, "cb_credit")
         \/ winning[b] # "none" /\ EndClose(c) /\ UNCHANGED winning
  /\ UNCHANGED <<vars, results, won, closure, credits, startup, early, ruled>>

CloseCredit(c) ==
  /\ c \in Resulters \cup Sweepers /\ Is(c, "cb_credit")
  /\ credits' = [credits EXCEPT ![call[c].bet] = @ + 1]
  /\ EndClose(c)
  /\ UNCHANGED <<vars, results, won, closure, winning, startup, early, ruled>>

CloseDelete(c) ==
  /\ c \in Resulters /\ Is(c, "delete")
  /\ closure' = closure \ {call[c].bet}
  /\ End(c)
  /\ UNCHANGED <<vars, results, won, winning, credits, startup, early, ruled>>

Close(c) == \/ \E b \in Bets : ResultingNext(c, b)
            \/ CloseSelect(c) \/ CloseUpdate(c) \/ CloseSave(c)
            \/ CloseCredit(c) \/ CloseDelete(c)

-----------------------------------------------------------------------------
(* processCashout: only the status of the bet is asked for.  Its three     *)
(* reads, of the bet, of the slips and of the number of lost ones, are one *)
(* step here; History takes them apart.  Only bets with slips are listed.  *)
CashoutRead(c, b) ==
  /\ c \in Cashouts /\ Is(c, "idle")
  /\ bet[b] = BET_PENDING
  /\ Saved(b) # {} /\ LostOf(b) = {}
  /\ Enter(c, "co_update", b) /\ Early(b)
  /\ UNCHANGED <<vars, results, paying, startup, ruled>>

CashoutUpdate(c) ==
  /\ c \in Cashouts /\ Is(c, "co_update")
  /\ SetBet(call[c].bet, BET_CASHOUT, STATUS_WON)
  /\ Go(c, "co_winning")
  /\ UNCHANGED <<request, slips, betStatus, sent, answer, wallet, counters>>
  /\ UNCHANGED <<results, closure, winning, credits, startup, early, ruled>>

(* A bug: an upsert, where the row must be new.                            *)
CashoutUpsert(c) ==
  /\ c \in Cashouts /\ Is(c, "co_winning")
  /\ winning' = [winning EXCEPT ![call[c].bet] = "cashout"]
  /\ Go(c, "co_credit")
  /\ UNCHANGED <<vars, results, won, closure, credits, startup, early, ruled>>

CashoutSave(c) ==
  /\ c \in Cashouts /\ Is(c, "co_winning")
  /\ LET b == call[c].bet
     IN  \/ /\ winning[b] = "none"
            /\ winning' = [winning EXCEPT ![b] = "cashout"]
            /\ Go(c, "co_credit")
         \/ winning[b] # "none" /\ End(c) /\ UNCHANGED winning
  /\ UNCHANGED <<vars, results, won, closure, credits, startup, early, ruled>>

CashoutCredit(c) ==
  /\ c \in Cashouts /\ Is(c, "co_credit")
  /\ credits' = [credits EXCEPT ![call[c].bet] = @ + 1]
  /\ End(c)
  /\ UNCHANGED <<vars, results, won, closure, winning, startup, early, ruled>>

Cashout(c) == \/ \E b \in Bets : CashoutRead(c, b)
              \/ CashoutUpdate(c) \/ CashoutSave(c) \/ CashoutCredit(c)

-----------------------------------------------------------------------------
(* startUp lists the won bets that nobody paid.                            *)
StartUpFix ==
  /\ startup /\ startup' = FALSE
  /\ closure' = closure \cup {b \in Bets : /\ won[b] = STATUS_WON
                                           /\ bet[b] = BET_PENDING
                                           /\ winning[b] = "none"}
  /\ UNCHANGED <<vars, results, won, winning, credits, call, early, ruled>>

(* closeBet and processCashout catch what fails and end; in the two other  *)
(* jobs it ends the process.                                               *)
CallFails(c) ==
  /\ call[c].at \in {"cb_select", "cb_update", "cb_winning", "cb_credit",
                     "co_update", "co_winning", "co_credit"}
  /\ faults < MaxFaults /\ faults' = faults + 1
  /\ EndClose(c)
  /\ UNCHANGED <<request, tables, sent, answer, wallet, crashes>>
  /\ UNCHANGED <<results, paying, startup, early, ruled>>

LifeCrash ==
  /\ Crash
  /\ call' = [c \in Calls |-> Idle] /\ startup' = TRUE
  /\ UNCHANGED <<results, paying, early, ruled>>

LifeNext ==
  \/ Answering \/ StartUpFix \/ LifeCrash
  \/ \E m \in Answers : MtsRules(m) \/ CancelBet(m)
  \/ \E b \in Bets, x \in Selections : SaveSlip(b, x) \/ Grade(b, x)
  \/ \E c \in Calls : \/ Settle(c) \/ Sweep(c) \/ Close(c) \/ Cashout(c)
                      \/ CallFails(c)

LifeSpec == LifeInit /\ [][LifeNext]_lifeVars

-----------------------------------------------------------------------------
CallLabels == {"idle", "slips", "result", "closure", "mark", "total", "won",
               "lost", "update", "decide", "cb_select", "cb_update",
               "cb_winning", "cb_credit", "delete", "co_update", "co_winning",
               "co_credit"}

Settling == {"slips", "result", "closure", "mark"}

(* The tables and calls hold what they may; a call at work has a bet and,  *)
(* in the settlement job, a slip; a bet past its slips has all of them.    *)
LifeTypeOK ==
  /\ bet \in [Bets -> BetStatuses] /\ won \in [Bets -> WonStatuses]
  /\ row \in [Bets -> [Selections -> {"none", "pending", "won", "lost"}]]
  /\ processed \subseteq Bets \X Selections /\ closure \subseteq Bets
  /\ winning \in [Bets -> {"none", "resulting", "sweep", "cashout"}]
  /\ credits \in [Bets -> Nat]
  /\ call \in [Calls -> [at : CallLabels, bet : Bets \cup {"none"},
                         sel : Selections \cup {"none"},
                         read : {"none", "won", "lost", "pending"},
                         total : Nat, won : Nat]]
  /\ \A c \in Calls : /\ call[c].at # "idle" => call[c].bet \in Bets
                      /\ call[c].at \in Settling => call[c].sel \in Selections
  /\ startup \in BOOLEAN /\ early \subseteq Bets
  /\ ruled \in [Bets -> SUBSET {"accept", "find"}]
  /\ \A b \in Bets : request[b] \in {"debit", "publish", "placed"} =>
                       Saved(b) = Selections

(* A bet whose stake a rejection gave back is out: it is cancelled, and    *)
(* nothing is paid for it, whatever the jobs did meanwhile.  Two cases are *)
(* excepted: the MTS both accepted and rejected it, or the sweep or a      *)
(* cashout took the bet up without an acceptance, before the MTS answered  *)
(* or while the rejection was on its way to the bet's row.                 *)
RefundedBetsStayOut ==
  \A b \in Bets :
    refunds[b] > 0 /\ b \notin early /\ "accept" \notin ruled[b] =>
      bet[b] = BET_CANCELLED /\ winning[b] = "none" /\ credits[b] = 0

(* What the resulting job pays, and the sweep unless it took the bet up    *)
(* without an acceptance, are bets that were sent to the MTS and accepted, *)
(* so that no booking is paid and none whose placement failed, and whose   *)
(* slips were all resulted as won, those included that were not saved when *)
(* the job first saw the bet.  The slips still say so, unless the MTS also *)
(* rejected the bet: that resets them, the winning of it being saved.      *)
PaidBetsWereAccepted ==
  \A b \in Bets :
    winning[b] = "resulting" \/ (winning[b] = "sweep" /\ b \notin early) =>
      /\ b \in sent /\ "accept" \in ruled[b]
      /\ \A x \in Selections : row[b][x] = "won"
      /\ AllWon(b) \/ "find" \in ruled[b]
-----------------------------------------------------------------------------
(* The resulting job, the sweep and cashouts, which run at once and share  *)
(* only the tables, implement PayOnce: one of them saves the winning of a  *)
(* bet, and it alone then credits it, at most once.                        *)
PO == INSTANCE PayOnce WITH
        BonusBets <- {},
        Amounts   <- {"resulting", "sweep", "cashout"},
        recorded  <- winning,
        ledger    <- [b \in Bets |-> [i \in 1..credits[b] |-> winning[b]]]
ImplementsPayOnce == PO!Spec
=============================================================================
