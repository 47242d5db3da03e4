------------------------------ MODULE Closing -------------------------------
(***************************************************************************)
(* Closing bets: everything that moves a bet to a final status and pays    *)
(* its winnings.  Five kinds of asynchronous calls touch the same rows,    *)
(* with no transaction and no row lock, one statement (one await) a step:  *)
(*                                                                         *)
(*   - the bet.resulting job pays the bets listed in bet_closure;          *)
(*   - the bet.settlement job results bets and fills bet_closure;          *)
(*   - the unsettled.bet job results bets a settlement missed and closes   *)
(*     them with a call it does not await;                                 *)
(*   - cashout requests and manual updates from the back office.           *)
(*                                                                         *)
(* Which slips a bet has is left to module Settling: here the outcome of   *)
(* a bet is an arbitrary choice, so the money properties hold for any.     *)
(***************************************************************************)
EXTENDS BetConstants, Sequences

CONSTANTS
  Bets,            (* ids of the bets                                      *)
  BonusBets,       (* the bets placed with a bonus                         *)
  ResultingJobs,   (* invocations of taskProcessBetResulting               *)
  SettlementJobs,  (* invocations of taskProcessBetSettlement              *)
  UnsettledJobs,   (* invocations of taskProcessUnSettledBet               *)
  Closers,         (* closeBet calls the unsettled job does not await      *)
  Cashouts,        (* processCashout requests                              *)
  Admins,          (* updateBet requests                                   *)
  Commands,        (* the statuses the back office sends                   *)
  MaxCommands,     (* bound: manual updates in a behaviour                 *)
  MaxFaults,       (* bound: statements or calls that fail                 *)
  MaxCrashes       (* bound: crashes of the process                        *)

Jobs   == ResultingJobs \cup SettlementJobs \cup UnsettledJobs
Fibers == Jobs \cup Closers \cup Cashouts \cup Admins

Pairwise == << ResultingJobs, SettlementJobs, UnsettledJobs, Closers,
               Cashouts, Admins >>

ASSUME FibersAssumption ==
  \A i, j \in 1..6 : i # j => Pairwise[i] \cap Pairwise[j] = {}

ASSUME BoundsAssumption ==
  /\ BonusBets \subseteq Bets
  /\ Commands \subseteq {"won", "lost", "void", "cancel", "pending"}
  /\ MaxCommands \in Nat /\ MaxFaults \in Nat /\ MaxCrashes \in Nat

(***************************************************************************)
(* What a winning can amount to: the bet's winning_after_tax as placed, as *)
(* recomputed after a void, the cashout value, what the bonus service says.*)
(***************************************************************************)
Amounts == {"full", "reduced", "cash", "bonus"}
Names   == {"bet.resulting", "bet.settlement", "unsettled.bet"}

(* The statements an invocation can be about to run.                       *)
Saving      == {"cb_winning", "co_winning"}
Crediting   == {"cb_credit", "co_credit", "ad_credit"}
CloseLabels == {"cb_select", "cb_update", "cb_winning", "cb_credit"}
AmtLabels   == Saving \cup Crediting \cup {"cb_update", "ad_winning"}
BetLabels   == AmtLabels \cup {"cb_select", "delete", "closure", "voided",
                               "co_update", "ad_refund", "ad_update"}
Labels      == BetLabels \cup {"idle", "lock", "select", "next"}

VARIABLES
  bet,       (* table bet: status, won and winning_after_tax               *)
  winning,   (* table winning, unique on bet_id: amount, or "none"         *)
  closure,   (* table bet_closure: the bets waiting to be closed           *)
  running,   (* table cronjob: the job names whose status is 1             *)
  startup,   (* what is left to do of startUp, 10 s after each boot        *)
  call,      (* each invocation: the statement it is about to run (at) and *)
             (* its locals: bet, the amount it read, a manual update's cmd *)
  rows,      (* a job's result set, not yet processed                      *)
  credits,   (* wallet: the winnings credited for each bet, in order       *)
  refunds,   (* wallet: the number of stakes given back for each bet       *)
  commands, faults, crashes

rowVars  == <<bet, winning, closure, running>>
money    == <<credits, refunds>>
counters == <<commands, faults, crashes>>
vars     == <<rowVars, startup, call, rows, money, counters>>

JobName(f) == CASE f \in ResultingJobs  -> "bet.resulting"
                [] f \in SettlementJobs -> "bet.settlement"
                [] OTHER                -> "unsettled.bet"

(* An invocation with no local state.                                      *)
Start(label) == [at |-> label, bet |-> "none", amt |-> "none", cmd |-> "none"]

Init ==
  /\ bet = [b \in Bets |-> [status |-> BET_PENDING,
                            won    |-> STATUS_NOT_LOST_OR_WON,
                            payout |-> "full"]]
  /\ winning = [b \in Bets |-> "none"]
  /\ closure = {}
  /\ running = {}
  /\ startup = "reset"
  /\ call = [f \in Fibers |-> Start("idle")]
  /\ rows = [f \in Jobs |-> {}]
  /\ credits = [b \in Bets |-> <<>>]
  /\ refunds = [b \in Bets |-> 0]
  /\ commands = 0 /\ faults = 0 /\ crashes = 0

At(f, label)     == call[f].at = label
Goto(f, label)   == call' = [call EXCEPT ![f].at = label]
GotoWith(f, label, a) ==
  call' = [call EXCEPT ![f] = [@ EXCEPT !.at = label, !.amt = a]]
Return(f, label) == call' = [call EXCEPT ![f] = Start(label)]
Enter(f, label, b) ==
  call' = [call EXCEPT ![f] = [Start(label) EXCEPT !.bet = b]]

(* A bug: the two columns of the update swapped.                           *)
SetBetSwapped(b, s, w) == bet' = [bet EXCEPT ![b].status = w, ![b].won = s]

SetBet(b, s, w) == bet' = [bet EXCEPT ![b].status = s, ![b].won = w]
Credit(b, a)    == credits' = [credits EXCEPT ![b] = Append(@, a)]

(* A bug: no unique index on winning.bet_id.                               *)
HasWinningNoIndex(b) == FALSE

(* INSERT INTO winning: the unique index on bet_id refuses a second row.   *)
HasWinning(b)       == winning[b] # "none"
SaveWinning(f)      == /\ ~HasWinning(call[f].bet)
                       /\ winning' = [winning EXCEPT ![call[f].bet] = call[f].amt]
DuplicateWinning(f) == HasWinning(call[f].bet) /\ UNCHANGED winning

-----------------------------------------------------------------------------
(* The job lock: findOne, then upsert of status 1, two statements.         *)

LockIsFree(f) == JobName(f) \notin running

JobCheck(f) ==
  /\ f \in Jobs /\ At(f, "idle")
  /\ LockIsFree(f)
  /\ Return(f, "lock")
  /\ UNCHANGED <<rowVars, startup, rows, money, counters>>

JobLock(f) ==
  /\ f \in Jobs /\ At(f, "lock")
  /\ running' = running \cup {JobName(f)}
  /\ Return(f, "select")
  /\ UNCHANGED <<bet, winning, closure, startup, rows, money, counters>>

JobUnlock(f) ==
  /\ f \in Jobs /\ At(f, "next") /\ rows[f] = {}
  /\ running' = running \ {JobName(f)}
  /\ Return(f, "idle")
  /\ UNCHANGED <<bet, winning, closure, startup, rows, money, counters>>

JobStep(f) == JobCheck(f) \/ JobLock(f) \/ JobUnlock(f)

-----------------------------------------------------------------------------
(* The bet.resulting job: every listed bet is closed, then unlisted.       *)

ResultingSelect(f) ==
  /\ f \in ResultingJobs /\ At(f, "select")
  /\ rows' = [rows EXCEPT ![f] = closure]
  /\ Return(f, "next")
  /\ UNCHANGED <<rowVars, startup, money, counters>>

ResultingNext(f) ==
  /\ f \in ResultingJobs /\ At(f, "next")
  /\ \E b \in rows[f] : /\ Enter(f, "cb_select", b)
                        /\ rows' = [rows EXCEPT ![f] = @ \ {b}]
  /\ UNCHANGED <<rowVars, startup, money, counters>>

DeleteClosure(f) ==
  /\ f \in ResultingJobs /\ At(f, "delete")
  /\ closure' = closure \ {call[f].bet}
  /\ Return(f, "next")
  /\ UNCHANGED <<bet, winning, running, startup, rows, money, counters>>

ResultingStep(f) == ResultingSelect(f) \/ ResultingNext(f) \/ DeleteClosure(f)

-----------------------------------------------------------------------------
(* closeBet, once in each service.  The job's asks for won = 1; the other, *)
(* started by the unsettled job, does not ask for it and sets it.          *)

CloseBetCalls == ResultingJobs \cup Closers

EndClose(f) == IF f \in ResultingJobs
                 THEN GotoWith(f, "delete", "none")
                 ELSE Return(f, "idle")

Closable(f, b) ==
  /\ bet[b].status \in {BET_PENDING, BET_VOIDED}
  /\ f \in ResultingJobs => bet[b].won = STATUS_WON
  /\ winning[b] = "none"

CloseSelect(f) ==
  /\ f \in CloseBetCalls /\ At(f, "cb_select")
  /\ LET b == call[f].bet
     IN  \/ Closable(f, b)  /\ GotoWith(f, "cb_update", bet[b].payout)
         \/ ~Closable(f, b) /\ EndClose(f)
  /\ UNCHANGED <<rowVars, startup, rows, money, counters>>

CloseUpdate(f) ==
  /\ f \in CloseBetCalls /\ At(f, "cb_update")
  /\ LET b == call[f].bet
     IN  SetBet(b, BET_WON, IF f \in Closers THEN STATUS_WON ELSE bet[b].won)
  /\ Goto(f, "cb_winning")
  /\ UNCHANGED <<winning, closure, running, startup, rows, money, counters>>

CloseSave(f) ==
  /\ f \in CloseBetCalls /\ At(f, "cb_winning")
  /\ \/ SaveWinning(f) /\ Goto(f, "cb_credit")
     \/ DuplicateWinning(f) /\ EndClose(f)
  /\ UNCHANGED <<bet, closure, running, startup, rows, money, counters>>

(* A bug: a bonus bet is settled with the bonus service and not credited.  *)
CloseCreditForgetsBonus(f) ==
  /\ f \in CloseBetCalls /\ At(f, "cb_credit")
  /\ IF call[f].bet \in BonusBets
       THEN UNCHANGED credits
       ELSE Credit(call[f].bet, call[f].amt)
  /\ EndClose(f)
  /\ UNCHANGED <<rowVars, startup, rows, refunds, counters>>

(* A bonus bet is paid what bonusService.settleBet returns, or without an  *)
(* answer the winnings less the stake: "bonus" stands for both.            *)
CloseCredit(f) ==
  /\ f \in CloseBetCalls /\ At(f, "cb_credit")
  /\ Credit(call[f].bet,
            IF call[f].bet \in BonusBets THEN "bonus" ELSE call[f].amt)
  /\ EndClose(f)
  /\ UNCHANGED <<rowVars, startup, rows, refunds, counters>>

CloseStep(f) == \/ CloseSelect(f) \/ CloseUpdate(f)
                \/ CloseSave(f)   \/ CloseCredit(f)

-----------------------------------------------------------------------------
(* The bet.settlement job, at the level of the bet rows.  The bets of a    *)
(* settlement are selected once; each is resulted later from that copy, by *)
(* an update on the id alone.                                              *)

SettlementSelect(f) ==
  /\ f \in SettlementJobs /\ At(f, "select")
  /\ \E S \in SUBSET {b \in Bets :
                        /\ bet[b].status \in {BET_PENDING, BET_LOST}
                        /\ bet[b].won = STATUS_NOT_LOST_OR_WON} :
       rows' = [rows EXCEPT ![f] = S]
  /\ Return(f, "next")
  /\ UNCHANGED <<rowVars, startup, money, counters>>

(* resultBet of a bet without voided slips: pending, lost or won.          *)
ResultBet(f) ==
  /\ f \in SettlementJobs /\ At(f, "next")
  /\ \E b \in rows[f] :
       /\ rows' = [rows EXCEPT ![f] = @ \ {b}]
       /\ \/ UNCHANGED <<bet, call>>
          \/ SetBet(b, BET_LOST, STATUS_LOST) /\ UNCHANGED call
          \/ SetBet(b, BET_PENDING, STATUS_WON) /\ Enter(f, "closure", b)
  /\ UNCHANGED <<winning, closure, running, startup, money, counters>>

(* With a voided slip the winnings are recomputed first; such a bet is     *)
(* never resulted as won here, because its counts are NaN.                 *)
ResultVoid(f) ==
  /\ f \in SettlementJobs /\ At(f, "next")
  /\ \E b \in rows[f] :
       /\ rows' = [rows EXCEPT ![f] = @ \ {b}]
       /\ bet'  = [bet EXCEPT ![b].payout = "reduced"]
       /\ Enter(f, "voided", b)
  /\ UNCHANGED <<winning, closure, running, startup, money, counters>>

ResultVoided(f) ==
  /\ f \in SettlementJobs /\ At(f, "voided")
  /\ \/ UNCHANGED bet
     \/ \E s \in {BET_LOST, BET_VOIDED} : SetBet(call[f].bet, s, STATUS_LOST)
  /\ Return(f, "next")
  /\ UNCHANGED <<winning, closure, running, startup, rows, money, counters>>

UpsertClosure(f) ==
  /\ f \in SettlementJobs /\ At(f, "closure")
  /\ closure' = closure \cup {call[f].bet}
  /\ Return(f, "next")
  /\ UNCHANGED <<bet, winning, running, startup, rows, money, counters>>

SettlementStep(f) == \/ SettlementSelect(f) \/ ResultBet(f) \/ ResultVoid(f)
                     \/ ResultVoided(f) \/ UpsertClosure(f)

-----------------------------------------------------------------------------
(* The unsettled.bet job: the four counts of slips are an arbitrary choice *)
(* of "some slip lost" and "all slips won"; both can hold, because the     *)
(* counts are taken one after the other.                                   *)

UnsettledSelect(f) ==
  /\ f \in UnsettledJobs /\ At(f, "select")
  /\ \E S \in SUBSET {b \in Bets :
                        /\ bet[b].status = BET_PENDING
                        /\ bet[b].won = STATUS_NOT_LOST_OR_WON} :
       rows' = [rows EXCEPT ![f] = S]
  /\ Return(f, "next")
  /\ UNCHANGED <<rowVars, startup, money, counters>>

UnsettledDecide(f) ==
  /\ f \in UnsettledJobs /\ At(f, "next")
  /\ \E b \in rows[f], someLost, allWon \in BOOLEAN :
       /\ rows' = [rows EXCEPT ![f] = @ \ {b}]
       /\ \/ someLost  /\ SetBet(b, BET_LOST, STATUS_LOST)
          \/ ~someLost /\ UNCHANGED bet
       /\ \/ allWon  /\ \E g \in Closers : /\ At(g, "idle")
                                           /\ Enter(g, "cb_select", b)
          \/ ~allWon /\ UNCHANGED call
  /\ UNCHANGED <<winning, closure, running, startup, money, counters>>

UnsettledStep(f) == UnsettledSelect(f) \/ UnsettledDecide(f)

-----------------------------------------------------------------------------
(* processCashout: the status is read once; whether the slips and the      *)
(* amount let the request through is an arbitrary choice.                  *)

CashoutRead(f, b) ==
  /\ f \in Cashouts /\ At(f, "idle")
  /\ bet[b].status = BET_PENDING
  /\ Enter(f, "co_update", b)
  /\ UNCHANGED <<rowVars, startup, rows, money, counters>>

CashoutUpdate(f) ==
  /\ f \in Cashouts /\ At(f, "co_update")
  /\ bet' = [bet EXCEPT ![call[f].bet] = [status |-> BET_CASHOUT,
                                          won    |-> STATUS_WON,
                                          payout |-> "cash"]]
  /\ GotoWith(f, "co_winning", "cash")
  /\ UNCHANGED <<winning, closure, running, startup, rows, money, counters>>

(* A bug: a refused winning row does not stop the cashout's credit.        *)
CashoutSaveGoesOn(f) ==
  /\ f \in Cashouts /\ At(f, "co_winning")
  /\ SaveWinning(f) \/ DuplicateWinning(f)
  /\ Goto(f, "co_credit")
  /\ UNCHANGED <<bet, closure, running, startup, rows, money, counters>>

CashoutSave(f) ==
  /\ f \in Cashouts /\ At(f, "co_winning")
  /\ \/ SaveWinning(f) /\ Goto(f, "co_credit")
     \/ DuplicateWinning(f) /\ Return(f, "idle")
  /\ UNCHANGED <<bet, closure, running, startup, rows, money, counters>>

CashoutCredit(f) ==
  /\ f \in Cashouts /\ At(f, "co_credit")
  /\ Credit(call[f].bet, call[f].amt)
  /\ Return(f, "idle")
  /\ UNCHANGED <<rowVars, startup, rows, refunds, counters>>

CashoutStep(f) == CashoutUpdate(f) \/ CashoutSave(f) \/ CashoutCredit(f)

-----------------------------------------------------------------------------
(* updateBet on a bet: no look at its status; the bet row is written last. *)

FirstStatement(c) == CASE c = "won"                -> "ad_winning"
                       [] c \in {"void", "cancel"} -> "ad_refund"
                       [] OTHER                    -> "ad_update"

ManualRead(f, b, c) ==
  /\ f \in Admins /\ At(f, "idle")
  /\ commands < MaxCommands
  /\ commands' = commands + 1
  /\ call' = [call EXCEPT ![f] = [at |-> FirstStatement(c), bet |-> b,
                                  amt |-> bet[b].payout, cmd |-> c]]
  /\ UNCHANGED <<rowVars, startup, rows, money, faults, crashes>>

(* A second winning row throws: the request ends without the final update. *)
ManualSave(f) ==
  /\ f \in Admins /\ At(f, "ad_winning")
  /\ \/ SaveWinning(f) /\ Goto(f, "ad_credit")
     \/ DuplicateWinning(f) /\ Return(f, "idle")
  /\ UNCHANGED <<bet, closure, running, startup, rows, money, counters>>

ManualCredit(f) ==
  /\ f \in Admins /\ At(f, "ad_credit")
  /\ Credit(call[f].bet, call[f].amt)
  /\ Goto(f, "ad_update")
  /\ UNCHANGED <<rowVars, startup, rows, refunds, counters>>

(* A void or cancel also writes the slips, which nothing here reads.       *)
ManualRefund(f) ==
  /\ f \in Admins /\ At(f, "ad_refund")
  /\ refunds' = [refunds EXCEPT ![call[f].bet] = @ + 1]
  /\ Goto(f, "ad_update")
  /\ UNCHANGED <<rowVars, startup, rows, credits, counters>>

(* <<status, won>> of the bet after each command.                          *)
FinalStatus(c) ==
  CASE c = "won"    -> <<BET_WON, STATUS_WON>>
    [] c = "lost"   -> <<BET_LOST, STATUS_LOST>>
    [] c = "void"   -> <<BET_VOIDED, STATUS_NOT_LOST_OR_WON>>
    [] c = "cancel" -> <<BET_CANCELLED, STATUS_NOT_LOST_OR_WON>>
    [] OTHER        -> <<BET_PENDING, STATUS_NOT_LOST_OR_WON>>

ManualUpdate(f) ==
  /\ f \in Admins /\ At(f, "ad_update")
  /\ LET s == FinalStatus(call[f].cmd) IN SetBet(call[f].bet, s[1], s[2])
  /\ Return(f, "idle")
  /\ UNCHANGED <<winning, closure, running, startup, rows, money, counters>>

ManualStep(f) == \/ ManualSave(f) \/ ManualCredit(f)
                 \/ ManualRefund(f) \/ ManualUpdate(f)

-----------------------------------------------------------------------------
(* startUp: free every job lock, then list again the won bets nobody paid. *)

(* A bug: the locks a crash left behind are not reset.                     *)
StartUpKeepsLocks ==
  /\ startup = "reset"
  /\ startup' = "fix"
  /\ UNCHANGED <<rowVars, call, rows, money, counters>>

StartUpReset ==
  /\ startup = "reset"
  /\ running' = {}
  /\ startup' = "fix"
  /\ UNCHANGED <<bet, winning, closure, call, rows, money, counters>>

WonUnpaid(b) == /\ bet[b].won = STATUS_WON /\ bet[b].status = BET_PENDING
                /\ winning[b] = "none"

(* A bug: the won bets that were never listed are not listed.              *)
StartUpFixesNothing ==
  /\ startup = "fix"
  /\ startup' = "done"
  /\ UNCHANGED <<rowVars, call, rows, money, counters>>

StartUpFix ==
  /\ startup = "fix"
  /\ closure' = closure \cup {b \in Bets : WonUnpaid(b)}
  /\ startup' = "done"
  /\ UNCHANGED <<bet, winning, running, call, rows, money, counters>>

StartUp == StartUpReset \/ StartUpFix

(***************************************************************************)
(* Where a failing statement or call leads.  closeBet, cashout and manual  *)
(* updates catch it and end; the resulting job catches it and, past its    *)
(* lock, returns WITHOUT releasing it, except that a failed delete goes    *)
(* on with the next row.  In the two other jobs nothing catches it and the *)
(* rejected promise ends the process: that is Crash.                       *)
(***************************************************************************)
StatementFails(f) ==
  /\ f \in Fibers \ (SettlementJobs \cup UnsettledJobs)
  /\ ~At(f, "idle")
  /\ f \in ResultingJobs /\ At(f, "next") => rows[f] = {}
  /\ faults < MaxFaults
  /\ faults' = faults + 1
  /\ CASE At(f, "delete")          -> Return(f, "next")
       [] call[f].at \in CloseLabels -> EndClose(f)
       [] OTHER                    -> Return(f, "idle")
  /\ UNCHANGED <<rowVars, startup, rows, money, commands, crashes>>

(* The wallet books the credit of a manual update, the answer is lost.     *)
CreditAnswerLost(f) ==
  /\ f \in Admins /\ faults < MaxFaults
  /\ \/ At(f, "ad_credit") /\ Credit(call[f].bet, call[f].amt)
        /\ UNCHANGED refunds
     \/ At(f, "ad_refund") /\ UNCHANGED credits
        /\ refunds' = [refunds EXCEPT ![call[f].bet] = @ + 1]
  /\ faults' = faults + 1
  /\ Return(f, "idle")
  /\ UNCHANGED <<rowVars, startup, rows, commands, crashes>>

(* The process ends and is started again: only the tables survive.         *)
Crash ==
  /\ crashes < MaxCrashes
  /\ crashes' = crashes + 1
  /\ call' = [f \in Fibers |-> Start("idle")]
  /\ rows' = [f \in Jobs |-> {}]
  /\ startup' = "reset"
  /\ UNCHANGED <<rowVars, money, commands, faults>>

-----------------------------------------------------------------------------
Progress(f) == \/ JobStep(f) \/ ResultingStep(f) \/ CloseStep(f)
               \/ SettlementStep(f) \/ UnsettledStep(f) \/ CashoutStep(f)
               \/ ManualStep(f)

Request(f) == \/ \E b \in Bets : CashoutRead(f, b)
              \/ \E b \in Bets, c \in Commands : ManualRead(f, b, c)

Failure(f) == StatementFails(f) \/ CreditAnswerLost(f)

Next == \/ \E f \in Fibers : Progress(f) \/ Request(f) \/ Failure(f)
        \/ StartUp
        \/ Crash

Spec == Init /\ [][Next]_vars

(***************************************************************************)
(* The event loop keeps running every call, cron ticks recur, and startUp  *)
(* fires after each boot.  Requests, failures and crashes are never owed.  *)
(***************************************************************************)
Fairness == WF_vars(StartUp) /\ \A f \in Fibers : WF_vars(Progress(f))

FairSpec == Spec /\ Fairness

-----------------------------------------------------------------------------
TablesOK ==
  /\ bet \in [Bets -> [status : BetStatuses, won : WonStatuses,
                       payout : Amounts]]
  /\ winning \in [Bets -> Amounts \cup {"none"}]
  /\ closure \subseteq Bets
  /\ running \subseteq Names

WalletOK ==
  /\ credits \in [Bets -> Seq(Amounts)]
  /\ refunds \in [Bets -> Nat]
  /\ commands \in Nat /\ faults \in Nat /\ crashes \in Nat

JobsOK ==
  /\ rows \in [Jobs -> SUBSET Bets]
  /\ startup \in {"reset", "fix", "done"}

(* A call that works on a bet has one, and one that is to record or pay an *)
(* amount has read it.                                                     *)
CallsOK ==
  /\ call \in [Fibers -> [at  : Labels, bet : Bets \cup {"none"},
                          amt : Amounts \cup {"none"},
                          cmd : Commands \cup {"none"}]]
  /\ \A f \in Fibers :
       /\ call[f].at \in BetLabels => call[f].bet \in Bets
       /\ call[f].at \in AmtLabels => call[f].amt \in Amounts

(* The tables, the wallet, the jobs and the calls hold what they may.      *)
TypeOK == TablesOK /\ WalletOK /\ JobsOK /\ CallsOK

(* However jobs, cashouts, manual updates, failures and restarts mix, the  *)
(* winnings of a bet are credited at most once, and with the amount its    *)
(* winning row records (for a bonus bet, or what the bonus service said).  *)
PaidOnceAsRecorded ==
  \A b \in Bets :
    \/ credits[b] = <<>>
    \/ /\ winning[b] # "none"
       /\ \/ credits[b] = <<winning[b]>>
          \/ b \in BonusBets /\ credits[b] = <<"bonus">>

(* Without a failure or a crash no winning is lost: a bet marked as won or *)
(* cashed out has its winning row or the call that is about to save it,    *)
(* and a winning row is credited or has the call about to credit it.       *)
OnlyInterruptionsLoseMoney ==
  faults = 0 /\ crashes = 0 =>
    \A b \in Bets :
      /\ bet[b].status \in {BET_WON, BET_CASHOUT} /\ winning[b] = "none" =>
           \E f \in Fibers : call[f].bet = b /\ call[f].at \in Saving
      /\ winning[b] # "none" /\ credits[b] = <<>> =>
           \E f \in Fibers : call[f].bet = b /\ call[f].at \in Crediting

(* The closing of bets implements PayOnce.                                 *)
PO == INSTANCE PayOnce WITH recorded <- winning, ledger <- credits
ImplementsPayOnce == PO!Spec

(* A job lock that is held is held for an invocation that runs, but from a *)
(* crash to startUp's reset, and but for the lock of the resulting job     *)
(* after a failure: that job returns with its lock held when its select    *)
(* fails, and only the next start frees it.                                *)
LocksHaveHolders ==
  \A n \in running :
    \/ startup = "reset"
    \/ n = "bet.resulting" /\ faults > 0
    \/ \E f \in Jobs : JobName(f) = n /\ call[f].at \notin {"idle", "lock"}

(* A bet that was resulted as won and not yet paid is listed for the       *)
(* resulting job or about to be, from startUp on, even when the process    *)
(* stopped between resulting it and listing it: what the resulting job     *)
(* unlists it has closed, or need not.  Three things break this, and are   *)
(* excepted: a failing statement (what could not be closed is unlisted),   *)
(* a bet put back to pending by hand, and two invocations of the           *)
(* settlement job over the same bet.  With the two last ones a bet is      *)
(* resulted a second time, and listed, just when the resulting job,        *)
(* through with the first time, unlists it.                                *)
WonBetsAreListed ==
  /\ \A j, k \in SettlementJobs : j = k
  /\ "pending" \notin Commands /\ faults = 0 /\ startup = "done"
  => \A b \in Bets : WonUnpaid(b) =>
       \/ b \in closure
       \/ \E j \in SettlementJobs : call[j].at = "closure" /\ call[j].bet = b

(* A bet resulted as won and not yet paid is eventually picked up, even    *)
(* when the process stops between resulting it and listing it: startUp     *)
(* lists it again.  It takes what WonBetsAreListed excepts to be absent.   *)
WonBetsArePickedUp == \A b \in Bets : WonUnpaid(b) ~> ~WonUnpaid(b)

(* A job lock is never held for good: a crashed holder's is reset.  The    *)
(* exception of LocksHaveHolders applies.                                  *)
LocksAreReleased == \A n \in Names : n \in running ~> n \notin running
=============================================================================
