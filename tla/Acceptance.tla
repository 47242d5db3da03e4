----------------------------- MODULE Acceptance -----------------------------
(***************************************************************************)
(* Placing a bet and having it accepted.  placeBet saves the bet and its   *)
(* slips, takes the stake from the wallet and sends the bet to the MTS     *)
(* (the trading service, outside this program), whose answers come back as *)
(* messages: an acceptance is noted in bet_status, a rejection cancels the *)
(* bet and gives the stake back.  A step is one statement or call.         *)
(***************************************************************************)
EXTENDS BetConstants

CONSTANTS
  Bets,       (* the bets users ask for                                    *)
  Booked,     (* those that are bookings: saved, neither staked nor sent   *)
  Answers,    (* messages the MTS sends                                    *)
  MaxFaults,  (* bound: statements or calls that fail                      *)
  MaxCrashes  (* bound: crashes of the process                             *)

ASSUME InstanceAssumption ==
  Booked \subseteq Bets /\ MaxFaults \in Nat /\ MaxCrashes \in Nat

(* The statements of placeBet and of a rejection's handler.                *)
PlaceLabels  == {"new", "refused", "slips", "debit", "publish", "placed",
                 "failed"}
RejectLabels == {"find", "save", "slips", "bet", "credit"}

VARIABLES
  request,    (* each placeBet: the statement it is about to run           *)
  bet,        (* table bet: the status                                     *)
  slips,      (* table bet_slip: the status of the bet's slips             *)
  betStatus,  (* table bet_status, unique on bet_id: 0 if there is no row  *)
  sent,       (* queue mts.bet_pending: the bets ever published            *)
  answer,     (* each message of the MTS: where its handler is, its bet    *)
  debits,     (* wallet: how often the stake was taken                     *)
  refunds,    (* wallet: how often it was given back                       *)
  faults, crashes

tables   == <<bet, slips, betStatus>>
wallet   == <<debits, refunds>>
counters == <<faults, crashes>>
vars     == <<request, tables, sent, answer, wallet, counters>>

Init ==
  /\ request = [b \in Bets |-> "new"]
  /\ bet   = [b \in Bets |-> BET_PENDING]
  /\ slips = [b \in Bets |-> BET_PENDING]
  /\ betStatus = [b \in Bets |-> 0]
  /\ sent = {}
  /\ answer = [m \in Answers |-> [at |-> "unsent", bet |-> "none"]]
  /\ debits  = [b \in Bets |-> 0]
  /\ refunds = [b \in Bets |-> 0]
  /\ faults = 0 /\ crashes = 0

-----------------------------------------------------------------------------
(* placeBet.                                                               *)

RequestGoto(b, label) == request' = [request EXCEPT ![b] = label]

(* An incomplete request, a selection without odds, a limit, a balance or  *)
(* a bonus that does not allow it: nothing has been saved yet.             *)
Refuse(b) ==
  /\ request[b] = "new"
  /\ RequestGoto(b, "refused")
  /\ UNCHANGED <<tables, sent, answer, wallet, counters>>

SaveBet(b) ==
  /\ request[b] = "new"
  /\ RequestGoto(b, "slips")
  /\ UNCHANGED <<tables, sent, answer, wallet, counters>>

(* A bug: a booking is debited like a bet.                                 *)
SaveSlipsOfBooking(b) ==
  /\ request[b] = "slips"
  /\ RequestGoto(b, "debit")
  /\ UNCHANGED <<tables, sent, answer, wallet, counters>>

SaveSlips(b) ==
  /\ request[b] = "slips"
  /\ RequestGoto(b, IF b \in Booked THEN "placed" ELSE "debit")
  /\ UNCHANGED <<tables, sent, answer, wallet, counters>>

(* The wallet takes the stake or answers that it did not; nobody looks.    *)
Debit(b) ==
  /\ request[b] = "debit"
  /\ \/ debits' = [debits EXCEPT ![b] = @ + 1]
     \/ UNCHANGED debits
  /\ RequestGoto(b, "publish")
  /\ UNCHANGED <<tables, sent, answer, refunds, counters>>

Publish(b) ==
  /\ request[b] = "publish"
  /\ sent' = sent \cup {b}
  /\ RequestGoto(b, "placed")
  /\ UNCHANGED <<tables, answer, wallet, counters>>

Place(b) == Refuse(b) \/ SaveBet(b) \/ SaveSlips(b) \/ Debit(b) \/ Publish(b)

-----------------------------------------------------------------------------
(* The answers.  A handler that throws has its message delivered again.    *)

At(m, label)   == answer[m].at = label
Goto(m, label) == answer' = [answer EXCEPT ![m].at = label]
HasStatus(b)   == betStatus[b] # 0

(* The MTS answers bets it was sent, when and as often as it likes.        *)
MtsAnswers(m) ==
  /\ At(m, "unsent")
  /\ \E b \in sent, first \in {"accept", "find"} :
       answer' = [answer EXCEPT ![m] = [at |-> first, bet |-> b]]
  /\ UNCHANGED <<request, tables, sent, wallet, counters>>

(* An upsert: the acceptance overwrites a rejection.                       *)
Accept(m) ==
  /\ At(m, "accept")
  /\ betStatus' = [betStatus EXCEPT ![answer[m].bet] = 1]
  /\ Goto(m, "acked")
  /\ UNCHANGED <<request, bet, slips, sent, wallet, counters>>

RejectFind(m) ==
  /\ At(m, "find")
  /\ Goto(m, IF HasStatus(answer[m].bet) THEN "acked" ELSE "save")
  /\ UNCHANGED <<request, tables, sent, wallet, counters>>

(* A bug: an upsert, as for acceptances, where the row must be new.        *)
RejectUpsert(m) ==
  /\ At(m, "save")
  /\ betStatus' = [betStatus EXCEPT ![answer[m].bet] = BET_CANCELLED]
  /\ Goto(m, "slips")
  /\ UNCHANGED <<request, bet, slips, sent, wallet, counters>>

(* The unique index refuses a second row, and the handler throws.          *)
RejectSave(m) ==
  /\ At(m, "save")
  /\ \/ /\ ~HasStatus(answer[m].bet)
        /\ betStatus' = [betStatus EXCEPT ![answer[m].bet] = BET_CANCELLED]
        /\ Goto(m, "slips")
     \/ /\ HasStatus(answer[m].bet)
        /\ Goto(m, "find")
        /\ UNCHANGED betStatus
  /\ UNCHANGED <<request, bet, slips, sent, wallet, counters>>

RejectSlips(m) ==
  /\ At(m, "slips")
  /\ slips' = [slips EXCEPT ![answer[m].bet] = BET_CANCELLED]
  /\ Goto(m, "bet")
  /\ UNCHANGED <<request, bet, betStatus, sent, wallet, counters>>

(* A bug: the bet is cancelled and the stake not given back.               *)
RejectBetOnly(m) ==
  /\ At(m, "bet")
  /\ bet' = [bet EXCEPT ![answer[m].bet] = BET_CANCELLED]
  /\ Goto(m, "acked")
  /\ UNCHANGED <<request, slips, betStatus, sent, wallet, counters>>

RejectBet(m) ==
  /\ At(m, "bet")
  /\ bet' = [bet EXCEPT ![answer[m].bet] = BET_CANCELLED]
  /\ Goto(m, "credit")
  /\ UNCHANGED <<request, slips, betStatus, sent, wallet, counters>>

RejectCredit(m) ==
  /\ At(m, "credit")
  /\ refunds' = [refunds EXCEPT ![answer[m].bet] = @ + 1]
  /\ Goto(m, "acked")
  /\ UNCHANGED <<request, tables, sent, debits, counters>>

Reject(m) == \/ RejectFind(m)  \/ RejectSave(m) \/ RejectSlips(m)
             \/ RejectBet(m)   \/ RejectCredit(m)

-----------------------------------------------------------------------------
(* What can go wrong.                                                      *)

(* A bug: a placement that failed is tried again from the debit on.        *)
PlacementRetries(b) ==
  /\ request[b] \in {"debit", "publish"}
  /\ faults < MaxFaults /\ faults' = faults + 1
  /\ \/ UNCHANGED debits
     \/ /\ request[b] = "debit"
        /\ debits' = [debits EXCEPT ![b] = @ + 1]
  /\ RequestGoto(b, "debit")
  /\ UNCHANGED <<tables, sent, answer, refunds, crashes>>

(* The catch of placeBet, and a publish that throws: nothing is undone.    *)
PlacementFails(b) ==
  /\ request[b] \in {"new", "slips", "debit", "publish"}
  /\ faults < MaxFaults /\ faults' = faults + 1
  /\ \/ UNCHANGED debits
     \/ /\ request[b] = "debit"   (* the stake is taken, the answer lost   *)
        /\ debits' = [debits EXCEPT ![b] = @ + 1]
  /\ RequestGoto(b, "failed")
  /\ UNCHANGED <<tables, sent, answer, refunds, crashes>>

HandlerFails(m) ==
  /\ answer[m].at \in RejectLabels
  /\ faults < MaxFaults /\ faults' = faults + 1
  /\ \/ UNCHANGED refunds
     \/ /\ At(m, "credit")        (* the stake is given back, the same     *)
        /\ refunds' = [refunds EXCEPT ![answer[m].bet] = @ + 1]
  /\ Goto(m, "find")
  /\ UNCHANGED <<request, tables, sent, debits, crashes>>

(* Requests in progress are lost; unacknowledged messages come again.      *)
Crash ==
  /\ crashes < MaxCrashes /\ crashes' = crashes + 1
  /\ request' = [b \in Bets |-> IF request[b] \in {"new", "placed", "refused"}
                                THEN request[b] ELSE "failed"]
  /\ answer' = [m \in Answers |-> IF answer[m].at \in RejectLabels
                                  THEN [answer[m] EXCEPT !.at = "find"]
                                  ELSE answer[m]]
  /\ UNCHANGED <<tables, sent, wallet, faults>>

Next == \/ \E b \in Bets : Place(b) \/ PlacementFails(b)
        \/ \E m \in Answers : \/ MtsAnswers(m) \/ Accept(m) \/ Reject(m)
                              \/ HandlerFails(m)
        \/ Crash

Spec == Init /\ [][Next]_vars

-----------------------------------------------------------------------------
(* The tables, the wallet and the handlers hold what they may; a booking   *)
(* is neither debited nor sent.                                            *)
TypeOK ==
  /\ request \in [Bets -> PlaceLabels]
  /\ \A b \in Booked : request[b] \notin {"debit", "publish"}
  /\ bet \in [Bets -> {BET_PENDING, BET_CANCELLED}]
  /\ slips \in [Bets -> {BET_PENDING, BET_CANCELLED}]
  /\ betStatus \in [Bets -> {0, 1, BET_CANCELLED}]
  /\ sent \subseteq Bets \ Booked
  /\ answer \in [Answers -> [at  : RejectLabels \cup
                                     {"unsent", "accept", "acked"},
                             bet : Bets \cup {"none"}]]
  /\ \A m \in Answers : ~At(m, "unsent") => answer[m].bet \in sent
  /\ debits \in [Bets -> Nat] /\ refunds \in [Bets -> Nat]
  /\ faults \in Nat /\ crashes \in Nat

(* However rejections are repeated, handled at once, interrupted and       *)
(* delivered again, a stake is given back at most once, and only when the  *)
(* bet and its slips are out of the game for good.                         *)
RefundedOnceAndOut ==
  \A b \in Bets :
    /\ refunds[b] <= 1
    /\ refunds[b] = 1 => bet[b] = BET_CANCELLED /\ slips[b] = BET_CANCELLED

(* Without a failure or a crash no stake is lost: a stake that was taken   *)
(* belongs to a bet on its way to the MTS or sent there, and a rejection   *)
(* that was noted is carried out, or its handler is still at it.           *)
OnlyInterruptionsLoseStakes ==
  faults = 0 /\ crashes = 0 =>
    \A b \in Bets :
      /\ debits[b] > 0 => request[b] = "publish" \/ b \in sent
      /\ betStatus[b] = BET_CANCELLED =>
           \/ refunds[b] = 1
           \/ \E m \in Answers : /\ answer[m].bet = b
                                 /\ answer[m].at \in {"slips", "bet", "credit"}
-----------------------------------------------------------------------------
(* The verdict a bet has, and the bets whose rejection a handler has noted *)
(* and is carrying out.                                                    *)
Verdict(b) == CASE betStatus[b] = 0 -> "none"
                [] betStatus[b] = 1 -> "accepted"
                [] OTHER            -> "rejected"
CarryingOut == {m \in Answers : answer[m].at \in {"slips", "bet", "credit"}}

(* Placing and answering bets implements StakeOnce: whatever is repeated,  *)
(* handled at once, interrupted and delivered again, a stake is taken at   *)
(* most once and before the bet is sent, and is given back at most once,   *)
(* by the handler that noted the first verdict on a bet that was sent.     *)
SO == INSTANCE StakeOnce WITH
        taken    <- debits,
        verdict  <- [b \in Bets |-> Verdict(b)],
        due      <- {answer[m].bet : m \in CarryingOut},
        returned <- refunds
ImplementsStakeOnce == SO!Spec
=============================================================================
