------------------------------ MODULE Settling ------------------------------
(***************************************************************************)
(* From the results of the feed to the result of a bet.  Three consumers   *)
(* of the message queue write bet_slip and settlement: settlements, bet    *)
(* cancels and rollbacks of settlements.  Two jobs read them: bet.settle-  *)
(* ment results the bets of each unprocessed settlement, unsettled.bet     *)
(* sweeps up the bets that one missed.  A step is one statement.           *)
(*                                                                         *)
(* Closing a bet is one step here (module Closing takes it apart), and so  *)
(* is each job's lock left out: one invocation of each job runs at a time. *)
(***************************************************************************)
EXTENDS BetConstants, FiniteSets

CONSTANTS
  Bets,       (* ids of the bets                                           *)
  Picks,      (* Picks[b]: the outcomes b is placed on, one slip for each  *)
  MarketOf,   (* MarketOf[o]: the event, market and specifier of outcome o *)
  EventOf,    (* EventOf[o]: the event (match) of outcome o                *)
  Late,       (* the events that started more than two hours ago           *)
  Accepted,   (* the bets whose row in bet_status says 1                   *)
  Settles,    (* messages that settle an outcome                           *)
  Cancels,    (* messages that cancel the bets on a market                 *)
  Rollbacks,  (* messages that roll back the settlement of a market        *)
  Manuals,    (* updateBet calls that result a single slip by hand         *)
  MaxIds,     (* bound: ids of settlements in use at a time                *)
  MaxCrashes, (* bound: crashes of the process                             *)
  MaxTroubles (* bound: crashes, rollbacks, and bet cancels and manual     *)
              (* updates (each counts for two) in a behaviour              *)

Outcomes == DOMAIN MarketOf
Markets  == {MarketOf[o] : o \in Outcomes}
Messages == Settles \cup Cancels \cup Rollbacks
Slips    == {p \in Bets \X Outcomes : p[2] \in Picks[p[1]]}

ASSUME InstanceAssumption ==
  /\ Picks \in [Bets -> (SUBSET Outcomes) \ {{}}]
  /\ DOMAIN EventOf = DOMAIN MarketOf
  /\ IsFiniteSet(Outcomes) /\ "none" \notin Markets
  /\ Accepted \subseteq Bets
  /\ Settles \cap Cancels = {} /\ Settles \cap Rollbacks = {}
  /\ Cancels \cap Rollbacks = {}
  /\ MaxIds \in Nat /\ MaxCrashes \in Nat /\ MaxTroubles \in Nat

VARIABLES
  slip,       (* table bet_slip: status, won, void (void_factor > 0), odd  *)
              (* ("placed", or "void" once replaced by the void factor),   *)
              (* and the settlement_id                                     *)
  bet,        (* table bet: status, won, and out: the outcomes whose odds  *)
              (* are no longer in total_odd and winning_after_tax          *)
  settlement, (* table settlement: the id of an outcome's row, 0 if none   *)
  processed,  (* the ids of the settlements with processed = 1             *)
  closure,    (* table bet_closure                                         *)
  winning,    (* table winning: what was paid, as <<bet, out>>             *)
  cancelled,  (* table bet_cancel, unique on the market                    *)
  rolledBack, (* table settlement_rollback, unique on the market           *)
  refunds,    (* the bets whose stake the wallet gave back                 *)
  feed,       (* each message: where its handler is, and its contents      *)
  job,        (* the bet.settlement job: where it is and its locals        *)
  sweep,      (* the unsettled.bet job: where it is and its locals         *)
  resend,     (* taskRequestSettlement: the events it has still to handle  *)
  manual,     (* each manual update: where it is, its slip and what it is  *)
              (* to be, the bet's out as read, and, for checking, whether  *)
              (* the slip had a result before                              *)
  crashes

settlements == <<settlement, processed>>
closing     == <<closure, winning>>
regrading   == <<cancelled, rolledBack, refunds>>
tasks       == <<job, sweep, resend>>
outside     == <<manual, crashes>>
vars == <<slip, bet, settlements, closing, regrading, feed, tasks, outside>>

(* The bets of a settlement (bets), one of them at a time (b) with its     *)
(* slips as read (seen), those still to update (todo), total_odd (out).    *)
JobStart == [at |-> "select", ids |-> {}, id |-> 0, bets |-> {}, seen |-> {},
             b |-> "none", todo |-> {}, out |-> {}]

SweepStart == [at |-> "select", rows |-> {}, b |-> "none", won |-> 0,
               lost |-> 0, voided |-> 0]

Init ==
  /\ slip = [p \in Slips |->
               [status |-> BETSLIP_PROCESSING_PENDING, void |-> FALSE,
                won |-> STATUS_NOT_LOST_OR_WON, odd |-> "placed",
                settlement |-> 0]]
  /\ bet = [b \in Bets |-> [status |-> BET_PENDING, out |-> {},
                            won |-> STATUS_NOT_LOST_OR_WON]]
  /\ settlement = [o \in Outcomes |-> 0]
  /\ processed = {}
  /\ closure = {} /\ winning = {}
  /\ cancelled = {} /\ rolledBack = {} /\ refunds = {}
  /\ feed = [m \in Messages |-> [at |-> "unsent", key |-> "none", won |-> 0,
                                 void |-> FALSE, id |-> 0, bets |-> {},
                                 ids |-> {}]]
  /\ job = JobStart /\ sweep = SweepStart /\ resend = {}
  /\ manual = [a \in Manuals |-> [at |-> "unsent", p |-> <<>>,
                                  to |-> "none", out |-> {}, over |-> FALSE]]
  /\ crashes = 0

SlipsOf(b)   == {p \in Slips : p[1] = b}
SlipsIn(k)   == {p \in Slips : MarketOf[p[2]] = k}
Unresulted(b) == bet[b].won = STATUS_NOT_LOST_OR_WON

(* A bug: the two columns of the update swapped.                           *)
SetBetSwapped(b, s, w) == bet' = [bet EXCEPT ![b].status = w, ![b].won = s]

SetBet(b, s, w) == bet' = [bet EXCEPT ![b].status = s, ![b].won = w]

Paid(b) == \E w \in winning : w[1] = b

(* closeBet: a winning row is saved only for a bet that has none.          *)
Close(b) ==
  IF bet[b].status \in {BET_PENDING, BET_VOIDED} /\ ~Paid(b)
    THEN SetBet(b, BET_WON, STATUS_WON)
         /\ winning' = winning \cup {<<b, bet[b].out>>}
    ELSE UNCHANGED <<bet, winning>>

-----------------------------------------------------------------------------
(* The consumers.  A handler that throws has its message requeued and is   *)
(* started again with it; a message is acknowledged when its handler ends. *)

At(m, label)   == feed[m].at = label
Goto(m, label) == feed' = [feed EXCEPT ![m].at = label]
Ack(m) == feed' = [feed EXCEPT ![m] =
                     [@ EXCEPT !.at = "acked", !.id = 0, !.ids = {}]]
FirstStatement(m) == IF m \in Settles THEN "upsert" ELSE "select"

Troubles == crashes + Cardinality({m \in Rollbacks : ~At(m, "unsent")})
              + 2 * Cardinality({m \in Cancels : ~At(m, "unsent")})
              + 2 * Cardinality({a \in Manuals : manual[a].at # "unsent"})

(* The feed settles outcomes somebody bet on (betExists).                  *)
SettleArrives(m) ==
  /\ m \in Settles /\ At(m, "unsent")
  /\ \E p \in Slips, w \in {STATUS_LOST, STATUS_WON}, v \in BOOLEAN :
       feed' = [feed EXCEPT ![m] =
                  [@ EXCEPT !.at = "upsert", !.key = p[2], !.won = w,
                            !.void = v]]

(* The window of creation times of a bet cancel: any set of bets.          *)
RegradeArrives(m) ==
  /\ m \in Cancels \cup Rollbacks /\ At(m, "unsent")
  /\ Troubles + (IF m \in Cancels THEN 2 ELSE 1) <= MaxTroubles
  /\ \E k \in Markets, W \in SUBSET Bets :
       feed' = [feed EXCEPT ![m] =
                  [@ EXCEPT !.at = "select", !.key = k, !.bets = W]]

Arrives(m) ==
  /\ SettleArrives(m) \/ RegradeArrives(m)
  /\ UNCHANGED <<slip, bet, settlements, closing, regrading, tasks, outside>>

(* The ids of settlements that a row or a local still holds.  Any other id *)
(* is as good as the next auto_increment.                                  *)
IdsInUse == {settlement[o] : o \in Outcomes} \cup job.ids \cup {job.id}
              \cup {slip[p].settlement : p \in Slips}
              \cup {feed[m].id : m \in Messages}

FreshId(i) == /\ i \in (1..MaxIds) \ IdsInUse
              /\ \A j \in 1..i-1 : j \in IdsInUse

(* An upsert of a row that exists leaves its id and processed alone.       *)
SettleUpsert(m) ==
  /\ m \in Settles /\ At(m, "upsert")
  /\ \/ settlement[feed[m].key] # 0 /\ UNCHANGED settlement
     \/ /\ settlement[feed[m].key] = 0
        /\ \E i \in 1..MaxIds :
             /\ FreshId(i)
             /\ settlement' = [settlement EXCEPT ![feed[m].key] = i]
  /\ Goto(m, "find")
  /\ UNCHANGED <<slip, bet, processed, closing, regrading, tasks, outside>>

(* findOne of the row: a rollback may have deleted it, then .id throws.    *)
SettleFind(m) ==
  /\ m \in Settles /\ At(m, "find")
  /\ LET id == settlement[feed[m].key]
     IN  feed' = [feed EXCEPT ![m] =
                    [@ EXCEPT !.at = IF id = 0 THEN "upsert" ELSE "slips",
                              !.id = id]]
  /\ UNCHANGED <<slip, bet, settlements, closing, regrading, tasks, outside>>

(* A bug: a result replaces an earlier one.                                *)
SettleSlipsAgain(m) ==
  /\ m \in Settles /\ At(m, "slips")
  /\ slip' = [p \in Slips |->
                IF p[2] = feed[m].key
                  THEN [slip[p] EXCEPT !.status = BETSLIP_PROCESSING_SETTLED,
                                       !.won = feed[m].won,
                                       !.void = feed[m].void,
                                       !.settlement = feed[m].id]
                  ELSE slip[p]]
  /\ Ack(m)
  /\ UNCHANGED <<bet, settlements, closing, regrading, tasks, outside>>

(* Only slips that are still pending take the result.                      *)
SettleSlips(m) ==
  /\ m \in Settles /\ At(m, "slips")
  /\ slip' = [p \in Slips |->
                IF /\ p[2] = feed[m].key
                   /\ slip[p].status = BETSLIP_PROCESSING_PENDING
                  THEN [slip[p] EXCEPT !.status = BETSLIP_PROCESSING_SETTLED,
                                       !.won = feed[m].won,
                                       !.void = feed[m].void,
                                       !.settlement = feed[m].id]
                  ELSE slip[p]]
  /\ Ack(m)
  /\ UNCHANGED <<bet, settlements, closing, regrading, tasks, outside>>

Settle(m) == SettleUpsert(m) \/ SettleFind(m) \/ SettleSlips(m)

-----------------------------------------------------------------------------
(* A bet cancel: the slips of the market that are still pending.           *)

Cancellable(m) ==
  {p \in SlipsIn(feed[m].key) : slip[p].status = BETSLIP_PROCESSING_PENDING}

CancelSelect(m) ==
  /\ m \in Cancels /\ At(m, "select")
  /\ feed' = [feed EXCEPT ![m] =
                [@ EXCEPT !.at = "slips",
                          !.ids = {p[1] : p \in Cancellable(m)}
                                    \cap feed[m].bets]]
  /\ UNCHANGED <<slip, bet, settlements, closing, regrading, tasks, outside>>

CancelSlips(m) ==
  /\ m \in Cancels /\ At(m, "slips")
  /\ slip' = [p \in Slips |->
                IF p \in Cancellable(m) /\ p[1] \in feed[m].bets
                  THEN [slip[p] EXCEPT !.status = BETSLIP_PROCESSING_CANCELLED]
                  ELSE slip[p]]
  /\ IF feed[m].ids = {} THEN Ack(m) ELSE Goto(m, "save")
  /\ UNCHANGED <<bet, settlements, closing, regrading, tasks, outside>>

(* The unique index of bet_cancel refuses a second cancel of the market.   *)
CancelSave(m) ==
  /\ m \in Cancels /\ At(m, "save")
  /\ cancelled' = cancelled \cup {feed[m].key}
  /\ Goto(m, IF feed[m].key \in cancelled THEN "select" ELSE "bets")
  /\ UNCHANGED <<slip, bet, settlements, closing, rolledBack, refunds, tasks,
                 outside>>

CancelBets(m) ==
  /\ m \in Cancels /\ At(m, "bets")
  /\ bet' = [b \in Bets |-> IF b \in feed[m].ids
                              THEN [bet[b] EXCEPT !.status = BET_CANCELLED]
                              ELSE bet[b]]
  /\ Goto(m, "refund")
  /\ UNCHANGED <<slip, settlements, closing, regrading, tasks, outside>>

(* The bets to refund are selected among those that are still pending.     *)
CancelRefund(m) ==
  /\ m \in Cancels /\ At(m, "refund")
  /\ refunds' = refunds \cup
                  {b \in feed[m].ids : bet[b].status = BET_PENDING}
  /\ Ack(m)
  /\ UNCHANGED <<slip, bet, settlements, closing, cancelled, rolledBack,
                 tasks, outside>>

Cancel(m) == \/ CancelSelect(m) \/ CancelSlips(m) \/ CancelSave(m)
             \/ CancelBets(m)   \/ CancelRefund(m)

-----------------------------------------------------------------------------
(* A rollback of a market's settlements.                                   *)

RollbackSelect(m) ==
  /\ m \in Rollbacks /\ At(m, "select")
  /\ \/ /\ \A o \in Outcomes : MarketOf[o] = feed[m].key => settlement[o] = 0
        /\ Ack(m)
     \/ /\ \E o \in Outcomes : MarketOf[o] = feed[m].key /\ settlement[o] # 0
        /\ Goto(m, "delete")
  /\ UNCHANGED <<slip, bet, settlements, closing, regrading, tasks, outside>>

RollbackDelete(m) ==
  /\ m \in Rollbacks /\ At(m, "delete")
  /\ LET D == {o \in Outcomes : MarketOf[o] = feed[m].key}
     IN  /\ settlement' = [o \in Outcomes |->
                              IF o \in D THEN 0 ELSE settlement[o]]
         /\ processed' = processed \ {settlement[o] : o \in D}
  /\ Goto(m, "save")
  /\ UNCHANGED <<slip, bet, closing, regrading, tasks, outside>>

(* The unique index refuses a second rollback of the market.               *)
RollbackSave(m) ==
  /\ m \in Rollbacks /\ At(m, "save")
  /\ rolledBack' = rolledBack \cup {feed[m].key}
  /\ Goto(m, IF feed[m].key \in rolledBack THEN "select" ELSE "slips")
  /\ UNCHANGED <<slip, bet, settlements, closing, cancelled, refunds, tasks,
                 outside>>

(* void_factor and odds keep their values.                                 *)
RollbackSlips(m) ==
  /\ m \in Rollbacks /\ At(m, "slips")
  /\ slip' = [p \in Slips |->
                IF p \in SlipsIn(feed[m].key)
                  THEN [slip[p] EXCEPT !.status = BETSLIP_PROCESSING_PENDING,
                                       !.won = STATUS_NOT_LOST_OR_WON,
                                       !.settlement = 0]
                  ELSE slip[p]]
  /\ Goto(m, "bets")
  /\ UNCHANGED <<bet, settlements, closing, regrading, tasks, outside>>

(* The update of the bets names a column bet_id the table does not have:   *)
(* it always throws, and nothing after it is ever run.                     *)
RollbackBets(m) ==
  /\ m \in Rollbacks /\ At(m, "bets")
  /\ Goto(m, "select")
  /\ UNCHANGED <<slip, bet, settlements, closing, regrading, tasks, outside>>

Rollback(m) == \/ RollbackSelect(m) \/ RollbackDelete(m) \/ RollbackSave(m)
               \/ RollbackSlips(m)  \/ RollbackBets(m)

-----------------------------------------------------------------------------
(* The bet.settlement job.                                                 *)

JobGoto(label) == job' = [job EXCEPT !.at = label]

JobSelect ==
  /\ job.at = "select"
  /\ job' = [JobStart EXCEPT !.at = "next",
               !.ids = {settlement[o] : o \in Outcomes} \ ({0} \cup processed)]
  /\ UNCHANGED <<slip, bet, settlements, closing, regrading, feed, sweep,
                 resend, outside>>

JobEnd ==
  /\ job.at = "next" /\ job.ids = {}
  /\ JobGoto("select")
  /\ UNCHANGED <<slip, bet, settlements, closing, regrading, feed, sweep,
                 resend, outside>>

(* The bets of a settlement, as their rows are now.                        *)
JobBets ==
  /\ job.at = "next"
  /\ \E id \in job.ids :
       LET B == {b \in Accepted :
                   /\ bet[b].status \in {BET_PENDING, BET_LOST}
                   /\ Unresulted(b)
                   /\ \E p \in SlipsOf(b) : slip[p].settlement = id}
       IN job' = [job EXCEPT !.ids = @ \ {id}, !.id = id,
                             !.bets = {[b |-> b, out |-> bet[b].out] : b \in B},
                             !.at = IF B = {} THEN "mark" ELSE "slips"]
  /\ UNCHANGED <<slip, bet, settlements, closing, regrading, feed, sweep,
                 resend, outside>>

(* The slips of all these bets, read at once.                              *)
JobSlips ==
  /\ job.at = "slips"
  /\ job' = [job EXCEPT !.at = "bet",
               !.seen = {[p |-> p, won |-> slip[p].won, void |-> slip[p].void,
                          odd |-> slip[p].odd] :
                         p \in {q \in Slips : \E x \in job.bets : x.b = q[1]}}]
  /\ UNCHANGED <<slip, bet, settlements, closing, regrading, feed, sweep,
                 resend, outside>>

JobBet ==
  /\ job.at = "bet"
  /\ \/ \E x \in job.bets :
          job' = [job EXCEPT !.bets = @ \ {x}, !.b = x.b, !.out = x.out,
                             !.todo = {y \in job.seen : y.p[1] = x.b},
                             !.at = "slip"]
     \/ job.bets = {} /\ JobGoto("mark")
  /\ UNCHANGED <<slip, bet, settlements, closing, regrading, feed, sweep,
                 resend, outside>>

Settled(p) == slip[p].status = BETSLIP_PROCESSING_SETTLED

(* The slips without a void factor are completed.  One statement each, but *)
(* only this job tells a completed slip from a settled one: one step.      *)
JobComplete ==
  /\ job.at = "slip"
  /\ LET done == {y \in job.todo : ~y.void}
     IN  /\ done # {}
         /\ job'  = [job EXCEPT !.todo = @ \ done]
         /\ slip' = [p \in Slips |->
                       IF Settled(p) /\ \E y \in done : y.p = p
                         THEN [slip[p] EXCEPT
                                 !.status = BETSLIP_PROCESSING_COMPLETED]
                         ELSE slip[p]]
  /\ UNCHANGED <<bet, settlements, closing, regrading, feed, sweep,
                 resend, outside>>

(* One with a void factor is voided, and its odds divided out of the odds  *)
(* of the bet, unless the odds that were read are already the void factor. *)
JobVoid ==
  /\ job.at = "slip"
  /\ \E y \in job.todo :
       /\ y.void
       /\ job' = [job EXCEPT !.todo = @ \ {y}, !.at = "payout",
                    !.out = IF y.odd = "placed" THEN @ \cup {y.p[2]} ELSE @]
       /\ slip' = [slip EXCEPT ![y.p] =
                     IF Settled(y.p)
                       THEN [@ EXCEPT !.status = BETSLIP_PROCESSING_VOIDED,
                                      !.won = STATUS_NOT_LOST_OR_WON,
                                      !.odd = "void"]
                       ELSE @]
  /\ UNCHANGED <<bet, settlements, closing, regrading, feed, sweep,
                 resend, outside>>

(* "update bet with new odds and new winning amount"                       *)
JobPayout ==
  /\ job.at = "payout"
  /\ bet' = [bet EXCEPT ![job.b].out = job.out]
  /\ JobGoto("slip")
  /\ UNCHANGED <<slip, settlements, closing, regrading, feed, sweep,
                 resend, outside>>

SeenOf(b) == {y \in job.seen : y.p[1] = b}

(* A bug: a slip that has no result yet is taken for a lost one, too.      *)
NotWon(w) == w # STATUS_WON

(* Whatever is neither open nor won counts as lost, and so does the value  *)
(* that a void by hand leaves in the column.                               *)
CountsAsLost(w) == w \notin {STATUS_NOT_LOST_OR_WON, STATUS_WON}

(* Without a void slip the summary is that of the slips as read.  With one *)
(* they are read again, and three of the four counters start undefined: a  *)
(* sum is a number only when every slip adds to it, so such a bet is never *)
(* won, and lost only when all its slips are.                              *)
JobSummary ==
  /\ job.at = "slip" /\ job.todo = {}
  /\ LET S       == SeenOf(job.b)
         hasVoid == \E y \in S : y.void
         won     == ~hasVoid /\ \A y \in S : y.won = STATUS_WON
         lost    == \/ ~hasVoid /\ \E y \in S : CountsAsLost(y.won)
                    \/ hasVoid /\ \A p \in SlipsOf(job.b) :
                         /\ slip[p].status # BETSLIP_PROCESSING_CANCELLED
                         /\ CountsAsLost(slip[p].won)
     IN JobGoto(IF won THEN "won" ELSE IF lost THEN "lost" ELSE "bet")
  /\ UNCHANGED <<slip, bet, settlements, closing, regrading, feed, sweep,
                 resend, outside>>

JobResult ==
  /\ \/ /\ job.at = "won"
        /\ SetBet(job.b, BET_PENDING, STATUS_WON)
        /\ JobGoto("closure")
     \/ /\ job.at = "lost"
        /\ SetBet(job.b, IF \A y \in SeenOf(job.b) : y.void
                           THEN BET_VOIDED ELSE BET_LOST, STATUS_LOST)
        /\ JobGoto("bet")
  /\ UNCHANGED <<slip, settlements, closing, regrading, feed, sweep,
                 resend, outside>>

JobClosure ==
  /\ job.at = "closure"
  /\ closure' = closure \cup {job.b}
  /\ JobGoto("bet")
  /\ UNCHANGED <<slip, bet, settlements, winning, regrading, feed, sweep,
                 resend, outside>>

JobMark ==
  /\ job.at = "mark"
  /\ processed' = processed \cup
                    ({job.id} \cap {settlement[o] : o \in Outcomes})
  /\ job' = [JobStart EXCEPT !.at = "next", !.ids = job.ids]
  /\ UNCHANGED <<slip, bet, settlement, closing, regrading, feed, sweep,
                 resend, outside>>

JobStep == \/ JobSelect  \/ JobEnd    \/ JobBets    \/ JobSlips  \/ JobBet
           \/ JobComplete \/ JobVoid  \/ JobPayout  \/ JobSummary
           \/ JobResult  \/ JobClosure \/ JobMark

(* The bet.resulting job, for one listed bet.                              *)
CloseListed ==
  /\ \E b \in closure :
       /\ closure' = closure \ {b}
       /\ IF bet[b].won = STATUS_WON THEN Close(b)
                                     ELSE UNCHANGED <<bet, winning>>
  /\ UNCHANGED <<slip, settlements, regrading, feed, tasks, outside>>

-----------------------------------------------------------------------------
(* The unsettled.bet job.  Each bet's slips are counted by one query after *)
(* another, and the counts compared.                                       *)

SweepSelect ==
  /\ sweep.at = "select"
  /\ sweep' = [SweepStart EXCEPT !.at = "won",
                 !.rows = {b \in Bets :
                   /\ bet[b].status = BET_PENDING /\ Unresulted(b)
                   /\ \E p \in SlipsOf(b) :
                        slip[p].status # BETSLIP_PROCESSING_PENDING}]
  /\ UNCHANGED <<slip, bet, settlements, closing, regrading, feed, job,
                 resend, outside>>

Count(b, w) == Cardinality({p \in SlipsOf(b) : slip[p].won = w})

SweepWon ==
  /\ sweep.at = "won"
  /\ \E b \in sweep.rows :
       sweep' = [sweep EXCEPT !.rows = @ \ {b}, !.b = b, !.at = "lost",
                              !.won = Count(b, STATUS_WON)]
  /\ UNCHANGED <<slip, bet, settlements, closing, regrading, feed, job,
                 resend, outside>>

SweepLost ==
  /\ sweep.at = "lost"
  /\ sweep' = [sweep EXCEPT !.at = "voided",
                            !.lost = Count(sweep.b, STATUS_LOST)]
  /\ UNCHANGED <<slip, bet, settlements, closing, regrading, feed, job,
                 resend, outside>>

SweepVoided ==
  /\ sweep.at = "voided"
  /\ sweep' = [sweep EXCEPT !.at = IF sweep.lost > 0 THEN "lose" ELSE "close",
                 !.voided = Cardinality({p \in SlipsOf(sweep.b) :
                              slip[p].status = BETSLIP_PROCESSING_VOIDED})]
  /\ UNCHANGED <<slip, bet, settlements, closing, regrading, feed, job,
                 resend, outside>>

SweepLose ==
  /\ sweep.at = "lose"
  /\ SetBet(sweep.b, BET_LOST, STATUS_LOST)
  /\ sweep' = [sweep EXCEPT !.at = "close"]
  /\ UNCHANGED <<slip, settlements, closing, regrading, feed, job,
                 resend, outside>>

(* A bug: a bet without a lost slip is taken for a won one.                *)
NoneLost == sweep.lost = 0

AllWon == sweep.won = Cardinality(SlipsOf(sweep.b)) - sweep.voided

SweepClose ==
  /\ sweep.at = "close"
  /\ IF AllWon THEN Close(sweep.b) ELSE UNCHANGED <<bet, winning>>
  /\ sweep' = [SweepStart EXCEPT !.at = "won", !.rows = sweep.rows]
  /\ UNCHANGED <<slip, settlements, closure, regrading, feed, job,
                 resend, outside>>

SweepEnd ==
  /\ sweep.at = "won" /\ sweep.rows = {}
  /\ sweep' = SweepStart
  /\ UNCHANGED <<slip, bet, settlements, closing, regrading, feed, job,
                 resend, outside>>

SweepStep == \/ SweepSelect \/ SweepWon  \/ SweepLost \/ SweepVoided
             \/ SweepLose   \/ SweepClose \/ SweepEnd

-----------------------------------------------------------------------------
(* taskRequestSettlement, without a lock: two ticks of it may overlap.  It *)
(* selects the late events with a slip that has no result, and makes the   *)
(* settlement job process all settlements of each again.  The feed is      *)
(* asked for an event that has none: nothing changes here.                 *)

ResendSelect ==
  /\ resend' = resend \cup
       {e \in Late : \E p \in Slips :
                      /\ EventOf[p[2]] = e
                      /\ slip[p].status = BETSLIP_PROCESSING_PENDING
                      /\ slip[p].won = STATUS_NOT_LOST_OR_WON}
  /\ UNCHANGED <<slip, bet, settlements, closing, regrading, feed, job, sweep,
                 outside>>

ResendUpdate ==
  \E e \in resend :
    /\ resend' = resend \ {e}
    /\ processed' = processed \
                      {settlement[o] : o \in {q \in Outcomes : EventOf[q] = e}}
    /\ UNCHANGED <<slip, bet, settlement, closing, regrading, feed, job, sweep,
                   outside>>

-----------------------------------------------------------------------------
(* updateBet of a slip: the bet and the slip are read, a void slip's odds  *)
(* taken out of the bet's, and the slip written, whatever it was.          *)

ManualAt(a, label) == manual[a].at = label

ManualRead(a) ==
  /\ ManualAt(a, "unsent") /\ Troubles + 2 <= MaxTroubles
  /\ \E p \in Slips, to \in {"won", "lost", "void", "pending"} :
       manual' = [manual EXCEPT ![a] =
                    [@ EXCEPT !.at = IF to = "void" THEN "bet" ELSE "slip",
                       !.p = p, !.to = to,
                       !.out = bet[p[1]].out \cup IF slip[p].odd = "placed"
                                                   THEN {p[2]} ELSE {}]]
  /\ UNCHANGED <<slip, bet, settlements, closing, regrading, feed, tasks,
                 crashes>>

ManualOdds(a) ==
  /\ ManualAt(a, "bet")
  /\ bet' = [bet EXCEPT ![manual[a].p[1]].out = manual[a].out]
  /\ manual' = [manual EXCEPT ![a].at = "slip"]
  /\ UNCHANGED <<slip, settlements, closing, regrading, feed, tasks, crashes>>

(* A bug: the two columns are swapped for every result, as they are for a  *)
(* void one.                                                               *)
ManualRowSwapped(row, to) ==
  [row EXCEPT !.won    = BETSLIP_PROCESSING_COMPLETED,
              !.status = CASE to = "won"  -> STATUS_WON
                           [] to = "lost" -> STATUS_LOST
                           [] OTHER       -> STATUS_NOT_LOST_OR_WON]

(* A void slip gets the processing status in won and the result in status. *)
ManualRow(row, to) ==
  CASE to = "won"     -> [row EXCEPT !.won    = STATUS_WON,
                                     !.status = BETSLIP_PROCESSING_COMPLETED]
    [] to = "lost"    -> [row EXCEPT !.won    = STATUS_LOST,
                                     !.status = BETSLIP_PROCESSING_COMPLETED]
    [] to = "void"    -> [row EXCEPT !.won    = BETSLIP_PROCESSING_COMPLETED,
                                     !.status = STATUS_NOT_LOST_OR_WON,
                                     !.odd    = "void"]
    [] to = "pending" -> [row EXCEPT !.won    = STATUS_NOT_LOST_OR_WON,
                                     !.status = BETSLIP_PROCESSING_PENDING]

ManualSlip(a) ==
  /\ ManualAt(a, "slip")
  /\ LET p == manual[a].p
     IN  /\ slip' = [slip EXCEPT ![p] = ManualRow(@, manual[a].to)]
         /\ manual' = [manual EXCEPT ![a].at = "done", ![a].out = {},
              ![a].over = slip[p].status # BETSLIP_PROCESSING_PENDING]
  /\ UNCHANGED <<bet, settlements, closing, regrading, feed, tasks, crashes>>

ManualStep(a) == ManualOdds(a) \/ ManualSlip(a)

-----------------------------------------------------------------------------
(* The process ends and is started again: messages not acknowledged are    *)
(* delivered again, the jobs begin anew.                                   *)
Crash ==
  /\ crashes < MaxCrashes /\ Troubles < MaxTroubles
  /\ crashes' = crashes + 1
  /\ feed' = [m \in Messages |->
                IF feed[m].at \in {"unsent", "acked"} THEN feed[m]
                ELSE [feed[m] EXCEPT !.at = FirstStatement(m)]]
  /\ job' = JobStart /\ sweep' = SweepStart /\ resend' = {}
  /\ manual' = [a \in Manuals |->
                  IF ManualAt(a, "unsent") THEN manual[a]
                  ELSE [manual[a] EXCEPT !.at = "done"]]
  /\ UNCHANGED <<slip, bet, settlements, closing, regrading>>

Handle(m) == Settle(m) \/ Cancel(m) \/ Rollback(m)

Next == \/ \E m \in Messages : Arrives(m) \/ Handle(m)
        \/ JobStep \/ CloseListed \/ SweepStep
        \/ ResendSelect \/ ResendUpdate
        \/ \E a \in Manuals : ManualRead(a) \/ ManualStep(a)
        \/ Crash

Spec == Init /\ [][Next]_vars

(* Handlers run, the three jobs that result and close bets recur on their  *)
(* cron ticks; no settlement need be requested again, the feed need not    *)
(* send anything, nor the process crash.                                   *)
Fairness == /\ \A m \in Messages : WF_vars(Handle(m))
            /\ \A a \in Manuals : WF_vars(ManualStep(a))
            /\ WF_vars(JobStep) /\ WF_vars(CloseListed) /\ WF_vars(SweepStep)

FairSpec == Spec /\ Fairness

-----------------------------------------------------------------------------
(* The rows and the locals hold what they may.                             *)
TypeOK ==
  /\ slip \in [Slips -> [status : -1..3, void : BOOLEAN, won : -1..2,
                         odd : {"placed", "void"}, settlement : 0..MaxIds]]
  /\ bet \in [Bets -> [status : BetStatuses, won : WonStatuses,
                       out : SUBSET Outcomes]]
  /\ settlement \in [Outcomes -> 0..MaxIds]
  /\ processed \subseteq {settlement[o] : o \in Outcomes} \ {0}
  /\ closure \subseteq Bets /\ refunds \subseteq Bets
  /\ winning \subseteq Bets \X SUBSET Outcomes
  /\ \A v, w \in winning : v[1] = w[1] => v = w
  /\ cancelled \subseteq Markets /\ rolledBack \subseteq Markets
  /\ job.ids \subseteq 1..MaxIds /\ job.id \in 0..MaxIds
  /\ job.b = "none" \/ job.b \in Bets
  /\ sweep.rows \subseteq Bets
  /\ resend \subseteq Late
  /\ crashes \in Nat

(* The feed settled a slip of b with a void factor and the result w: a half*)
(* won or half lost slip, or one that is void altogether, whose result is  *)
(* 0.  Until the job voids it, it counts as w.                             *)
HalfSettled(b, w) ==
  \E m \in Settles : /\ feed[m].key \in Picks[b]
                     /\ feed[m].void /\ feed[m].won = w

RolledBack(b) ==
  \E o \in Picks[b], m \in Rollbacks : feed[m].key = MarketOf[o]

(* A slip of b that had a result was given another by hand.                *)
Overruled(b) == \E a \in Manuals : manual[a].over /\ manual[a].p[1] = b

(* A bet is resulted as won, or paid, only when every slip has won or is   *)
(* void: the jobs decide from rows and counts read one after the other     *)
(* while the feed goes on settling.                                        *)
WonBetsHaveWon ==
  \A b \in Bets :
    bet[b].won = STATUS_WON \/ Paid(b) =>
      \/ \A p \in SlipsOf(b) : \/ slip[p].won = STATUS_WON
                               \/ slip[p].status = BETSLIP_PROCESSING_VOIDED
      \/ HalfSettled(b, STATUS_WON) \/ RolledBack(b) \/ Overruled(b)

(* A slip that was voided by hand: its column won holds a status.          *)
Annulled(p) == slip[p].won = BETSLIP_PROCESSING_COMPLETED

(* A bet is resulted as lost only when some slip has lost or was voided by *)
(* hand, which the settlement job counts as lost: never over slips that are*)
(* open, won, cancelled or voided by the job, although they are read one by*)
(* one while the feed goes on settling and cancelling.                     *)
LostBetsHaveLost ==
  \A b \in Bets :
    bet[b].won = STATUS_LOST =>
      \/ \E p \in SlipsOf(b) : slip[p].won = STATUS_LOST \/ Annulled(p)
      \/ HalfSettled(b, STATUS_LOST) \/ RolledBack(b) \/ Overruled(b)

(* No bet is left pending for good once all its slips are settled: not     *)
(* when a settlement was marked as processed before the slips named it,    *)
(* not with a void slip, which the settlement job cannot count, nor after  *)
(* a rollback or a restart.                                                *)
Decided(b) == \A p \in SlipsOf(b) : slip[p].status \in 1..3
Unsettled(b) == bet[b].status = BET_PENDING /\ Unresulted(b)

SettledBetsAreResulted ==
  \A b \in Bets : []<>~(Decided(b) /\ Unsettled(b))

(* "update bet with new odds and new winning amount": a bet with a void    *)
(* slip is paid without the odds of that slip.                             *)
VoidSlipsAreNotPaid ==
  \A w \in winning : \A p \in SlipsOf(w[1]) :
    slip[p].status = BETSLIP_PROCESSING_VOIDED => p[2] \in w[2]

(* "get all cancelled bets": the bets a bet cancel cancelled get their     *)
(* stake back.                                                             *)
CancelledBetsAreRefunded ==
  [][\A m \in Cancels : CancelRefund(m) =>
       \A b \in feed[m].ids : bet[b].status = BET_CANCELLED => b \in refunds']_vars

(* "update bets to pending": when the slips of a rolled back market have   *)
(* been reset, the bets they had resulted are made pending again.          *)
RollbackResetsBets ==
  [][\A m \in Rollbacks : RollbackBets(m) =>
       \A p \in SlipsIn(feed[m].key) :
         bet'[p[1]].status \notin {BET_WON, BET_LOST}]_vars
=============================================================================
