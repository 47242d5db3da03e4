---------------------------- MODULE DecidingProofs ----------------------------
(***************************************************************************)
(* Proofs about the results of bets in Settling: a bet is resulted as won  *)
(* or lost only when its slips have won or lost.  A slip voided by hand is *)
(* lost to the settlement job, so it may be all that has lost.             *)
(*                                                                         *)
(* What a decision rests on lasts.  A slip's result is only changed by a   *)
(* rollback, by hand, or when the settlement job voids a half won or half  *)
(* lost slip, and a bet to which one of these happened is let off.  Once   *)
(* true, "all slips have won or are void" and "some slip has lost" stay    *)
(* true, and so do lower bounds on the sweep's counts.  Hence what a job   *)
(* read earlier, one query after another, still holds when it writes.      *)
(***************************************************************************)
EXTENDS SettlingProofs

Exempt(b) == RolledBack(b) \/ Overruled(b)

(* A slip without a result is not void, a voided one has no result, and    *)
(* only a half won or half lost slip has a result and a void factor.  One  *)
(* voided by hand has no result either, but a status that nobody selects.  *)
RowOK(p) ==
  /\ slip[p].status = BETSLIP_PROCESSING_PENDING =>
       slip[p].won = STATUS_NOT_LOST_OR_WON /\ ~slip[p].void
  /\ slip[p].status = BETSLIP_PROCESSING_VOIDED =>
       slip[p].won = STATUS_NOT_LOST_OR_WON
  /\ Annulled(p) => slip[p].status = BETSLIP_PROCESSING_CANCELLED
  /\ \A w \in {STATUS_LOST, STATUS_WON} :
       slip[p].void /\ slip[p].won = w => HalfSettled(p[1], w)

SlipsOK == \A p \in Slips : Exempt(p[1]) \/ RowOK(p)

(* What the settlement job read of a slip is still so.                     *)
SeenOK(y) ==
  /\ \A w \in {STATUS_LOST, STATUS_WON} :
       y.won = w => slip[y.p].won = w \/ HalfSettled(y.p[1], w)
  /\ y.won = BETSLIP_PROCESSING_COMPLETED => Annulled(y.p)
  /\ y.void => slip[y.p].void

JobSeenOK == \A y \in job.seen : Exempt(y.p[1]) \/ SeenOK(y)

HasWon(p) == \/ slip[p].won = STATUS_WON
             \/ slip[p].status = BETSLIP_PROCESSING_VOIDED

MayWin(b) == \/ \A p \in SlipsOf(b) : HasWon(p)
             \/ HalfSettled(b, STATUS_WON) \/ Exempt(b)

HasLost(p) == slip[p].won = STATUS_LOST \/ Annulled(p)

MayLose(b) == \/ \E p \in SlipsOf(b) : HasLost(p)
              \/ HalfSettled(b, STATUS_LOST) \/ Exempt(b)

JobDecides == /\ job.at = "won"  => MayWin(job.b)
              /\ job.at = "lost" => MayLose(job.b)

(* The counts of the sweep are counts of slips that are still so.          *)
WonCounted(b, n) ==
  \/ \E W \in SUBSET SlipsOf(b) :
       Cardinality(W) = n /\ \A p \in W : slip[p].won = STATUS_WON
  \/ HalfSettled(b, STATUS_WON) \/ Exempt(b)

VoidCounted(b, n) ==
  \/ \E V \in SUBSET SlipsOf(b) :
       /\ Cardinality(V) = n
       /\ \A p \in V : slip[p].status = BETSLIP_PROCESSING_VOIDED
  \/ Exempt(b)

SweepDecides ==
  /\ sweep.at \in {"lost", "voided", "lose", "close"} =>
       WonCounted(sweep.b, sweep.won)
  /\ sweep.at \in {"voided", "lose", "close"} /\ sweep.lost > 0 =>
       MayLose(sweep.b)
  /\ sweep.at \in {"lose", "close"} => VoidCounted(sweep.b, sweep.voided)

BetsDecided ==
  \A b \in Bets : /\ bet[b].won = STATUS_WON \/ Paid(b) => MayWin(b)
                  /\ bet[b].won = STATUS_LOST => MayLose(b)

Decision == SlipsOK /\ JobSeenOK /\ JobDecides /\ SweepDecides /\ BetsDecided

-----------------------------------------------------------------------------
(***************************************************************************)
(* What lasts.                                                             *)
(***************************************************************************)

(* A bet let off stays so, and so does one with a half won slip.           *)
LEMMA LetOffLasts ==
  ASSUME FeedOK, FeedKeeps, ManualKeeps, NEW b \in Bets
  PROVE  /\ Exempt(b) => Exempt(b)'
         /\ \A w : HalfSettled(b, w) => HalfSettled(b, w)'
<1>1. ASSUME RolledBack(b) PROVE RolledBack(b)'
  <2>1. PICK o \in Picks[b], m \in Rollbacks : feed[m].key = MarketOf[o]
    BY <1>1 DEF RolledBack
  <2>2. feed[m].key \in Markets /\ "none" \notin Markets
    BY <2>1, InstanceAssumption DEF Markets
  <2>3. feed[m].at # "unsent"
    BY <2>2 DEF FeedOK, Messages
  <2> QED
    BY <2>1, <2>3 DEF FeedKeeps, Messages, RolledBack
<1>2. ASSUME Overruled(b) PROVE Overruled(b)'
  BY <1>2 DEF Overruled, ManualKeeps
<1>3. ASSUME NEW w, HalfSettled(b, w) PROVE HalfSettled(b, w)'
  <2>1. PICK m \in Settles : /\ feed[m].key \in Picks[b]
                             /\ feed[m].void /\ feed[m].won = w
    BY <1>3 DEF HalfSettled
  <2>2. feed[m].at # "unsent"
    BY <2>1 DEF FeedOK, Messages
  <2> QED
    BY <2>1, <2>2 DEF FeedKeeps, Messages, HalfSettled
<1> QED
  BY <1>1, <1>2, <1>3 DEF Exempt

(* A result, a void factor and a void slip stay as they are, but a half    *)
(* won or half lost slip loses its result when it is voided.               *)
Lasts(p) ==
  /\ \A w \in {STATUS_LOST, STATUS_WON} :
       slip[p].won = w => slip'[p].won = w \/ HalfSettled(p[1], w)'
  /\ Annulled(p) => Annulled(p)'
  /\ slip[p].void => slip'[p].void
  /\ slip[p].status = BETSLIP_PROCESSING_VOIDED =>
       slip'[p].status = BETSLIP_PROCESSING_VOIDED

Fine(p) == RowOK(p)' /\ Lasts(p)

(* A step does to a row only what its bet can rely on, or lets it off.     *)
LEMMA RowStep ==
  ASSUME Typed, [Next]_vars, SlipsOK, JobSeenOK,
         NEW p \in Slips, ~Exempt(p[1])'
  PROVE  Fine(p)
<1>0. /\ Typed' /\ FeedKeeps /\ ManualKeeps
  BY TypeStep
<1>1. p[1] \in Bets /\ p[2] \in Picks[p[1]] /\ p[2] \in Outcomes
  BY DEF Slips
<1>2. /\ ~Exempt(p[1])
      /\ \A w : HalfSettled(p[1], w) => HalfSettled(p[1], w)'
  BY <1>0, <1>1, LetOffLasts DEF Typed
<1>3. RowOK(p)
  BY <1>2 DEF SlipsOK
<1>4. slip \in [Slips -> SlipRow] /\ slip' \in [Slips -> SlipRow]
      /\ slip[p] \in SlipRow
  BY <1>0 DEF Typed, TypeOK, SlipRow
<1>a. ASSUME slip'[p] = slip[p] PROVE Fine(p)
  BY <1>a, <1>2, <1>3 DEF Fine, RowOK, Lasts, Annulled
<1>b. ASSUME NEW s \in -1..3, slip'[p] = [slip[p] EXCEPT !.status = s],
             slip[p].status # BETSLIP_PROCESSING_VOIDED,
             slip[p].status # BETSLIP_PROCESSING_CANCELLED,
             s # BETSLIP_PROCESSING_PENDING, s # BETSLIP_PROCESSING_VOIDED
      PROVE  Fine(p)
  <2>1. slip'[p].status = s /\ slip'[p].won = slip[p].won
        /\ slip'[p].void = slip[p].void
    BY <1>4, <1>b DEF SlipRow
  <2> QED
    BY <1>b, <1>2, <1>3, <2>1 DEF Fine, RowOK, Lasts, Annulled
<1>5. ASSUME NEW m \in Messages, SettleSlips(m) PROVE Fine(p)
  <2>1. CASE p[2] = feed[m].key /\ slip[p].status = BETSLIP_PROCESSING_PENDING
    <3>1. slip'[p] = [slip[p] EXCEPT !.status = BETSLIP_PROCESSING_SETTLED,
                                     !.won = feed[m].won,
                                     !.void = feed[m].void,
                                     !.settlement = feed[m].id]
      BY <1>5, <2>1 DEF SettleSlips
    <3>2. /\ slip'[p].status = BETSLIP_PROCESSING_SETTLED
          /\ slip'[p].won = feed[m].won /\ slip'[p].void = feed[m].void
      BY <1>4, <3>1 DEF SlipRow
    <3>3. slip[p].won = STATUS_NOT_LOST_OR_WON /\ ~slip[p].void
      BY <1>3, <2>1 DEF RowOK
    <3>4. ASSUME NEW w, feed[m].void, feed[m].won = w
          PROVE  HalfSettled(p[1], w)'
      <4>1. HalfSettled(p[1], w)
        BY <1>1, <1>5, <2>1, <3>4 DEF HalfSettled, SettleSlips
      <4> QED
        BY <1>2, <4>1
    <3>5. /\ slip'[p].status # BETSLIP_PROCESSING_PENDING
          /\ slip'[p].status # BETSLIP_PROCESSING_VOIDED
          /\ slip[p].status # BETSLIP_PROCESSING_VOIDED
          /\ slip[p].won # STATUS_LOST /\ slip[p].won # STATUS_WON
      BY <2>1, <3>2, <3>3
         DEF BETSLIP_PROCESSING_SETTLED, BETSLIP_PROCESSING_PENDING,
             BETSLIP_PROCESSING_VOIDED, STATUS_NOT_LOST_OR_WON, STATUS_LOST,
             STATUS_WON
    <3>6. ~Annulled(p) /\ ~Annulled(p)'
      <4>1. feed[m].won \in {STATUS_LOST, STATUS_WON}
        BY <1>0 DEF Typed, FeedOK, FeedRow
      <4> QED
        BY <3>2, <3>3, <4>1
           DEF Annulled, BETSLIP_PROCESSING_COMPLETED, STATUS_LOST,
               STATUS_WON, STATUS_NOT_LOST_OR_WON
    <3>7. RowOK(p)' /\ Lasts(p)
      BY <3>2, <3>3, <3>4, <3>5, <3>6 DEF RowOK, Lasts
    <3> QED
      BY <3>7 DEF Fine
  <2>2. CASE \/ p[2] # feed[m].key
             \/ slip[p].status # BETSLIP_PROCESSING_PENDING
    BY <1>5, <1>a, <2>2 DEF SettleSlips
  <2> QED
    BY <2>1, <2>2
<1>6. ASSUME NEW m \in Messages, CancelSlips(m) PROVE Fine(p)
  <2>1. CASE p \in Cancellable(m) /\ p[1] \in feed[m].bets
    <3>1. slip'[p] = [slip[p] EXCEPT !.status = BETSLIP_PROCESSING_CANCELLED]
      BY <1>6, <2>1 DEF CancelSlips
    <3>2. slip[p].status = BETSLIP_PROCESSING_PENDING
      BY <2>1 DEF Cancellable
    <3> QED
      BY <1>b, <3>1, <3>2 DEF BETSLIP_PROCESSING_CANCELLED,
         BETSLIP_PROCESSING_PENDING, BETSLIP_PROCESSING_VOIDED
  <2>2. CASE ~(p \in Cancellable(m) /\ p[1] \in feed[m].bets)
    BY <1>6, <1>a, <2>2 DEF CancelSlips
  <2> QED
    BY <2>1, <2>2
<1>7. ASSUME NEW m \in Messages, RollbackSlips(m) PROVE Fine(p)
  <2>1. p \notin SlipsIn(feed[m].key)
    <3>1. m \in Rollbacks /\ feed[m].at # "unsent"
      BY <1>7 DEF RollbackSlips, At
    <3>2. feed'[m].key = feed[m].key
      BY <1>0, <3>1 DEF FeedKeeps
    <3>3. ~RolledBack(p[1])'
      BY DEF Exempt
    <3> QED
      BY <1>1, <3>1, <3>2, <3>3 DEF RolledBack, SlipsIn
  <2> QED
    BY <1>7, <1>a, <2>1 DEF RollbackSlips
<1>8. CASE JobComplete
  <2>1. CASE slip'[p] = slip[p]
    BY <1>a, <2>1
  <2>2. CASE /\ Settled(p)
             /\ slip'[p] = [slip[p] EXCEPT
                              !.status = BETSLIP_PROCESSING_COMPLETED]
    BY <1>b, <2>2 DEF Settled, BETSLIP_PROCESSING_SETTLED,
       BETSLIP_PROCESSING_COMPLETED, BETSLIP_PROCESSING_PENDING,
       BETSLIP_PROCESSING_VOIDED, BETSLIP_PROCESSING_CANCELLED
  <2> QED
    BY <1>8, <2>1, <2>2 DEF JobComplete
<1>9. CASE JobVoid
  <2>1. PICK y \in job.todo :
          /\ y.void /\ job.at = "slip"
          /\ slip' = [slip EXCEPT ![y.p] =
                        IF Settled(y.p)
                          THEN [@ EXCEPT !.status = BETSLIP_PROCESSING_VOIDED,
                                         !.won = STATUS_NOT_LOST_OR_WON,
                                         !.odd = "void"]
                          ELSE @]
    BY <1>9 DEF JobVoid
  <2>2. CASE y.p = p /\ Settled(p)
    <3>1. slip'[p] = [slip[p] EXCEPT !.status = BETSLIP_PROCESSING_VOIDED,
                                     !.won = STATUS_NOT_LOST_OR_WON,
                                     !.odd = "void"]
      BY <1>4, <2>1, <2>2
    <3>2. /\ slip'[p].status = BETSLIP_PROCESSING_VOIDED
          /\ slip'[p].won = STATUS_NOT_LOST_OR_WON
          /\ slip'[p].void = slip[p].void
      BY <1>4, <3>1 DEF SlipRow
    <3>3. slip[p].void
      <4>1. y \in job.seen
        BY <2>1 DEF Typed, JobOK, Deciding
      <4> QED
        BY <1>2, <2>1, <2>2, <4>1 DEF JobSeenOK, SeenOK
    <3>4. \A w \in {STATUS_LOST, STATUS_WON} :
            slip[p].won = w => HalfSettled(p[1], w)
      BY <1>3, <3>3 DEF RowOK
    <3>5. ~Annulled(p) /\ ~Annulled(p)'
      BY <1>3, <2>2, <3>2
         DEF RowOK, Annulled, Settled, BETSLIP_PROCESSING_SETTLED,
             BETSLIP_PROCESSING_CANCELLED, BETSLIP_PROCESSING_COMPLETED,
             STATUS_NOT_LOST_OR_WON
    <3> QED
      BY <1>2, <3>2, <3>4, <3>5
         DEF Fine, RowOK, Lasts, BETSLIP_PROCESSING_PENDING,
             BETSLIP_PROCESSING_VOIDED, STATUS_NOT_LOST_OR_WON, STATUS_LOST,
             STATUS_WON
  <2>3. CASE ~(y.p = p /\ Settled(p))
    BY <1>4, <1>a, <2>1, <2>3
  <2> QED
    BY <2>2, <2>3
<1>10. ASSUME NEW a \in Manuals, ManualSlip(a) PROVE Fine(p)
  <2>1. CASE p # manual[a].p
    BY <1>4, <1>10, <1>a, <2>1 DEF ManualSlip
  <2>2. CASE p = manual[a].p
    <3>1. slip[p].status = BETSLIP_PROCESSING_PENDING
      <4>1. manual[a].at = "slip"
        BY <1>10 DEF ManualSlip, ManualAt
      <4>2. manual'[a].p = p
        BY <1>0, <2>2, <4>1 DEF ManualKeeps
      <4>3. ~manual'[a].over
        BY <4>2 DEF Exempt, Overruled
      <4>4. manual'[a].over = (slip[p].status # BETSLIP_PROCESSING_PENDING)
        BY <1>10, <2>2 DEF ManualSlip, Typed, ManualOK, ManualRec
      <4> QED
        BY <4>3, <4>4
    <3>2. slip[p].won = STATUS_NOT_LOST_OR_WON /\ ~slip[p].void
      BY <1>3, <3>1 DEF RowOK
    <3>3. slip'[p] = ManualRow(slip[p], manual[a].to)
      BY <1>4, <1>10, <2>2 DEF ManualSlip
    <3>4. manual[a].to \in {"won", "lost", "void", "pending"}
      BY <1>10 DEF ManualSlip, ManualAt, Typed, ManualOK
    <3>5. /\ ~slip'[p].void
          /\ slip'[p].status # BETSLIP_PROCESSING_VOIDED
          /\ slip'[p].status = BETSLIP_PROCESSING_PENDING =>
               slip'[p].won = STATUS_NOT_LOST_OR_WON
      BY <1>4, <3>2, <3>3, <3>4
         DEF ManualRow, SlipRow, BETSLIP_PROCESSING_PENDING,
             BETSLIP_PROCESSING_COMPLETED, BETSLIP_PROCESSING_VOIDED,
             STATUS_NOT_LOST_OR_WON
    <3>6. /\ ~Annulled(p)
          /\ Annulled(p)' => slip'[p].status = BETSLIP_PROCESSING_CANCELLED
      BY <1>4, <3>2, <3>3, <3>4
         DEF Annulled, ManualRow, SlipRow, BETSLIP_PROCESSING_PENDING,
             BETSLIP_PROCESSING_COMPLETED, BETSLIP_PROCESSING_CANCELLED,
             STATUS_LOST, STATUS_WON, STATUS_NOT_LOST_OR_WON
    <3> QED
      BY <3>1, <3>2, <3>5, <3>6
         DEF Fine, RowOK, Lasts, BETSLIP_PROCESSING_PENDING,
             BETSLIP_PROCESSING_VOIDED, STATUS_NOT_LOST_OR_WON, STATUS_LOST,
             STATUS_WON
  <2> QED
    BY <2>1, <2>2
<1>11. CASE UNCHANGED slip
  BY <1>11, <1>a
<1> QED
  BY <1>5, <1>6, <1>7, <1>8, <1>9, <1>10, <1>11, SlipSteps

(* The promises that decisions rest on last.                               *)
LEMMA PromisesLast ==
  ASSUME Typed, [Next]_vars, SlipsOK, JobSeenOK, NEW b \in Bets
  PROVE  /\ MayWin(b) => MayWin(b)'
         /\ MayLose(b) => MayLose(b)'
         /\ \A n : WonCounted(b, n) => WonCounted(b, n)'
         /\ \A n : VoidCounted(b, n) => VoidCounted(b, n)'
<1> SUFFICES ASSUME ~Exempt(b)'
             PROVE  /\ MayWin(b) => MayWin(b)'
                    /\ MayLose(b) => MayLose(b)'
                    /\ \A n : WonCounted(b, n) => WonCounted(b, n)'
                    /\ \A n : VoidCounted(b, n) => VoidCounted(b, n)'
  BY DEF MayWin, MayLose, WonCounted, VoidCounted
<1>1. /\ ~Exempt(b)
      /\ \A w : HalfSettled(b, w) => HalfSettled(b, w)'
  BY TypeStep, LetOffLasts DEF Typed
<1>2. ASSUME NEW p \in SlipsOf(b) PROVE p \in Slips /\ p[1] = b /\ Lasts(p)
  <2>1. p \in Slips /\ p[1] = b
    BY DEF SlipsOf
  <2> QED
    BY <2>1, RowStep DEF Fine
<1>3. ASSUME MayWin(b) PROVE MayWin(b)'
  <2>1. CASE HalfSettled(b, STATUS_WON)'
    BY <2>1 DEF MayWin
  <2>2. CASE ~HalfSettled(b, STATUS_WON)'
    <3>1. \A p \in SlipsOf(b) : HasWon(p)
      BY <1>1, <1>3, <2>2 DEF MayWin
    <3>2. ASSUME NEW p \in SlipsOf(b) PROVE HasWon(p)'
      BY <1>2, <2>2, <3>1 DEF HasWon, Lasts
    <3> QED
      BY <3>2 DEF MayWin, SlipsOf, Slips
  <2> QED
    BY <2>1, <2>2
<1>4. ASSUME MayLose(b) PROVE MayLose(b)'
  <2>1. CASE HalfSettled(b, STATUS_LOST)'
    BY <2>1 DEF MayLose
  <2>2. CASE ~HalfSettled(b, STATUS_LOST)'
    <3>1. PICK p \in SlipsOf(b) : HasLost(p)
      BY <1>1, <1>4, <2>2 DEF MayLose
    <3>2. HasLost(p)'
      BY <1>2, <2>2, <3>1 DEF Lasts, HasLost
    <3> QED
      BY <3>2 DEF MayLose, SlipsOf, Slips
  <2> QED
    BY <2>1, <2>2
<1>5. ASSUME NEW n, WonCounted(b, n) PROVE WonCounted(b, n)'
  <2>1. CASE HalfSettled(b, STATUS_WON)'
    BY <2>1 DEF WonCounted
  <2>2. CASE ~HalfSettled(b, STATUS_WON)'
    <3>1. PICK W \in SUBSET SlipsOf(b) :
            Cardinality(W) = n /\ \A p \in W : slip[p].won = STATUS_WON
      BY <1>1, <1>5, <2>2 DEF WonCounted
    <3>2. \A p \in W : slip'[p].won = STATUS_WON
      BY <1>2, <2>2, <3>1 DEF Lasts
    <3> QED
      BY <3>1, <3>2 DEF WonCounted, SlipsOf, Slips
  <2> QED
    BY <2>1, <2>2
<1>6. ASSUME NEW n, VoidCounted(b, n) PROVE VoidCounted(b, n)'
  <2>1. PICK V \in SUBSET SlipsOf(b) :
          /\ Cardinality(V) = n
          /\ \A p \in V : slip[p].status = BETSLIP_PROCESSING_VOIDED
    BY <1>1, <1>6 DEF VoidCounted
  <2>2. \A p \in V : slip'[p].status = BETSLIP_PROCESSING_VOIDED
    BY <1>2, <2>1 DEF Lasts
  <2> QED
    BY <2>1, <2>2 DEF VoidCounted, SlipsOf, Slips
<1> QED
  BY <1>3, <1>4, <1>5, <1>6

-----------------------------------------------------------------------------
(***************************************************************************)
(* The settlement job.                                                     *)
(***************************************************************************)

(* The steps that change what the job has read, or make it decide.         *)
LEMMA JobSteps ==
  JobOK /\ [Next]_vars =>
    /\ job'.seen = job.seen \/ job'.seen = {} \/ JobSlips
    /\ job'.at \in {"won", "lost"} => UNCHANGED job \/ JobSummary
<1> SUFFICES ASSUME JobOK, [Next]_vars
             PROVE  /\ job'.seen = job.seen \/ job'.seen = {} \/ JobSlips
                    /\ job'.at \in {"won", "lost"} =>
                         UNCHANGED job \/ JobSummary
  OBVIOUS
<1>0. job \in JobRow
  BY DEF JobOK
<1>1. CASE JobStep
  <2>1. ASSUME NEW l, JobGoto(l) PROVE job'.seen = job.seen /\ job'.at = l
    BY <1>0, <2>1 DEF JobGoto, JobRow
  <2>2. CASE JobSelect \/ JobMark
    BY <2>2 DEF JobSelect, JobMark, JobStart
  <2>3. CASE JobEnd \/ JobPayout \/ JobResult \/ JobClosure
    BY <2>1, <2>3 DEF JobEnd, JobPayout, JobResult, JobClosure
  <2>4. CASE JobBets
    BY <1>0, <2>4 DEF JobBets, JobRow
  <2>5. CASE JobSlips
    BY <1>0, <2>5 DEF JobSlips, JobRow
  <2>6. CASE JobBet
    <3>1. CASE job.bets = {} /\ JobGoto("mark")
      BY <2>1, <3>1
    <3>2. CASE \E x \in job.bets :
                 job' = [job EXCEPT !.bets = @ \ {x}, !.b = x.b, !.out = x.out,
                           !.todo = {y \in job.seen : y.p[1] = x.b},
                           !.at = "slip"]
      BY <1>0, <3>2 DEF JobRow
    <3> QED
      BY <2>6, <3>1, <3>2 DEF JobBet
  <2>7. CASE JobComplete
    BY <1>0, <2>7 DEF JobComplete, JobRow
  <2>8. CASE JobVoid
    BY <1>0, <2>8 DEF JobVoid, JobRow
  <2>9. CASE JobSummary
    BY <2>1, <2>9 DEF JobSummary
  <2> QED
    BY <1>1, <2>2, <2>3, <2>4, <2>5, <2>6, <2>7, <2>8, <2>9 DEF JobStep
<1>2. ASSUME NEW m \in Messages, Arrives(m) \/ Handle(m) PROVE UNCHANGED job
  BY <1>2 DEF Arrives, Handle, Settle, SettleUpsert, SettleFind, SettleSlips,
     Cancel, CancelSelect, CancelSlips, CancelSave, CancelBets, CancelRefund,
     Rollback, RollbackSelect, RollbackDelete, RollbackSave, RollbackSlips,
     RollbackBets, tasks
<1>3. CASE CloseListed \/ SweepStep \/ ResendSelect \/ ResendUpdate
  BY <1>3 DEF CloseListed, SweepStep, SweepSelect, SweepWon, SweepLost,
     SweepVoided, SweepLose, SweepClose, SweepEnd, ResendSelect,
     ResendUpdate, tasks
<1>4. ASSUME NEW a \in Manuals, ManualRead(a) \/ ManualStep(a)
      PROVE  UNCHANGED job
  BY <1>4 DEF ManualRead, ManualStep, ManualOdds, ManualSlip, tasks
<1>5. CASE Crash
  BY <1>5 DEF Crash, JobStart
<1>6. CASE UNCHANGED vars
  BY <1>6 DEF vars, tasks
<1> QED
  BY <1>1, <1>2, <1>3, <1>4, <1>5, <1>6 DEF Next

(* What the job has read stays so.                                         *)
LEMMA SeenStep ==
  ASSUME Typed, [Next]_vars, SlipsOK, JobSeenOK
  PROVE  JobSeenOK'
<1> SUFFICES ASSUME NEW y \in job'.seen, ~Exempt(y.p[1])' PROVE SeenOK(y)'
  BY DEF JobSeenOK
<1>1. CASE job'.seen = job.seen
  <2>1. y.p \in Slips /\ y.p[1] \in Bets /\ y \in job.seen
    BY <1>1 DEF Typed, JobOK, JobRow, SeenRow, Slips
  <2>2. /\ ~Exempt(y.p[1])
        /\ \A w : HalfSettled(y.p[1], w) => HalfSettled(y.p[1], w)'
    BY <2>1, TypeStep, LetOffLasts DEF Typed
  <2>3. SeenOK(y)
    BY <2>1, <2>2 DEF JobSeenOK
  <2>4. Lasts(y.p)
    BY <2>1, RowStep DEF Fine
  <2> QED
    BY <2>2, <2>3, <2>4 DEF SeenOK, Lasts
<1>2. CASE JobSlips
  <2>1. PICK p \in Slips : y = [p |-> p, won |-> slip[p].won,
                               void |-> slip[p].void, odd |-> slip[p].odd]
    <3> DEFINE S == {[p |-> p, won |-> slip[p].won, void |-> slip[p].void,
                      odd |-> slip[p].odd] :
                     p \in {q \in Slips : \E x \in job.bets : x.b = q[1]}}
    <3>1. job' = [job EXCEPT !.at = "bet", !.seen = S]
      BY <1>2 DEF JobSlips
    <3> HIDE DEF S
    <3>2. job'.seen = S
      BY <3>1 DEF Typed, JobOK, JobRow
    <3> QED
      BY <3>2 DEF S
  <2>2. slip' = slip
    BY <1>2 DEF JobSlips
  <2> QED
    BY <2>1, <2>2 DEF SeenOK, Annulled
<1>3. CASE job'.seen = {}
  BY <1>3
<1> QED
  BY <1>1, <1>2, <1>3, JobSteps DEF Typed

(* The job decides from slips it has read, all those of the bet.           *)
LEMMA SummaryDecides ==
  ASSUME Typed, JobSeenOK, JobSummary
  PROVE  /\ job'.at = "won"  => MayWin(job.b)
         /\ job'.at = "lost" => MayLose(job.b)
         /\ job'.b = job.b
<1> DEFINE S == SeenOf(job.b)
           hasVoid == \E y \in S : y.void
           won     == ~hasVoid /\ \A y \in S : y.won = STATUS_WON
           lost    == \/ ~hasVoid /\ \E y \in S : CountsAsLost(y.won)
                      \/ hasVoid /\ \A p \in SlipsOf(job.b) :
                           /\ slip[p].status # BETSLIP_PROCESSING_CANCELLED
                           /\ CountsAsLost(slip[p].won)
<1>1. job.b \in Bets /\ HasSeen(job.b) /\ job \in JobRow
  BY DEF Typed, JobOK, JobSummary, Deciding
<1>2. JobGoto(IF won THEN "won" ELSE IF lost THEN "lost" ELSE "bet")
  BY DEF JobSummary
<1>3. \A y \in S : y \in job.seen /\ y.p \in SlipsOf(job.b) /\ y.p[1] = job.b
  BY <1>1 DEF SeenOf, JobRow, SeenRow, SlipsOf
<1> HIDE DEF S
<1>4. ASSUME won PROVE MayWin(job.b)
  <2> SUFFICES ASSUME ~HalfSettled(job.b, STATUS_WON), ~Exempt(job.b),
                      NEW p \in SlipsOf(job.b)
               PROVE  slip[p].won = STATUS_WON
    BY DEF MayWin, HasWon
  <2>1. PICK y \in S : y.p = p
    BY <1>1 DEF HasSeen, S, SeenOf, SlipsOf
  <2>2. y.won = STATUS_WON /\ SeenOK(y)
    BY <1>3, <1>4, <2>1 DEF JobSeenOK
  <2> QED
    BY <1>3, <2>1, <2>2 DEF SeenOK
<1>5. ASSUME lost PROVE MayLose(job.b)
  <2> SUFFICES ASSUME ~HalfSettled(job.b, STATUS_LOST), ~Exempt(job.b)
               PROVE  \E p \in SlipsOf(job.b) : HasLost(p)
    BY DEF MayLose
  <2>1. ASSUME NEW w \in -1..2, CountsAsLost(w)
        PROVE  w = STATUS_LOST \/ w = BETSLIP_PROCESSING_COMPLETED
    BY <2>1 DEF CountsAsLost, STATUS_LOST, STATUS_WON,
       STATUS_NOT_LOST_OR_WON, BETSLIP_PROCESSING_COMPLETED
  <2>2. CASE \E y \in S : CountsAsLost(y.won)
    <3>1. PICK y \in S : CountsAsLost(y.won)
      BY <2>2
    <3>2. y.won \in -1..2 /\ SeenOK(y)
      BY <1>1, <1>3, <3>1 DEF JobSeenOK, JobRow, SeenRow
    <3> QED
      BY <1>3, <2>1, <3>1, <3>2 DEF SeenOK, HasLost
  <2>3. CASE \A p \in SlipsOf(job.b) : CountsAsLost(slip[p].won)
    <3>1. PICK o \in Picks[job.b] : o \in Outcomes
      BY <1>1, InstanceAssumption
    <3>2. <<job.b, o>> \in SlipsOf(job.b)
      BY <1>1, <3>1 DEF SlipsOf, Slips
    <3>3. slip[<<job.b, o>>].won \in -1..2
      BY <3>2 DEF Typed, TypeOK, SlipsOf
    <3> QED
      BY <2>1, <2>3, <3>2, <3>3 DEF HasLost, Annulled
  <2> QED
    BY <1>5, <2>2, <2>3
<1> HIDE DEF won, lost
<1>6. /\ job'.at = (IF won THEN "won" ELSE IF lost THEN "lost" ELSE "bet")
      /\ job'.b = job.b
  BY <1>1, <1>2 DEF JobGoto, JobRow
<1> QED
  BY <1>4, <1>5, <1>6

(* What the job has decided stays so.                                      *)
LEMMA JobDecidesStep ==
  ASSUME Typed, [Next]_vars, SlipsOK, JobSeenOK, JobDecides
  PROVE  JobDecides'
<1> SUFFICES ASSUME job'.at \in {"won", "lost"}
             PROVE  JobDecides'
  BY DEF JobDecides
<1>1. PICK b \in Bets : /\ b = job.b /\ b = job'.b
                        /\ job'.at = "won"  => MayWin(b)
                        /\ job'.at = "lost" => MayLose(b)
  <2>1. job'.b \in Bets
    BY TypeStep DEF Typed, JobOK, Deciding
  <2>2. CASE UNCHANGED job
    BY <2>1, <2>2 DEF JobDecides
  <2>3. CASE JobSummary
    BY <2>1, <2>3, SummaryDecides
  <2> QED
    BY <2>2, <2>3, JobSteps DEF Typed
<1>2. /\ job'.at = "won"  => MayWin(b)'
      /\ job'.at = "lost" => MayLose(b)'
  BY <1>1, PromisesLast
<1> QED
  BY <1>1, <1>2 DEF JobDecides

-----------------------------------------------------------------------------
(***************************************************************************)
(* The sweep.                                                              *)
(***************************************************************************)

(* The sweep's steps are its own.                                          *)
LEMMA SweepSteps ==
  [Next]_vars => UNCHANGED sweep \/ sweep' = SweepStart \/ SweepStep
<1> SUFFICES ASSUME [Next]_vars
             PROVE  UNCHANGED sweep \/ sweep' = SweepStart \/ SweepStep
  OBVIOUS
<1>1. ASSUME NEW m \in Messages, Arrives(m) \/ Handle(m) PROVE UNCHANGED sweep
  BY <1>1 DEF Arrives, Handle, Settle, SettleUpsert, SettleFind, SettleSlips,
     Cancel, CancelSelect, CancelSlips, CancelSave, CancelBets, CancelRefund,
     Rollback, RollbackSelect, RollbackDelete, RollbackSave, RollbackSlips,
     RollbackBets, tasks
<1>2. CASE JobStep \/ CloseListed \/ ResendSelect \/ ResendUpdate
  BY <1>2 DEF JobStep, JobSelect, JobEnd, JobBets, JobSlips, JobBet,
     JobComplete, JobVoid, JobPayout, JobSummary, JobResult, JobClosure,
     JobMark, CloseListed, ResendSelect, ResendUpdate, tasks
<1>3. ASSUME NEW a \in Manuals, ManualRead(a) \/ ManualStep(a)
      PROVE  UNCHANGED sweep
  BY <1>3 DEF ManualRead, ManualStep, ManualOdds, ManualSlip, tasks
<1>4. CASE Crash
  BY <1>4 DEF Crash
<1>5. CASE UNCHANGED vars
  BY <1>5 DEF vars, tasks
<1> QED
  BY <1>1, <1>2, <1>3, <1>4, <1>5 DEF Next

(* A positive count of lost slips is a slip that has lost.                 *)
LEMMA LostCount ==
  ASSUME NEW b \in Bets, Count(b, STATUS_LOST) > 0
  PROVE  MayLose(b)
<1> DEFINE S == {p \in SlipsOf(b) : slip[p].won = STATUS_LOST}
<1>1. S # {}
  BY FS_EmptySet DEF Count
<1> QED
  BY <1>1 DEF MayLose, HasLost

(* What the sweep has counted stays so.                                    *)
LEMMA SweepDecidesStep ==
  ASSUME Typed, [Next]_vars, SlipsOK, JobSeenOK, SweepDecides
  PROVE  SweepDecides'
<1>0. sweep \in SweepRow /\ SweepOK
  BY DEF Typed, SweepOK
<1>1. CASE sweep' = SweepStart
  BY <1>1 DEF SweepDecides, SweepStart
<1>2. CASE sweep'.at \in {"select", "won"}
  BY <1>2 DEF SweepDecides
<1>3. ASSUME NEW b \in Bets, sweep'.b = b,
             sweep'.at \in {"lost", "voided", "lose", "close"} =>
               WonCounted(b, sweep'.won),
             sweep'.at \in {"voided", "lose", "close"} /\ sweep'.lost > 0 =>
               MayLose(b),
             sweep'.at \in {"lose", "close"} => VoidCounted(b, sweep'.voided)
      PROVE  SweepDecides'
  <2>1. PICK n, v : n = sweep'.won /\ v = sweep'.voided
    OBVIOUS
  <2>2. /\ WonCounted(b, n) => WonCounted(b, n)'
        /\ VoidCounted(b, v) => VoidCounted(b, v)'
        /\ MayLose(b) => MayLose(b)'
    BY PromisesLast
  <2> QED
    BY <1>3, <2>1, <2>2 DEF SweepDecides
<1>4. CASE UNCHANGED sweep
  <2>1. CASE sweep.at \in {"select", "won"}
    BY <1>2, <1>4, <2>1
  <2>2. CASE sweep.at \in {"lost", "voided", "lose", "close"}
    <3>1. sweep.b \in Bets
      BY <1>0, <2>2 DEF SweepOK
    <3> QED
      BY <1>3, <1>4, <2>2, <3>1 DEF SweepDecides
  <2> QED
    BY <1>0, <2>1, <2>2 DEF SweepRow
<1>5. CASE SweepStep
  <2>1. CASE SweepSelect \/ SweepClose \/ SweepEnd
    <3>1. ASSUME NEW R, sweep' = [SweepStart EXCEPT !.at = "won", !.rows = R]
          PROVE  sweep'.at \in {"select", "won"}
      BY <3>1 DEF SweepStart
    <3>2. CASE SweepSelect
      BY <1>2, <3>1, <3>2 DEF SweepSelect
    <3>3. CASE SweepClose
      BY <1>2, <3>1, <3>3 DEF SweepClose
    <3>4. CASE SweepEnd
      BY <1>1, <3>4 DEF SweepEnd
    <3> QED
      BY <2>1, <3>2, <3>3, <3>4
  <2>2. CASE SweepWon
    <3>1. PICK b \in sweep.rows :
            sweep' = [sweep EXCEPT !.rows = @ \ {b}, !.b = b, !.at = "lost",
                                   !.won = Count(b, STATUS_WON)]
      BY <2>2 DEF SweepWon
    <3>2. b \in Bets /\ sweep'.b = b /\ sweep'.at = "lost"
          /\ sweep'.won = Count(b, STATUS_WON)
      BY <1>0, <3>1 DEF SweepRow
    <3>3. WonCounted(b, Count(b, STATUS_WON))
      <4> DEFINE W == {p \in SlipsOf(b) : slip[p].won = STATUS_WON}
      <4>1. W \in SUBSET SlipsOf(b) /\ Cardinality(W) = Count(b, STATUS_WON)
            /\ \A p \in W : slip[p].won = STATUS_WON
        BY DEF Count
      <4> QED
        BY <4>1 DEF WonCounted
    <3> QED
      BY <1>3, <3>2, <3>3
  <2>3. CASE SweepLost
    <3>1. sweep.at = "lost" /\ sweep.b \in Bets
      BY <1>0, <2>3 DEF SweepLost, SweepOK
    <3>2. sweep' = [sweep EXCEPT !.at = "voided",
                                 !.lost = Count(sweep.b, STATUS_LOST)]
      BY <2>3 DEF SweepLost
    <3>3. /\ sweep'.at = "voided" /\ sweep'.b = sweep.b
          /\ sweep'.won = sweep.won
          /\ sweep'.lost = Count(sweep.b, STATUS_LOST)
      BY <1>0, <3>2 DEF SweepRow
    <3>4. WonCounted(sweep.b, sweep.won)
      BY <3>1 DEF SweepDecides
    <3> QED
      BY <1>3, <3>1, <3>3, <3>4, LostCount
  <2>4. CASE SweepVoided
    <3> DEFINE V == {p \in SlipsOf(sweep.b) :
                       slip[p].status = BETSLIP_PROCESSING_VOIDED}
    <3>1. sweep.at = "voided" /\ sweep.b \in Bets
      BY <1>0, <2>4 DEF SweepVoided, SweepOK
    <3>2. sweep' = [sweep EXCEPT
                      !.at = IF sweep.lost > 0 THEN "lose" ELSE "close",
                      !.voided = Cardinality(V)]
      BY <2>4 DEF SweepVoided
    <3>3. VoidCounted(sweep.b, Cardinality(V))
      BY DEF VoidCounted
    <3> HIDE DEF V
    <3>4. /\ sweep'.at \in {"lose", "close"} /\ sweep'.b = sweep.b
          /\ sweep'.won = sweep.won /\ sweep'.lost = sweep.lost
          /\ sweep'.voided = Cardinality(V)
      BY <1>0, <3>2 DEF SweepRow
    <3>5. /\ WonCounted(sweep.b, sweep.won)
          /\ sweep.lost > 0 => MayLose(sweep.b)
      BY <3>1 DEF SweepDecides
    <3> QED
      BY <1>3, <3>1, <3>3, <3>4, <3>5
  <2>5. CASE SweepLose
    <3>1. sweep.at = "lose" /\ sweep.b \in Bets
      BY <1>0, <2>5 DEF SweepLose, SweepOK
    <3>2. /\ sweep'.at = "close" /\ sweep'.b = sweep.b
          /\ sweep'.won = sweep.won /\ sweep'.lost = sweep.lost
          /\ sweep'.voided = sweep.voided
      BY <1>0, <2>5 DEF SweepLose, SweepRow
    <3> QED
      BY <1>3, <3>1, <3>2 DEF SweepDecides
  <2> QED
    BY <1>5, <2>1, <2>2, <2>3, <2>4, <2>5 DEF SweepStep
<1> QED
  BY <1>1, <1>4, <1>5, SweepSteps

(* A bet whose won and void slips are all its slips has won.               *)
LEMMA AllWonWins ==
  ASSUME Typed, SlipsOK, SweepDecides, sweep.at = "close", AllWon
  PROVE  MayWin(sweep.b)
<1> SUFFICES ASSUME ~HalfSettled(sweep.b, STATUS_WON), ~Exempt(sweep.b)
             PROVE  \A p \in SlipsOf(sweep.b) : HasWon(p)
  BY DEF MayWin
<1> DEFINE S == SlipsOf(sweep.b)
<1>1. sweep.b \in Bets /\ sweep \in SweepRow
  BY DEF Typed, SweepOK
<1>2. PICK W \in SUBSET S :
        Cardinality(W) = sweep.won /\ \A p \in W : slip[p].won = STATUS_WON
  BY DEF SweepDecides, WonCounted
<1>3. PICK V \in SUBSET S :
        /\ Cardinality(V) = sweep.voided
        /\ \A p \in V : slip[p].status = BETSLIP_PROCESSING_VOIDED
  BY DEF SweepDecides, VoidCounted
<1>4. \A p \in V : slip[p].won = STATUS_NOT_LOST_OR_WON
  <2>1. \A p \in S : p \in Slips /\ p[1] = sweep.b
    BY DEF SlipsOf
  <2> QED
    BY <1>3, <2>1 DEF SlipsOK, RowOK
<1>5. W \cap V = {}
  BY <1>2, <1>4 DEF STATUS_NOT_LOST_OR_WON, STATUS_WON
<1>6. IsFiniteSet(S) /\ IsFiniteSet(W) /\ IsFiniteSet(V)
      /\ Cardinality(S) \in Nat
  BY <1>1, SlipsFinite
<1>7. Cardinality(W \cup V) = Cardinality(S)
  <2>1. Cardinality(W \cup V)
          = Cardinality(W) + Cardinality(V) - Cardinality(W \cap V)
    BY <1>6, FS_Union
  <2>2. Cardinality(W \cap V) = 0
    BY <1>5, FS_EmptySet
  <2>3. sweep.won \in Nat /\ sweep.voided \in Nat
        /\ sweep.won = Cardinality(S) - sweep.voided
    BY <1>1 DEF SweepRow, AllWon
  <2> QED
    BY <1>2, <1>3, <1>6, <2>1, <2>2, <2>3
<1>8. W \cup V = S
  BY <1>6, <1>7, FS_Subset
<1> QED
  BY <1>2, <1>3, <1>8 DEF HasWon

-----------------------------------------------------------------------------
(***************************************************************************)
(* The bets.                                                               *)
(***************************************************************************)

(* A bet is resulted, or paid, only by a job that has decided it.          *)
LEMMA ResultsDecided ==
  ASSUME Typed, [Next]_vars, SlipsOK, JobDecides, SweepDecides, BetsDecided,
         NEW b \in Bets
  PROVE  /\ bet'[b].won = STATUS_WON \/ Paid(b)' => MayWin(b)
         /\ bet'[b].won = STATUS_LOST => MayLose(b)
<1> DEFINE Good == /\ bet'[b].won = STATUS_WON \/ Paid(b)' => MayWin(b)
                   /\ bet'[b].won = STATUS_LOST => MayLose(b)
<1>0. /\ bet[b].won = STATUS_WON \/ Paid(b) => MayWin(b)
      /\ bet[b].won = STATUS_LOST => MayLose(b)
  BY DEF BetsDecided
<1>1. bet \in [Bets -> BetRow] /\ \A c \in Bets : bet[c] \in BetRow
  BY DEF Typed, TypeOK, BetRow
<1>a. ASSUME bet'[b].won = bet[b].won, winning' = winning PROVE Good
  BY <1>0, <1>a DEF Paid
<1>b. ASSUME NEW c, NEW s, NEW w, SetBet(c, s, w),
             \/ winning' = winning
             \/ \E O : winning' = winning \cup {<<c, O>>} /\ w = STATUS_WON,
             w \in {STATUS_WON, STATUS_LOST},
             b = c /\ w = STATUS_WON => MayWin(b),
             b = c /\ w = STATUS_LOST => MayLose(b)
      PROVE  Good
  <2>1. bet'[b].won = IF b = c THEN w ELSE bet[b].won
    BY <1>1, <1>b DEF SetBet, BetRow
  <2>2. Paid(b)' => Paid(b) \/ (b = c /\ w = STATUS_WON)
    BY <1>b DEF Paid
  <2> QED
    BY <1>0, <1>b, <2>1, <2>2
<1>c. ASSUME NEW c, Close(c), b = c => MayWin(b) PROVE Good
  <2>1. CASE UNCHANGED <<bet, winning>>
    BY <1>a, <2>1
  <2>2. CASE /\ SetBet(c, BET_WON, STATUS_WON)
             /\ winning' = winning \cup {<<c, bet[c].out>>}
    BY <1>b, <1>c, <2>2 DEF STATUS_WON, STATUS_LOST
  <2> QED
    BY <1>c, <2>1, <2>2 DEF Close
<1>d. ASSUME NEW c, NEW O, bet' = [bet EXCEPT ![c].out = O], winning' = winning
      PROVE  Good
  <2>1. bet'[b].won = bet[b].won
    BY <1>1, <1>d DEF BetRow
  <2> QED
    BY <1>a, <1>d, <2>1
<1>2. ASSUME NEW m \in Messages, CancelBets(m) PROVE Good
  <2>1. bet'[b].won = bet[b].won
    BY <1>1, <1>2 DEF CancelBets, BetRow
  <2> QED
    BY <1>2, <1>a, <2>1 DEF CancelBets, closing
<1>3. CASE JobPayout
  BY <1>3, <1>d DEF JobPayout, closing
<1>4. CASE JobResult
  <2>1. winning' = winning
    BY <1>4 DEF JobResult, closing
  <2>2. CASE job.at = "won" /\ SetBet(job.b, BET_PENDING, STATUS_WON)
    BY <1>b, <2>1, <2>2 DEF JobDecides, STATUS_WON, STATUS_LOST
  <2>3. ASSUME NEW s, job.at = "lost" /\ SetBet(job.b, s, STATUS_LOST)
        PROVE  Good
    BY <1>b, <2>1, <2>3 DEF JobDecides, STATUS_WON, STATUS_LOST
  <2> QED
    BY <1>4, <2>2, <2>3 DEF JobResult
<1>5. CASE CloseListed
  <2>1. PICK c \in closure : IF bet[c].won = STATUS_WON THEN Close(c)
                             ELSE UNCHANGED <<bet, winning>>
    BY <1>5 DEF CloseListed
  <2>2. CASE bet[c].won = STATUS_WON /\ Close(c)
    BY <1>0, <1>c, <2>2
  <2>3. CASE UNCHANGED <<bet, winning>>
    BY <1>a, <2>3
  <2> QED
    BY <2>1, <2>2, <2>3
<1>6. CASE SweepLose
  <2>1. MayLose(sweep.b)
    BY <1>6 DEF SweepLose, SweepDecides, Typed, SweepOK
  <2>2. SetBet(sweep.b, BET_LOST, STATUS_LOST) /\ winning' = winning
    BY <1>6 DEF SweepLose, closing
  <2> QED
    BY <1>b, <2>1, <2>2 DEF STATUS_WON, STATUS_LOST
<1>7. CASE SweepClose
  <2>1. CASE AllWon /\ Close(sweep.b)
    <3>1. MayWin(sweep.b)
      BY <1>7, <2>1, AllWonWins DEF SweepClose
    <3> QED
      BY <1>c, <2>1, <3>1
  <2>2. CASE UNCHANGED <<bet, winning>>
    BY <1>a, <2>2
  <2> QED
    BY <1>7, <2>1, <2>2 DEF SweepClose
<1>8. ASSUME NEW a \in Manuals, ManualOdds(a) PROVE Good
  BY <1>8, <1>d DEF ManualOdds, closing
<1>9. CASE UNCHANGED <<bet, winning>>
  BY <1>9, <1>a
<1> QED
  BY <1>2, <1>3, <1>4, <1>5, <1>6, <1>7, <1>8, <1>9, BetSteps

(* The decisions hold at first and are kept by every step.                 *)
LEMMA DecisionInit == Init => Decision
<1> SUFFICES ASSUME Init PROVE Decision
  OBVIOUS
<1>1. SlipsOK
  BY DEF Init, SlipsOK, RowOK, Annulled, BETSLIP_PROCESSING_PENDING,
         BETSLIP_PROCESSING_VOIDED, BETSLIP_PROCESSING_COMPLETED,
         STATUS_NOT_LOST_OR_WON
<1>2. JobSeenOK /\ JobDecides
  BY DEF Init, JobStart, JobSeenOK, JobDecides
<1>3. SweepDecides
  BY DEF Init, SweepStart, SweepDecides
<1>4. BetsDecided
  BY DEF Init, BetsDecided, Paid, STATUS_NOT_LOST_OR_WON, STATUS_WON,
         STATUS_LOST
<1> QED
  BY <1>1, <1>2, <1>3, <1>4 DEF Decision

(* Every step keeps the decisions.                                         *)
LEMMA DecisionStep == Typed /\ Decision /\ [Next]_vars => Decision'
<1> SUFFICES ASSUME Typed, Decision, [Next]_vars PROVE Decision'
  OBVIOUS
<1> USE DEF Decision
<1>1. SlipsOK'
  <2>1. ASSUME NEW p \in Slips PROVE Exempt(p[1])' \/ RowOK(p)'
    BY RowStep DEF Fine
  <2> QED
    BY <2>1 DEF SlipsOK, Slips
<1>2. JobSeenOK'
  BY SeenStep
<1>3. JobDecides' /\ SweepDecides'
  BY JobDecidesStep, SweepDecidesStep
<1>4. BetsDecided'
  <2>1. ASSUME NEW b \in Bets
        PROVE  /\ bet'[b].won = STATUS_WON \/ Paid(b)' => MayWin(b)'
               /\ bet'[b].won = STATUS_LOST => MayLose(b)'
    BY ResultsDecided, PromisesLast
  <2> QED
    BY <2>1 DEF BetsDecided
<1> QED
  BY <1>1, <1>2, <1>3, <1>4

(* The decisions hold always.                                              *)
LEMMA DecisionAlways == Spec => []Decision
<1>1. Typed /\ Decision /\ [Next]_vars => (Typed /\ Decision)'
  BY TypeStep, DecisionStep
<1>2. Init => Typed /\ Decision
  BY TypeInit, DecisionInit
<1> QED
  BY <1>1, <1>2, PTL DEF Spec

(* A bet is resulted as won, or paid, only when every slip has won or is   *)
(* void, whatever the feed, the jobs, the manual updates and crashes do.   *)
THEOREM Winners == Spec => []WonBetsHaveWon
<1>1. Decision => WonBetsHaveWon
  BY DEF Decision, BetsDecided, MayWin, HasWon, Exempt, WonBetsHaveWon
<1> QED
  BY <1>1, DecisionAlways, PTL

(* A bet is resulted as lost only when some slip has lost or was voided by *)
(* hand, whatever the feed, the jobs, the manual updates and crashes do.   *)
THEOREM Losers == Spec => []LostBetsHaveLost
<1>1. Decision => LostBetsHaveLost
  BY DEF Decision, BetsDecided, MayLose, HasLost, Exempt, LostBetsHaveLost
<1> QED
  BY <1>1, DecisionAlways, PTL
=============================================================================
