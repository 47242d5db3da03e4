--------------------------- MODULE SettlingProofs ---------------------------
(***************************************************************************)
(* Proofs about Settling, for any number of bets, slips of a bet, messages *)
(* of each kind, manual updates and crashes.                               *)
(***************************************************************************)
EXTENDS Settling, FiniteSetTheorems, TLAPS

(***************************************************************************)
(* The messages.  What a message says stays as it is once it was sent.     *)
(***************************************************************************)
Labels == {"unsent", "upsert", "find", "slips", "select", "save", "bets",
           "refund", "delete", "acked"}

FeedRow == [at : Labels, key : Outcomes \cup Markets \cup {"none"},
            won : {STATUS_LOST, STATUS_WON}, void : BOOLEAN,
            id : 0..MaxIds, bets : SUBSET Bets, ids : SUBSET Bets]

KeysOf(m) == IF m \in Settles THEN Outcomes ELSE Markets

FeedOK ==
  /\ feed \in [Messages -> FeedRow]
  /\ \A m \in Messages :
       IF feed[m].at = "unsent" THEN feed[m].key = "none" /\ ~feed[m].void
                                ELSE feed[m].key \in KeysOf(m)

FeedKeeps ==
  \A m \in Messages : feed[m].at # "unsent" =>
    /\ feed'[m].at # "unsent" /\ feed'[m].key = feed[m].key
    /\ feed'[m].won = feed[m].won /\ feed'[m].void = feed[m].void

(* A message that moves on is a message.                                   *)
LEMMA RowMoves ==
  ASSUME FeedOK, NEW m \in Messages, NEW r \in FeedRow,
         r.at # "unsent", r.key \in KeysOf(m),
         feed[m].at # "unsent" => /\ r.key = feed[m].key
                                  /\ r.won = feed[m].won
                                  /\ r.void = feed[m].void,
         feed' = [feed EXCEPT ![m] = r]
  PROVE  FeedOK' /\ FeedKeeps
<1>1. feed'[m] = r /\ \A n \in Messages \ {m} : feed'[n] = feed[n]
  BY DEF FeedOK
<1>2. feed' \in [Messages -> FeedRow]
  BY DEF FeedOK
<1> HIDE DEF FeedRow
<1>3. ASSUME NEW n \in Messages
      PROVE  IF feed'[n].at = "unsent"
               THEN feed'[n].key = "none" /\ ~feed'[n].void
               ELSE feed'[n].key \in KeysOf(n)
  BY <1>1 DEF FeedOK
<1>4. FeedKeeps
  BY <1>1 DEF FeedKeeps
<1> QED
  BY <1>2, <1>3, <1>4 DEF FeedOK, KeysOf

(* A handler that goes on or ends says what it said.                       *)
LEMMA GotoOK ==
  ASSUME FeedOK, NEW m \in Messages, feed[m].at # "unsent",
         (\E l \in Labels \ {"unsent"} : Goto(m, l)) \/ Ack(m)
  PROVE  FeedOK' /\ FeedKeeps
<1>1. feed[m] \in FeedRow
  BY DEF FeedOK
<1>2. ASSUME NEW l \in Labels \ {"unsent"}, Goto(m, l)
      PROVE  FeedOK' /\ FeedKeeps
  <2> DEFINE r == [feed[m] EXCEPT !.at = l]
  <2>1. feed' = [feed EXCEPT ![m] = r]
    BY <1>2 DEF Goto
  <2>2. r \in FeedRow /\ r.at = l /\ r.key = feed[m].key
        /\ r.won = feed[m].won /\ r.void = feed[m].void
    BY <1>1 DEF FeedRow
  <2>3. feed[m].key \in KeysOf(m)
    BY DEF FeedOK
  <2> HIDE DEF r
  <2> QED
    BY <2>1, <2>2, <2>3, RowMoves
<1>3. ASSUME Ack(m) PROVE FeedOK' /\ FeedKeeps
  <2> DEFINE r == [feed[m] EXCEPT !.at = "acked", !.id = 0, !.ids = {}]
  <2>1. feed' = [feed EXCEPT ![m] = r]
    BY <1>3 DEF Ack
  <2>2. r \in FeedRow /\ r.at = "acked" /\ r.key = feed[m].key
        /\ r.won = feed[m].won /\ r.void = feed[m].void
    <3>1. 0 \in 0..MaxIds /\ "acked" \in Labels /\ {} \in SUBSET Bets
      BY InstanceAssumption DEF Labels
    <3> QED
      BY <1>1, <3>1 DEF FeedRow
  <2>3. feed[m].key \in KeysOf(m)
    BY DEF FeedOK
  <2> HIDE DEF r
  <2> QED
    BY <2>1, <2>2, <2>3, RowMoves
<1> QED
  BY <1>2, <1>3

(* Every step keeps the messages and what they say.                        *)
LEMMA FeedStep ==
  FeedOK /\ (\A o \in Outcomes : settlement[o] \in 0..MaxIds) /\ [Next]_vars =>
    FeedOK' /\ FeedKeeps
<1> SUFFICES ASSUME FeedOK, \A o \in Outcomes : settlement[o] \in 0..MaxIds,
                    [Next]_vars
             PROVE  FeedOK' /\ FeedKeeps
  OBVIOUS
<1>a. ASSUME UNCHANGED feed PROVE FeedOK' /\ FeedKeeps
  BY <1>a DEF FeedOK, FeedKeeps
<1>b. \A m \in Messages : feed[m] \in FeedRow
  BY DEF FeedOK
<1>1. ASSUME NEW m \in Messages, Arrives(m) PROVE FeedOK' /\ FeedKeeps
  <2>1. CASE SettleArrives(m)
    <3>1. PICK p \in Slips, w \in {STATUS_LOST, STATUS_WON}, v \in BOOLEAN :
            feed' = [feed EXCEPT ![m] =
                       [@ EXCEPT !.at = "upsert", !.key = p[2], !.won = w,
                                 !.void = v]]
      BY <2>1 DEF SettleArrives
    <3> DEFINE r == [feed[m] EXCEPT !.at = "upsert", !.key = p[2], !.won = w,
                                    !.void = v]
    <3>2. p[2] \in Outcomes /\ m \in Settles /\ feed[m].at = "unsent"
      BY <2>1 DEF Slips, SettleArrives, At
    <3>3. r \in FeedRow /\ r.at = "upsert" /\ r.key = p[2]
      BY <1>b, <3>2 DEF FeedRow, Labels
    <3>4. feed' = [feed EXCEPT ![m] = r]
      BY <3>1
    <3> HIDE DEF r
    <3> QED
      BY <3>2, <3>3, <3>4, RowMoves DEF KeysOf
  <2>2. CASE RegradeArrives(m)
    <3>1. PICK k \in Markets, W \in SUBSET Bets :
            feed' = [feed EXCEPT ![m] =
                       [@ EXCEPT !.at = "select", !.key = k, !.bets = W]]
      BY <2>2 DEF RegradeArrives
    <3> DEFINE r == [feed[m] EXCEPT !.at = "select", !.key = k, !.bets = W]
    <3>2. m \notin Settles /\ feed[m].at = "unsent"
      BY <2>2, InstanceAssumption DEF RegradeArrives, At
    <3>3. r \in FeedRow /\ r.at = "select" /\ r.key = k
      BY <1>b, <3>2 DEF FeedRow, Labels
    <3>4. feed' = [feed EXCEPT ![m] = r]
      BY <3>1
    <3> HIDE DEF r
    <3> QED
      BY <3>2, <3>3, <3>4, RowMoves DEF KeysOf
  <2> QED
    BY <1>1, <2>1, <2>2 DEF Arrives
<1>2. ASSUME NEW m \in Messages, Settle(m) PROVE FeedOK' /\ FeedKeeps
  <2>1. CASE SettleUpsert(m)
    BY <2>1, GotoOK DEF SettleUpsert, At, Labels
  <2>2. CASE SettleFind(m)
    <3> DEFINE id == settlement[feed[m].key]
               l  == IF id = 0 THEN "upsert" ELSE "slips"
               r  == [feed[m] EXCEPT !.at = l, !.id = id]
    <3>1. feed[m].key \in Outcomes /\ feed[m].at # "unsent"
      BY <2>2 DEF SettleFind, At, FeedOK, KeysOf
    <3>2. id \in 0..MaxIds /\ l \in Labels \ {"unsent"}
      BY <3>1 DEF Labels
    <3>3. feed' = [feed EXCEPT ![m] = r]
      BY <2>2 DEF SettleFind
    <3> HIDE DEF id, l
    <3>4. r \in FeedRow /\ r.at = l /\ r.key = feed[m].key
          /\ r.won = feed[m].won /\ r.void = feed[m].void
      BY <1>b, <3>2 DEF FeedRow
    <3>5. feed[m].key \in KeysOf(m)
      BY <3>1 DEF FeedOK
    <3> HIDE DEF r
    <3> QED
      BY <3>2, <3>3, <3>4, <3>5, RowMoves
  <2>3. CASE SettleSlips(m)
    BY <2>3, GotoOK DEF SettleSlips, At
  <2> QED
    BY <1>2, <2>1, <2>2, <2>3 DEF Settle
<1>3. ASSUME NEW m \in Messages, Cancel(m) PROVE FeedOK' /\ FeedKeeps
  <2>1. CASE CancelSelect(m)
    <3> DEFINE B == {p[1] : p \in Cancellable(m)} \cap feed[m].bets
               r == [feed[m] EXCEPT !.at = "slips", !.ids = B]
    <3>1. B \in SUBSET Bets /\ "slips" \in Labels
      BY <1>b DEF FeedRow, Labels
    <3>2. feed' = [feed EXCEPT ![m] = r] /\ feed[m].at # "unsent"
      BY <2>1 DEF CancelSelect, At
    <3> HIDE DEF B
    <3>3. r \in FeedRow /\ r.at = "slips" /\ r.key = feed[m].key
          /\ r.won = feed[m].won /\ r.void = feed[m].void
      BY <1>b, <3>1 DEF FeedRow
    <3>4. feed[m].key \in KeysOf(m)
      BY <3>2 DEF FeedOK
    <3> HIDE DEF r
    <3> QED
      BY <3>2, <3>3, <3>4, RowMoves
  <2>2. CASE CancelSlips(m)
    BY <2>2, GotoOK DEF CancelSlips, At, Labels
  <2>3. CASE CancelSave(m)
    BY <2>3, GotoOK DEF CancelSave, At, Labels
  <2>4. CASE CancelBets(m)
    BY <2>4, GotoOK DEF CancelBets, At, Labels
  <2>5. CASE CancelRefund(m)
    BY <2>5, GotoOK DEF CancelRefund, At
  <2> QED
    BY <1>3, <2>1, <2>2, <2>3, <2>4, <2>5 DEF Cancel
<1>4. ASSUME NEW m \in Messages, Rollback(m) PROVE FeedOK' /\ FeedKeeps
  <2>1. feed[m].at # "unsent"
    BY <1>4 DEF Rollback, RollbackSelect, RollbackDelete, RollbackSave,
                RollbackSlips, RollbackBets, At
  <2>2. (\E l \in Labels \ {"unsent"} : Goto(m, l)) \/ Ack(m)
    BY <1>4 DEF Rollback, RollbackSelect, RollbackDelete, RollbackSave,
                RollbackSlips, RollbackBets, Labels
  <2> QED
    BY <2>1, <2>2, GotoOK
<1>5. CASE JobStep \/ CloseListed \/ SweepStep \/ ResendSelect \/ ResendUpdate
  BY <1>5, <1>a DEF JobStep, JobSelect, JobEnd, JobBets, JobSlips, JobBet,
       JobComplete, JobVoid, JobPayout, JobSummary, JobResult, JobClosure,
       JobMark, CloseListed, SweepStep, SweepSelect, SweepWon, SweepLost,
       SweepVoided, SweepLose, SweepClose, SweepEnd, ResendSelect,
       ResendUpdate
<1>6. ASSUME NEW a \in Manuals, ManualRead(a) \/ ManualStep(a)
      PROVE  FeedOK' /\ FeedKeeps
  BY <1>6, <1>a DEF ManualRead, ManualStep, ManualOdds, ManualSlip
<1>7. CASE Crash
  <2>1. ASSUME NEW m \in Messages
        PROVE  /\ feed'[m] \in FeedRow
               /\ feed[m].at = "unsent" => feed'[m] = feed[m]
               /\ feed[m].at # "unsent" =>
                    /\ feed'[m].at # "unsent" /\ feed'[m].key = feed[m].key
                    /\ feed'[m].won = feed[m].won
                    /\ feed'[m].void = feed[m].void
    <3>1. CASE feed[m].at \in {"unsent", "acked"}
      BY <1>7, <1>b, <3>1 DEF Crash
    <3>2. CASE feed[m].at \notin {"unsent", "acked"}
      <4>1. feed'[m] = [feed[m] EXCEPT !.at = FirstStatement(m)]
        BY <1>7, <3>2 DEF Crash
      <4>2. FirstStatement(m) \in Labels \ {"unsent"}
        BY DEF FirstStatement, Labels
      <4> QED
        BY <1>b, <3>2, <4>1, <4>2 DEF FeedRow
    <3> QED
      BY <3>1, <3>2
  <2>2. DOMAIN feed' = Messages /\ feed' = [m \in Messages |-> feed'[m]]
    BY <1>7 DEF Crash
  <2> HIDE DEF FeedRow
  <2>3. feed' \in [Messages -> FeedRow]
    BY <2>1, <2>2
  <2>4. \A m \in Messages :
          IF feed'[m].at = "unsent" THEN feed'[m].key = "none" /\ ~feed'[m].void
                                    ELSE feed'[m].key \in KeysOf(m)
    BY <2>1 DEF FeedOK
  <2>5. FeedKeeps
    BY <2>1 DEF FeedKeeps
  <2> QED
    BY <2>3, <2>4, <2>5 DEF FeedOK, KeysOf
<1>8. CASE UNCHANGED vars
  BY <1>8, <1>a DEF vars
<1> QED
  BY <1>1, <1>2, <1>3, <1>4, <1>5, <1>6, <1>7, <1>8 DEF Next, Handle

-----------------------------------------------------------------------------
(***************************************************************************)
(* The jobs and the manual updates.  The settlement job has read all slips *)
(* of a bet it decides.                                                    *)
(***************************************************************************)
SeenRow == [p : Slips, won : -1..2, void : BOOLEAN, odd : {"placed", "void"}]
BetRead == [b : Bets, out : SUBSET Outcomes]

JobRow == [at : {"select", "next", "slips", "bet", "slip", "payout", "won",
                 "lost", "closure", "mark"},
           ids : SUBSET (1..MaxIds), id : 0..MaxIds, bets : SUBSET BetRead,
           seen : SUBSET SeenRow, b : Bets \cup {"none"},
           todo : SUBSET SeenRow, out : SUBSET Outcomes]

Deciding == {"slip", "payout", "won", "lost", "closure"}

HasSeen(b) == \A p \in SlipsOf(b) : \E y \in job.seen : y.p = p

JobOK ==
  /\ job \in JobRow
  /\ job.at \notin {"select", "next"} => job.id # 0
  /\ job.at \in Deciding =>
       job.b \in Bets /\ HasSeen(job.b) /\ job.todo \subseteq job.seen
  /\ job.at \in Deciding \cup {"bet"} => \A x \in job.bets : HasSeen(x.b)

SweepRow == [at : {"select", "won", "lost", "voided", "lose", "close"},
             rows : SUBSET Bets, b : Bets \cup {"none"}, won : Nat,
             lost : Nat, voided : Nat]

SweepOK ==
  /\ sweep \in SweepRow
  /\ sweep.at \in {"lost", "voided", "lose", "close"} => sweep.b \in Bets
  /\ sweep.at = "lose" => sweep.lost > 0

ManualRec == [at : {"unsent", "bet", "slip", "done"}, p : Slips \cup {<<>>},
              to : {"none", "won", "lost", "void", "pending"},
              out : SUBSET Outcomes, over : BOOLEAN]

ManualOK ==
  /\ manual \in [Manuals -> ManualRec]
  /\ \A a \in Manuals :
       /\ manual[a].over => manual[a].at = "done"
       /\ manual[a].at # "unsent" =>
            /\ manual[a].p \in Slips
            /\ manual[a].to \in {"won", "lost", "void", "pending"}

Typed == TypeOK /\ FeedOK /\ JobOK /\ SweepOK /\ ManualOK

(* Every step keeps the settlement job.                                    *)
LEMMA JobTypeStep == Typed /\ [Next]_vars => JobOK'
<1> SUFFICES ASSUME Typed, [Next]_vars PROVE JobOK'
  OBVIOUS
<1>0. TypeOK /\ JobOK /\ job \in JobRow
  BY DEF Typed, JobOK
<1>a. ASSUME UNCHANGED job PROVE JobOK'
  BY <1>0, <1>a DEF JobOK, HasSeen
<1>b. JobStart \in JobRow
  BY InstanceAssumption DEF JobStart, JobRow
<1>c. ASSUME NEW l \in Deciding \cup {"select", "bet", "mark"}, JobGoto(l),
             l \in Deciding \cup {"bet"} => job.at \in Deciding,
             l = "mark" => job.at = "bet"
      PROVE  JobOK'
  <2>1. job' = [job EXCEPT !.at = l]
    BY <1>c DEF JobGoto
  <2>2. job' \in JobRow /\ job'.at = l /\ job'.bets = job.bets
        /\ job'.id = job.id
        /\ job'.seen = job.seen /\ job'.b = job.b /\ job'.todo = job.todo
    BY <1>0, <2>1 DEF JobRow, Deciding
  <2> QED
    BY <1>0, <1>c, <2>2 DEF JobOK, HasSeen, Deciding
<1>1. ASSUME JobStep PROVE JobOK'
  <2>1. CASE JobSelect
    <3> DEFINE I == {settlement[o] : o \in Outcomes} \ ({0} \cup processed)
    <3>1. I \subseteq 1..MaxIds
      BY <1>0, InstanceAssumption DEF TypeOK
    <3>2. job' = [JobStart EXCEPT !.at = "next", !.ids = I]
      BY <2>1 DEF JobSelect
    <3> HIDE DEF I
    <3> QED
      BY <1>b, <3>1, <3>2 DEF JobOK, JobRow, JobStart, Deciding
  <2>2. CASE JobEnd
    BY <2>2, <1>c DEF JobEnd, Deciding
  <2>3. CASE JobBets
    <3>1. PICK id \in job.ids, B \in SUBSET Bets, l \in {"mark", "slips"} :
            job' = [job EXCEPT !.ids = @ \ {id}, !.id = id,
                      !.bets = {[b |-> b, out |-> bet[b].out] : b \in B},
                      !.at = l]
      <4>1. PICK id \in job.ids :
              LET B == {b \in Accepted :
                          /\ bet[b].status \in {BET_PENDING, BET_LOST}
                          /\ Unresulted(b)
                          /\ \E p \in SlipsOf(b) : slip[p].settlement = id}
              IN  job' = [job EXCEPT !.ids = @ \ {id}, !.id = id,
                           !.bets = {[b |-> b, out |-> bet[b].out] : b \in B},
                           !.at = IF B = {} THEN "mark" ELSE "slips"]
        BY <2>3 DEF JobBets
      <4> DEFINE B == {b \in Accepted :
                         /\ bet[b].status \in {BET_PENDING, BET_LOST}
                         /\ Unresulted(b)
                         /\ \E p \in SlipsOf(b) : slip[p].settlement = id}
      <4>2. B \in SUBSET Bets
        BY InstanceAssumption
      <4>3. (IF B = {} THEN "mark" ELSE "slips") \in {"mark", "slips"}
        OBVIOUS
      <4> QED
        BY <4>1, <4>2, <4>3
    <3> DEFINE S == {[b |-> b, out |-> bet[b].out] : b \in B}
    <3>2. S \subseteq BetRead
      BY <1>0 DEF BetRead, TypeOK
    <3>3. id \in 0..MaxIds /\ id # 0 /\ job.ids \ {id} \subseteq 1..MaxIds
      BY <1>0, InstanceAssumption DEF JobRow
    <3>4. job' = [job EXCEPT !.ids = @ \ {id}, !.id = id, !.bets = S, !.at = l]
      BY <3>1
    <3> HIDE DEF S
    <3> QED
      BY <1>0, <3>2, <3>3, <3>4 DEF JobOK, JobRow, Deciding
  <2>4. CASE JobSlips
    <3> DEFINE P == {q \in Slips : \E x \in job.bets : x.b = q[1]}
               S == {[p |-> p, won |-> slip[p].won, void |-> slip[p].void,
                      odd |-> slip[p].odd] : p \in P}
    <3>1. S \subseteq SeenRow
      BY <1>0 DEF SeenRow, TypeOK
    <3>2. job' = [job EXCEPT !.at = "bet", !.seen = S]
      BY <2>4 DEF JobSlips
    <3>3. ASSUME NEW x \in job.bets, NEW p \in SlipsOf(x.b)
          PROVE  \E y \in S : y.p = p
      <4> DEFINE y == [p |-> p, won |-> slip[p].won, void |-> slip[p].void,
                       odd |-> slip[p].odd]
      <4>1. p \in P
        BY DEF SlipsOf
      <4>2. y \in S /\ y.p = p
        BY <4>1
      <4> QED
        BY <4>2
    <3> HIDE DEF S
    <3>4. job' \in JobRow /\ job'.at = "bet" /\ job'.seen = S
          /\ job'.bets = job.bets /\ job'.id = job.id
          /\ job.at = "slips"
      BY <1>0, <2>4, <3>1, <3>2 DEF JobRow, JobSlips
    <3> QED
      BY <1>0, <3>3, <3>4 DEF JobOK, HasSeen, Deciding
  <2>5. CASE JobBet
    <3>1. job.at = "bet"
      BY <2>5 DEF JobBet
    <3>2. ASSUME job.bets = {}, JobGoto("mark") PROVE JobOK'
      BY <1>c, <3>1, <3>2 DEF Deciding
    <3>3. ASSUME NEW x \in job.bets,
                 job' = [job EXCEPT !.bets = @ \ {x}, !.b = x.b, !.out = x.out,
                           !.todo = {y \in job.seen : y.p[1] = x.b},
                           !.at = "slip"]
          PROVE  JobOK'
      <4> DEFINE T == {y \in job.seen : y.p[1] = x.b}
                 B == job.bets \ {x}
      <4>1. /\ x.b \in Bets /\ x.out \subseteq Outcomes
            /\ T \subseteq SeenRow /\ T \subseteq job.seen
            /\ B \subseteq BetRead /\ B \subseteq job.bets
        BY <1>0 DEF JobRow, BetRead
      <4>2. job' = [job EXCEPT !.bets = B, !.b = x.b, !.out = x.out,
                               !.todo = T, !.at = "slip"]
        BY <3>3
      <4> HIDE DEF T, B
      <4>3. /\ job' \in JobRow /\ job'.at = "slip" /\ job'.b = x.b
            /\ job'.seen = job.seen /\ job'.bets = B /\ job'.todo = T
        BY <1>0, <4>1, <4>2 DEF JobRow
      <4>5. job'.id = job.id
        BY <1>0, <4>2 DEF JobRow
      <4>4. \A z \in job.bets : HasSeen(z.b)
        BY <1>0, <3>1 DEF JobOK
      <4> QED
        BY <1>0, <3>1, <3>3, <4>1, <4>3, <4>4, <4>5
           DEF JobOK, HasSeen, Deciding
    <3> QED
      BY <2>5, <3>2, <3>3 DEF JobBet
  <2>6. CASE JobComplete
    <3> DEFINE T == job.todo \ {y \in job.todo : ~y.void}
    <3>1. job' = [job EXCEPT !.todo = T] /\ job.at = "slip"
      BY <2>6 DEF JobComplete
    <3>2. T \subseteq job.todo
      OBVIOUS
    <3> HIDE DEF T
    <3>3. /\ job' \in JobRow /\ job'.at = "slip" /\ job'.b = job.b
          /\ job'.seen = job.seen /\ job'.bets = job.bets
          /\ job'.todo \subseteq job.todo /\ job'.id = job.id
      BY <1>0, <3>1, <3>2 DEF JobRow
    <3> QED
      BY <1>0, <3>1, <3>3 DEF JobOK, HasSeen, Deciding
  <2>7. CASE JobVoid
    <3>1. PICK y \in job.todo :
            job' = [job EXCEPT !.todo = @ \ {y}, !.at = "payout",
                      !.out = IF y.odd = "placed" THEN @ \cup {y.p[2]} ELSE @]
      BY <2>7 DEF JobVoid
    <3> DEFINE T == job.todo \ {y}
               O == IF y.odd = "placed" THEN job.out \cup {y.p[2]} ELSE job.out
    <3>2. T \subseteq job.todo /\ O \subseteq Outcomes /\ job.at = "slip"
      BY <1>0, <2>7 DEF JobRow, SeenRow, Slips, JobVoid
    <3>3. job' = [job EXCEPT !.todo = T, !.at = "payout", !.out = O]
      BY <3>1
    <3> HIDE DEF T, O
    <3>4. /\ job' \in JobRow /\ job'.at = "payout" /\ job'.b = job.b
          /\ job'.seen = job.seen /\ job'.bets = job.bets
          /\ job'.todo \subseteq job.todo /\ job'.id = job.id
      BY <1>0, <3>2, <3>3 DEF JobRow
    <3> QED
      BY <1>0, <3>2, <3>4 DEF JobOK, HasSeen, Deciding
  <2>8. CASE JobPayout
    BY <2>8, <1>c DEF JobPayout, Deciding
  <2>9. CASE JobSummary
    <3>1. PICK l \in {"won", "lost", "bet"} : JobGoto(l)
      BY <2>9 DEF JobSummary
    <3> QED
      BY <2>9, <3>1, <1>c DEF JobSummary, Deciding
  <2>10. CASE JobResult
    BY <2>10, <1>c DEF JobResult, Deciding
  <2>11. CASE JobClosure
    BY <2>11, <1>c DEF JobClosure, Deciding
  <2>12. CASE JobMark
    BY <2>12, <1>0, <1>b DEF JobMark, JobOK, JobRow, JobStart, Deciding
  <2> QED
    BY <1>1, <2>1, <2>2, <2>3, <2>4, <2>5, <2>6, <2>7, <2>8, <2>9, <2>10,
       <2>11, <2>12 DEF JobStep
<1>2. ASSUME NEW m \in Messages, Arrives(m) \/ Handle(m) PROVE JobOK'
  BY <1>2, <1>a DEF Arrives, Handle, Settle, SettleUpsert, SettleFind,
     SettleSlips, Cancel, CancelSelect, CancelSlips, CancelSave, CancelBets,
     CancelRefund, Rollback, RollbackSelect, RollbackDelete, RollbackSave,
     RollbackSlips, RollbackBets, tasks
<1>3. CASE CloseListed \/ SweepStep \/ ResendSelect \/ ResendUpdate
  BY <1>3, <1>a DEF CloseListed, SweepStep, SweepSelect, SweepWon, SweepLost,
     SweepVoided, SweepLose, SweepClose, SweepEnd, ResendSelect,
     ResendUpdate, tasks
<1>4. ASSUME NEW a \in Manuals, ManualRead(a) \/ ManualStep(a) PROVE JobOK'
  BY <1>4, <1>a DEF ManualRead, ManualStep, ManualOdds, ManualSlip, tasks
<1>5. CASE Crash
  BY <1>5, <1>b DEF Crash, JobOK, JobStart, Deciding
<1>6. CASE UNCHANGED vars
  BY <1>6, <1>a DEF vars, tasks
<1> QED
  BY <1>1, <1>2, <1>3, <1>4, <1>5, <1>6 DEF Next

(* The counts of the sweep are numbers: a bet has finitely many slips.     *)
LEMMA SlipsFinite ==
  \A b \in Bets : /\ IsFiniteSet(SlipsOf(b))
                  /\ \A S \in SUBSET SlipsOf(b) :
                       IsFiniteSet(S) /\ Cardinality(S) \in Nat
<1> SUFFICES ASSUME NEW b \in Bets
             PROVE  /\ IsFiniteSet(SlipsOf(b))
                    /\ \A S \in SUBSET SlipsOf(b) :
                         IsFiniteSet(S) /\ Cardinality(S) \in Nat
  OBVIOUS
<1>1. IsFiniteSet({b} \X Outcomes)
  BY FS_Singleton, FS_Product, InstanceAssumption
<1>2. SlipsOf(b) \subseteq {b} \X Outcomes
  BY DEF SlipsOf, Slips
<1>3. IsFiniteSet(SlipsOf(b))
  BY <1>1, <1>2, FS_Subset
<1>4. \A S \in SUBSET SlipsOf(b) : IsFiniteSet(S)
  BY <1>3, FS_Subset
<1> QED
  BY <1>3, <1>4, FS_CardinalityType

(* Every step keeps the sweep.                                             *)
LEMMA SweepTypeStep == Typed /\ [Next]_vars => SweepOK'
<1> SUFFICES ASSUME Typed, [Next]_vars PROVE SweepOK'
  OBVIOUS
<1>0. SweepOK /\ sweep \in SweepRow
  BY DEF Typed, SweepOK
<1>a. ASSUME UNCHANGED sweep PROVE SweepOK'
  BY <1>0, <1>a DEF SweepOK
<1>b. SweepStart \in SweepRow
  BY DEF SweepStart, SweepRow
<1>c. ASSUME NEW b \in Bets, NEW w PROVE Count(b, w) \in Nat
  <2>1. {p \in SlipsOf(b) : slip[p].won = w} \in SUBSET SlipsOf(b)
    OBVIOUS
  <2> QED
    BY <2>1, SlipsFinite DEF Count
<1>1. ASSUME SweepStep PROVE SweepOK'
  <2>1. CASE SweepSelect
    <3> DEFINE R == {b \in Bets :
                       /\ bet[b].status = BET_PENDING /\ Unresulted(b)
                       /\ \E p \in SlipsOf(b) :
                            slip[p].status # BETSLIP_PROCESSING_PENDING}
    <3>1. sweep' = [SweepStart EXCEPT !.at = "won", !.rows = R]
          /\ R \subseteq Bets
      BY <2>1 DEF SweepSelect
    <3> HIDE DEF R
    <3> QED
      BY <1>b, <3>1 DEF SweepOK, SweepRow
  <2>2. CASE SweepWon
    <3>1. PICK b \in sweep.rows :
            sweep' = [sweep EXCEPT !.rows = @ \ {b}, !.b = b, !.at = "lost",
                                   !.won = Count(b, STATUS_WON)]
      BY <2>2 DEF SweepWon
    <3>2. b \in Bets /\ Count(b, STATUS_WON) \in Nat
      BY <1>0, <1>c DEF SweepRow
    <3> QED
      BY <1>0, <3>1, <3>2 DEF SweepOK, SweepRow
  <2>3. CASE SweepLost
    <3>1. sweep.b \in Bets
      BY <1>0, <2>3 DEF SweepLost, SweepOK
    <3>2. Count(sweep.b, STATUS_LOST) \in Nat
      BY <1>c, <3>1
    <3> QED
      BY <1>0, <2>3, <3>1, <3>2 DEF SweepLost, SweepOK, SweepRow
  <2>4. CASE SweepVoided
    <3> DEFINE V == {p \in SlipsOf(sweep.b) :
                       slip[p].status = BETSLIP_PROCESSING_VOIDED}
    <3>1. sweep.b \in Bets
      BY <1>0, <2>4 DEF SweepVoided, SweepOK
    <3>2. Cardinality(V) \in Nat
      <4>1. V \in SUBSET SlipsOf(sweep.b)
        OBVIOUS
      <4> QED
        BY <3>1, <4>1, SlipsFinite
    <3>3. sweep' = [sweep EXCEPT
                      !.at = IF sweep.lost > 0 THEN "lose" ELSE "close",
                      !.voided = Cardinality(V)]
      BY <2>4 DEF SweepVoided
    <3> HIDE DEF V
    <3> QED
      BY <1>0, <3>1, <3>2, <3>3 DEF SweepOK, SweepRow
  <2>5. CASE SweepLose
    BY <1>0, <2>5 DEF SweepLose, SweepOK, SweepRow
  <2>6. CASE SweepClose
    BY <1>0, <1>b, <2>6 DEF SweepClose, SweepOK, SweepRow
  <2>7. CASE SweepEnd
    BY <1>b, <2>7 DEF SweepEnd, SweepOK, SweepStart
  <2> QED
    BY <1>1, <2>1, <2>2, <2>3, <2>4, <2>5, <2>6, <2>7 DEF SweepStep
<1>2. ASSUME NEW m \in Messages, Arrives(m) \/ Handle(m) PROVE SweepOK'
  BY <1>2, <1>a DEF Arrives, Handle, Settle, SettleUpsert, SettleFind,
     SettleSlips, Cancel, CancelSelect, CancelSlips, CancelSave, CancelBets,
     CancelRefund, Rollback, RollbackSelect, RollbackDelete, RollbackSave,
     RollbackSlips, RollbackBets, tasks
<1>3. CASE JobStep \/ CloseListed \/ ResendSelect \/ ResendUpdate
  BY <1>3, <1>a DEF JobStep, JobSelect, JobEnd, JobBets, JobSlips, JobBet,
     JobComplete, JobVoid, JobPayout, JobSummary, JobResult, JobClosure,
     JobMark, CloseListed, ResendSelect, ResendUpdate, tasks
<1>4. ASSUME NEW a \in Manuals, ManualRead(a) \/ ManualStep(a) PROVE SweepOK'
  BY <1>4, <1>a DEF ManualRead, ManualStep, ManualOdds, ManualSlip, tasks
<1>5. CASE Crash
  BY <1>5, <1>b DEF Crash, SweepOK, SweepStart
<1>6. CASE UNCHANGED vars
  BY <1>6, <1>a DEF vars, tasks
<1> QED
  BY <1>1, <1>2, <1>3, <1>4, <1>5, <1>6 DEF Next

(* What a manual update is about, and that it overruled, stays.            *)
ManualKeeps ==
  \A a \in Manuals :
    /\ manual[a].at # "unsent" => manual'[a].p = manual[a].p
    /\ manual[a].over => manual'[a].over /\ manual'[a].p = manual[a].p

(* Every step keeps the manual updates.                                    *)
LEMMA ManualTypeStep == Typed /\ [Next]_vars => ManualOK' /\ ManualKeeps
<1> SUFFICES ASSUME Typed, [Next]_vars PROVE ManualOK' /\ ManualKeeps
  OBVIOUS
<1>0. TypeOK /\ ManualOK /\ \A a \in Manuals : manual[a] \in ManualRec
  BY DEF Typed, ManualOK
<1>a. ASSUME UNCHANGED manual PROVE ManualOK' /\ ManualKeeps
  BY <1>0, <1>a DEF ManualOK, ManualKeeps
<1>b. ASSUME NEW a \in Manuals, NEW r \in ManualRec,
             r.at # "unsent" /\ r.p \in Slips /\ r.to # "none",
             r.over => r.at = "done",
             manual[a].at # "unsent" => r.p = manual[a].p,
             manual[a].over => r.over,
             manual' = [manual EXCEPT ![a] = r]
      PROVE  ManualOK' /\ ManualKeeps
  <2>1. manual' \in [Manuals -> ManualRec]
    BY <1>0, <1>b DEF ManualOK
  <2>2. manual'[a] = r /\ \A d \in Manuals \ {a} : manual'[d] = manual[d]
    BY <1>0, <1>b DEF ManualOK
  <2>3. r.to \in {"won", "lost", "void", "pending"}
    BY <1>b DEF ManualRec
  <2> HIDE DEF ManualRec
  <2>4. ASSUME NEW d \in Manuals
        PROVE  /\ manual'[d].over => manual'[d].at = "done"
               /\ manual'[d].at # "unsent" =>
                    /\ manual'[d].p \in Slips
                    /\ manual'[d].to \in {"won", "lost", "void", "pending"}
    BY <1>0, <1>b, <2>2, <2>3 DEF ManualOK
  <2>5. ManualKeeps
    BY <1>0, <1>b, <2>2 DEF ManualKeeps, ManualOK
  <2> QED
    BY <2>1, <2>4, <2>5 DEF ManualOK
<1>1. ASSUME NEW a \in Manuals, ManualRead(a) PROVE ManualOK' /\ ManualKeeps
  <2>1. PICK p \in Slips, to \in {"won", "lost", "void", "pending"} :
          manual' = [manual EXCEPT ![a] =
                       [@ EXCEPT !.at = IF to = "void" THEN "bet" ELSE "slip",
                          !.p = p, !.to = to,
                          !.out = bet[p[1]].out \cup IF slip[p].odd = "placed"
                                                      THEN {p[2]} ELSE {}]]
    BY <1>1 DEF ManualRead
  <2> DEFINE l == IF to = "void" THEN "bet" ELSE "slip"
             O == bet[p[1]].out \cup IF slip[p].odd = "placed" THEN {p[2]}
                                                              ELSE {}
             r == [manual[a] EXCEPT !.at = l, !.p = p, !.to = to, !.out = O]
  <2>2. manual' = [manual EXCEPT ![a] = r]
    BY <2>1
  <2>3. p[1] \in Bets /\ p[2] \in Outcomes
    BY DEF Slips
  <2>4. O \subseteq Outcomes /\ l \in {"bet", "slip"}
    BY <1>0, <2>3 DEF TypeOK
  <2>5. manual[a].at = "unsent" /\ ~manual[a].over
    BY <1>0, <1>1 DEF ManualRead, ManualAt, ManualOK
  <2> HIDE DEF l, O
  <2>6. r \in ManualRec /\ r.at = l /\ r.p = p /\ r.to = to
        /\ r.over = manual[a].over
    BY <1>0, <2>4 DEF ManualRec
  <2> HIDE DEF r
  <2> QED
    BY <1>b, <2>2, <2>4, <2>5, <2>6
<1>2. ASSUME NEW a \in Manuals, ManualStep(a) PROVE ManualOK' /\ ManualKeeps
  <2>0. /\ manual[a].at \in {"bet", "slip"} /\ manual[a].p \in Slips
        /\ manual[a].to # "none" /\ ~manual[a].over
    BY <1>0, <1>2 DEF ManualStep, ManualOdds, ManualSlip, ManualAt, ManualOK
  <2>1. CASE ManualOdds(a)
    <3> DEFINE r == [manual[a] EXCEPT !.at = "slip"]
    <3>1. manual' = [manual EXCEPT ![a] = r]
      BY <2>1 DEF ManualOdds
    <3>2. r \in ManualRec /\ r.at = "slip" /\ r.p = manual[a].p
          /\ r.to = manual[a].to /\ r.over = manual[a].over
      BY <1>0 DEF ManualRec
    <3> HIDE DEF r
    <3> QED
      BY <1>b, <2>0, <3>1, <3>2
  <2>2. CASE ManualSlip(a)
    <3> DEFINE o == slip[manual[a].p].status # BETSLIP_PROCESSING_PENDING
               r == [manual[a] EXCEPT !.at = "done", !.out = {}, !.over = o]
    <3>1. manual' = [manual EXCEPT ![a] = r]
      BY <2>2 DEF ManualSlip
    <3>2. r \in ManualRec /\ r.at = "done" /\ r.p = manual[a].p
          /\ r.to = manual[a].to /\ r.over = o
      BY <1>0 DEF ManualRec
    <3> HIDE DEF r
    <3> QED
      BY <1>b, <2>0, <3>1, <3>2
  <2> QED
    BY <1>2, <2>1, <2>2 DEF ManualStep
<1>3. ASSUME NEW m \in Messages, Arrives(m) \/ Handle(m)
      PROVE  ManualOK' /\ ManualKeeps
  BY <1>3, <1>a DEF Arrives, Handle, Settle, SettleUpsert, SettleFind,
     SettleSlips, Cancel, CancelSelect, CancelSlips, CancelSave, CancelBets,
     CancelRefund, Rollback, RollbackSelect, RollbackDelete, RollbackSave,
     RollbackSlips, RollbackBets, outside
<1>4. CASE JobStep \/ CloseListed \/ SweepStep \/ ResendSelect \/ ResendUpdate
  BY <1>4, <1>a DEF JobStep, JobSelect, JobEnd, JobBets, JobSlips, JobBet,
     JobComplete, JobVoid, JobPayout, JobSummary, JobResult, JobClosure,
     JobMark, CloseListed, SweepStep, SweepSelect, SweepWon, SweepLost,
     SweepVoided, SweepLose, SweepClose, SweepEnd, ResendSelect,
     ResendUpdate, outside
<1>5. CASE Crash
  <2>1. ASSUME NEW a \in Manuals
        PROVE  /\ manual'[a] \in ManualRec /\ manual'[a].p = manual[a].p
               /\ manual'[a].to = manual[a].to
               /\ manual'[a].over = manual[a].over
               /\ manual'[a].at = "unsent" <=> manual[a].at = "unsent"
               /\ manual[a].at = "done" => manual'[a].at = "done"
    BY <1>0, <1>5 DEF Crash, ManualAt, ManualRec
  <2>2. manual' = [a \in Manuals |-> manual'[a]]
    BY <1>5 DEF Crash
  <2> HIDE DEF ManualRec
  <2>3. manual' \in [Manuals -> ManualRec]
    BY <2>1, <2>2
  <2> QED
    BY <1>0, <2>1, <2>3 DEF ManualOK, ManualKeeps
<1>6. CASE UNCHANGED vars
  BY <1>6, <1>a DEF vars, outside
<1> QED
  BY <1>1, <1>2, <1>3, <1>4, <1>5, <1>6 DEF Next

-----------------------------------------------------------------------------
(***************************************************************************)
(* The tables.                                                             *)
(***************************************************************************)

(* The statements that write bet_slip.                                     *)
LEMMA SlipSteps ==
  [Next]_vars =>
    \/ UNCHANGED slip
    \/ \E m \in Messages : SettleSlips(m) \/ CancelSlips(m) \/ RollbackSlips(m)
    \/ JobComplete \/ JobVoid
    \/ \E a \in Manuals : ManualSlip(a)
<1> SUFFICES ASSUME [Next]_vars,
                    \A m \in Messages :
                      ~SettleSlips(m) /\ ~CancelSlips(m) /\ ~RollbackSlips(m),
                    ~JobComplete, ~JobVoid, \A a \in Manuals : ~ManualSlip(a)
             PROVE  UNCHANGED slip
  OBVIOUS
<1>1. ASSUME NEW m \in Messages, Arrives(m) \/ Handle(m) PROVE UNCHANGED slip
  BY <1>1 DEF Arrives, Handle, Settle, SettleUpsert, SettleFind, Cancel,
     CancelSelect, CancelSave, CancelBets, CancelRefund, Rollback,
     RollbackSelect, RollbackDelete, RollbackSave, RollbackBets
<1>2. CASE JobStep \/ CloseListed \/ SweepStep \/ ResendSelect \/ ResendUpdate
  BY <1>2 DEF JobStep, JobSelect, JobEnd, JobBets, JobSlips, JobBet,
     JobPayout, JobSummary, JobResult, JobClosure, JobMark, CloseListed,
     SweepStep, SweepSelect, SweepWon, SweepLost, SweepVoided, SweepLose,
     SweepClose, SweepEnd, ResendSelect, ResendUpdate
<1>3. ASSUME NEW a \in Manuals, ManualRead(a) \/ ManualStep(a)
      PROVE  UNCHANGED slip
  BY <1>3 DEF ManualRead, ManualStep, ManualOdds
<1>4. CASE Crash \/ UNCHANGED vars
  BY <1>4 DEF Crash, vars
<1> QED
  BY <1>1, <1>2, <1>3, <1>4 DEF Next

(* The statements that write bet or winning.                               *)
LEMMA BetSteps ==
  [Next]_vars =>
    \/ UNCHANGED <<bet, winning>>
    \/ \E m \in Messages : CancelBets(m)
    \/ JobPayout \/ JobResult \/ CloseListed \/ SweepLose \/ SweepClose
    \/ \E a \in Manuals : ManualOdds(a)
<1> SUFFICES ASSUME [Next]_vars, \A m \in Messages : ~CancelBets(m),
                    ~JobPayout, ~JobResult, ~CloseListed, ~SweepLose,
                    ~SweepClose, \A a \in Manuals : ~ManualOdds(a)
             PROVE  UNCHANGED <<bet, winning>>
  OBVIOUS
<1>1. ASSUME NEW m \in Messages, Arrives(m) \/ Handle(m)
      PROVE  UNCHANGED <<bet, winning>>
  BY <1>1 DEF Arrives, Handle, Settle, SettleUpsert, SettleFind, SettleSlips,
     Cancel, CancelSelect, CancelSlips, CancelSave, CancelRefund, Rollback,
     RollbackSelect, RollbackDelete, RollbackSave, RollbackSlips,
     RollbackBets, closing
<1>2. CASE JobStep \/ SweepStep \/ ResendSelect \/ ResendUpdate
  BY <1>2 DEF JobStep, JobSelect, JobEnd, JobBets, JobSlips, JobBet,
     JobComplete, JobVoid, JobSummary, JobClosure, JobMark, SweepStep,
     SweepSelect, SweepWon, SweepLost, SweepVoided, SweepEnd, ResendSelect,
     ResendUpdate, closing
<1>3. ASSUME NEW a \in Manuals, ManualRead(a) \/ ManualStep(a)
      PROVE  UNCHANGED <<bet, winning>>
  BY <1>3 DEF ManualRead, ManualStep, ManualSlip, closing
<1>4. CASE Crash \/ UNCHANGED vars
  BY <1>4 DEF Crash, vars, closing
<1> QED
  BY <1>1, <1>2, <1>3, <1>4 DEF Next

SlipRow == [status : -1..3, void : BOOLEAN, won : -1..2,
            odd : {"placed", "void"}, settlement : 0..MaxIds]
BetRow  == [status : BetStatuses, won : WonStatuses, out : SUBSET Outcomes]

(* A row of bet_slip with other values in its columns is a row.            *)
LEMMA SlipRowChanges ==
  ASSUME NEW r \in SlipRow, NEW s \in -1..3, NEW w \in -1..2
  PROVE  /\ [r EXCEPT !.status = s] \in SlipRow
         /\ [r EXCEPT !.won = w, !.status = s] \in SlipRow
         /\ [r EXCEPT !.won = w, !.status = s, !.odd = "void"] \in SlipRow
         /\ [r EXCEPT !.status = s, !.won = w, !.odd = "void"] \in SlipRow
         /\ \A i \in 0..MaxIds :
              /\ [r EXCEPT !.status = s, !.won = w, !.settlement = i]
                   \in SlipRow
              /\ \A v \in BOOLEAN :
                   [r EXCEPT !.status = s, !.won = w, !.void = v,
                             !.settlement = i] \in SlipRow
BY DEF SlipRow

(* The codes are what the columns may hold.                                *)
LEMMA Codes ==
  /\ {BETSLIP_PROCESSING_CANCELLED, BETSLIP_PROCESSING_PENDING,
      BETSLIP_PROCESSING_SETTLED, BETSLIP_PROCESSING_COMPLETED,
      BETSLIP_PROCESSING_VOIDED, STATUS_NOT_LOST_OR_WON, STATUS_LOST,
      STATUS_WON} \subseteq -1..3
  /\ {STATUS_NOT_LOST_OR_WON, STATUS_LOST, STATUS_WON,
      BETSLIP_PROCESSING_COMPLETED} \subseteq -1..2
BY DEF BETSLIP_PROCESSING_CANCELLED, BETSLIP_PROCESSING_PENDING,
       BETSLIP_PROCESSING_SETTLED, BETSLIP_PROCESSING_COMPLETED,
       BETSLIP_PROCESSING_VOIDED, STATUS_NOT_LOST_OR_WON, STATUS_LOST,
       STATUS_WON

(* Every step keeps the slips.                                             *)
LEMMA SlipTypeStep == Typed /\ [Next]_vars => slip' \in [Slips -> SlipRow]
<1> SUFFICES ASSUME Typed, [Next]_vars PROVE slip' \in [Slips -> SlipRow]
  OBVIOUS
<1>0. slip \in [Slips -> SlipRow] /\ FeedOK /\ ManualOK
  BY DEF Typed, TypeOK, SlipRow
<1>b. ASSUME NEW p \in Slips PROVE slip[p] \in SlipRow
  BY <1>0
<1> HIDE DEF SlipRow
<1>1. ASSUME NEW m \in Messages, SettleSlips(m)
      PROVE  slip' \in [Slips -> SlipRow]
  <2>1. /\ feed[m].won \in {STATUS_LOST, STATUS_WON}
        /\ feed[m].void \in BOOLEAN /\ feed[m].id \in 0..MaxIds
    BY <1>0 DEF FeedOK, FeedRow
  <2>2. ASSUME NEW p \in Slips
        PROVE  [slip[p] EXCEPT !.status = BETSLIP_PROCESSING_SETTLED,
                               !.won = feed[m].won, !.void = feed[m].void,
                               !.settlement = feed[m].id] \in SlipRow
    BY <1>b, <2>1, Codes, SlipRowChanges
  <2> QED
    BY <1>0, <1>1, <2>2 DEF SettleSlips
<1>2. ASSUME NEW m \in Messages, CancelSlips(m)
      PROVE  slip' \in [Slips -> SlipRow]
  <2>1. ASSUME NEW p \in Slips
        PROVE  [slip[p] EXCEPT !.status = BETSLIP_PROCESSING_CANCELLED]
                 \in SlipRow
    BY <1>b, Codes, SlipRowChanges
  <2> QED
    BY <1>0, <1>2, <2>1 DEF CancelSlips
<1>3. ASSUME NEW m \in Messages, RollbackSlips(m)
      PROVE  slip' \in [Slips -> SlipRow]
  <2>0. 0 \in 0..MaxIds
    BY InstanceAssumption
  <2>1. ASSUME NEW p \in Slips
        PROVE  [slip[p] EXCEPT !.status = BETSLIP_PROCESSING_PENDING,
                               !.won = STATUS_NOT_LOST_OR_WON,
                               !.settlement = 0] \in SlipRow
    BY <1>b, <2>0, Codes, SlipRowChanges
  <2> QED
    BY <1>0, <1>3, <2>1 DEF RollbackSlips
<1>4. CASE JobComplete
  <2>1. ASSUME NEW p \in Slips
        PROVE  [slip[p] EXCEPT !.status = BETSLIP_PROCESSING_COMPLETED]
                 \in SlipRow
    BY <1>b, Codes, SlipRowChanges
  <2> QED
    BY <1>0, <1>4, <2>1 DEF JobComplete
<1>5. CASE JobVoid
  <2>1. ASSUME NEW p \in Slips
        PROVE  [slip[p] EXCEPT !.status = BETSLIP_PROCESSING_VOIDED,
                               !.won = STATUS_NOT_LOST_OR_WON,
                               !.odd = "void"] \in SlipRow
    BY <1>b, Codes, SlipRowChanges
  <2>2. PICK y : slip' = [slip EXCEPT ![y.p] =
                     IF Settled(y.p)
                       THEN [@ EXCEPT !.status = BETSLIP_PROCESSING_VOIDED,
                                      !.won = STATUS_NOT_LOST_OR_WON,
                                      !.odd = "void"]
                       ELSE @]
    BY <1>5 DEF JobVoid
  <2> QED
    BY <1>0, <2>1, <2>2
<1>6. ASSUME NEW a \in Manuals, ManualSlip(a)
      PROVE  slip' \in [Slips -> SlipRow]
  <2>1. ASSUME NEW p \in Slips
        PROVE  ManualRow(slip[p], manual[a].to) \in SlipRow
    <3>1. manual[a].to \in {"won", "lost", "void", "pending"}
      BY <1>0, <1>6 DEF ManualSlip, ManualAt, ManualOK
    <3> QED
      BY <1>b, <3>1, Codes, SlipRowChanges DEF ManualRow
  <2>2. slip' = [slip EXCEPT ![manual[a].p] = ManualRow(@, manual[a].to)]
    BY <1>6 DEF ManualSlip
  <2> QED
    BY <1>0, <2>1, <2>2
<1>7. CASE UNCHANGED slip
  BY <1>0, <1>7
<1> QED
  BY <1>1, <1>2, <1>3, <1>4, <1>5, <1>6, <1>7, SlipSteps

WinningOK == /\ winning \subseteq Bets \X SUBSET Outcomes
             /\ \A v, w \in winning : v[1] = w[1] => v = w

(* Every step keeps the bets and the winnings.                             *)
LEMMA BetTypeStep ==
  Typed /\ [Next]_vars => bet' \in [Bets -> BetRow] /\ WinningOK'
<1> DEFINE Good == bet' \in [Bets -> BetRow] /\ WinningOK'
<1> SUFFICES ASSUME Typed, [Next]_vars PROVE Good
  OBVIOUS
<1>0. bet \in [Bets -> BetRow] /\ WinningOK /\ JobOK /\ ManualOK
  BY DEF Typed, TypeOK, BetRow, WinningOK
<1>a. ASSUME NEW b, NEW s \in BetStatuses, NEW w \in WonStatuses,
             SetBet(b, s, w)
      PROVE  bet' \in [Bets -> BetRow]
  BY <1>0, <1>a DEF SetBet, BetRow
<1>b. ASSUME NEW b, NEW O \in SUBSET Outcomes,
             bet' = [bet EXCEPT ![b].out = O]
      PROVE  bet' \in [Bets -> BetRow]
  BY <1>0, <1>b DEF BetRow
<1>c. ASSUME UNCHANGED winning PROVE WinningOK'
  BY <1>0, <1>c DEF WinningOK
<1>d. ASSUME NEW b \in Bets, Close(b) PROVE Good
  <2>1. CASE UNCHANGED <<bet, winning>>
    BY <1>0, <1>c, <2>1
  <2>2. CASE /\ ~Paid(b) /\ SetBet(b, BET_WON, STATUS_WON)
             /\ winning' = winning \cup {<<b, bet[b].out>>}
    <3>1. bet' \in [Bets -> BetRow]
      BY <1>a, <2>2 DEF BetStatuses, WonStatuses
    <3>2. bet[b].out \in SUBSET Outcomes
      BY <1>0 DEF BetRow
    <3>3. \A w \in winning : w[1] # b
      BY <2>2 DEF Paid
    <3>4. WinningOK'
      BY <1>0, <2>2, <3>2, <3>3 DEF WinningOK
    <3> QED
      BY <3>1, <3>4
  <2> QED
    BY <1>d, <2>1, <2>2 DEF Close
<1>1. ASSUME NEW m \in Messages, CancelBets(m) PROVE Good
  <2>1. \A b \in Bets : [bet[b] EXCEPT !.status = BET_CANCELLED] \in BetRow
    BY <1>0 DEF BetRow, BetStatuses
  <2>2. bet' \in [Bets -> BetRow]
    BY <1>0, <1>1, <2>1 DEF CancelBets
  <2> QED
    BY <1>1, <1>c, <2>2 DEF CancelBets, closing
<1>2. CASE JobPayout
  BY <1>0, <1>2, <1>b, <1>c DEF JobPayout, JobOK, JobRow, closing
<1>3. CASE JobResult
  <2>1. PICK s \in BetStatuses, w \in WonStatuses : SetBet(job.b, s, w)
    BY <1>3 DEF JobResult, BetStatuses, WonStatuses
  <2> QED
    BY <1>3, <1>a, <1>c, <2>1 DEF JobResult, closing
<1>4. CASE CloseListed
  <2>1. PICK b \in closure : IF bet[b].won = STATUS_WON THEN Close(b)
                             ELSE UNCHANGED <<bet, winning>>
    BY <1>4 DEF CloseListed
  <2>2. b \in Bets
    BY DEF Typed, TypeOK
  <2> QED
    BY <1>0, <1>c, <1>d, <2>1, <2>2
<1>5. CASE SweepLose
  BY <1>5, <1>a, <1>c DEF SweepLose, BetStatuses, WonStatuses, closing
<1>6. CASE SweepClose
  <2>1. sweep.b \in Bets
    BY <1>6 DEF SweepClose, Typed, SweepOK
  <2> QED
    BY <1>0, <1>c, <1>d, <1>6, <2>1 DEF SweepClose
<1>7. ASSUME NEW a \in Manuals, ManualOdds(a) PROVE Good
  <2>1. manual[a].out \in SUBSET Outcomes
    BY <1>0 DEF ManualOK, ManualRec
  <2> QED
    BY <1>7, <1>b, <1>c, <2>1 DEF ManualOdds, closing
<1>8. CASE UNCHANGED <<bet, winning>>
  BY <1>0, <1>8, <1>c
<1> QED
  BY <1>1, <1>2, <1>3, <1>4, <1>5, <1>6, <1>7, <1>8, BetSteps

SettlementOK ==
  /\ settlement \in [Outcomes -> 0..MaxIds]
  /\ processed \subseteq {settlement[o] : o \in Outcomes} \ {0}

(* Every step keeps the settlements: only those of an outcome are          *)
(* processed, as a rollback deletes the row with its flag.                 *)
LEMMA SettlementTypeStep == Typed /\ [Next]_vars => SettlementOK'
<1> SUFFICES ASSUME Typed, [Next]_vars PROVE SettlementOK'
  OBVIOUS
<1>0. SettlementOK /\ FeedOK
  BY DEF Typed, TypeOK, SettlementOK
<1>a. ASSUME UNCHANGED settlements PROVE SettlementOK'
  BY <1>0, <1>a DEF SettlementOK, settlements
<1>1. ASSUME NEW m \in Messages, Arrives(m) PROVE SettlementOK'
  BY <1>1, <1>a DEF Arrives
<1>2. ASSUME NEW m \in Messages, Settle(m) PROVE SettlementOK'
  <2>1. CASE SettleUpsert(m)
    <3>1. CASE UNCHANGED settlement
      BY <1>0, <2>1, <3>1 DEF SettleUpsert, SettlementOK
    <3>2. CASE \E i \in 1..MaxIds : /\ settlement[feed[m].key] = 0
                 /\ settlement' = [settlement EXCEPT ![feed[m].key] = i]
      <4>1. PICK i \in 1..MaxIds : /\ settlement[feed[m].key] = 0
                 /\ settlement' = [settlement EXCEPT ![feed[m].key] = i]
        BY <3>2
      <4>2. processed' = processed
        BY <2>1 DEF SettleUpsert
      <4>3. settlement' \in [Outcomes -> 0..MaxIds]
        <5>1. i \in 0..MaxIds
          <6>1. MaxIds \in Nat
            BY InstanceAssumption
          <6> QED
            BY <6>1
        <5> DEFINE Ids == 0..MaxIds
        <5>2. i \in Ids /\ settlement \in [Outcomes -> Ids]
          BY <1>0, <5>1 DEF SettlementOK
        <5> HIDE DEF Ids
        <5>3. settlement' \in [Outcomes -> Ids]
          BY <4>1, <5>2
        <5> QED
          BY <5>3 DEF Ids
      <4>4. ASSUME NEW i0 \in processed
            PROVE  i0 \in {settlement'[o] : o \in Outcomes} \ {0}
        <5>1. PICK o \in Outcomes : settlement[o] = i0 /\ i0 # 0
          BY <1>0 DEF SettlementOK
        <5>2. settlement'[o] = i0
          BY <1>0, <4>1, <5>1 DEF SettlementOK
        <5> QED
          BY <5>1, <5>2
      <4> QED
        BY <4>2, <4>3, <4>4 DEF SettlementOK
    <3> QED
      BY <2>1, <3>1, <3>2 DEF SettleUpsert
  <2>2. CASE SettleFind(m) \/ SettleSlips(m)
    BY <2>2, <1>a DEF SettleFind, SettleSlips
  <2> QED
    BY <1>2, <2>1, <2>2 DEF Settle
<1>3. ASSUME NEW m \in Messages, Cancel(m) PROVE SettlementOK'
  BY <1>3, <1>a DEF Cancel, CancelSelect, CancelSlips, CancelSave,
                    CancelBets, CancelRefund
<1>4. ASSUME NEW m \in Messages, Rollback(m) PROVE SettlementOK'
  <2>1. CASE RollbackDelete(m)
    <3> DEFINE D == {o \in Outcomes : MarketOf[o] = feed[m].key}
    <3>1. /\ settlement' = [o \in Outcomes |->
                              IF o \in D THEN 0 ELSE settlement[o]]
          /\ processed' = processed \ {settlement[o] : o \in D}
      BY <2>1 DEF RollbackDelete
    <3>2. settlement' \in [Outcomes -> 0..MaxIds]
      BY <1>0, <3>1, InstanceAssumption DEF SettlementOK
    <3>3. ASSUME NEW i \in processed'
          PROVE  i \in {settlement'[o] : o \in Outcomes} \ {0}
      <4>1. PICK o \in Outcomes : settlement[o] = i /\ i # 0 /\ o \notin D
        BY <1>0, <3>1 DEF SettlementOK
      <4>2. settlement'[o] = i
        BY <3>1, <4>1
      <4> QED
        BY <4>1, <4>2
    <3> QED
      BY <3>2, <3>3 DEF SettlementOK
  <2>2. CASE \/ RollbackSelect(m) \/ RollbackSave(m) \/ RollbackSlips(m)
             \/ RollbackBets(m)
    BY <2>2, <1>a DEF RollbackSelect, RollbackSave, RollbackSlips,
                      RollbackBets
  <2> QED
    BY <1>4, <2>1, <2>2 DEF Rollback
<1>5. CASE JobStep
  <2>1. CASE JobMark
    <3>1. job.id # 0
      BY <2>1 DEF JobMark, Typed, JobOK
    <3> QED
      BY <1>0, <2>1, <3>1 DEF JobMark, SettlementOK
  <2>2. CASE ~JobMark
    BY <1>5, <1>a, <2>2 DEF JobStep, JobSelect, JobEnd, JobBets, JobSlips,
       JobBet, JobComplete, JobVoid, JobPayout, JobSummary, JobResult,
       JobClosure
  <2> QED
    BY <2>1, <2>2
<1>6. CASE CloseListed \/ SweepStep \/ ResendSelect
  BY <1>6, <1>a DEF CloseListed, SweepStep, SweepSelect, SweepWon, SweepLost,
     SweepVoided, SweepLose, SweepClose, SweepEnd, ResendSelect
<1>7. CASE ResendUpdate
  BY <1>0, <1>7 DEF ResendUpdate, SettlementOK
<1>8. ASSUME NEW a \in Manuals, ManualRead(a) \/ ManualStep(a)
      PROVE  SettlementOK'
  BY <1>8, <1>a DEF ManualRead, ManualStep, ManualOdds, ManualSlip
<1>9. CASE Crash \/ UNCHANGED vars
  BY <1>9, <1>a DEF Crash, vars
<1> QED
  BY <1>1, <1>2, <1>3, <1>4, <1>5, <1>6, <1>7, <1>8, <1>9 DEF Next, Handle

RestOK == /\ closure \subseteq Bets /\ refunds \subseteq Bets
          /\ cancelled \subseteq Markets /\ rolledBack \subseteq Markets
          /\ resend \subseteq Late /\ crashes \in Nat

(* Every step keeps the other tables.                                      *)
LEMMA RestTypeStep == Typed /\ [Next]_vars => RestOK'
<1> SUFFICES ASSUME Typed, [Next]_vars PROVE RestOK'
  OBVIOUS
<1>0. RestOK /\ FeedOK /\ JobOK
  BY DEF Typed, TypeOK, RestOK
<1>a. ASSUME UNCHANGED <<closure, regrading, resend, crashes>> PROVE RestOK'
  BY <1>0, <1>a DEF RestOK, regrading
<1>b. \A m \in Messages : feed[m].ids \subseteq Bets
  BY <1>0 DEF FeedOK, FeedRow
<1>c. ASSUME NEW m \in Cancels \cup Rollbacks, feed[m].at # "unsent"
      PROVE  feed[m].key \in Markets
  BY <1>0, <1>c, InstanceAssumption DEF FeedOK, KeysOf, Messages
<1>1. ASSUME NEW m \in Messages, Arrives(m) \/ Settle(m) PROVE RestOK'
  BY <1>1, <1>a DEF Arrives, Settle, SettleUpsert, SettleFind, SettleSlips,
                    closing, tasks, outside
<1>2. ASSUME NEW m \in Messages, Cancel(m) PROVE RestOK'
  <2>1. CASE CancelSelect(m) \/ CancelSlips(m) \/ CancelBets(m)
    BY <2>1, <1>a DEF CancelSelect, CancelSlips, CancelBets, closing, tasks,
                      outside
  <2>2. CASE CancelSave(m)
    BY <2>2, <1>0, <1>c DEF CancelSave, At, RestOK, closing, tasks, outside
  <2>3. CASE CancelRefund(m)
    BY <2>3, <1>0, <1>b DEF CancelRefund, RestOK, closing, tasks, outside
  <2> QED
    BY <1>2, <2>1, <2>2, <2>3 DEF Cancel
<1>3. ASSUME NEW m \in Messages, Rollback(m) PROVE RestOK'
  <2>1. CASE \/ RollbackSelect(m) \/ RollbackDelete(m) \/ RollbackSlips(m)
             \/ RollbackBets(m)
    BY <2>1, <1>a DEF RollbackSelect, RollbackDelete, RollbackSlips,
                      RollbackBets, closing, tasks, outside
  <2>2. CASE RollbackSave(m)
    BY <2>2, <1>0, <1>c DEF RollbackSave, At, RestOK, closing, tasks, outside
  <2> QED
    BY <1>3, <2>1, <2>2 DEF Rollback
<1>4. CASE JobStep
  <2>1. CASE JobClosure
    BY <1>0, <2>1 DEF JobClosure, JobOK, Deciding, RestOK, regrading, outside
  <2>2. CASE ~JobClosure
    BY <1>4, <1>a, <2>2 DEF JobStep, JobSelect, JobEnd, JobBets, JobSlips,
       JobBet, JobComplete, JobVoid, JobPayout, JobSummary, JobResult,
       JobMark, closing, outside
  <2> QED
    BY <2>1, <2>2
<1>5. CASE CloseListed
  BY <1>0, <1>5 DEF CloseListed, RestOK, regrading, tasks, outside
<1>6. CASE SweepStep
  BY <1>6, <1>a DEF SweepStep, SweepSelect, SweepWon, SweepLost, SweepVoided,
     SweepLose, SweepClose, SweepEnd, closing, outside
<1>7. CASE ResendSelect \/ ResendUpdate
  BY <1>0, <1>7 DEF ResendSelect, ResendUpdate, RestOK, closing, regrading,
                    outside
<1>8. ASSUME NEW a \in Manuals, ManualRead(a) \/ ManualStep(a) PROVE RestOK'
  BY <1>8, <1>a DEF ManualRead, ManualStep, ManualOdds, ManualSlip, closing,
                    tasks
<1>9. CASE Crash
  BY <1>0, <1>9 DEF Crash, RestOK, closing, regrading
<1>10. CASE UNCHANGED vars
  BY <1>10, <1>a DEF vars, closing, tasks, outside
<1> QED
  BY <1>1, <1>2, <1>3, <1>4, <1>5, <1>6, <1>7, <1>8, <1>9, <1>10
     DEF Next, Handle

(* TypeOK with what it rests on holds at first and is kept by every step.  *)
LEMMA TypeInit == Init => Typed
<1> SUFFICES ASSUME Init PROVE Typed
  OBVIOUS
<1> USE InstanceAssumption DEF Init
<1>1. slip \in [Slips -> SlipRow]
  BY DEF SlipRow, BETSLIP_PROCESSING_PENDING, STATUS_NOT_LOST_OR_WON
<1>2. bet \in [Bets -> BetRow]
  BY DEF BetRow, BetStatuses, WonStatuses
<1>3. SettlementOK /\ WinningOK /\ RestOK
  BY DEF SettlementOK, WinningOK, RestOK
<1>4. FeedOK
  <2>1. \A m \in Messages : feed[m] \in FeedRow
    BY DEF FeedRow, Labels, STATUS_LOST
  <2> QED
    BY <2>1 DEF FeedOK
<1>5. JobOK
  BY DEF JobOK, JobRow, JobStart, Deciding
<1>6. SweepOK
  BY DEF SweepOK, SweepRow, SweepStart
<1>7. ManualOK
  BY DEF ManualOK, ManualRec
<1>8. TypeOK
  <2>1. job.ids = {} /\ job.id = 0 /\ job.b = "none" /\ sweep.rows = {}
    BY DEF JobStart, SweepStart
  <2> QED
    BY <1>1, <1>2, <1>3, <2>1
       DEF TypeOK, SlipRow, BetRow, SettlementOK, WinningOK, RestOK
<1> QED
  BY <1>4, <1>5, <1>6, <1>7, <1>8 DEF Typed

(* Every step keeps TypeOK and the messages, and what they say.            *)
LEMMA TypeStep == Typed /\ [Next]_vars => Typed' /\ FeedKeeps /\ ManualKeeps
<1> SUFFICES ASSUME Typed, [Next]_vars
             PROVE  Typed' /\ FeedKeeps /\ ManualKeeps
  OBVIOUS
<1>1. FeedOK' /\ FeedKeeps
  BY FeedStep DEF Typed, TypeOK
<1>2. JobOK' /\ SweepOK' /\ ManualOK' /\ ManualKeeps
  BY JobTypeStep, SweepTypeStep, ManualTypeStep
<1>3. slip' \in [Slips -> SlipRow] /\ bet' \in [Bets -> BetRow]
      /\ WinningOK' /\ SettlementOK' /\ RestOK'
  BY SlipTypeStep, BetTypeStep, SettlementTypeStep, RestTypeStep
<1>4. /\ job'.ids \subseteq 1..MaxIds /\ job'.id \in 0..MaxIds
      /\ job'.b = "none" \/ job'.b \in Bets
      /\ sweep'.rows \subseteq Bets
  BY <1>2 DEF JobOK, JobRow, SweepOK, SweepRow
<1>5. TypeOK'
  BY <1>3, <1>4
     DEF TypeOK, SlipRow, BetRow, WinningOK, SettlementOK, RestOK
<1> QED
  BY <1>1, <1>2, <1>5 DEF Typed

(* It holds always.                                                        *)
LEMMA TypedAlways == Spec => []Typed
BY TypeInit, TypeStep, PTL DEF Spec

(* The rows of all tables and the locals of the jobs hold what they may,   *)
(* for any number of bets, slips, messages, manual updates and crashes.    *)
THEOREM TypeCorrect == Spec => []TypeOK
<1>1. Typed => TypeOK
  BY DEF Typed
<1> QED
  BY <1>1, TypedAlways, PTL
=============================================================================
