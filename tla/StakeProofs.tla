---------------------------- MODULE StakeProofs -----------------------------
(***************************************************************************)
(* Acceptance implements StakeOnce, for any number of bets, answers,       *)
(* failures and crashes.                                                   *)
(*                                                                         *)
(* The invariant and the lemmas about steps use only the variables that    *)
(* StakeOnce sees, the requests and the answers: not the statuses of bets  *)
(* and slips, which others write too.                                      *)
(***************************************************************************)
EXTENDS Acceptance, TLAPS

stakeVars == <<request, betStatus, sent, answer, debits, refunds>>

StakeTyped ==
  /\ request \in [Bets -> PlaceLabels]
  /\ betStatus \in [Bets -> {0, 1, BET_CANCELLED}]
  /\ sent \subseteq Bets
  /\ answer \in [Answers -> [at  : RejectLabels \cup
                                     {"unsent", "accept", "acked"},
                             bet : Bets \cup {"none"}]]
  /\ \A m \in Answers : answer[m].at # "unsent" => answer[m].bet \in sent
  /\ debits \in [Bets -> Nat] /\ refunds \in [Bets -> Nat]

(* A request before its debit has taken nothing, and one before its        *)
(* publish has sent nothing.                                               *)
Staking ==
  \A b \in Bets :
    /\ request[b] \in {"new", "slips", "debit"} => debits[b] = 0
    /\ request[b] \in {"new", "slips", "debit", "publish"} => b \notin sent

(* A handler that carries a rejection out noted it, and is the only one to *)
(* do so for its bet, which was not paid back; a bet that was has its      *)
(* verdict for good.                                                       *)
Carried ==
  /\ \A m \in CarryingOut : HasStatus(answer[m].bet)
                            /\ refunds[answer[m].bet] = 0
  /\ \A m, n \in CarryingOut : answer[m].bet = answer[n].bet => m = n
  /\ \A b \in Bets : refunds[b] > 0 => HasStatus(b)

StakeInv == StakeTyped /\ Staking /\ Carried

(* StakeOnce's due and verdicts, seen from here.                           *)
Due      == {answer[m].bet : m \in CarryingOut}
Verdicts == [b \in Bets |-> Verdict(b)]

StakeStep == [SO!Next]_<<debits, sent, Verdicts, Due, refunds>>

LEMMA StakeInit == Init => StakeInv /\ SO!Init
<1> SUFFICES ASSUME Init PROVE StakeInv /\ SO!Init
  OBVIOUS
<1> USE DEF Init
<1>1. CarryingOut = {}
  BY DEF CarryingOut
<1>2. StakeTyped
  BY DEF StakeTyped, PlaceLabels
<1>3. Staking /\ Carried
  BY <1>1 DEF Staking, Carried
<1>4. Verdicts = [b \in Bets |-> "none"]
  BY DEF Verdicts, Verdict
<1> QED
  BY <1>1, <1>2, <1>3, <1>4 DEF StakeInv, SO!Init, Verdicts

(* A step that touches nothing StakeOnce is about.                         *)
LEMMA StakeStutter ==
  ASSUME StakeInv, UNCHANGED stakeVars
  PROVE  StakeInv' /\ StakeStep
<1> USE DEF stakeVars
<1>1. CarryingOut' = CarryingOut
  BY DEF CarryingOut
<1>2. Due' = Due /\ Verdicts' = Verdicts
  BY <1>1 DEF Due, Verdicts, Verdict
<1>3. StakeInv'
  BY <1>1 DEF StakeInv, StakeTyped, Staking, Carried, HasStatus
<1> QED
  BY <1>2, <1>3 DEF StakeStep

-----------------------------------------------------------------------------
(* placeBet takes the stake and sends the bet.                             *)
LEMMA StakePlace ==
  ASSUME StakeInv, NEW b \in Bets, Place(b) \/ PlacementFails(b)
  PROVE  StakeInv' /\ StakeStep
<1>1. UNCHANGED <<answer, betStatus, refunds>>
  BY DEF Place, Refuse, SaveBet, SaveSlips, Debit, Publish, PlacementFails,
         tables, wallet, counters
<1>2. CarryingOut' = CarryingOut
  BY <1>1 DEF CarryingOut
<1>3. Due' = Due /\ Verdicts' = Verdicts
  BY <1>1, <1>2 DEF Due, Verdicts, Verdict
<1>4. Carried'
  BY <1>1, <1>2 DEF StakeInv, Carried, HasStatus
<1>5. StakeTyped' /\ Staking'
  <2> USE <1>1 DEF StakeInv, StakeTyped, Staking, RequestGoto, PlaceLabels,
                   tables, wallet, counters
  <2>1. CASE Refuse(b)          BY <2>1 DEF Refuse
  <2>2. CASE SaveBet(b)         BY <2>2 DEF SaveBet
  <2>3. CASE SaveSlips(b)       BY <2>3 DEF SaveSlips
  <2>4. CASE Debit(b)           BY <2>4 DEF Debit
  <2>5. CASE Publish(b)         BY <2>5 DEF Publish
  <2>6. CASE PlacementFails(b)  BY <2>6 DEF PlacementFails
  <2> QED
    BY <2>1, <2>2, <2>3, <2>4, <2>5, <2>6 DEF Place
<1>6. StakeStep
  <2>1. CASE UNCHANGED <<debits, sent>>
    BY <1>1, <1>3, <2>1 DEF StakeStep
  <2>2. CASE request[b] = "debit" /\ debits' = [debits EXCEPT ![b] = @ + 1]
             /\ UNCHANGED sent
    <3>1. debits[b] = 0 /\ b \notin sent
      BY <2>2 DEF StakeInv, Staking
    <3>2. debits' = [debits EXCEPT ![b] = 1]
      BY <2>2, <3>1
    <3>3. SO!Take(b)
      BY <1>1, <1>3, <2>2, <3>1, <3>2 DEF SO!Take, Due, Verdicts
    <3> QED
      BY <3>3 DEF StakeStep, SO!Next
  <2>3. CASE request[b] = "publish" /\ sent' = sent \cup {b}
             /\ UNCHANGED debits
    <3>1. b \notin sent
      BY <2>3 DEF StakeInv, Staking
    <3>2. SO!Send(b)
      BY <1>1, <1>3, <2>3, <3>1 DEF SO!Send, Due, Verdicts
    <3> QED
      BY <3>2 DEF StakeStep, SO!Next
  <2> QED
    BY <2>1, <2>2, <2>3 DEF Place, Refuse, SaveBet, SaveSlips, Debit, Publish,
       PlacementFails, tables, wallet, counters
<1> QED
  BY <1>4, <1>5, <1>6 DEF StakeInv

-----------------------------------------------------------------------------
(* What a step of the handler m does to the rejections carried out.        *)
LEMMA CarryingChange ==
  ASSUME StakeInv, NEW m \in Answers, answer[m].at # "unsent",
         NEW l \in RejectLabels \cup {"acked"}, Goto(m, l)
  PROVE  /\ answer[m].bet \in sent
         /\ \A n \in Answers : answer'[n].bet = answer[n].bet
         /\ CarryingOut' = IF l \in {"slips", "bet", "credit"}
                           THEN CarryingOut \cup {m} ELSE CarryingOut \ {m}
         /\ UNCHANGED sent =>
              /\ answer' \in [Answers -> [at  : RejectLabels \cup
                                             {"unsent", "accept", "acked"},
                                          bet : Bets \cup {"none"}]]
              /\ \A n \in Answers : answer'[n].at # "unsent" =>
                                      answer'[n].bet \in sent'
<1> USE DEF StakeInv, StakeTyped, Goto
<1>1. \A n \in Answers : /\ answer'[n].bet = answer[n].bet
                         /\ n # m => answer'[n].at = answer[n].at
                         /\ answer'[m].at = l
  OBVIOUS
<1>2. CarryingOut' = IF l \in {"slips", "bet", "credit"}
                     THEN CarryingOut \cup {m} ELSE CarryingOut \ {m}
  BY <1>1 DEF CarryingOut
<1>3. answer' \in [Answers -> [at  : RejectLabels \cup
                                 {"unsent", "accept", "acked"},
                               bet : Bets \cup {"none"}]]
  OBVIOUS
<1> QED
  BY <1>1, <1>2, <1>3

(* The handler m stops carrying out a rejection, without the stake.        *)
LEMMA StakeAbandons ==
  ASSUME StakeInv, UNCHANGED <<request, betStatus, sent, debits, refunds>>,
         StakeTyped', CarryingOut' \subseteq CarryingOut,
         \A n \in CarryingOut' : answer'[n].bet = answer[n].bet
  PROVE  StakeInv' /\ StakeStep
<1>1. Due' \subseteq Due
  BY DEF Due
<1>2. Verdicts' = Verdicts
  BY DEF Verdicts, Verdict
<1>3. SO!Abandon
  BY <1>1, <1>2 DEF SO!Abandon, Due, Verdicts
<1>4. Staking' /\ Carried'
  BY DEF StakeInv, Staking, Carried, HasStatus
<1> QED
  BY <1>3, <1>4 DEF StakeInv, StakeStep, SO!Next

(* The handler m gives the stake back.                                     *)
LEMMA StakeGivesBack ==
  ASSUME StakeInv, UNCHANGED <<request, betStatus, sent, debits>>,
         NEW m \in Answers, answer[m].at = "credit",
         NEW l \in {"find", "acked"}, Goto(m, l),
         refunds' = [refunds EXCEPT ![answer[m].bet] = @ + 1]
  PROVE  StakeInv' /\ StakeStep
<1>0. PICK b \in Bets : b = answer[m].bet
  BY CarryingChange DEF StakeInv, StakeTyped, RejectLabels
<1>1. /\ b \in sent /\ \A n \in Answers : answer'[n].bet = answer[n].bet
      /\ CarryingOut' = CarryingOut \ {m}
      /\ answer' \in [Answers -> [at  : RejectLabels \cup
                                    {"unsent", "accept", "acked"},
                                  bet : Bets \cup {"none"}]]
      /\ \A n \in Answers : answer'[n].at # "unsent" =>
                              answer'[n].bet \in sent'
  BY <1>0, CarryingChange DEF RejectLabels
<1>2. m \in CarryingOut /\ CarryingOut \subseteq Answers
  BY DEF CarryingOut
<1>3. b \in Bets /\ refunds[b] = 0 /\ HasStatus(b)
  BY <1>0, <1>1, <1>2 DEF StakeInv, StakeTyped, Carried
<1>4. \A n \in CarryingOut : answer[n].bet = b => n = m
  BY <1>0, <1>2 DEF StakeInv, Carried
<1>5. refunds' = [refunds EXCEPT ![b] = 1] /\ refunds \in [Bets -> Nat]
  BY <1>0, <1>3 DEF StakeInv, StakeTyped
<1>6. Due' = Due \ {b} /\ b \in Due
  BY <1>0, <1>1, <1>2, <1>4 DEF Due
<1>7. Verdicts' = Verdicts
  BY DEF Verdicts, Verdict
<1>8. SO!GiveBack(b)
  BY <1>3, <1>5, <1>6, <1>7 DEF SO!GiveBack, Due, Verdicts
<1>9. StakeTyped' /\ Staking'
  BY <1>0, <1>1, <1>5 DEF StakeInv, StakeTyped, Staking
<1>10. Carried'
  BY <1>0, <1>1, <1>2, <1>3, <1>4, <1>5 DEF StakeInv, Carried, HasStatus
<1> QED
  BY <1>3, <1>8, <1>9, <1>10 DEF StakeInv, StakeStep, SO!Next

(* The handler m inserts the first verdict, a rejection.                   *)
LEMMA StakeRejects ==
  ASSUME StakeInv, UNCHANGED <<request, sent, debits, refunds>>,
         NEW m \in Answers, answer[m].at = "save", Goto(m, "slips"),
         ~HasStatus(answer[m].bet),
         betStatus' = [betStatus EXCEPT ![answer[m].bet] = BET_CANCELLED]
  PROVE  StakeInv' /\ StakeStep
<1>0. PICK b \in Bets : b = answer[m].bet
  BY CarryingChange DEF StakeInv, StakeTyped, RejectLabels
<1>1. /\ b \in sent /\ \A n \in Answers : answer'[n].bet = answer[n].bet
      /\ CarryingOut' = CarryingOut \cup {m}
      /\ answer' \in [Answers -> [at  : RejectLabels \cup
                                    {"unsent", "accept", "acked"},
                                  bet : Bets \cup {"none"}]]
      /\ \A n \in Answers : answer'[n].at # "unsent" =>
                              answer'[n].bet \in sent'
  BY <1>0, CarryingChange DEF RejectLabels
<1>2. b \in Bets /\ CarryingOut \subseteq Answers
  BY <1>0, <1>1 DEF StakeInv, StakeTyped, CarryingOut
<1>3. Due' = Due \cup {b}
  BY <1>0, <1>1, <1>2 DEF Due
<1>4. Verdicts' = [Verdicts EXCEPT ![b] = "rejected"] /\ Verdicts[b] = "none"
  BY <1>0, <1>2 DEF Verdicts, Verdict, HasStatus, BET_CANCELLED, StakeInv, StakeTyped
<1>5. SO!Reject(b)
  BY <1>1, <1>3, <1>4 DEF SO!Reject, Due, Verdicts
<1>6. StakeTyped' /\ Staking'
  BY <1>0, <1>1, <1>2 DEF StakeInv, StakeTyped, Staking
<1>7. \A n \in CarryingOut : answer[n].bet # b
  BY <1>0 DEF StakeInv, Carried
<1>8. \A a \in Bets : HasStatus(a) => HasStatus(a)'
  BY DEF StakeInv, StakeTyped, HasStatus, BET_CANCELLED
<1>9. HasStatus(b)' /\ refunds[b] = 0
  BY <1>0, <1>2 DEF StakeInv, StakeTyped, Carried, HasStatus, BET_CANCELLED
<1>10. \A n \in CarryingOut : answer[n].bet \in Bets
  BY DEF StakeInv, StakeTyped, CarryingOut
<1>11. Carried'
  <2>1. \A n \in CarryingOut' : HasStatus(answer[n].bet)'
                                /\ refunds[answer[n].bet] = 0
    BY <1>0, <1>1, <1>2, <1>8, <1>9, <1>10 DEF StakeInv, Carried, HasStatus
  <2> QED
    BY <1>0, <1>1, <1>2, <1>7, <1>8, <2>1 DEF StakeInv, Carried, HasStatus
<1> QED
  BY <1>2, <1>5, <1>6, <1>11 DEF StakeInv, StakeStep, SO!Next

(* An acceptance is noted whatever the verdict was.                        *)
LEMMA StakeAccepts ==
  ASSUME StakeInv, NEW m \in Answers, Accept(m)
  PROVE  StakeInv' /\ StakeStep
<1>0. PICK b \in Bets : b = answer[m].bet
  BY DEF StakeInv, StakeTyped, Accept, At
<1>1. /\ answer[m].at = "accept" /\ Goto(m, "acked")
      /\ betStatus' = [betStatus EXCEPT ![b] = 1]
      /\ UNCHANGED <<request, sent, debits, refunds>>
  BY <1>0 DEF Accept, At, wallet
<1>2. /\ b \in sent /\ \A n \in Answers : answer'[n].bet = answer[n].bet
      /\ CarryingOut' = CarryingOut \ {m}
      /\ answer' \in [Answers -> [at  : RejectLabels \cup
                                    {"unsent", "accept", "acked"},
                                  bet : Bets \cup {"none"}]]
      /\ \A n \in Answers : answer'[n].at # "unsent" =>
                              answer'[n].bet \in sent'
  BY <1>0, <1>1, CarryingChange
<1>3. b \in Bets /\ CarryingOut' = CarryingOut /\ CarryingOut \subseteq Answers
  BY <1>0, <1>1, <1>2 DEF StakeInv, StakeTyped, CarryingOut
<1>4. Due' = Due
  BY <1>2, <1>3 DEF Due
<1>5. Verdicts' = [Verdicts EXCEPT ![b] = "accepted"]
  <2>1. betStatus'[b] = 1 /\ \A a \in Bets : a # b => betStatus'[a] = betStatus[a]
    BY <1>0, <1>1 DEF StakeInv, StakeTyped
  <2>2. Verdict(b)' = "accepted"
        /\ \A a \in Bets : a # b => Verdict(a)' = Verdict(a)
    BY <2>1 DEF Verdict
  <2> QED
    BY <2>2 DEF Verdicts
<1>6. SO!Accept(b)
  BY <1>1, <1>2, <1>4, <1>5 DEF SO!Accept, Due, Verdicts
<1>7. StakeTyped' /\ Staking'
  BY <1>0, <1>1, <1>2, <1>3 DEF StakeInv, StakeTyped, Staking
<1>8. \A a \in Bets : HasStatus(a) => HasStatus(a)'
  BY <1>1 DEF StakeInv, StakeTyped, HasStatus
<1>9. \A n \in CarryingOut : answer[n].bet \in Bets
  BY DEF StakeInv, StakeTyped, CarryingOut
<1>10. Carried'
  BY <1>0, <1>1, <1>2, <1>3, <1>8, <1>9 DEF StakeInv, Carried, HasStatus
<1> QED
  BY <1>3, <1>6, <1>7, <1>10 DEF StakeInv, StakeStep, SO!Next

(* An answer arrives for a bet that was sent.                              *)
LEMMA StakeAnswered ==
  ASSUME StakeInv, NEW m \in Answers, MtsAnswers(m)
  PROVE  StakeInv' /\ StakeStep
<1>1. PICK b \in sent, first \in {"accept", "find"} :
        answer' = [answer EXCEPT ![m] = [at |-> first, bet |-> b]]
  BY DEF MtsAnswers
<1>2. UNCHANGED <<request, betStatus, sent, debits, refunds>>
      /\ answer[m].at = "unsent"
  BY DEF MtsAnswers, tables, wallet, At
<1>3. StakeTyped'
  BY <1>1, <1>2 DEF StakeInv, StakeTyped, RejectLabels
<1>4. CarryingOut' \subseteq CarryingOut
      /\ \A n \in CarryingOut' : answer'[n].bet = answer[n].bet
  BY <1>1, <1>2 DEF StakeInv, StakeTyped, CarryingOut
<1> QED
  BY <1>2, <1>3, <1>4, StakeAbandons

(* The statements of a rejection, and one that fails.                      *)
LEMMA StakeAnswer ==
  ASSUME StakeInv, NEW m \in Answers,
         MtsAnswers(m) \/ Accept(m) \/ Reject(m) \/ HandlerFails(m)
  PROVE  StakeInv' /\ StakeStep
<1>1. ASSUME answer[m].at # "unsent",
             NEW l \in RejectLabels \cup {"acked"}, Goto(m, l),
             l \in {"slips", "bet", "credit"} => m \in CarryingOut,
             UNCHANGED <<request, betStatus, sent, debits, refunds>>
      PROVE  StakeInv' /\ StakeStep
  <2>1. StakeTyped'
    BY <1>1, CarryingChange DEF StakeInv, StakeTyped
  <2>2. CarryingOut' \subseteq CarryingOut /\ CarryingOut \subseteq Answers
        /\ \A n \in Answers : answer'[n].bet = answer[n].bet
    BY <1>1, CarryingChange DEF CarryingOut
  <2> QED
    BY <1>1, <2>1, <2>2, StakeAbandons
<1> USE DEF At, wallet, RejectLabels
<1>2. CASE RejectFind(m)
  BY <1>1, <1>2 DEF RejectFind, tables
<1>3. CASE RejectSave(m)
  <2>1. CASE HasStatus(answer[m].bet)
    BY <1>1, <1>3, <2>1 DEF RejectSave
  <2>2. CASE ~HasStatus(answer[m].bet)
    BY <1>3, <2>2, StakeRejects DEF RejectSave
  <2> QED
    BY <2>1, <2>2
<1>4. CASE RejectSlips(m)
  BY <1>1, <1>4 DEF RejectSlips, CarryingOut
<1>5. CASE RejectBet(m)
  BY <1>1, <1>5 DEF RejectBet, CarryingOut
<1>6. CASE RejectCredit(m)
  BY <1>6, StakeGivesBack DEF RejectCredit, tables
<1>7. CASE HandlerFails(m)
  <2>1. CASE refunds' = refunds
    BY <1>1, <1>7, <2>1 DEF HandlerFails, tables
  <2>2. CASE refunds' # refunds
    BY <1>7, <2>2, StakeGivesBack DEF HandlerFails, tables
  <2> QED
    BY <2>1, <2>2
<1> QED
  BY <1>2, <1>3, <1>4, <1>5, <1>6, <1>7, StakeAccepts, StakeAnswered DEF Reject

(* After a crash nobody carries a rejection out.                           *)
LEMMA StakeCrash ==
  ASSUME StakeInv, Crash
  PROVE  StakeInv' /\ StakeStep
<1> USE DEF Crash, tables, wallet
<1>1. CarryingOut' = {}
  BY DEF CarryingOut, RejectLabels, StakeInv, StakeTyped
<1>2. StakeTyped'
  BY DEF StakeInv, StakeTyped, PlaceLabels, RejectLabels
<1>3. Staking'
  BY DEF StakeInv, StakeTyped, Staking
<1>4. Carried'
  BY <1>1 DEF StakeInv, Carried, HasStatus
<1>5. Verdicts' = Verdicts /\ Due' = {}
  BY <1>1 DEF Verdicts, Verdict, Due
<1>6. SO!Abandon
  BY <1>5 DEF SO!Abandon, Due, Verdicts
<1> QED
  BY <1>2, <1>3, <1>4, <1>6 DEF StakeInv, StakeStep, SO!Next

-----------------------------------------------------------------------------
(* Every behaviour of placeBet and the handlers of the MTS's answers is    *)
(* one of StakeOnce: a stake is taken at most once, before the bet is sent,*)
(* and given back at most once, for a rejection that was the first verdict.*)
THEOREM StakesOnce == Spec => ImplementsStakeOnce
<1>1. Init => StakeInv /\ SO!Init
  BY StakeInit
<1>2. StakeInv /\ [Next]_vars => StakeInv' /\ StakeStep
  <2> SUFFICES ASSUME StakeInv, [Next]_vars PROVE StakeInv' /\ StakeStep
    OBVIOUS
  <2>1. CASE UNCHANGED vars
    BY <2>1, StakeStutter DEF vars, tables, wallet, stakeVars
  <2> QED
    BY <2>1, StakePlace, StakeAnswer, StakeCrash DEF Next
<1>3. StakeStep => [SO!Next]_SO!stakes
  BY DEF StakeStep, SO!stakes, Due, Verdicts
<1> QED
  BY <1>1, <1>2, <1>3, PTL DEF Spec, ImplementsStakeOnce, SO!Spec
=============================================================================
