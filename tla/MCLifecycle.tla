---------------------------- MODULE MCLifecycle -----------------------------
(* Instances of Lifecycle for TLC.                                         *)
EXTENDS Lifecycle, TLC

Symmetry == Permutations(Answers) \cup Permutations(Selections)

(* No guard and no property here depends on how often a stake was taken.   *)
WithoutDebits == <<request, tables, sent, answer, refunds, counters, life,
                   ruled>>

(* What TLC explores: a fault or a crash but not both, the first startUp   *)
(* before anything is saved, and of each bet at most one acceptance and    *)
(* one rejection (Acceptance repeats them).                                *)
OneInterruption == faults + crashes <= 1
StartedFirst    == startup /\ crashes = 0 => \A b \in Bets : request[b] = "new"
OneAnswerOfEach == \A b \in Bets :
  Cardinality({m \in Answers : answer[m].bet = b}) <= Cardinality(ruled[b])
Bounds == OneInterruption /\ StartedFirst /\ OneAnswerOfEach
=============================================================================
