---------------------------- MODULE HistoryProofs ----------------------------
(***************************************************************************)
(* Proofs about History: what the views answer a user about a bet and the  *)
(* cashout that is offered, for any number of slips, any ladder and any    *)
(* number of regrades; and how much a reader of the pages misses, for any  *)
(* number of bets, any filter and any sizes of pages.                      *)
(***************************************************************************)
EXTENDS History, FiniteSetTheorems, TLAPS

Views       == Counting \cup {"tickets", "single"}
Places      == {"away", "slips of view", "pending", "listed", "asked", "slips",
                "count", "update", "refused", "end"}

UserRow == [at : Places, matches : BOOLEAN, view : Views \cup {"none"},
            row : BetStatuses, slips : [Slips -> SlipResults],
            pending : Nat, offer : Nat]

Fields == {"kind", "filter", "n", "page", "at", "total", "shown"}

(* What the history counts and offers comes last.                          *)
Viewing(u) ==
  /\ u.at \in {"slips of view", "pending", "listed"} => u.view \in Views
  /\ u.at \in {"away", "slips of view", "pending"} =>
       u.pending = 0 /\ u.offer = 0

(* A reader is alone, and so is the user with his bet.                     *)
Typed ==
  /\ DOMAIN reader = Fields
  /\ user \in UserRow /\ slips \in [Slips -> SlipResults]
  /\ regrades \in Nat /\ stale \in BOOLEAN /\ doomed \subseteq Slips
  /\ Leafs => user.at = "away"
  /\ ~Leafs => reader.at = "count" /\ bets \in [1..1 -> BetStatuses]
  /\ Viewing(user)

PendingIn(read) == {x \in Slips : read[x] = "pending"}
VoidsIn(read)   == {x \in Slips : read[x] \in Voids}
LosersIn(read)  == {x \in Slips : read[x] \in {"lost", "annulled"}}

(* Nothing that counts has happened since the listing.                     *)
Fresh ==
  /\ user.at \notin {"away", "end"} => bets[1] = user.row
  /\ user.at \notin {"away", "slips of view", "end"} =>
       /\ LostIn(slips) = LostIn(user.slips)
       /\ VoidsIn(slips) = VoidsIn(user.slips)
  /\ user.at \in {"listed", "asked", "slips", "count"} /\ user.offer > 0 =>
       /\ user.row = BET_PENDING /\ user.matches /\ LostIn(user.slips) = {}
       /\ user.offer = Ladder[Factor(user.slips)]
  /\ user.at # "refused"
  /\ user.at \in {"asked", "slips", "count"} => user.offer > 0

(* Without regrades a slip that has a result keeps it, so that what a      *)
(* bet's status says of its slips stays so.                                *)
Says(status, read) ==
  /\ status = BET_LOST => LosersIn(read) # {}
  /\ status = BET_WON  => LosersIn(read) = {} /\ PendingIn(read) = {}

Agree ==
  /\ Says(bets[1], slips)
  /\ user.at \in {"slips of view", "pending", "listed"} => Says(user.row, slips)
  /\ user.at \in {"pending", "listed"} =>
       /\ Says(user.row, user.slips)
       /\ PendingIn(slips) \subseteq PendingIn(user.slips)
  /\ user.at = "listed" =>
       /\ user.pending <= Cardinality(PendingIn(user.slips))
       /\ user.row = BET_WON => user.pending = 0

IInv ==
  /\ Typed
  /\ ~Leafs => /\ ~stale => Fresh
               /\ regrades = 0 => Agree
               /\ doomed \subseteq LostIn(slips)
               /\ LostBetsKeepTheirStake

-----------------------------------------------------------------------------
(* A reader's steps leave the user alone, and the other way round.         *)
LEMMA UserSteps ==
  ASSUME Typed, [Next]_vars
  PROVE  IF Leafs THEN Leafs' /\ UNCHANGED cashing
         ELSE /\ UNCHANGED reader
              /\ \/ UNCHANGED <<bets, cashing>>
                 \/ \E x \in Slips : Grade(x)
                 \/ Withdraw \/ Finish \/ Overrule
                 \/ ListBet \/ ListSlips \/ ListPending \/ Leave
                 \/ Ask \/ Cashout
<1>1. CASE Leafs
  <2>1. user.at = "away"
    BY <1>1 DEF Typed
  <2>2. UNCHANGED cashing
    BY <1>1, <2>1 DEF Next, Count, Select, Place, ResultBet, Grade,
       Withdraw, Finish, Overrule,
       ListBet, ListSlips, ListPending, Leave, Ask, Cashout, CashoutBet,
       CashoutSlips, CashoutCount, CashoutUpdate, vars
  <2>3. reader'.kind = reader.kind
    <3>1. CASE UNCHANGED reader
      BY <3>1
    <3>2. CASE Count
      BY <3>2 DEF Count, Typed, Fields
    <3>3. CASE Select
      BY <3>3 DEF Select, Typed, Fields
    <3>4. \/ UNCHANGED reader \/ Count \/ Select
      BY <1>1, <2>1 DEF Next, Place, ResultBet, Grade, Withdraw, Finish, Overrule, ListBet,
         ListSlips, ListPending, Leave, Ask, Cashout, CashoutBet,
         CashoutSlips, CashoutCount, CashoutUpdate, vars, leafing
    <3> QED
      BY <3>1, <3>2, <3>3, <3>4
  <2> QED
    BY <1>1, <2>2, <2>3 DEF Leafs
<1>2. CASE ~Leafs
  <2>1. reader.at = "count" /\ ~Count /\ ~Select /\ ~Place
        /\ \A b \in DOMAIN bets : ~ResultBet(b)
    BY <1>2 DEF Typed, Count, Select, Place, ResultBet, Meanwhile
  <2>2. CASE UNCHANGED vars
    BY <1>2, <2>2 DEF vars, leafing
  <2>3. CASE Next
    <3>1. \/ \E x \in Slips : Grade(x)
          \/ Withdraw \/ Finish \/ Overrule
          \/ ListBet \/ ListSlips \/ ListPending \/ Leave
          \/ Ask \/ Cashout
      BY <2>1, <2>3 DEF Next
    <3>2. UNCHANGED reader
      BY <3>1 DEF Grade, Withdraw, Finish, Overrule, ListBet, ListSlips, ListPending, Leave, Ask,
         Cashout, CashoutBet, CashoutSlips, CashoutCount, CashoutUpdate,
         leafing
    <3> QED
      BY <1>2, <3>1, <3>2
  <2> QED
    BY <2>2, <2>3
<1> QED
  BY <1>1, <1>2

(* The counts of a bet's slips are numbers.                                *)
LEMMA Counts ==
  /\ \A S \in SUBSET Slips : IsFiniteSet(S) /\ Cardinality(S) \in Nat
                             /\ Cardinality(S) <= Cardinality(Slips)
  /\ \A S, T \in SUBSET Slips :
       S \subseteq T => Cardinality(S) <= Cardinality(T)
<1>1. IsFiniteSet(Slips)
  BY InstanceAssumption
<1>2. \A S \in SUBSET Slips : IsFiniteSet(S)
  BY <1>1, FS_Subset
<1> QED
  BY <1>1, <1>2, FS_Subset, FS_CardinalityType

(* The value of a cashout is a number.                                     *)
LEMMA ValueIsNat ==
  ASSUME NEW read \in [Slips -> SlipResults], NEW lost
  PROVE  Value(read, lost) \in Nat
<1>1. Factor(read) \in 0..Cardinality(Slips)
  <2>1. {x \in Slips : read[x] \in Voids} \in SUBSET Slips
    OBVIOUS
  <2>2. IsFiniteSet(Slips) /\ Cardinality(Slips) \in Nat
    BY InstanceAssumption, FS_CardinalityType
  <2> QED
    BY <2>1, <2>2, Counts DEF Factor
<1>2. Ladder \in [0..Cardinality(Slips) -> Nat]
  BY InstanceAssumption
<1> QED
  BY <1>1, <1>2 DEF Value

(* Every step keeps the types.                                             *)
LEMMA TypedStep == Typed /\ [Next]_vars => Typed'
<1> SUFFICES ASSUME Typed, [Next]_vars PROVE Typed'
  OBVIOUS
<1>0. user \in UserRow /\ slips \in [Slips -> SlipResults]
  BY DEF Typed
<1>1. CASE Leafs
  <2>1. Leafs' /\ UNCHANGED cashing
    BY <1>1, UserSteps
  <2>2. DOMAIN reader' = Fields
    BY <1>1 DEF Typed, Next, Count, Select, Place, ResultBet, Grade,
       Withdraw, Finish, Overrule,
       ListBet, ListSlips, ListPending, Leave, Ask, Cashout, CashoutBet,
       CashoutSlips, CashoutCount, CashoutUpdate, vars, leafing
  <2>3. UNCHANGED <<user, slips, regrades, stale, doomed>>
    BY <2>1 DEF cashing
  <2>4. user.at = "away" /\ regrades \in Nat /\ stale \in BOOLEAN
        /\ doomed \subseteq Slips
    BY <1>1 DEF Typed
  <2> QED
    BY <1>0, <2>1, <2>2, <2>3, <2>4 DEF Typed
<1>2. CASE ~Leafs
  <2>0. UNCHANGED reader /\ ~Leafs'
        /\ reader.at = "count" /\ bets \in [1..1 -> BetStatuses]
    BY <1>2, UserSteps DEF Leafs, Typed
  <2>a. ASSUME user' \in UserRow, slips' \in [Slips -> SlipResults],
               regrades' \in Nat, stale' \in BOOLEAN, doomed' \subseteq Slips,
               bets' \in [1..1 -> BetStatuses], Viewing(user')
        PROVE  Typed'
    BY <2>0, <2>a DEF Typed
  <2>b. ASSUME user' \in UserRow, Viewing(user'),
               UNCHANGED <<bets, slips, stale, doomed, regrades>>
        PROVE  Typed'
    BY <2>0, <2>b DEF Typed
  <2>1. ASSUME NEW x \in Slips, Grade(x) PROVE Typed'
    <3>0. \E r \in SlipResults : slips' = [slips EXCEPT ![x] = r]
      BY <2>1 DEF Grade, SlipResults
    <3>1. PICK r \in SlipResults : slips' = [slips EXCEPT ![x] = r]
      BY <3>0
    <3>a. /\ regrades' = IF slips[x] = "pending" THEN regrades
                                               ELSE regrades + 1
          /\ doomed' = {y \in doomed : slips'[y] = "lost"}
      BY <2>1, Zenon DEF Grade
    <3>b. stale' \in BOOLEAN
      BY <2>1, Zenon DEF Grade
    <3>c. slips' \in [Slips -> SlipResults]
      BY <1>0, <3>1
    <3>d. regrades \in Nat /\ doomed \subseteq Slips
      BY DEF Typed
    <3>2. slips' \in [Slips -> SlipResults] /\ regrades' \in Nat
          /\ doomed' \subseteq Slips /\ stale' \in BOOLEAN
      BY <3>a, <3>b, <3>c, <3>d
    <3>3. user' = user /\ bets' = bets
      BY <2>1 DEF Grade
    <3>4. user' \in UserRow /\ bets' \in [1..1 -> BetStatuses]
      BY <1>0, <2>0, <3>3
    <3>5. Viewing(user')
      BY <3>3 DEF Typed
    <3> QED
      BY <2>a, <3>2, <3>4, <3>5
  <2>2. CASE Finish \/ Overrule
    <3>1. \E s \in BetStatuses : bets' = [bets EXCEPT ![1] = s]
      BY <2>2 DEF Finish, Overrule, BetStatuses
    <3>2. bets' \in [1..1 -> BetStatuses]
      BY <2>0, <3>1
    <3>3. /\ user' = user /\ slips' = slips /\ doomed' = doomed
          /\ stale' = TRUE /\ regrades' \in {regrades, regrades + 1}
      BY <2>2 DEF Finish, Overrule
    <3> QED
      BY <2>a, <3>2, <3>3 DEF Typed
  <2>w. CASE Withdraw
    <3>1. slips' \in [Slips -> SlipResults]
      BY <1>0, <2>w DEF Withdraw, SlipResults, Voids
    <3>2. /\ user' = user /\ bets' = bets /\ doomed' = {} /\ stale' = TRUE
          /\ regrades' \in {regrades, regrades + 1}
      BY <2>w DEF Withdraw
    <3> QED
      BY <2>0, <2>a, <3>1, <3>2 DEF Typed
  <2>3. CASE ListBet
    <3>1. PICK v \in Views :
            user' = [user EXCEPT !.at = "slips of view", !.view = v,
                                 !.row = bets[1]]
      BY <2>3 DEF ListBet, Views
    <3>2. bets[1] \in BetStatuses
      BY <2>0
    <3>3. user' \in UserRow
      BY <1>0, <3>1, <3>2 DEF UserRow, Places
    <3>4. Viewing(user')
      BY <1>0, <2>3, <3>1 DEF ListBet, Typed, Viewing, UserRow
    <3> QED
      BY <2>0, <2>3, <2>a, <3>3, <3>4 DEF ListBet, Typed
  <2>4. CASE ListSlips
    <3>1. PICK l \in {"pending", "listed"} :
            user' = [user EXCEPT !.at = l, !.slips = slips]
      BY <2>4 DEF ListSlips
    <3>2. user' \in UserRow
      BY <1>0, <3>1 DEF UserRow, Places
    <3>3. Viewing(user')
      BY <1>0, <2>4, <3>1 DEF ListSlips, Typed, Viewing, UserRow
    <3> QED
      BY <2>4, <2>b, <3>2, <3>3 DEF ListSlips
  <2>5. CASE ListPending
    <3>1. PICK n \in Nat, o \in Nat :
            user' = [user EXCEPT !.at = "listed", !.pending = n, !.offer = o]
      <4> DEFINE n == Cardinality({x \in Slips : slips[x] = "pending"})
                 o == IF user.view = "history" THEN HistoryAnswer.offer ELSE 0
      <4>1. n \in Nat
        <5>1. {x \in Slips : slips[x] = "pending"} \in SUBSET Slips
          OBVIOUS
        <5> QED
          BY <5>1, Counts
      <4>2. o \in Nat
        <5>1. Value(user.slips, LostIn(user.slips)) \in Nat
          BY <1>0, ValueIsNat DEF UserRow
        <5> QED
          BY <5>1 DEF HistoryAnswer
      <4> QED
        BY <2>5, <4>1, <4>2 DEF ListPending
    <3>2. user' \in UserRow
      BY <1>0, <3>1 DEF UserRow, Places
    <3>3. Viewing(user')
      BY <1>0, <2>5, <3>1 DEF ListPending, Typed, Viewing, UserRow
    <3> QED
      BY <2>5, <2>b, <3>2, <3>3 DEF ListPending
  <2>6. CASE Leave
    <3>1. /\ user' \in UserRow
          /\ user'.at = "away" /\ user'.pending = 0 /\ user'.offer = 0
      <4>1. Away \in UserRow
        BY DEF Away, UserRow, Places, BetStatuses, SlipResults
      <4>2. user' = [Away EXCEPT !.matches = user.matches]
        BY <2>6 DEF Leave
      <4>3. user.matches \in BOOLEAN
        BY <1>0 DEF UserRow
      <4>4. user' \in UserRow
        BY <4>1, <4>2, <4>3 DEF UserRow
      <4> QED
        BY <4>2, <4>4 DEF Away
    <3> QED
      BY <2>6, <2>b, <3>1 DEF Leave, Viewing
  <2>7. CASE Ask
    <3>1. user' \in UserRow /\ user'.at = "asked"
      BY <1>0, <2>7 DEF Ask, UserRow, Places
    <3>2. doomed' \subseteq Slips
      BY <2>7 DEF Ask, LostIn
    <3> QED
      BY <2>0, <2>7, <2>a, <3>1, <3>2 DEF Ask, Typed, Viewing
  <2>8. CASE Cashout
    <3>1. CASE CashoutBet
      <4>1. user' \in UserRow /\ user'.at \in {"slips", "refused"}
        BY <1>0, <3>1 DEF CashoutBet, UserRow, Places
      <4> QED
        BY <2>b, <3>1, <4>1 DEF CashoutBet, Viewing
    <3>2. CASE CashoutSlips
      <4>1. user' \in UserRow /\ user'.at = "count"
        BY <1>0, <3>2 DEF CashoutSlips, UserRow, Places
      <4> QED
        BY <2>b, <3>2, <4>1 DEF CashoutSlips, Viewing
    <3>3. CASE CashoutCount
      <4>1. PICK l \in {"update", "refused"}, o \in Nat :
              user' = [user EXCEPT !.at = l, !.offer = o]
        <5> DEFINE value == Value(user.slips,
                                  LostIn(user.slips) \cup LostIn(slips))
        <5>1. value \in Nat /\ user.offer \in Nat
          BY <1>0, ValueIsNat DEF UserRow
        <5>2. user' = [user EXCEPT
                    !.at    = IF SameAmount(value, user.offer) THEN "update"
                                                               ELSE "refused",
                    !.offer = IF SameAmount(value, user.offer) THEN user.offer
                                                               ELSE value]
          BY <3>3 DEF CashoutCount
        <5> HIDE DEF value
        <5> QED
          BY <5>1, <5>2
      <4>2. user' \in UserRow /\ user'.at \in {"update", "refused"}
        BY <1>0, <4>1 DEF UserRow, Places
      <4> QED
        BY <2>b, <3>3, <4>2 DEF CashoutCount, Viewing
    <3>4. CASE CashoutUpdate
      <4>1. user' \in UserRow /\ user'.at = "end"
        BY <1>0, <3>4 DEF CashoutUpdate, UserRow, Places
      <4>2. bets' \in [1..1 -> BetStatuses]
        BY <2>0, <3>4 DEF CashoutUpdate, BetStatuses
      <4> QED
        BY <2>a, <3>4, <4>1, <4>2 DEF CashoutUpdate, Typed, Viewing
    <3> QED
      BY <2>8, <3>1, <3>2, <3>3, <3>4 DEF Cashout
  <2>9. CASE UNCHANGED <<bets, cashing>>
    BY <1>0, <2>9, <2>b DEF cashing, Typed
  <2> QED
    BY <1>2, <2>1, <2>2, <2>w, <2>3, <2>4, <2>5, <2>6, <2>7, <2>8, <2>9,
       UserSteps
<1> QED
  BY <1>1, <1>2

(* A user who is away has listed nothing, and is offered nothing.          *)
LEMMA InitIInv == Init => IInv
<1> SUFFICES ASSUME Init PROVE IInv
  OBVIOUS
<1>1. /\ user.at = "away" /\ user.offer = 0 /\ user.pending = 0
      /\ user \in UserRow
  <2>1. PICK m \in {TRUE, Leafs} : user = [Away EXCEPT !.matches = m]
    BY DEF Init
  <2>2. m \in BOOLEAN
    BY DEF Leafs
  <2>3. Away \in UserRow
    BY DEF Away, UserRow, Places, BetStatuses, SlipResults
  <2> QED
    BY <2>1, <2>2, <2>3 DEF Away, UserRow
<1>2. slips \in [Slips -> SlipResults] /\ \A x \in Slips : slips[x] = "pending"
  BY DEF Init, SlipResults
<1>3. DOMAIN reader = Fields /\ reader.at = "count"
  BY DEF Init, Fields
<1>4. regrades \in Nat /\ stale = FALSE /\ doomed = {}
  BY DEF Init
<1>5. ~Leafs => bets \in [1..1 -> BetStatuses] /\ bets[1] = BET_PENDING
  BY DEF Init, BetStatuses
<1>6. Typed
  BY <1>1, <1>2, <1>3, <1>4, <1>5 DEF Typed, Viewing
<1>7. ~Leafs => Fresh /\ Agree
  BY <1>1, <1>2, <1>5 DEF Fresh, Agree, Says, BET_PENDING, BET_LOST, BET_WON
<1> QED
  BY <1>1, <1>4, <1>6, <1>7 DEF IInv, LostBetsKeepTheirStake

(* As long as nothing that counts happens, the offer that was listed is    *)
(* the value that a cashout computes again.                                *)
LEMMA FreshStep ==
  ASSUME Typed, ~Leafs, [Next]_vars, ~stale => Fresh
  PROVE  ~stale' => Fresh'
<1> SUFFICES ASSUME ~stale' PROVE Fresh'
  OBVIOUS
<1>0. user \in UserRow /\ slips \in [Slips -> SlipResults]
      /\ bets \in [1..1 -> BetStatuses] /\ Viewing(user)
  BY DEF Typed
<1>1. ASSUME NEW x \in Slips, Grade(x) PROVE Fresh'
  <2>1. ~stale /\ slips[x] = "pending" /\ slips' = [slips EXCEPT ![x] = "won"]
    BY <1>1, Zenon DEF Grade
  <2>2. user' = user /\ bets' = bets
    BY <1>1, Zenon DEF Grade
  <2>3. LostIn(slips') = LostIn(slips) /\ VoidsIn(slips') = VoidsIn(slips)
    BY <1>0, <2>1 DEF LostIn, VoidsIn, Voids
  <2> QED
    BY <2>1, <2>2, <2>3 DEF Fresh
<1>2. CASE Withdraw \/ Finish \/ Overrule
  BY <1>2, Zenon DEF Withdraw, Finish, Overrule
<1>3. CASE ListBet
  <2>1. bets' = bets /\ slips' = slips
        /\ \E v \in Counting \cup {"tickets", "single"} :
             user' = [user EXCEPT !.at = "slips of view", !.view = v,
                                  !.row = bets[1]]
    BY <1>3, Zenon DEF ListBet
  <2>2. user'.at = "slips of view" /\ user'.row = bets[1]
    BY <1>0, <2>1 DEF UserRow
  <2> QED
    BY <2>1, <2>2 DEF Fresh
<1>4. CASE ListSlips
  <2>1. Fresh /\ bets' = bets /\ slips' = slips
    BY <1>4, Zenon DEF ListSlips
  <2>2. /\ user.at = "slips of view" /\ user'.at \in {"pending", "listed"}
        /\ user'.row = user.row /\ user'.slips = slips
        /\ user'.offer = user.offer
    BY <1>0, <1>4 DEF ListSlips, UserRow
  <2>3. user'.offer = 0
    BY <1>0, <2>2 DEF Viewing
  <2>4. bets'[1] = user'.row
    BY <2>1, <2>2 DEF Fresh
  <2>5. LostIn(slips') = LostIn(user'.slips)
        /\ VoidsIn(slips') = VoidsIn(user'.slips)
    BY <2>1, <2>2
  <2>6. user'.at \notin {"refused", "asked", "slips", "count"}
    BY <2>2
  <2>7. ~(user'.offer > 0)
    BY <2>3
  <2> QED
    BY <2>4, <2>5, <2>6, <2>7, Zenon DEF Fresh
<1>5. CASE ListPending
  <2>1. Fresh /\ bets' = bets /\ slips' = slips
    BY <1>5, Zenon DEF ListPending
  <2>2. /\ user.at = "pending" /\ user'.at = "listed"
        /\ user'.row = user.row /\ user'.slips = user.slips
        /\ user'.matches = user.matches
        /\ user'.offer =
             IF user.view = "history" THEN HistoryAnswer.offer ELSE 0
    BY <1>0, <1>5 DEF ListPending, UserRow
  <2>3. user'.offer > 0 =>
          /\ user.row = BET_PENDING /\ user.matches
          /\ LostIn(user.slips) = {}
          /\ user'.offer = Ladder[Factor(user.slips)]
    BY <2>2 DEF HistoryAnswer, Value, NoneLost
  <2> QED
    BY <2>1, <2>2, <2>3 DEF Fresh, Factor
<1>6. CASE Leave
  <2>1. user'.at = "away"
    BY <1>6 DEF Leave, Away
  <2> QED
    BY <2>1 DEF Fresh
<1>7. CASE Ask
  <2>1. Fresh /\ bets' = bets /\ slips' = slips
    BY <1>7, Zenon DEF Ask
  <2>2. /\ user.at = "listed" /\ user.offer > 0 /\ user'.at = "asked"
        /\ user'.row = user.row /\ user'.slips = user.slips
        /\ user'.matches = user.matches /\ user'.offer = user.offer
    BY <1>0, <1>7, <2>1 DEF Ask, UserRow, Fresh
  <2> QED
    BY <2>1, <2>2 DEF Fresh, Factor
<1>8. CASE CashoutBet
  <2>1. Fresh /\ bets' = bets /\ slips' = slips
    BY <1>8, Zenon DEF CashoutBet
  <2>2. user.at = "asked" /\ bets[1] = BET_PENDING
    BY <1>8, <2>1 DEF CashoutBet, Fresh
  <2>3. /\ user'.at = "slips"
        /\ user'.row = user.row /\ user'.slips = user.slips
        /\ user'.matches = user.matches /\ user'.offer = user.offer
    BY <1>0, <1>8, <2>2 DEF CashoutBet, UserRow
  <2> QED
    BY <2>1, <2>2, <2>3 DEF Fresh, Factor
<1>9. CASE CashoutSlips
  <2>1. Fresh /\ bets' = bets /\ slips' = slips
    BY <1>9, Zenon DEF CashoutSlips
  <2>2. /\ user.at = "slips" /\ user'.at = "count"
        /\ user'.row = user.row /\ user'.slips = slips
        /\ user'.matches = user.matches /\ user'.offer = user.offer
    BY <1>0, <1>9 DEF CashoutSlips, UserRow
  <2>3. LostIn(slips) = LostIn(user.slips)
        /\ Factor(slips) = Factor(user.slips)
    BY <2>1, <2>2 DEF Fresh, Factor, VoidsIn
  <2> QED
    BY <2>1, <2>2, <2>3 DEF Fresh
<1>10. CASE CashoutCount
  <2>1. Fresh /\ bets' = bets /\ slips' = slips
    BY <1>10, Zenon DEF CashoutCount
  <2>2. user.at = "count" /\ user.offer > 0 /\ user.matches
        /\ LostIn(user.slips) = {} /\ LostIn(slips) = {}
        /\ user.offer = Ladder[Factor(user.slips)]
    BY <1>10, <2>1 DEF CashoutCount, Fresh
  <2>3. Value(user.slips, LostIn(user.slips) \cup LostIn(slips)) = user.offer
    BY <2>2 DEF Value, NoneLost
  <2>4. /\ user'.at = "update" /\ user'.row = user.row
        /\ user'.slips = user.slips
    BY <1>0, <1>10, <2>3 DEF CashoutCount, SameAmount, UserRow
  <2> QED
    BY <2>1, <2>2, <2>4 DEF Fresh
<1>11. CASE CashoutUpdate
  <2>1. user'.at = "end"
    BY <1>0, <1>11 DEF CashoutUpdate, UserRow
  <2> QED
    BY <2>1 DEF Fresh
<1>12. CASE UNCHANGED <<bets, cashing>>
  BY <1>12, Zenon DEF cashing, Fresh
<1> QED
  BY <1>1, <1>2, <1>3, <1>4, <1>5, <1>6, <1>7, <1>8, <1>9, <1>10, <1>11, <1>12,
     UserSteps DEF Cashout

(* As long as no result is taken back, nor the bet resulted by hand, what  *)
(* was read of a bet and of its slips one after the other agrees.          *)
LEMMA AgreeStep ==
  ASSUME Typed, Typed', ~Leafs, [Next]_vars, regrades = 0 => Agree
  PROVE  regrades' = 0 => Agree'
<1> SUFFICES ASSUME regrades' = 0 PROVE Agree'
  OBVIOUS
<1> DEFINE Reads == {"slips of view", "pending", "listed"}
<1>0. user \in UserRow /\ slips \in [Slips -> SlipResults]
      /\ bets \in [1..1 -> BetStatuses] /\ regrades \in Nat /\ Viewing(user)
  BY DEF Typed
<1>1. ASSUME NEW x \in Slips, Grade(x) PROVE Agree'
  <2>1. regrades' = IF slips[x] = "pending" THEN regrades ELSE regrades + 1
    BY <1>1, Zenon DEF Grade
  <2>2. slips[x] = "pending" /\ Agree
    BY <1>0, <2>1
  <2>3. \E r \in SlipResults \ {slips[x]} : slips' = [slips EXCEPT ![x] = r]
    BY <1>1, Zenon DEF Grade
  <2>4. user' = user /\ bets' = bets
    BY <1>1, Zenon DEF Grade
  <2>5. LosersIn(slips) \subseteq LosersIn(slips')
        /\ PendingIn(slips') \subseteq PendingIn(slips)
        /\ PendingIn(slips) # {}
    BY <1>0, <2>2, <2>3 DEF LosersIn, PendingIn
  <2>6. ASSUME NEW s, Says(s, slips) PROVE Says(s, slips')
    BY <2>5, <2>6 DEF Says
  <2> QED
    BY <2>2, <2>4, <2>5, <2>6 DEF Agree
<1>2. CASE Finish
  <2>1. Agree /\ user' = user /\ slips' = slips
    BY <1>2, Zenon DEF Finish
  <2>2. Says(bets'[1], slips)
    <3>u. regrades' = regrades
      BY <1>2, Zenon DEF Finish
    <3>0. ~(regrades > 0)
      BY <1>0, <3>u
    <3>1. PICK s \in {BET_CANCELLED, BET_VOIDED, BET_LOST, BET_WON} :
            /\ s = BET_LOST => \E x \in Slips : Loses(x)
            /\ s = BET_WON  => \A x \in Slips : Wins(x)
            /\ bets' = [bets EXCEPT ![1] = s]
      BY <1>2, <3>0, Zenon DEF Finish
    <3>2. bets'[1] = s
      BY <1>0, <3>1
    <3>3. s = BET_LOST => LosersIn(slips) # {}
      BY <3>1 DEF Loses, LosersIn
    <3>4. s = BET_WON => LosersIn(slips) = {} /\ PendingIn(slips) = {}
      BY <3>1 DEF Wins, LosersIn, PendingIn
    <3> QED
      BY <3>2, <3>3, <3>4 DEF Says
  <2> QED
    BY <2>1, <2>2 DEF Agree
<1>w. CASE Withdraw
  <2>1. /\ regrades' = IF \A x \in Slips : slips[x] = "pending"
                        THEN regrades ELSE regrades + 1
        /\ user' = user /\ bets' = bets
        /\ slips' = [x \in Slips |-> IF slips[x] \in Voids THEN "void"
                                                          ELSE "withdrawn"]
    BY <1>w, Zenon DEF Withdraw
  <2>2. Agree /\ \A x \in Slips : slips[x] = "pending"
    BY <1>0, <2>1
  <2>3. LosersIn(slips) = {} /\ LosersIn(slips') = {} /\ PendingIn(slips') = {}
    BY <2>1, <2>2 DEF LosersIn, PendingIn, Voids
  <2>4. ASSUME NEW s, Says(s, slips) PROVE Says(s, slips')
    BY <2>3, <2>4 DEF Says
  <2> QED
    BY <2>1, <2>2, <2>3, <2>4 DEF Agree
<1>o. CASE Overrule
  BY <1>0, <1>o DEF Overrule
<1>3. CASE ListBet
  <2>1. Agree /\ bets' = bets /\ slips' = slips
        /\ \E v \in Counting \cup {"tickets", "single"} :
             user' = [user EXCEPT !.at = "slips of view", !.view = v,
                                  !.row = bets[1]]
    BY <1>3, Zenon DEF ListBet
  <2>2. user'.at = "slips of view" /\ user'.row = bets[1]
    BY <1>0, <2>1 DEF UserRow
  <2> QED
    BY <2>1, <2>2 DEF Agree
<1>4. CASE ListSlips
  <2>1. Agree /\ bets' = bets /\ slips' = slips
    BY <1>4, Zenon DEF ListSlips
  <2>2. /\ user.at = "slips of view" /\ user'.at \in {"pending", "listed"}
        /\ user'.row = user.row /\ user'.slips = slips
        /\ user'.pending = user.pending
    BY <1>0, <1>4 DEF ListSlips, UserRow
  <2>3. user'.pending = 0
    BY <1>0, <2>2 DEF Viewing
  <2>4. Says(bets[1], slips) /\ Says(user.row, slips)
    BY <2>1, <2>2 DEF Agree
  <2>5. PendingIn(slips) \in SUBSET Slips
    BY DEF PendingIn
  <2>6. 0 <= Cardinality(PendingIn(slips))
    BY <2>5, Counts
  <2> QED
    BY <2>1, <2>2, <2>3, <2>4, <2>6 DEF Agree
<1>5. CASE ListPending
  <2>1. Agree /\ bets' = bets /\ slips' = slips
    BY <1>5, Zenon DEF ListPending
  <2>2. /\ user.at = "pending" /\ user'.at = "listed"
        /\ user'.row = user.row /\ user'.slips = user.slips
        /\ user'.pending = Cardinality(PendingIn(slips))
    BY <1>0, <1>5 DEF ListPending, UserRow, PendingIn
  <2>3. /\ Says(bets[1], slips) /\ Says(user.row, slips)
        /\ Says(user.row, user.slips)
        /\ PendingIn(slips) \subseteq PendingIn(user.slips)
    BY <2>1, <2>2 DEF Agree
  <2>4. PendingIn(user.slips) \in SUBSET Slips
        /\ PendingIn(slips) \in SUBSET Slips
    BY DEF PendingIn
  <2>5. user'.pending <= Cardinality(PendingIn(user.slips))
    BY <2>2, <2>3, <2>4, Counts
  <2>6. user.row = BET_WON => user'.pending = 0
    BY <2>2, <2>3, FS_EmptySet DEF Says
  <2> QED
    BY <2>1, <2>2, <2>3, <2>5, <2>6 DEF Agree
<1>6. CASE Leave \/ Ask \/ CashoutBet \/ CashoutSlips \/ CashoutCount
  <2>1. Agree /\ bets' = bets /\ slips' = slips
    BY <1>6, Zenon DEF Leave, Ask, CashoutBet, CashoutSlips, CashoutCount
  <2>2. user'.at \notin Reads
    BY <1>0, <1>6 DEF Leave, Away, Ask, CashoutBet, CashoutSlips, CashoutCount,
       UserRow
  <2> QED
    BY <2>1, <2>2 DEF Agree
<1>7. CASE CashoutUpdate
  <2>1. bets'[1] = BET_CASHOUT
    BY <1>0, <1>7 DEF CashoutUpdate
  <2>2. user'.at \notin Reads
    BY <1>0, <1>7 DEF CashoutUpdate, UserRow
  <2>3. Says(bets'[1], slips')
    BY <2>1 DEF Says, BET_LOST, BET_WON, BET_CASHOUT
  <2> QED
    BY <2>2, <2>3 DEF Agree
<1>8. CASE UNCHANGED <<bets, cashing>>
  BY <1>8, Zenon DEF cashing, Agree
<1> QED
  BY <1>1, <1>2, <1>3, <1>4, <1>5, <1>6, <1>7, <1>8, <1>w, <1>o, UserSteps
     DEF Cashout

(* A cashout finds the slips that had lost when it was asked for, unless   *)
(* they were regraded.                                                     *)
LEMMA DoomedStep ==
  ASSUME Typed, ~Leafs, [Next]_vars, doomed \subseteq LostIn(slips),
         LostBetsKeepTheirStake
  PROVE  doomed' \subseteq LostIn(slips') /\ LostBetsKeepTheirStake'
<1>0. user \in UserRow /\ slips \in [Slips -> SlipResults]
      /\ doomed \subseteq Slips
  BY DEF Typed
<1>1. ASSUME NEW x \in Slips, Grade(x)
      PROVE  doomed' \subseteq LostIn(slips') /\ LostBetsKeepTheirStake'
  <2>1. doomed' = {y \in doomed : slips'[y] = "lost"} /\ user' = user
    BY <1>1, Zenon DEF Grade
  <2> QED
    BY <1>0, <2>1 DEF LostIn, LostBetsKeepTheirStake
<1>2. CASE Withdraw \/ Finish \/ Overrule
  <2>1. user' = user
    BY <1>2, Zenon DEF Withdraw, Finish, Overrule
  <2>2. doomed' = {} \/ (doomed' = doomed /\ slips' = slips)
    <3>1. Withdraw => doomed' = {}
      BY Zenon DEF Withdraw
    <3>2. Finish \/ Overrule => doomed' = doomed /\ slips' = slips
      BY Zenon DEF Finish, Overrule
    <3> QED
      BY <1>2, <3>1, <3>2
  <2> QED
    BY <2>1, <2>2 DEF LostBetsKeepTheirStake
<1>3. CASE ListBet \/ ListSlips \/ ListPending \/ Leave \/ CashoutBet
           \/ CashoutSlips
  <2>1. doomed' = doomed /\ slips' = slips
    BY <1>3, Zenon DEF ListBet, ListSlips, ListPending, Leave, CashoutBet,
       CashoutSlips
  <2>2. user'.at \notin {"update", "end"}
    BY <1>0, <1>3 DEF ListBet, ListSlips, ListPending, Leave, Away, CashoutBet,
       CashoutSlips, UserRow
  <2> QED
    BY <2>1, <2>2 DEF LostBetsKeepTheirStake
<1>4. CASE Ask
  <2>1. doomed' = LostIn(slips) /\ slips' = slips
    BY <1>4, Zenon DEF Ask
  <2>2. user'.at = "asked"
    BY <1>0, <1>4 DEF Ask, UserRow
  <2> QED
    BY <2>1, <2>2 DEF LostBetsKeepTheirStake
<1>5. CASE CashoutCount
  <2> DEFINE lost == LostIn(user.slips) \cup LostIn(slips)
  <2>1. doomed' = doomed /\ slips' = slips
    BY <1>5, Zenon DEF CashoutCount
  <2>2. user'.at = "update" /\ user'.offer > 0 => lost = {}
    BY <1>0, <1>5 DEF CashoutCount, SameAmount, Value, NoneLost, UserRow
  <2>3. user'.at # "end"
    BY <1>0, <1>5 DEF CashoutCount, UserRow
  <2> QED
    BY <2>1, <2>2, <2>3 DEF LostBetsKeepTheirStake
<1>6. CASE CashoutUpdate
  <2>1. doomed' = doomed /\ slips' = slips
    BY <1>6, Zenon DEF CashoutUpdate
  <2>2. user.at = "update" /\ user'.offer = user.offer
    BY <1>0, <1>6 DEF CashoutUpdate, UserRow
  <2> QED
    BY <2>1, <2>2 DEF LostBetsKeepTheirStake
<1>7. CASE UNCHANGED <<bets, cashing>>
  BY <1>7, Zenon DEF cashing, LostBetsKeepTheirStake
<1> QED
  BY <1>1, <1>2, <1>3, <1>4, <1>5, <1>6, <1>7, UserSteps DEF Cashout

LEMMA IInvStep == IInv /\ [Next]_vars => IInv'
<1> SUFFICES ASSUME IInv, [Next]_vars PROVE IInv'
  OBVIOUS
<1>1. Typed /\ Typed'
  BY TypedStep DEF IInv
<1>2. CASE Leafs
  BY <1>1, <1>2, UserSteps DEF IInv
<1>3. CASE ~Leafs
  BY <1>1, <1>3, FreshStep, AgreeStep, DoomedStep DEF IInv
<1> QED
  BY <1>2, <1>3

(* The code of an answer's status tells a lost bet and a won one.          *)
LEMMA AgreeSays ==
  ASSUME Typed, Agree, ~Leafs, regrades = 0
  PROVE  AnswersAgree
<1> SUFFICES ASSUME user.at = "listed" PROVE AnswersAgree
  BY DEF AnswersAgree
<1> DEFINE Listed(code) == {x \in Slips : Answer.slips[x] = code}
<1>0. user \in UserRow /\ user.view \in Views
  BY DEF Typed, Viewing
<1>1. Answer.slips = SlipCodes
  BY <1>0 DEF Answer, Views, Counting, HistoryAnswer, TicketsAnswer,
     AgentAnswer, SingleAnswer
<1>2. Listed(2) \cup Listed(3) = LosersIn(user.slips)
      /\ PendingIn(user.slips) \subseteq Listed(0)
  BY <1>0, <1>1 DEF SlipCodes, SlipCode, LosersIn, PendingIn
<1>3. Answer.status = StatusCode(user.row)
      \/ Answer.status = 3
  BY <1>0 DEF Answer, Views, Counting, HistoryAnswer, TicketsAnswer,
     AgentAnswer, SingleAnswer
<1>4. /\ Answer.status = 2 => user.row = BET_LOST
      /\ Answer.status = 1 => user.row \in {BET_WON, BET_CASHOUT}
  BY <1>0, <1>3 DEF StatusCode, UserRow, BetStatuses, BET_CANCELLED,
     BET_PENDING, BET_LOST, BET_WON, BET_VOIDED, BET_CASHOUT
<1>5. Says(user.row, user.slips)
      /\ user.pending <= Cardinality(PendingIn(user.slips))
      /\ (user.row = BET_WON => user.pending = 0)
  BY DEF Agree
<1>6. user.pending <= Cardinality(Listed(0))
  <2>1. Listed(0) \in SUBSET Slips /\ PendingIn(user.slips) \in SUBSET Slips
    BY DEF PendingIn
  <2>2. Cardinality(PendingIn(user.slips)) <= Cardinality(Listed(0))
        /\ Cardinality(PendingIn(user.slips)) \in Nat
        /\ Cardinality(Listed(0)) \in Nat
    BY <1>2, <2>1, Counts
  <2> QED
    BY <1>0, <1>5, <2>2 DEF UserRow
<1>7. Answer.status = 2 => Listed(2) \cup Listed(3) # {}
  BY <1>2, <1>4, <1>5 DEF Says
<1>8. Answer.status = 1 /\ user.row # BET_CASHOUT =>
        Listed(2) \cup Listed(3) = {} /\ user.pending = 0
  BY <1>2, <1>4, <1>5 DEF Says
<1> QED
  BY <1>6, <1>7, <1>8 DEF AnswersAgree

LEMMA IInvAlways == Spec => []IInv
BY InitIInv, IInvStep, PTL DEF Spec

-----------------------------------------------------------------------------
(* Whatever is resulted between the statements of a view, its answer does  *)
(* not contradict itself, unless a result was taken back or the bet was    *)
(* resulted by hand: findAll, findSingle, getSportsTickets and agentBets   *)
(* read a bet before its slips.                                            *)
THEOREM Answers == Spec => []AnswersAgree
<1>1. IInv => AnswersAgree
  <2> SUFFICES ASSUME IInv, regrades = 0, user.at = "listed"
               PROVE  AnswersAgree
    BY DEF AnswersAgree
  <2>1. Typed /\ ~Leafs
    BY DEF IInv, Typed
  <2> QED
    BY <2>1, AgreeSays DEF IInv
<1> QED
  BY <1>1, IInvAlways, PTL

(* processCashout refuses the amount that findAll offered only after the   *)
(* bet was resulted or cancelled, or a slip was lost, voided or regraded.  *)
THEOREM Offers == Spec => []OffersHold
<1>1. IInv => OffersHold
  <2> SUFFICES ASSUME IInv, user.at = "refused", ~stale PROVE FALSE
    BY Zenon DEF OffersHold
  <2>1. ~Leafs
    BY DEF IInv, Typed
  <2> QED
    BY <2>1 DEF IInv, Fresh
<1> QED
  BY <1>1, IInvAlways, PTL

(* processCashout pays for no bet with a slip that had lost when it was    *)
(* asked, and was not regraded: it reads the slips, and then counts the    *)
(* lost ones, after the request came.                                      *)
THEOREM Cashouts == Spec => []LostBetsKeepTheirStake
<1>1. IInv => LostBetsKeepTheirStake
  <2> SUFFICES ASSUME IInv, user.at \in {"update", "end"}
               PROVE  LostBetsKeepTheirStake
    BY DEF LostBetsKeepTheirStake
  <2>1. ~Leafs
    BY DEF IInv, Typed
  <2> QED
    BY <2>1 DEF IInv
<1> QED
  BY <1>1, IInvAlways, PTL

-----------------------------------------------------------------------------
(* The readers.  Rows stand at places that move when rows come and go; what*)
(* a reader has missed is counted before the place the next page starts at.*)
(* The place of row b in a listing of S, counted from 0.                   *)
Rank(S, b) == Cardinality({c \in S : c > b})

(* The rows that a listing owes for the pages before page p, and how many  *)
(* of these it may have passed over.                                       *)
Frontier(kind, p, n) ==
  CASE kind \in {"history", "tickets"} ->
         IF n * (p - 1) > 1 THEN n * (p - 1) - 1 ELSE n * (p - 1)
    [] kind = "agent" -> IF p > 1 THEN n * (p - 1) + 1 ELSE 0
    [] OTHER          -> PagerSize * (p - 1) + 1

Gap(kind, p) == CASE kind \in {"history", "tickets"} -> 0
                  [] kind = "agent" -> IF p > 1 THEN 1 ELSE 0
                  [] OTHER          -> 1

LEMMA RankType ==
  ASSUME NEW S \in SUBSET Int, IsFiniteSet(S), NEW b \in Int
  PROVE  /\ Rank(S, b) \in Nat /\ Rank(S, b) <= Cardinality(S)
         /\ b \in S => Rank(S, b) < Cardinality(S)
<1> DEFINE T == {c \in S : c > b}
<1>1. T \in SUBSET S /\ (b \in S => b \notin T)
  OBVIOUS
<1>2. /\ IsFiniteSet(T) /\ Cardinality(T) <= Cardinality(S)
      /\ Cardinality(S) = Cardinality(T) => S = T
  BY <1>1, FS_Subset
<1>3. Cardinality(T) \in Nat /\ Cardinality(S) \in Nat
  BY <1>2, FS_CardinalityType
<1> QED
  BY <1>1, <1>2, <1>3 DEF Rank

(* An older row stands behind a newer one.                                 *)
LEMMA RankOrder ==
  ASSUME NEW S \in SUBSET Int, IsFiniteSet(S), NEW b \in S, NEW c \in S, b < c
  PROVE  Rank(S, c) < Rank(S, b)
<1> DEFINE B == {d \in S : d > b}
           C == {d \in S : d > c}
<1>1. C \in SUBSET B /\ c \in B /\ c \notin C /\ B \in SUBSET S
  <2>1. b \in Int /\ c \in Int /\ \A d \in S : d \in Int
    OBVIOUS
  <2>2. c > b /\ ~(c > c) /\ \A d \in S : d > c => d > b
    BY <2>1
  <2> QED
    BY <2>2, Zenon
<1>2. IsFiniteSet(B)
  BY <1>1, FS_Subset
<1>3. /\ IsFiniteSet(C) /\ Cardinality(C) <= Cardinality(B)
      /\ Cardinality(B) = Cardinality(C) => B = C
  BY <1>1, <1>2, FS_Subset
<1>4. Cardinality(B) \in Nat /\ Cardinality(C) \in Nat
  BY <1>2, <1>3, FS_CardinalityType
<1> QED
  BY <1>1, <1>3, <1>4 DEF Rank

(* At most one row stands at a place.                                      *)
LEMMA OneAtRank ==
  ASSUME NEW S \in SUBSET Int, IsFiniteSet(S), NEW k
  PROVE  LET T == {b \in S : Rank(S, b) = k}
         IN  IsFiniteSet(T) /\ Cardinality(T) \in {0, 1}
<1> DEFINE T == {b \in S : Rank(S, b) = k}
<1>1. IsFiniteSet(T)
  <2>1. T \in SUBSET S
    OBVIOUS
  <2> QED
    BY <2>1, FS_Subset
<1>2. CASE T = {}
  BY <1>1, <1>2, FS_EmptySet
<1>3. CASE T # {}
  <2>1. PICK b : b \in T
    BY <1>3
  <2>2. ASSUME NEW c \in T PROVE c = b
    <3>1. ~(b < c) /\ ~(c < b)
      BY <2>1, <2>2, RankOrder, RankType
    <3> QED
      BY <2>1, <2>2, <3>1
  <2>3. T = {b}
    BY <2>1, <2>2
  <2> QED
    BY <1>1, <2>3, FS_Singleton
<1> QED
  BY <1>1, <1>2, <1>3

(* The rows from place e on.                                               *)
LEMMA RowsBeyond ==
  ASSUME NEW S \in SUBSET Int, IsFiniteSet(S), NEW e \in Nat
  PROVE  LET T == {b \in S : Rank(S, b) >= e}
         IN  /\ IsFiniteSet(T)
             /\ Cardinality(T) <= IF Cardinality(S) > e
                                    THEN Cardinality(S) - e ELSE 0
<1> DEFINE T == {b \in S : Rank(S, b) >= e}
           I == e .. (Cardinality(S) - 1)
           f == [b \in T |-> Rank(S, b)]
<1>0. Cardinality(S) \in Nat
  BY FS_CardinalityType
<1>a. \A b \in S : Rank(S, b) \in Nat /\ Rank(S, b) < Cardinality(S)
  BY RankType
<1>b. \A b \in T : f[b] \in I
  BY <1>0, <1>a
<1>1. f \in [T -> I]
  BY <1>b
<1>2. \A b, c \in T : f[b] = f[c] => b = c
  <2> SUFFICES ASSUME NEW b \in T, NEW c \in T, f[b] = f[c] PROVE b = c
    OBVIOUS
  <2>1. Rank(S, b) = Rank(S, c) /\ Rank(S, b) \in Nat
    BY RankType
  <2>2. ~(b < c) /\ ~(c < b)
    BY <2>1, RankOrder
  <2> QED
    BY <2>2
<1>3. f \in Injection(T, I)
  <2> HIDE DEF f
  <2> QED
    BY <1>1, <1>2 DEF Injection, IsInjective
<1>4. IsFiniteSet(I)
      /\ Cardinality(I) = IF e > Cardinality(S) - 1 THEN 0
                          ELSE Cardinality(S) - 1 - e + 1
  <2>1. e \in Int /\ Cardinality(S) - 1 \in Int
    BY <1>0
  <2> QED
    BY <2>1, FS_Interval
<1>5. IsFiniteSet(T) /\ Cardinality(T) <= Cardinality(I)
  <2> HIDE DEF f, T, I
  <2> QED
    BY <1>3, <1>4, FS_Injection
<1>6. Cardinality(T) \in Nat
  BY <1>5, FS_CardinalityType
<1> QED
  BY <1>0, <1>4, <1>5, <1>6

(* A row that leaves a listing brings at most one row before place g that  *)
(* stood behind; a row that comes in brings none.                          *)
LEMMA RowGoes ==
  ASSUME NEW S \in SUBSET Int, IsFiniteSet(S), NEW c \in S,
         NEW U \in SUBSET S, NEW g \in Nat
  PROVE  Cardinality({b \in U \ {c} : Rank(S \ {c}, b) < g})
           <= Cardinality({b \in U : Rank(S, b) < g}) + 1
<1> DEFINE L == {b \in U : Rank(S, b) < g}
           M == {b \in U \ {c} : Rank(S \ {c}, b) < g}
           A == {b \in S : Rank(S, b) = g}
<1>1. ASSUME NEW b \in S \ {c}
      PROVE  Rank(S, b) <= Rank(S \ {c}, b) + 1
  <2> DEFINE X == {d \in S : d > b}
             Y == {d \in S \ {c} : d > b}
  <2>1. Y = X \ {c} /\ X \in SUBSET S
    OBVIOUS
  <2>2. IsFiniteSet(X)
    BY <2>1, FS_Subset
  <2>3. Cardinality(Y) = IF c \in X THEN Cardinality(X) - 1 ELSE Cardinality(X)
    BY <2>1, <2>2, FS_RemoveElement
  <2>4. Cardinality(X) \in Nat
    BY <2>2, FS_CardinalityType
  <2> QED
    BY <2>3, <2>4 DEF Rank
<1>2. IsFiniteSet(S \ {c}) /\ S \ {c} \in SUBSET Int
  BY FS_RemoveElement
<1>a. \A b \in S \ {c} : Rank(S, b) \in Nat /\ Rank(S \ {c}, b) \in Nat
  BY <1>2, RankType
<1>3. M \subseteq L \cup A
  <2> SUFFICES ASSUME NEW b \in M, b \notin L PROVE b \in A
    OBVIOUS
  <2>1. b \in U /\ b \in S \ {c} /\ Rank(S \ {c}, b) < g /\ ~(Rank(S, b) < g)
    OBVIOUS
  <2>2. Rank(S, b) = g
    BY <1>1, <1>a, <2>1
  <2> QED
    BY <2>1, <2>2
<1>4. IsFiniteSet(A) /\ Cardinality(A) \in {0, 1}
  BY OneAtRank
<1>5. IsFiniteSet(L) /\ Cardinality(L) \in Nat
  <2>1. L \in SUBSET S
    OBVIOUS
  <2> QED
    BY <2>1, FS_Subset, FS_CardinalityType
<1> HIDE DEF L, A, M
<1>6. /\ IsFiniteSet(L \cup A) /\ Cardinality(L \cap A) \in Nat
      /\ Cardinality(L \cup A) = Cardinality(L) + Cardinality(A)
                                   - Cardinality(L \cap A)
  BY <1>4, <1>5, FS_Union, FS_Intersection, FS_CardinalityType
<1>7. IsFiniteSet(M) /\ Cardinality(M) <= Cardinality(L \cup A)
  BY <1>3, <1>6, FS_Subset
<1>8. Cardinality(M) \in Nat /\ Cardinality(L \cup A) \in Nat
  BY <1>6, <1>7, FS_CardinalityType
<1>9. Cardinality(M) <= Cardinality(L) + 1
  BY <1>4, <1>5, <1>6, <1>7, <1>8
<1> QED
  BY <1>9 DEF L, M

LEMMA RowComes ==
  ASSUME NEW S \in SUBSET Int, IsFiniteSet(S), NEW c \in Int,
         NEW U \in SUBSET S, NEW g \in Nat
  PROVE  Cardinality({b \in U : Rank(S \cup {c}, b) < g})
           <= Cardinality({b \in U : Rank(S, b) < g})
<1> DEFINE L == {b \in U : Rank(S, b) < g}
           M == {b \in U : Rank(S \cup {c}, b) < g}
<1>1. IsFiniteSet(S \cup {c}) /\ S \cup {c} \in SUBSET Int
  BY FS_AddElement
<1>2. ASSUME NEW b \in S
      PROVE  Rank(S, b) <= Rank(S \cup {c}, b)
  <2> DEFINE X == {d \in S : d > b}
             Y == {d \in S \cup {c} : d > b}
  <2>1. X \in SUBSET Y /\ Y \in SUBSET (S \cup {c})
    OBVIOUS
  <2>2. IsFiniteSet(Y)
    BY <1>1, <2>1, FS_Subset
  <2> QED
    BY <2>1, <2>2, FS_Subset DEF Rank
<1>a. \A b \in S : Rank(S, b) \in Nat /\ Rank(S \cup {c}, b) \in Nat
  BY <1>1, RankType
<1>3. M \in SUBSET L
  <2> SUFFICES ASSUME NEW b \in M PROVE b \in L
    OBVIOUS
  <2>1. b \in U /\ Rank(S \cup {c}, b) < g
    OBVIOUS
  <2>2. Rank(S, b) < g
    BY <1>2, <1>a, <2>1
  <2> QED
    BY <2>1, <2>2
<1>4. L \in SUBSET S
  OBVIOUS
<1>5. IsFiniteSet(L)
  BY <1>4, FS_Subset
<1> QED
  BY <1>3, <1>5, FS_Subset

-----------------------------------------------------------------------------
(* The pages.                                                              *)
PagedWith(kind, n) == CASE kind = "tickets" -> n >= PagerSize
                        [] kind = "shop"    -> n <= PagerSize
                        [] OTHER            -> TRUE

(* A page reaches the next frontier, or covers all rows that were counted  *)
(* but for the one its listing may pass over.                              *)
Reaches(kind, p, n, total) ==
  LET page == Page(kind, p, n, total)
  IN  Frontier(kind, p + 1, n) + Gap(kind, p)
        <= page.offset + page.size + Gap(kind, p + 1)

Covers(kind, p, n, total) ==
  LET page == Page(kind, p, n, total)
  IN  total + Gap(kind, p) <= page.offset + page.size + 1

LEMMA PagesCover ==
  ASSUME NEW total \in Nat, NEW n \in Nat \ {0}
  PROVE  /\ CeilDiv(total, n) \in Nat
         /\ total <= n * CeilDiv(total, n)
<1> DEFINE q == (total + n - 1) \div n
<1>1. q \in Int /\ n * q <= total + n - 1 /\ total + n - 1 < n * q + n
  OBVIOUS
<1>2. q >= 0
  <2> SUFFICES ASSUME q <= -1 PROVE FALSE
    BY <1>1
  <2>1. n * q <= n * (-1)
    BY <1>1
  <2> QED
    BY <1>1, <2>1
<1> QED
  BY <1>1, <1>2 DEF CeilDiv

LEMMA Products ==
  ASSUME NEW n \in Nat \ {0}, NEW p \in Nat \ {0}
  PROVE  /\ n * (p - 1) \in Nat /\ n * p = n * (p - 1) + n
         /\ n * ((p + 1) - 1) = n * (p - 1) + n
         /\ n * (p - 2) = n * (p - 1) - n
         /\ p = 1 => n * (p - 1) = 0
         /\ p # 1 => n * (p - 1) >= n
         /\ \A q \in Nat : q <= p => n * q <= n * p
<1>1. p - 1 \in Nat /\ (p # 1 => p - 1 >= 1)
  OBVIOUS
<1>2. n * (p - 1) \in Nat /\ (p # 1 => n * (p - 1) >= n)
  BY <1>1
<1>3. \A q \in Nat : q <= p => n * q <= n * p
  OBVIOUS
<1> QED
  BY <1>2, <1>3

(* History and tickets share their offsets.                                *)
LEMMA OffsetFacts ==
  ASSUME NEW p \in Nat \ {0}, NEW n \in Nat \ {0}, NEW total \in Nat
  PROVE  LET at == HistoryOffset(p, n, total)
             F(q) == IF n * (q - 1) > 1 THEN n * (q - 1) - 1 ELSE n * (q - 1)
         IN  /\ at \in Nat /\ at <= F(p)
             /\ F(p + 1) <= at + n \/ total <= at + n
             /\ total <= n * p => total <= at + n + 1
<1> DEFINE a == n * (p - 1)
           b == IF a > total THEN n * (p - 2) ELSE a
<1>1. /\ a \in Nat /\ n * p = a + n /\ n * ((p + 1) - 1) = a + n
      /\ n * (p - 2) = a - n /\ (p = 1 => a = 0) /\ (p # 1 => a >= n)
  BY Products
<1>2. HistoryOffset(p, n, total) = IF b > 1 THEN b - 1 ELSE b
  BY DEF HistoryOffset
<1> HIDE DEF a
<1>3. b \in Nat /\ (b = a \/ (a > total /\ b = a - n))
  BY <1>1
<1> DEFINE at == IF b > 1 THEN b - 1 ELSE b
<1>4. at \in Nat /\ at <= IF a > 1 THEN a - 1 ELSE a
  BY <1>1, <1>3
<1>5. \/ (IF a + n > 1 THEN a + n - 1 ELSE a + n) <= at + n
      \/ total <= at + n
  BY <1>1, <1>3
<1>6. total <= n * p => total <= at + n + 1
  BY <1>1, <1>3
<1> HIDE DEF b
<1> QED
  BY <1>1, <1>2, <1>4, <1>5, <1>6 DEF a

LEMMA PageFacts ==
  ASSUME NEW kind \in AllKinds, NEW p \in Nat \ {0}, NEW n \in Nat \ {0},
         NEW total \in Nat, PagedWith(kind, n)
  PROVE  LET page == Page(kind, p, n, total)
         IN  /\ page.offset \in Nat /\ page.size \in Nat /\ page.last \in Nat
             /\ page.offset <= Frontier(kind, p, n)
             /\ Reaches(kind, p, n, total) \/ Covers(kind, p, n, total)
             /\ page.last <= p => Covers(kind, p, n, total)
<1> DEFINE page == Page(kind, p, n, total)
           a == n * (p - 1)
           s == PagerSize * (p - 1)
<1>a. PagerSize \in Nat \ {0}
  BY InstanceAssumption
<1>b. /\ a \in Nat /\ n * p = a + n /\ n * ((p + 1) - 1) = a + n
      /\ (p = 1 => a = 0)
      /\ \A q \in Nat : q <= p => n * q <= n * p
  BY Products
<1>c. /\ s \in Nat /\ PagerSize * p = s + PagerSize
      /\ PagerSize * ((p + 1) - 1) = s + PagerSize
      /\ \A q \in Nat : q <= p => PagerSize * q <= PagerSize * p
  BY <1>a, Products
<1>d. /\ CeilDiv(total, n) \in Nat /\ total <= n * CeilDiv(total, n)
      /\ CeilDiv(total, PagerSize) \in Nat
      /\ total <= PagerSize * CeilDiv(total, PagerSize)
  BY <1>a, PagesCover
<1>e. /\ CeilDiv(total, n) <= p => total <= a + n
      /\ CeilDiv(total, PagerSize) <= p => total <= s + PagerSize
  BY <1>a, <1>b, <1>c, <1>d
<1>1. CASE kind = "history"
  <2>1. /\ page.offset = HistoryOffset(p, n, total) /\ page.size = n
        /\ page.last = HistoryLastPage(n, total)
    BY <1>1 DEF Page, HistoryPage
  <2>2. HistoryLastPage(n, total) \in Nat
        /\ (HistoryLastPage(n, total) <= p => total <= n * p)
    <3>1. CASE total <= n
      BY <1>b, <3>1 DEF HistoryLastPage
    <3>2. CASE ~(total <= n)
      <4>1. HistoryLastPage(n, total) \in {CeilDiv(total, n), CeilDiv(total, n) + 1}
        BY <1>d, <3>2 DEF HistoryLastPage
      <4> QED
        BY <1>b, <1>d, <1>e, <4>1
    <3> QED
      BY <3>1, <3>2
  <2> QED
    BY <1>1, <2>1, <2>2, OffsetFacts DEF Frontier, Gap, Reaches, Covers
<1>2. CASE kind = "tickets"
  <2>1. /\ page.offset = HistoryOffset(p, n, total) /\ page.size = n
        /\ page.last = CeilDiv(total, PagerSize)
    BY <1>2 DEF Page, TicketsPage, Pager
  <2>2. CeilDiv(total, PagerSize) <= p => total <= n * p
    <3>1. n >= PagerSize
      BY <1>2 DEF PagedWith
    <3>2. PagerSize * p <= n * p
      BY <1>a, <3>1
    <3> QED
      BY <1>a, <1>b, <1>c, <1>e, <3>2
  <2> QED
    BY <1>2, <1>d, <2>1, <2>2, OffsetFacts DEF Frontier, Gap, Reaches, Covers
<1>3. CASE kind = "agent"
  <2>1. /\ page.offset = (IF p > 1 THEN a + 1 ELSE 0) /\ page.size = n
        /\ page.last = CeilDiv(total, n)
    BY <1>3 DEF Page, AgentPage, Pager
  <2>2. /\ Frontier(kind, p, n) = IF p > 1 THEN a + 1 ELSE 0
        /\ Frontier(kind, p + 1, n) = a + n + 1
        /\ Gap(kind, p) = (IF p > 1 THEN 1 ELSE 0) /\ Gap(kind, p + 1) = 1
    BY <1>3, <1>b DEF Frontier, Gap
  <2> HIDE DEF a, page
  <2>3. /\ Frontier(kind, p + 1, n) + Gap(kind, p)
             <= page.offset + page.size + Gap(kind, p + 1)
        /\ total <= a + n => total + Gap(kind, p) <= page.offset + page.size + 1
    BY <1>b, <2>1, <2>2
  <2> QED
    BY <1>b, <1>d, <1>e, <2>1, <2>2, <2>3 DEF Reaches, Covers, page
<1>4. CASE kind \in {"games", "virtual", "casino", "shop"}
  <2>1. /\ page.offset = s + 1 /\ page.size = PagerSize
        /\ page.last = CeilDiv(total, IF kind = "shop" THEN n ELSE PagerSize)
    BY <1>4 DEF Page, GamesPage, VirtualPage, CasinoPage, ShopPage, Pager
  <2>2. /\ Frontier(kind, p, n) = s + 1
        /\ Frontier(kind, p + 1, n) = s + PagerSize + 1
        /\ Gap(kind, p) = 1 /\ Gap(kind, p + 1) = 1
    BY <1>4, <1>c DEF Frontier, Gap
  <2>3. page.last <= p => total <= s + PagerSize
    <3>1. CASE kind = "shop"
      <4>1. n <= PagerSize
        BY <3>1 DEF PagedWith
      <4>2. n * p <= PagerSize * p
        BY <1>a, <4>1
      <4> QED
        BY <1>a, <1>b, <1>c, <1>e, <2>1, <3>1, <4>2
    <3> QED
      BY <1>e, <2>1, <3>1
  <2> HIDE DEF s, page
  <2>4. /\ Frontier(kind, p + 1, n) + Gap(kind, p)
             <= page.offset + page.size + Gap(kind, p + 1)
        /\ total <= s + PagerSize =>
             total + Gap(kind, p) <= page.offset + page.size + 1
    BY <1>a, <1>c, <2>1, <2>2
  <2> QED
    BY <1>a, <1>c, <1>d, <2>1, <2>2, <2>3, <2>4 DEF Reaches, Covers, page
<1> QED
  BY <1>1, <1>2, <1>3, <1>4 DEF AllKinds

-----------------------------------------------------------------------------
(* The readers.                                                            *)
ReaderRow == [kind : AllKinds \cup {"none"},
              filter : {"all", "settled", "pending"}, n : Nat \ {0},
              page : Nat \ {0}, at : {"count", "select", "done"}, total : Nat,
              shown : SUBSET Nat]

BetTable == /\ Cardinality(DOMAIN bets) \in Nat
            /\ bets \in [1..Cardinality(DOMAIN bets) -> BetStatuses]

(* A reader has no more slack than bets were placed or resulted.           *)
PagesTyped ==
  /\ reader \in ReaderRow /\ BetTable
  /\ reader.shown \cup owed \subseteq DOMAIN bets
  /\ slack \in Nat /\ results \in Nat /\ results <= MaxResults
  /\ Leafs => /\ Cardinality(DOMAIN bets) <= MaxBets
              /\ slack <= Cardinality(DOMAIN bets) + results
              /\ owed \subseteq Matching
  /\ ~Leafs => slack = 0

(* Of the rows owed, those that the pages so far should have shown and did *)
(* not are few, also if all rows that came in since the count are counted  *)
(* with them; once a page has covered all rows there were, this holds of   *)
(* the rows owed altogether, and goes on to.                               *)
Unseen == owed \ reader.shown

Missed == {b \in Unseen : Rank(Matching, b) <
                            Frontier(reader.kind, reader.page, reader.n)}

Excess == IF reader.at = "select" /\ Cardinality(Matching) > reader.total
          THEN Cardinality(Matching) - reader.total ELSE 0

FewMissed ==
  Leafs /\ Paged =>
    \/ Cardinality(Unseen) <= 1 + slack
    \/ /\ reader.at # "done"
       /\ Cardinality(Missed) + Excess <= Gap(reader.kind, reader.page) + slack

LEMMA LeafSteps ==
  ASSUME Typed, [Next]_vars
  PROVE  /\ Leafs => \/ Count \/ Select \/ Place
                     \/ \E b \in DOMAIN bets : ResultBet(b)
                     \/ UNCHANGED <<bets, leafing>>
         /\ ~Leafs => UNCHANGED leafing
<1>1. CASE Leafs
  <2>1. user.at = "away"
    BY <1>1 DEF Typed
  <2> QED
    BY <1>1, <2>1 DEF Next, Grade, Withdraw, Finish, Overrule, ListBet, ListSlips,
       ListPending,
       Leave, Ask, Cashout, CashoutBet, CashoutSlips, CashoutCount,
       CashoutUpdate, vars
<1>2. CASE ~Leafs
  <2>1. reader.at = "count" /\ ~Count /\ ~Select /\ ~Place
        /\ \A b \in DOMAIN bets : ~ResultBet(b)
    BY <1>2 DEF Typed, Count, Select, Place, ResultBet, Meanwhile
  <2> QED
    BY <1>2, <2>1 DEF Next, Grade, Withdraw, Finish, Overrule, ListBet, ListSlips,
       ListPending,
       Leave, Ask, Cashout, CashoutBet, CashoutSlips, CashoutCount,
       CashoutUpdate, vars
<1> QED
  BY <1>1, <1>2

(* The rows of a listing are finitely many numbers.                        *)
LEMMA RowsFinite ==
  ASSUME PagesTyped
  PROVE  /\ DOMAIN bets = 1..Cardinality(DOMAIN bets)
         /\ Matching \in SUBSET Int /\ IsFiniteSet(Matching)
         /\ Cardinality(Matching) \in Nat
<1>1. DOMAIN bets = 1..Cardinality(DOMAIN bets)
      /\ Cardinality(DOMAIN bets) \in Nat
  BY DEF PagesTyped, BetTable
<1>2. IsFiniteSet(DOMAIN bets) /\ DOMAIN bets \in SUBSET Int
  <2>1. Cardinality(DOMAIN bets) \in Int /\ 1 \in Int
    BY <1>1
  <2>2. IsFiniteSet(1..Cardinality(DOMAIN bets))
    BY <2>1, FS_Interval
  <2> QED
    BY <1>1, <2>2
<1>3. Matching \in SUBSET DOMAIN bets
  BY DEF Matching, MatchingIn
<1> QED
  BY <1>1, <1>2, <1>3, FS_Subset, FS_CardinalityType

(* While a reader leafs, bets come and go one at a time.                   *)
Stays    == Matching' = Matching /\ owed' = owed /\ slack' = slack
Goes(c)  == /\ c \in Matching /\ Matching' = Matching \ {c}
            /\ owed' = owed \ {c} /\ slack' = slack + 1
Comes(c) == /\ c \in Int \ Matching /\ Matching' = Matching \cup {c}
            /\ owed' = owed
            /\ slack' = slack + IF reader.at = "select" THEN 1 ELSE 0

LEMMA WatchOne ==
  ASSUME PagesTyped, Leafs, Watch, UNCHANGED reader, NEW c \in Int,
         \A d : d # c => (d \in Matching <=> d \in MatchingIn(bets'))
  PROVE  Stays \/ Goes(c) \/ Comes(c)
<1> DEFINE N == MatchingIn(bets')
           gone == Matching \ N
           come == IF reader.at = "select" THEN N \ Matching ELSE {}
<1>1. Matching' = N
  BY DEF Matching, MatchingIn
<1>2. owed' = owed \ gone /\ slack' = slack + Cardinality(gone \cup come)
  BY DEF Watch
<1>3. Cardinality({}) = 0 /\ Cardinality({c}) = 1
  BY FS_EmptySet, FS_Singleton
<1>4. slack \in Nat /\ owed \subseteq Matching
  BY DEF PagesTyped
<1>5. CASE c \in Matching /\ c \notin N
  <2>1. N = Matching \ {c} /\ gone = {c} /\ come = {}
    BY <1>5
  <2> QED
    BY <1>1, <1>2, <1>3, <1>5, <2>1 DEF Goes
<1>6. CASE c \notin Matching /\ c \in N
  <2>1. N = Matching \cup {c} /\ gone = {}
        /\ come = IF reader.at = "select" THEN {c} ELSE {}
    BY <1>6
  <2>2. owed' = owed
        /\ slack' = slack + IF reader.at = "select" THEN 1 ELSE 0
    BY <1>2, <1>3, <2>1
  <2> QED
    BY <1>1, <1>6, <2>1, <2>2 DEF Comes
<1>7. CASE (c \in Matching) <=> (c \in N)
  <2>1. N = Matching /\ gone = {} /\ come = {}
    BY <1>7
  <2> QED
    BY <1>1, <1>2, <1>3, <1>4, <2>1 DEF Stays
<1> QED
  BY <1>5, <1>6, <1>7

LEMMA OneRow ==
  ASSUME PagesTyped, Leafs,
         Place \/ \E b \in DOMAIN bets : ResultBet(b)
  PROVE  /\ \E c \in Int : Stays \/ Goes(c) \/ Comes(c)
         /\ UNCHANGED reader /\ reader.at # "done"
         /\ BetTable' /\ DOMAIN bets \subseteq DOMAIN bets'
         /\ \/ /\ results' = results
               /\ Cardinality(DOMAIN bets') = Cardinality(DOMAIN bets) + 1
               /\ Cardinality(DOMAIN bets) < MaxBets
            \/ /\ results < MaxResults /\ results' = results + 1
               /\ Cardinality(DOMAIN bets') = Cardinality(DOMAIN bets)
<1> DEFINE k == Cardinality(DOMAIN bets)
<1>1. k \in Nat /\ bets \in [1..k -> BetStatuses] /\ DOMAIN bets = 1..k
  BY DEF PagesTyped, BetTable
<1>2. CASE Place
  <2>1. /\ bets' = [c \in 1..(k + 1) |-> IF c = k + 1 THEN BET_PENDING
                                                      ELSE bets[c]]
        /\ Watch /\ UNCHANGED <<reader, results>> /\ reader.at # "done"
        /\ k < MaxBets
    BY <1>2 DEF Place, Meanwhile
  <2>2. bets' \in [1..(k + 1) -> BetStatuses] /\ DOMAIN bets' = 1..(k + 1)
    BY <1>1, <2>1 DEF BetStatuses
  <2>3. Cardinality(1..(k + 1)) = k + 1
    <3>1. k + 1 \in Int /\ 1 \in Int /\ ~(1 > k + 1) /\ k + 1 - 1 + 1 = k + 1
      BY <1>1
    <3> QED
      BY <3>1, FS_Interval
  <2>4. \A d : d # k + 1 => (d \in Matching <=> d \in MatchingIn(bets'))
    BY <1>1, <2>1, <2>2 DEF Matching, MatchingIn
  <2>5. k + 1 \in Int
    BY <1>1
  <2>6. \E c \in Int : Stays \/ Goes(c) \/ Comes(c)
    BY <2>1, <2>4, <2>5, WatchOne
  <2> QED
    BY <1>1, <2>1, <2>2, <2>3, <2>6 DEF BetTable
<1>3. CASE \E b \in DOMAIN bets : ResultBet(b)
  <2>1. PICK b \in DOMAIN bets : ResultBet(b)
    BY <1>3
  <2>2. PICK s \in Results : bets' = [bets EXCEPT ![b] = s]
    BY <2>1 DEF ResultBet
  <2>3. s \in BetStatuses
    BY InstanceAssumption
  <2>4. /\ bets' \in [1..k -> BetStatuses] /\ DOMAIN bets' = DOMAIN bets
        /\ Watch /\ UNCHANGED reader /\ reader.at # "done"
        /\ results < MaxResults /\ results' = results + 1
    BY <1>1, <2>1, <2>2, <2>3 DEF ResultBet, Meanwhile
  <2>5. \A d : d # b => (d \in Matching <=> d \in MatchingIn(bets'))
    BY <1>1, <2>2, <2>4 DEF Matching, MatchingIn
  <2>6. b \in Int
    BY <1>1
  <2>7. \E c \in Int : Stays \/ Goes(c) \/ Comes(c)
    BY <2>4, <2>5, <2>6, WatchOne
  <2> QED
    BY <1>1, <2>4, <2>7 DEF BetTable
<1> QED
  BY <1>2, <1>3

(* Every step keeps these types.                                           *)
LEMMA PagesTypedStep ==
  ASSUME Typed, Typed', PagesTyped, [Next]_vars
  PROVE  PagesTyped'
<1>1. CASE ~Leafs
  <2>1. UNCHANGED leafing
    BY <1>1, LeafSteps
  <2>a. ~Leafs'
    BY <1>1, <2>1 DEF leafing, Leafs
  <2>2. bets \in [1..1 -> BetStatuses] /\ bets' \in [1..1 -> BetStatuses]
    BY <1>1, <2>a DEF Typed
  <2>3. DOMAIN bets = 1..1 /\ DOMAIN bets' = 1..1 /\ Cardinality(1..1) = 1
    <3>1. 1..1 = {1}
      OBVIOUS
    <3> QED
      BY <2>2, <3>1, FS_Singleton
  <2>4. BetTable'
    BY <2>2, <2>3 DEF BetTable
  <2> QED
    BY <1>1, <2>1, <2>a, <2>3, <2>4 DEF PagesTyped, leafing
<1>2. CASE Leafs
  <2>0. Leafs'
    BY <1>2, UserSteps
  <2>1. CASE Count
    <3>1. Cardinality(Matching) \in Nat /\ Matching \subseteq DOMAIN bets
      BY RowsFinite DEF Matching, MatchingIn
    <3>2. reader' \in ReaderRow /\ reader'.shown = reader.shown
          /\ UNCHANGED <<bets, slack, results>>
          /\ reader'.kind = reader.kind /\ reader'.filter = reader.filter
      BY <2>1, <3>1 DEF Count, PagesTyped, ReaderRow
    <3>3. Matching' = Matching
      BY <3>2 DEF Matching, MatchingIn
    <3>4. owed' \subseteq Matching
      BY <1>2, <2>1 DEF Count, PagesTyped
    <3> QED
      BY <1>2, <2>0, <3>1, <3>2, <3>3, <3>4 DEF PagesTyped, BetTable
  <2>2. CASE Select
    <3> DEFINE page == Page(reader.kind, reader.page, reader.n, reader.total)
               W    == Window(Matching, page.offset, page.size)
    <3>1. W \subseteq Matching /\ Matching \subseteq DOMAIN bets
          /\ DOMAIN bets \subseteq Nat
      <4>1. DOMAIN bets \subseteq Nat
        BY DEF PagesTyped, BetTable
      <4> QED
        BY <4>1 DEF Window, Matching, MatchingIn
    <3>2. /\ reader' \in ReaderRow /\ reader'.shown = reader.shown \cup W
          /\ UNCHANGED <<bets, owed, slack, results>>
          /\ reader'.kind = reader.kind /\ reader'.filter = reader.filter
      <4> HIDE DEF W, page
      <4>1. W \subseteq Nat
        BY <3>1
      <4>2. reader' = [reader EXCEPT
                 !.at    = IF reader.page < page.last THEN "count" ELSE "done",
                 !.page  = IF reader.page < page.last THEN reader.page + 1
                                                      ELSE reader.page,
                 !.total = 0, !.shown = reader.shown \cup W]
            /\ UNCHANGED <<bets, owed, slack, results>>
        BY <2>2 DEF Select, W, page
      <4>a. reader \in ReaderRow
        BY DEF PagesTyped
      <4>b. reader.page \in Nat \ {0} /\ reader.shown \in SUBSET Nat
        BY <4>a DEF ReaderRow
      <4>3. reader.page + 1 \in Nat \ {0} /\ reader.shown \cup W \in SUBSET Nat
        <5>1. reader.shown \cup W \in SUBSET Nat
          BY <4>1, <4>b, Zenon
        <5> QED
          BY <4>b, <5>1
      <4>4. CASE reader.page < page.last
        BY <4>2, <4>a, <4>3, <4>4 DEF ReaderRow
      <4>5. CASE ~(reader.page < page.last)
        BY <4>2, <4>a, <4>3, <4>5 DEF ReaderRow
      <4> QED
        BY <4>4, <4>5
    <3>3. Matching' = Matching
      BY <3>2 DEF Matching, MatchingIn
    <3> QED
      BY <1>2, <2>0, <3>1, <3>2, <3>3 DEF PagesTyped, BetTable
  <2>3. CASE Place \/ \E b \in DOMAIN bets : ResultBet(b)
    <3>1. /\ \E c \in Int : Stays \/ Goes(c) \/ Comes(c)
          /\ UNCHANGED reader /\ BetTable' /\ DOMAIN bets \subseteq DOMAIN bets'
          /\ \/ /\ results' = results
                /\ Cardinality(DOMAIN bets') = Cardinality(DOMAIN bets) + 1
                /\ Cardinality(DOMAIN bets) < MaxBets
             \/ /\ results < MaxResults /\ results' = results + 1
                /\ Cardinality(DOMAIN bets') = Cardinality(DOMAIN bets)
      BY <1>2, <2>3, OneRow
    <3>2. /\ owed' \subseteq owed /\ owed' \subseteq Matching'
          /\ slack' \in {slack, slack + 1}
      BY <1>2, <3>1 DEF Stays, Goes, Comes, PagesTyped
    <3>3. /\ slack \in Nat /\ results \in Nat /\ results <= MaxResults
          /\ Cardinality(DOMAIN bets) \in Nat
          /\ Cardinality(DOMAIN bets) <= MaxBets
          /\ slack <= Cardinality(DOMAIN bets) + results
          /\ MaxBets \in Nat /\ MaxResults \in Nat
      BY <1>2, InstanceAssumption DEF PagesTyped, BetTable
    <3>4. /\ slack' \in Nat /\ results' \in Nat /\ results' <= MaxResults
          /\ Cardinality(DOMAIN bets') <= MaxBets
          /\ slack' <= Cardinality(DOMAIN bets') + results'
      BY <3>1, <3>2, <3>3
    <3> QED
      BY <2>0, <3>1, <3>2, <3>4 DEF PagesTyped
  <2>4. CASE UNCHANGED <<bets, leafing>>
    <3>1. UNCHANGED <<bets, reader, owed, slack, results>>
      BY <2>4 DEF leafing
    <3> QED
      BY <3>1 DEF PagesTyped, BetTable, Matching, MatchingIn, Leafs
  <2> QED
    BY <1>2, <2>1, <2>2, <2>3, <2>4, LeafSteps
<1> QED
  BY <1>1, <1>2

-----------------------------------------------------------------------------
(* What a reader has missed is counted by numbers.                         *)
LEMMA ReaderKind ==
  ASSUME PagesTyped, Leafs
  PROVE  /\ reader.kind \in AllKinds /\ reader.page \in Nat \ {0}
         /\ reader.n \in Nat \ {0} /\ reader.total \in Nat
         /\ Paged <=> PagedWith(reader.kind, reader.n)
BY DEF PagesTyped, ReaderRow, Leafs, Paged, PagedWith

LEMMA Frontiers ==
  ASSUME NEW kind \in AllKinds, NEW p \in Nat \ {0}, NEW n \in Nat \ {0}
  PROVE  /\ Frontier(kind, p, n) \in Nat /\ Gap(kind, p) \in {0, 1}
         /\ Frontier(kind, 1, n) = Gap(kind, 1)
         /\ Gap(kind, p + 1) \in {Gap(kind, p), 1}
<1>1. PagerSize \in Nat \ {0}
  BY InstanceAssumption
<1>2. /\ n * (p - 1) \in Nat /\ n * (1 - 1) = 0
      /\ PagerSize * (p - 1) \in Nat /\ PagerSize * (1 - 1) = 0
  BY <1>1, Products
<1> QED
  BY <1>2 DEF Frontier, Gap

LEMMA MissedFinite ==
  ASSUME PagesTyped, Leafs
  PROVE  /\ Unseen \in SUBSET Matching /\ IsFiniteSet(Unseen)
         /\ Cardinality(Unseen) \in Nat
         /\ IsFiniteSet(Missed) /\ Cardinality(Missed) \in Nat
         /\ Excess \in Nat /\ slack \in Nat
         /\ Gap(reader.kind, reader.page) \in {0, 1}
         /\ Frontier(reader.kind, reader.page, reader.n) \in Nat
<1>1. Unseen \in SUBSET Matching /\ Missed \in SUBSET Unseen
  BY DEF PagesTyped, Unseen, Missed
<1>2. IsFiniteSet(Unseen) /\ Cardinality(Unseen) \in Nat
  BY <1>1, RowsFinite, FS_Subset, FS_CardinalityType
<1>3. IsFiniteSet(Missed) /\ Cardinality(Missed) \in Nat
  BY <1>1, <1>2, FS_Subset, FS_CardinalityType
<1>4. Excess \in Nat
  BY RowsFinite, ReaderKind DEF Excess
<1> QED
  BY <1>1, <1>2, <1>3, <1>4, ReaderKind, Frontiers DEF PagesTyped

LEMMA CountMisses ==
  ASSUME PagesTyped, PagesTyped', FewMissed, Leafs, Leafs', Count
  PROVE  FewMissed'
<1> SUFFICES ASSUME Paged' PROVE FewMissed'
  BY DEF FewMissed
<1>1. /\ reader' = [reader EXCEPT !.at = "select",
                                  !.total = Cardinality(Matching)]
      /\ reader.at = "count"
      /\ owed' = IF reader.page = 1 THEN Matching ELSE owed
      /\ UNCHANGED <<bets, slack>>
  BY DEF Count
<1>2. /\ reader'.kind = reader.kind /\ reader'.page = reader.page
      /\ reader'.n = reader.n /\ reader'.filter = reader.filter
      /\ reader'.shown = reader.shown /\ reader'.at = "select"
      /\ reader'.total = Cardinality(Matching)
  BY <1>1 DEF PagesTyped, ReaderRow
<1>3. Matching' = Matching /\ Paged
  BY <1>1, <1>2 DEF Matching, MatchingIn, Paged
<1>4. Excess' = 0 /\ Excess = 0
  BY <1>1, <1>2, <1>3, RowsFinite DEF Excess
<1>5. CASE reader.page = 1
  <2> DEFINE F == Frontier(reader.kind, 1, reader.n)
             G == {b \in Matching : Rank(Matching, b) = 0}
  <2>1. F = Gap(reader.kind, 1) /\ F \in {0, 1}
    BY ReaderKind, Frontiers
  <2>2. Missed' \in SUBSET IF F = 1 THEN G ELSE {}
    <3> SUFFICES ASSUME NEW b \in Missed' PROVE b \in G /\ F = 1
      OBVIOUS
    <3>1. b \in Matching /\ Rank(Matching, b) < F
      BY <1>1, <1>2, <1>3, <1>5 DEF Missed, Unseen
    <3>2. Rank(Matching, b) \in Nat
      BY <3>1, RowsFinite, RankType
    <3> QED
      BY <2>1, <3>1, <3>2
  <2>3. IsFiniteSet(G) /\ Cardinality(G) \in {0, 1}
    BY RowsFinite, OneAtRank
  <2>4. IsFiniteSet({}) /\ Cardinality({}) = 0
    BY FS_EmptySet
  <2>a. Missed' \in SUBSET Matching /\ Matching \in SUBSET Int
    BY <1>1, <1>2, <1>3, <2>2, RowsFinite
  <2>6. IsFiniteSet(Missed') /\ Cardinality(Missed') \in Nat /\ slack \in Nat
    BY <2>a, RowsFinite, FS_Subset, FS_CardinalityType DEF PagesTyped
  <2> HIDE DEF G, F
  <2>5. Cardinality(Missed') <= F
    <3>1. CASE F = 1
      <4>1. Missed' \in SUBSET G
        BY <2>2, <3>1
      <4>2. Cardinality(Missed') <= Cardinality(G)
        BY <4>1, <2>3, FS_Subset
      <4> QED
        BY <2>3, <2>6, <3>1, <4>2
    <3>2. CASE F = 0
      <4>1. Missed' = {}
        BY <2>2, <3>2
      <4> QED
        BY <2>4, <3>2, <4>1
    <3> QED
      BY <2>1, <3>1, <3>2
  <2>7. Gap(reader'.kind, reader'.page) = F /\ slack' = slack
    BY <1>1, <1>2, <1>5, <2>1
  <2> QED
    BY <1>2, <1>4, <2>1, <2>5, <2>6, <2>7 DEF FewMissed
<1>6. CASE reader.page # 1
  <2>1. owed' = owed /\ Unseen' = Unseen /\ Missed' = Missed
    BY <1>1, <1>2, <1>3, <1>6 DEF Unseen, Missed
  <2> QED
    BY <1>1, <1>2, <1>3, <1>4, <2>1 DEF FewMissed
<1> QED
  BY <1>5, <1>6

(* A page shows what was not passed over before and does not stand behind  *)
(* it.                                                                     *)
LEMMA SelectShows ==
  ASSUME PagesTyped, Leafs, Paged, Select
  PROVE  LET page == Page(reader.kind, reader.page, reader.n, reader.total)
         IN  /\ page.offset + page.size \in Nat /\ UNCHANGED <<owed, slack>>
             /\ Matching' = Matching /\ Unseen' \in SUBSET Unseen
             /\ \A b \in Unseen' :
                  b \in Missed \/ Rank(Matching, b) >= page.offset + page.size
             /\ \/ /\ reader'.at = "count" /\ reader'.page = reader.page + 1
                   /\ reader'.kind = reader.kind /\ reader'.n = reader.n
                   /\ Reaches(reader.kind, reader.page, reader.n, reader.total)
                \/ Covers(reader.kind, reader.page, reader.n, reader.total)
<1> DEFINE page == Page(reader.kind, reader.page, reader.n, reader.total)
           W    == Window(Matching, page.offset, page.size)
           more == reader.page < page.last
<1>1. /\ page.offset \in Nat /\ page.size \in Nat /\ page.last \in Nat
      /\ page.offset <= Frontier(reader.kind, reader.page, reader.n)
      /\ \/ Reaches(reader.kind, reader.page, reader.n, reader.total)
         \/ Covers(reader.kind, reader.page, reader.n, reader.total)
      /\ page.last <= reader.page =>
           Covers(reader.kind, reader.page, reader.n, reader.total)
  BY ReaderKind, PageFacts
<1>2. reader.page \in Nat /\ Frontier(reader.kind, reader.page, reader.n) \in Nat
  BY ReaderKind, MissedFinite
<1> HIDE DEF page
<1>3. /\ reader' = [reader EXCEPT
               !.at    = IF more THEN "count" ELSE "done",
               !.page  = IF more THEN reader.page + 1 ELSE reader.page,
               !.total = 0, !.shown = reader.shown \cup W]
      /\ UNCHANGED <<bets, owed, slack>>
  BY DEF Select, page
<1>4. /\ reader'.kind = reader.kind /\ reader'.n = reader.n
      /\ reader'.filter = reader.filter
      /\ reader'.shown = reader.shown \cup W
      /\ more => reader'.at = "count" /\ reader'.page = reader.page + 1
  BY <1>3 DEF PagesTyped, ReaderRow
<1>5. Matching' = Matching
  BY <1>3, <1>4 DEF Matching, MatchingIn
<1>6. Unseen' = Unseen \ W
  BY <1>3, <1>4 DEF Unseen
<1>7. ASSUME NEW b \in Unseen'
      PROVE  b \in Missed \/ Rank(Matching, b) >= page.offset + page.size
  <2>1. b \in Unseen /\ b \in Matching /\ b \notin W
    BY <1>6, <1>7, MissedFinite
  <2>2. Rank(Matching, b) \in Nat
    BY <2>1, RowsFinite, RankType
  <2>3. Rank(Matching, b) \notin page.offset..(page.offset + page.size - 1)
    BY <2>1 DEF Window, Rank
  <2>4. \/ Rank(Matching, b) < page.offset
        \/ Rank(Matching, b) >= page.offset + page.size
    BY <1>1, <2>2, <2>3
  <2>5. Rank(Matching, b) < page.offset =>
          Rank(Matching, b) < Frontier(reader.kind, reader.page, reader.n)
    BY <1>1, <1>2, <2>2
  <2> QED
    BY <2>1, <2>4, <2>5 DEF Missed
<1>8. more \/ page.last <= reader.page
  BY <1>1, <1>2
<1>9. /\ page.offset + page.size \in Nat /\ Unseen' \in SUBSET Unseen
      /\ UNCHANGED <<owed, slack>>
  BY <1>1, <1>3, <1>6
<1> QED
  BY <1>1, <1>4, <1>5, <1>7, <1>8, <1>9 DEF page

LEMMA UnionSize ==
  ASSUME NEW A, NEW B, NEW C, IsFiniteSet(A), IsFiniteSet(B), C \in SUBSET (A \cup B)
  PROVE  /\ Cardinality(A) \in Nat /\ Cardinality(B) \in Nat
         /\ IsFiniteSet(C) /\ Cardinality(C) \in Nat
         /\ Cardinality(C) <= Cardinality(A) + Cardinality(B)
<1>1. /\ IsFiniteSet(A \cup B) /\ IsFiniteSet(A \cap B)
      /\ Cardinality(A \cup B) = Cardinality(A) + Cardinality(B)
                                   - Cardinality(A \cap B)
  BY FS_Union, FS_Intersection
<1>2. IsFiniteSet(C) /\ Cardinality(C) <= Cardinality(A \cup B)
  BY <1>1, FS_Subset
<1>3. /\ Cardinality(A) \in Nat /\ Cardinality(B) \in Nat
      /\ Cardinality(A \cap B) \in Nat /\ Cardinality(C) \in Nat
      /\ Cardinality(A \cup B) \in Nat
  BY <1>1, <1>2, FS_CardinalityType
<1> QED
  BY <1>1, <1>2, <1>3

LEMMA SelectMisses ==
  ASSUME PagesTyped, FewMissed, Leafs, Select
  PROVE  FewMissed'
<1> DEFINE page == Page(reader.kind, reader.page, reader.n, reader.total)
           e    == page.offset + page.size
           gap  == Gap(reader.kind, reader.page)
           next == Gap(reader.kind, reader.page + 1)
<1> SUFFICES ASSUME Paged PROVE FewMissed'
  <2>1. reader'.kind = reader.kind /\ reader'.n = reader.n
    BY DEF Select, PagesTyped, ReaderRow
  <2> QED
    BY <2>1 DEF FewMissed, Paged
<1>1. /\ e \in Nat /\ UNCHANGED <<owed, slack>>
      /\ Matching' = Matching /\ Unseen' \in SUBSET Unseen
      /\ \A b \in Unseen' : b \in Missed \/ Rank(Matching, b) >= e
      /\ \/ /\ reader'.at = "count" /\ reader'.page = reader.page + 1
            /\ reader'.kind = reader.kind /\ reader'.n = reader.n
            /\ Reaches(reader.kind, reader.page, reader.n, reader.total)
         \/ Covers(reader.kind, reader.page, reader.n, reader.total)
  BY SelectShows
<1>2. /\ IsFiniteSet(Unseen) /\ Cardinality(Unseen) \in Nat
      /\ Unseen \in SUBSET Matching
      /\ IsFiniteSet(Missed) /\ Cardinality(Missed) \in Nat
      /\ Excess \in Nat /\ slack \in Nat /\ gap \in {0, 1}
      /\ next \in {gap, 1} /\ next \in Nat
  BY MissedFinite, ReaderKind, Frontiers
<1>3. IsFiniteSet(Unseen') /\ Cardinality(Unseen') <= Cardinality(Unseen)
  BY <1>1, <1>2, FS_Subset
<1>4. Cardinality(Unseen') \in Nat
  BY <1>3, FS_CardinalityType
<1>5. CASE Cardinality(Unseen) <= 1 + slack
  <2>1. Cardinality(Unseen') <= 1 + slack
    BY <1>2, <1>3, <1>4, <1>5
  <2> QED
    BY <1>1, <2>1 DEF FewMissed
<1>6. CASE Cardinality(Missed) + Excess <= gap + slack
  <2>1. CASE Covers(reader.kind, reader.page, reader.n, reader.total)
    <3> DEFINE T == {b \in Matching : Rank(Matching, b) >= e}
    <3> HIDE DEF e
    <3>1. /\ IsFiniteSet(T)
          /\ Cardinality(T) <= IF Cardinality(Matching) > e
                                 THEN Cardinality(Matching) - e ELSE 0
      BY <1>1, RowsFinite, RowsBeyond
    <3>2. Unseen' \in SUBSET (Missed \cup T)
      BY <1>1, <1>2
    <3> HIDE DEF T
    <3>3. /\ Cardinality(T) \in Nat
          /\ Cardinality(Unseen') <= Cardinality(Missed) + Cardinality(T)
      BY <1>2, <3>1, <3>2, UnionSize
    <3>4. reader.total + gap <= e + 1
      BY <2>1 DEF Covers, e
    <3>5. reader.total \in Nat /\ Cardinality(Matching) \in Nat
      BY ReaderKind, RowsFinite
    <3>6. Cardinality(Matching) <= reader.total + Excess
      <4>1. reader.at = "select"
        BY DEF Select
      <4> QED
        BY <3>5, <4>1 DEF Excess
    <3> HIDE DEF gap
    <3>7. Cardinality(Matching) - e <= Excess + 1 - gap
      BY <1>1, <1>2, <3>4, <3>5, <3>6
    <3>8. Cardinality(T) <= Excess + 1 - gap
      BY <1>1, <1>2, <3>1, <3>3, <3>5, <3>7
    <3>9. Cardinality(Unseen') <= 1 + slack
      BY <1>2, <1>4, <1>6, <3>3, <3>8
    <3> QED
      BY <1>1, <3>9 DEF FewMissed
  <2>2. CASE /\ reader'.at = "count" /\ reader'.page = reader.page + 1
             /\ reader'.kind = reader.kind /\ reader'.n = reader.n
             /\ Reaches(reader.kind, reader.page, reader.n, reader.total)
    <3> DEFINE A == {b \in Matching : Rank(Matching, b) = e}
               B == IF gap < next THEN A ELSE {}
               f == Frontier(reader.kind, reader.page + 1, reader.n)
    <3>1. IsFiniteSet(A) /\ Cardinality(A) \in {0, 1}
      BY RowsFinite, OneAtRank
    <3>2. IsFiniteSet(B) /\ Cardinality(B) <= next - gap
      <4>1. IsFiniteSet({}) /\ Cardinality({}) = 0
        BY FS_EmptySet
      <4> HIDE DEF A, gap, next
      <4> QED
        BY <1>2, <3>1, <4>1
    <3>3. f \in Nat /\ f + gap <= e + next
      BY <2>2, ReaderKind, Frontiers DEF Reaches
    <3>4. Missed' \in SUBSET (Missed \cup B)
      <4> SUFFICES ASSUME NEW b \in Missed', b \notin Missed PROVE b \in B
        OBVIOUS
      <4>1. b \in Unseen' /\ b \in Matching /\ Rank(Matching, b) < f
        BY <1>1, <1>2, <2>2 DEF Missed
      <4>2. Rank(Matching, b) \in Nat /\ Rank(Matching, b) >= e
        BY <1>1, <4>1, RowsFinite, RankType
      <4> HIDE DEF e, f, gap, next
      <4>3. Rank(Matching, b) = e /\ gap < next
        BY <1>1, <1>2, <3>3, <4>1, <4>2
      <4> QED
        BY <4>1, <4>3
    <3> HIDE DEF B, f
    <3>5. /\ Cardinality(B) \in Nat /\ Cardinality(Missed') \in Nat
          /\ Cardinality(Missed') <= Cardinality(Missed) + Cardinality(B)
      BY <1>2, <3>2, <3>4, UnionSize
    <3>6. Excess' = 0
      BY <2>2 DEF Excess
    <3> HIDE DEF gap, next
    <3>7. Cardinality(Missed') <= next + slack
      BY <1>2, <1>6, <3>2, <3>5
    <3> QED
      BY <1>1, <1>2, <2>2, <3>5, <3>6, <3>7 DEF FewMissed, next
  <2> QED
    BY <1>1, <2>1, <2>2
<1> QED
  BY <1>5, <1>6 DEF FewMissed

LEMMA RowMisses ==
  ASSUME PagesTyped, PagesTyped', FewMissed, Leafs,
         Place \/ \E b \in DOMAIN bets : ResultBet(b)
  PROVE  FewMissed'
<1>1. PICK c \in Int : /\ Stays \/ Goes(c) \/ Comes(c)
                       /\ UNCHANGED reader /\ reader.at # "done"
  BY OneRow
<1> SUFFICES ASSUME Paged PROVE FewMissed'
  BY <1>1 DEF FewMissed, Paged
<1> DEFINE gap == Gap(reader.kind, reader.page)
           f   == Frontier(reader.kind, reader.page, reader.n)
<1>2. /\ IsFiniteSet(Unseen) /\ Cardinality(Unseen) \in Nat
      /\ Unseen \in SUBSET Matching
      /\ Cardinality(Missed) \in Nat /\ f \in Nat /\ gap \in {0, 1}
      /\ Excess \in Nat /\ slack \in Nat
      /\ Matching \in SUBSET Int /\ IsFiniteSet(Matching)
      /\ Cardinality(Matching) \in Nat /\ reader.total \in Nat
  BY MissedFinite, RowsFinite, ReaderKind
<1>a. Leafs'
  BY <1>1 DEF Leafs
<1>b. Cardinality(Unseen') \in Nat /\ Cardinality(Missed') \in Nat
      /\ Unseen' \in SUBSET Matching' /\ Cardinality(Matching') \in Nat
  <2>1. Matching' \in SUBSET Matching' /\ IsFiniteSet(Matching')
    <3>1. IsFiniteSet(Matching \cup {c}) /\ IsFiniteSet(Matching \ {c})
      BY <1>2, FS_AddElement, FS_RemoveElement
    <3> QED
      BY <1>1, <1>2, <3>1 DEF Stays, Goes, Comes
  <2>2. Unseen' \in SUBSET Matching' /\ Missed' \in SUBSET Matching'
    BY <1>a DEF PagesTyped, Unseen, Missed
  <2> QED
    BY <2>1, <2>2, FS_Subset, FS_CardinalityType
<1>3. Unseen' \in SUBSET Unseen /\ slack' \in Nat /\ slack <= slack'
  BY <1>1, <1>2 DEF Stays, Goes, Comes, Unseen
<1>4. Cardinality(Unseen') <= Cardinality(Unseen)
  BY <1>2, <1>3, FS_Subset
<1>5. CASE Cardinality(Unseen) <= 1 + slack
  <2>1. Cardinality(Unseen') <= 1 + slack'
    BY <1>2, <1>3, <1>4, <1>5, <1>b
  <2> QED
    BY <2>1 DEF FewMissed
<1>6. CASE Cardinality(Missed) + Excess <= gap + slack
  <2>1. Gap(reader.kind, reader.page)' = gap
        /\ Missed' = {b \in Unseen' : Rank(Matching', b) < f}
    BY <1>1 DEF Missed
  <2>2. Excess' = IF reader.at = "select" /\ Cardinality(Matching') > reader.total
                  THEN Cardinality(Matching') - reader.total ELSE 0
    BY <1>1 DEF Excess
  <2>3. CASE Stays
    <3>1. Missed' = Missed /\ Excess' = Excess /\ slack' = slack
      BY <1>1, <2>1, <2>2, <2>3 DEF Stays, Missed, Excess, Unseen
    <3> QED
      BY <1>1, <1>6, <2>1, <3>1 DEF FewMissed
  <2>4. CASE Goes(c)
    <3>1. /\ c \in Matching /\ Matching' = Matching \ {c}
          /\ Unseen' = Unseen \ {c} /\ slack' = slack + 1
      BY <1>1, <2>4 DEF Goes, Unseen
    <3>2. Cardinality(Missed') <= Cardinality(Missed) + 1
      <4> DEFINE L == {b \in Unseen : Rank(Matching, b) < f}
                 N == {b \in Unseen \ {c} : Rank(Matching \ {c}, b) < f}
      <4>1. Cardinality(N) <= Cardinality(L) + 1
        <5> HIDE DEF f
        <5> QED
          BY <1>2, <3>1, RowGoes
      <4>2. Missed = L /\ Missed' = N
        BY <2>1, <3>1 DEF Missed
      <4> QED
        BY <4>1, <4>2
    <3>3. Cardinality(Matching') = Cardinality(Matching) - 1
      BY <1>2, <3>1, FS_RemoveElement
    <3>4. Excess' \in Nat /\ Excess' <= Excess
      BY <1>2, <2>2, <3>3, <1>b DEF Excess
    <3> HIDE DEF gap
    <3>5. Cardinality(Missed') + Excess' <= gap + slack'
      BY <1>2, <1>6, <1>b, <3>1, <3>2, <3>4
    <3> QED
      BY <1>1, <2>1, <3>5 DEF FewMissed
  <2>5. CASE Comes(c)
    <3>1. /\ c \in Int \ Matching /\ Matching' = Matching \cup {c}
          /\ Unseen' = Unseen
          /\ slack' = slack + IF reader.at = "select" THEN 1 ELSE 0
      BY <1>1, <2>5 DEF Comes, Unseen
    <3>2. Cardinality(Missed') <= Cardinality(Missed)
      <4> DEFINE L == {b \in Unseen : Rank(Matching, b) < f}
                 N == {b \in Unseen : Rank(Matching \cup {c}, b) < f}
      <4>1. Cardinality(N) <= Cardinality(L)
        <5> HIDE DEF f
        <5> QED
          BY <1>2, <3>1, RowComes
      <4>2. Missed = L /\ Missed' = N
        BY <2>1, <3>1 DEF Missed
      <4> QED
        BY <4>1, <4>2
    <3>3. Cardinality(Matching') = Cardinality(Matching) + 1
      BY <1>2, <3>1, FS_AddElement
    <3>4. Excess' \in Nat
          /\ Excess' <= Excess + IF reader.at = "select" THEN 1 ELSE 0
      BY <1>2, <2>2, <3>3, <1>b DEF Excess
    <3> HIDE DEF gap
    <3>5. Cardinality(Missed') + Excess' <= gap + slack'
      BY <1>2, <1>6, <1>b, <3>1, <3>2, <3>4
    <3> QED
      BY <1>1, <2>1, <3>5 DEF FewMissed
  <2> QED
    BY <1>1, <2>3, <2>4, <2>5
<1> QED
  BY <1>5, <1>6 DEF FewMissed

LEMMA FewMissedStep ==
  ASSUME Typed, Typed', PagesTyped, FewMissed, [Next]_vars
  PROVE  PagesTyped' /\ FewMissed'
<1>1. PagesTyped'
  BY PagesTypedStep
<1>2. CASE Leafs
  <2>0. Leafs'
    BY <1>2, UserSteps
  <2>1. CASE Count
    BY <1>1, <1>2, <2>0, <2>1, CountMisses
  <2>2. CASE Select
    BY <1>1, <1>2, <2>2, SelectMisses
  <2>3. CASE Place \/ \E b \in DOMAIN bets : ResultBet(b)
    BY <1>1, <1>2, <2>3, RowMisses
  <2>4. CASE UNCHANGED <<bets, leafing>>
    <3>1. UNCHANGED <<bets, reader, owed, slack>>
      BY <2>4 DEF leafing
    <3> QED
      BY <1>1, <3>1 DEF FewMissed, Unseen, Missed, Excess, Matching, MatchingIn, Leafs,
         Paged
  <2> QED
    BY <1>2, <2>1, <2>2, <2>3, <2>4, LeafSteps
<1>3. CASE ~Leafs
  <2>1. ~Leafs'
    BY <1>3, LeafSteps DEF leafing, Leafs
  <2> QED
    BY <1>1, <2>1 DEF FewMissed
<1> QED
  BY <1>1, <1>2, <1>3

LEMMA InitPages == Init => PagesTyped /\ FewMissed
<1> SUFFICES ASSUME Init PROVE PagesTyped /\ FewMissed
  OBVIOUS
<1>1. /\ owed = {} /\ slack = 0 /\ results = 0
      /\ reader \in {[kind |-> k, filter |-> f, n |-> n, page |-> 1,
                      at |-> "count", total |-> 0, shown |-> {}] :
                        k \in Kinds \cup {"none"}, f \in Filters, n \in PerPages}
  BY DEF Init
<1>2. reader \in ReaderRow /\ reader.shown = {}
  BY <1>1, InstanceAssumption DEF ReaderRow
<1>3. PICK m \in IF Leafs THEN 0..MaxBets ELSE {1} :
        bets \in [1..m -> {BET_PENDING} \cup IF Leafs THEN Results ELSE {}]
  BY DEF Init
<1>4. m \in Nat /\ (Leafs => m <= MaxBets) /\ MaxBets \in Nat /\ MaxResults \in Nat
  BY <1>3, InstanceAssumption
<1>5. BET_PENDING \in BetStatuses /\ Results \subseteq BetStatuses
  BY InstanceAssumption DEF BetStatuses
<1>6. bets \in [1..m -> BetStatuses] /\ DOMAIN bets = 1..m
  BY <1>3, <1>5
<1>7. Cardinality(1..m) = m
  <2>1. m \in Int /\ 1 \in Int
    BY <1>4
  <2>2. Cardinality(1..m) = IF 1 > m THEN 0 ELSE m - 1 + 1
    BY <2>1, FS_Interval
  <2> QED
    BY <1>4, <2>2
<1>8. BetTable
  BY <1>4, <1>6, <1>7 DEF BetTable
<1>9. PagesTyped
  BY <1>1, <1>2, <1>4, <1>6, <1>7, <1>8 DEF PagesTyped
<1>10. Cardinality(Unseen) = 0
  BY <1>1, FS_EmptySet DEF Unseen
<1> QED
  BY <1>1, <1>9, <1>10 DEF FewMissed

LEMMA PagesAlways == Spec => [](PagesTyped /\ FewMissed)
<1>1. Init => PagesTyped /\ FewMissed
  BY InitPages
<1>2. /\ Typed /\ Typed' /\ PagesTyped /\ FewMissed /\ [Next]_vars
      => (PagesTyped /\ FewMissed)'
  BY FewMissedStep
<1>3. Spec => []Typed
  <2>1. IInv => Typed
    BY DEF IInv
  <2> QED
    BY <2>1, IInvAlways, PTL
<1> QED
  BY <1>1, <1>2, <1>3, PTL DEF Spec

(* Who follows the pages of a listing to its last one misses at most one   *)
(* of the bets that were there to be listed all the while, and one for     *)
(* each that came or went meanwhile (findAll and the other listings).      *)
THEOREM Pages == Spec => []PagesSkipOne
<1>1. PagesTyped /\ FewMissed => PagesSkipOne
  BY DEF FewMissed, PagesSkipOne, Unseen
<1> QED
  BY <1>1, PagesAlways, PTL

-----------------------------------------------------------------------------
(* What a user asks for is an offer, and what he is about to be paid is    *)
(* the value of the slips read.                                            *)
Asking ==
  /\ user.pending <= Cardinality(Slips) /\ regrades <= MaxRegrades
  /\ user.at \in {"asked", "slips", "count", "update"} => user.offer > 0
  /\ user.at = "update" => user.offer = Ladder[Factor(user.slips)]

LEMMA AskingStep ==
  ASSUME Typed, Typed', Asking, [Next]_vars
  PROVE  Asking'
<1> USE DEF Asking
<1>a. /\ IsFiniteSet(Slips) /\ Cardinality(Slips) \in Nat
      /\ Cardinality({x \in Slips : slips[x] = "pending"}) <= Cardinality(Slips)
  <2>1. {x \in Slips : slips[x] = "pending"} \in SUBSET Slips
    OBVIOUS
  <2> QED
    BY <2>1, InstanceAssumption, FS_Subset, FS_CardinalityType
<1>1. CASE Leafs \/ UNCHANGED <<bets, cashing>>
  BY <1>1, UserSteps DEF cashing, Factor
<1>2. CASE \E x \in Slips : Grade(x)
  BY <1>2 DEF Grade, Factor
<1>3. CASE Withdraw \/ Finish \/ Overrule
  <2>1. user' = user /\ regrades' <= MaxRegrades
    BY <1>3, InstanceAssumption DEF Withdraw, Finish, Overrule, Typed
  <2> QED
    BY <2>1 DEF Factor
<1>4. CASE ListBet
  BY <1>4 DEF ListBet, Factor, Typed, UserRow
<1>5. CASE ListSlips
  BY <1>5 DEF ListSlips, Factor, Typed, UserRow
<1>6. CASE ListPending
  <2>1. /\ user'.at = "listed" /\ regrades' = regrades
        /\ user'.pending = Cardinality({x \in Slips : slips[x] = "pending"})
    BY <1>6 DEF ListPending, Typed, UserRow
  <2> QED
    BY <1>a, <2>1
<1>7. CASE Leave
  <2>1. user' = [Away EXCEPT !.matches = user.matches] /\ regrades' = regrades
    BY <1>7 DEF Leave
  <2> QED
    BY <1>a, <2>1 DEF Away
<1>8. CASE Ask
  BY <1>8 DEF Ask, Factor, Typed, UserRow
<1>9. CASE CashoutBet
  BY <1>9 DEF CashoutBet, Factor, Typed, UserRow
<1>10. CASE CashoutSlips
  BY <1>10 DEF CashoutSlips, Factor, Typed, UserRow
<1>11. CASE CashoutCount
  <2> DEFINE value == Value(user.slips, LostIn(user.slips) \cup LostIn(slips))
  <2>1. /\ user' = [user EXCEPT
                    !.at    = IF value = user.offer THEN "update" ELSE "refused",
                    !.offer = IF value = user.offer THEN user.offer ELSE value]
        /\ user.at = "count" /\ regrades' = regrades
    BY <1>11 DEF CashoutCount, SameAmount
  <2>2. user'.slips = user.slips /\ user'.pending = user.pending
        /\ user.offer \in Nat
    BY <2>1 DEF Typed, UserRow
  <2>3. CASE value = user.offer
    <3>1. value = Ladder[Factor(user.slips)]
      <4>1. value \in {0, Ladder[Factor(user.slips)]}
        BY DEF Value
      <4> QED
        BY <2>1, <2>2, <2>3, <4>1
    <3>2. Factor(user.slips)' = Factor(user.slips)
      BY <2>2 DEF Factor
    <3>3. user'.at = "update" /\ user'.offer = user.offer
      BY <2>1, <2>3 DEF Typed, UserRow
    <3> HIDE DEF value
    <3> QED
      BY <2>1, <2>2, <2>3, <3>1, <3>2, <3>3
  <2>4. CASE value # user.offer
    <3>1. user'.at = "refused"
      BY <2>1, <2>4 DEF Typed, UserRow
    <3> QED
      BY <2>1, <2>2, <3>1
  <2> QED
    BY <2>3, <2>4
<1>12. CASE CashoutUpdate
  BY <1>12 DEF CashoutUpdate, Factor, Typed, UserRow
<1> QED
  BY <1>1, <1>2, <1>3, <1>4, <1>5, <1>6, <1>7, <1>8, <1>9, <1>10, <1>11,
     <1>12, UserSteps DEF Cashout

(* The rows and requests are of the kinds the code makes, and what is      *)
(* about to be paid is the value of the slips that were read.              *)
THEOREM TypeCorrect == Spec => []TypeOK
<1>1. Init => Asking
  <2> SUFFICES ASSUME Init PROVE Asking
    OBVIOUS
  <2>1. user.pending = 0 /\ user.at = "away" /\ regrades = 0
    BY DEF Init, Away
  <2>2. Cardinality(Slips) \in Nat /\ MaxRegrades \in Nat
    BY InstanceAssumption, FS_CardinalityType
  <2> QED
    BY <2>1, <2>2 DEF Asking
<1>2. Typed /\ Typed' /\ Asking /\ [Next]_vars => Asking'
  BY AskingStep
<1>3. IInv => Typed
  BY DEF IInv
<1>4. Typed /\ PagesTyped /\ FewMissed /\ Asking => TypeOK
  <2> SUFFICES ASSUME Typed, PagesTyped, Asking PROVE TypeOK
    OBVIOUS
  <2>1. /\ bets \in [1..Cardinality(DOMAIN bets) -> BetStatuses]
        /\ reader.at \in {"count", "select", "done"} /\ reader.page \in Nat \ {0}
        /\ reader.shown \cup owed \subseteq DOMAIN bets
    BY DEF PagesTyped, BetTable, ReaderRow
  <2>2. slack \in 0..(MaxBets + MaxResults)
    BY InstanceAssumption DEF PagesTyped, BetTable
  <2>3. /\ slips \in [Slips -> SlipResults]
        /\ user.at \in {"away", "slips of view", "pending", "listed", "asked",
                        "slips", "count", "update", "refused", "end"}
    BY DEF Typed, UserRow, Places
  <2>4. /\ user.pending \in 0..Cardinality(Slips)
        /\ regrades \in 0..MaxRegrades
    <3>1. /\ user.pending \in Nat /\ regrades \in Nat
          /\ Cardinality(Slips) \in Nat /\ MaxRegrades \in Nat
      BY InstanceAssumption, FS_CardinalityType DEF Typed, UserRow
    <3> QED
      BY <3>1 DEF Asking
  <2>5. user.at = "update" => /\ user.offer > 0
                              /\ user.offer = Ladder[Factor(user.slips)]
    BY DEF Asking
  <2> QED
    BY <2>1, <2>2, <2>3, <2>4, <2>5 DEF TypeOK
<1> QED
  BY <1>1, <1>2, <1>3, <1>4, IInvAlways, PagesAlways, PTL DEF Spec
=============================================================================
