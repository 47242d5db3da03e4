---------------------------- MODULE GamesProofs -----------------------------
(***************************************************************************)
(* Proofs about Games, for any number of bets, rows of a transaction,      *)
(* calls, repeats, failures and crashes.                                   *)
(***************************************************************************)
EXTENDS Games, TLAPS

(* An UPDATE leaves a table with its rows.                                 *)
LEMMA UpdateKeeps ==
  ASSUME NEW table, NEW new, NEW Ids, NEW Row,
         IsTable(table, Ids, Row), IsTable(new, Ids, Row)
  PROVE  /\ IsTable(Update(table, new), Ids, Row)
         /\ DOMAIN Update(table, new) = DOMAIN table
BY DEF IsTable, Update

(* An INSERT adds one row to a table.                                      *)
LEMMA InsertAdds ==
  ASSUME NEW table, NEW Ids, NEW b \in Ids, NEW n \in Nat,
         IsTable(table, Ids, [status : 0..n, winnings : Nat])
  PROVE  /\ IsTable(Insert(table, b), Ids, [status : 0..n, winnings : Nat])
         /\ DOMAIN Insert(table, b) = DOMAIN table \cup {b}
BY DEF IsTable, Insert, Open

(* What Goto does to one call, and to no other.                            *)
OthersStay(c) == \A d \in Calls \ {c} : call'[d] = call[d]

LEMMA GotoMoves ==
  ASSUME CallsOK, NEW c \in Calls, NEW l, NEW rows, Goto(c, l, rows)
  PROVE  /\ call'[c] = [at |-> l, key |-> call[c].key, amt |-> call[c].amt,
                        seen |-> rows]
         /\ OthersStay(c)
         /\ call' = [d \in Calls |-> call'[d]]
<1> DEFINE old == [at |-> call[c].at, key |-> call[c].key,
                   amt |-> call[c].amt, seen |-> call[c].seen]
           new == [old EXCEPT !.at = l, !.seen = rows]
<1>1. call[c] = old /\ c \in DOMAIN call
  BY DEF CallsOK
<1>2. call'[c] = new
  BY <1>1, Zenon DEF Goto
<1>3. call'[c] = [at |-> l, key |-> call[c].key, amt |-> call[c].amt,
                  seen |-> rows]
  BY <1>2
<1>4. OthersStay(c) /\ call' = [d \in Calls |-> call'[d]]
  BY DEF Goto, CallsOK, OthersStay
<1> QED
  BY <1>3, <1>4

(* A call goes on from where it was sent, with rows that it has read.      *)
LEMMA GotoOK ==
  ASSUME CallsOK, NEW c \in Calls, NEW rows, IsTable(rows, Bets, Nat),
         NEW l \in {"sent", "write", "more", "done"},
         call[c].at # "new", Goto(c, l, rows)
  PROVE  CallsOK'
<1>1. /\ call'[c] = [at |-> l, key |-> call[c].key, amt |-> call[c].amt,
                     seen |-> rows]
      /\ \A d \in Calls \ {c} : call'[d] = call[d]
      /\ call' = [d \in Calls |-> call'[d]]
  BY GotoMoves DEF OthersStay
<1>2. CallOK(c)'
  BY <1>1 DEF CallsOK, CallOK
<1>3. \A d \in Calls \ {c} : CallOK(d)'
  BY <1>1 DEF CallsOK, CallOK
<1>4. ASSUME NEW d \in Calls
      PROVE  call'[d] = [at |-> call'[d].at, key |-> call'[d].key,
                         amt |-> call'[d].amt, seen |-> call'[d].seen]
  BY <1>1 DEF CallsOK
<1> QED
  BY <1>1, <1>2, <1>3, <1>4 DEF CallsOK

(* Having answered, a call has nothing left to write.                      *)
LEMMA AnswerOK ==
  ASSUME CallsOK, NEW c \in Calls, call[c].at # "new", Answer(c)
  PROVE  CallsOK'
<1>1. IsTable(Unread, Bets, Nat)
  BY DEF IsTable, Unread
<1> QED
  BY <1>1, GotoOK DEF Answer

(* An empty table is a table.                                              *)
LEMMA EmptyTable == \A Ids, Row : IsTable(Unread, Ids, Row)
BY DEF IsTable, Unread

(* Before any call, TypeOK holds.                                          *)
LEMMA TypeInit == Init => TypeOK
<1> SUFFICES ASSUME Init PROVE TypeOK
  OBVIOUS
<1> USE InstanceAssumption, EmptyTable DEF Init
<1>1. CasinoOK
  BY DEF CasinoOK
<1>2. CallsOK
  BY DEF CallsOK, CallOK
<1>3. BooksOK
  BY DEF BooksOK, Idle, Unread
<1>4. HistoryOK
  BY DEF HistoryOK
<1>5. BoundsOK
  BY DEF BoundsOK
<1> QED
  BY <1>1, <1>2, <1>3, <1>4, <1>5 DEF TypeOK

(* What a settlement, a cancellation or a closing writes are rows.         *)
LEMMA RowsWritten ==
  ASSUME TypeOK, NEW c \in Calls, NEW rows \in SUBSET DOMAIN casino
  PROVE  /\ \A b \in DOMAIN call[c].seen : SettledRow(c, b) \in
              [status : Open..Cancelled, winnings : Nat]
         /\ \A b \in DOMAIN casino, s \in Open..Cancelled :
              [casino[b] EXCEPT !.status = s] \in
                [status : Open..Cancelled, winnings : Nat]
<1>1. Result(call[c].amt) \in Open..Cancelled
  BY DEF Result, Open, Won, Lost, Cancelled
<1>2. call[c].amt \in Nat /\ IsTable(call[c].seen, Bets, Nat)
  BY InstanceAssumption DEF TypeOK, CallsOK, CallOK
<1>3. \A b \in DOMAIN call[c].seen : call[c].seen[b] \in Nat
  BY <1>2 DEF IsTable
<1>4. \A b \in DOMAIN call[c].seen : call[c].amt + call[c].seen[b] \in Nat
  BY <1>2, <1>3
<1>5. \A b \in DOMAIN casino :
        casino[b] \in [status : Open..Cancelled, winnings : Nat]
  BY DEF TypeOK, CasinoOK, IsTable
<1> QED
  BY <1>1, <1>4, <1>5 DEF SettledRow

(* Every step keeps the casino bets.                                       *)
LEMMA CasinoStep == TypeOK /\ [Next]_vars => CasinoOK'
<1> SUFFICES ASSUME TypeOK, [Next]_vars PROVE CasinoOK'
  OBVIOUS
<1> DEFINE Row == [status : Open..Cancelled, winnings : Nat]
<1>0. CasinoOK
  BY DEF TypeOK
<1>a. ASSUME UNCHANGED <<casino, place>> PROVE CasinoOK'
  BY <1>0, <1>a DEF CasinoOK
<1>b. ASSUME NEW new, IsTable(new, Bets, Row), casino' = Update(casino, new),
             UNCHANGED place
      PROVE  CasinoOK'
  BY <1>0, <1>b, UpdateKeeps DEF CasinoOK
<1>c. ASSUME NEW R, NEW new, R \subseteq DOMAIN casino,
             DOMAIN new = R, new = [b \in R |-> new[b]],
             \A b \in R : new[b] \in Row
      PROVE  IsTable(new, Bets, Row)
  BY <1>0, <1>c DEF CasinoOK, IsTable
<1>1. ASSUME NEW b \in Bets, Place(b) PROVE CasinoOK'
  <2>1. CASE PlaceSave(b)
    <3>1. casino' = Insert(casino, b)
      BY <2>1 DEF PlaceSave
    <3>2. /\ IsTable(Insert(casino, b), Bets, Row)
          /\ DOMAIN Insert(casino, b) = DOMAIN casino \cup {b}
      BY <1>0, InsertAdds DEF CasinoOK, Open, Cancelled
    <3>3. /\ place' \in [Bets -> {"new", "bonus", "ok", "error"}]
          /\ \A o \in Bets \ {b} : place'[o] = place[o]
      BY <1>0, <2>1 DEF PlaceSave, CasinoOK
    <3> HIDE DEF Row
    <3> QED
      BY <1>0, <3>1, <3>2, <3>3 DEF CasinoOK, Row
  <2>2. CASE PlaceBonus(b)
    BY <1>0, <2>2 DEF PlaceBonus, CasinoOK
  <2> QED
    BY <1>1, <2>1, <2>2 DEF Place
<1>2. ASSUME NEW c \in Calls, Send(c) \/ Repeat(c) \/ Fail(c) PROVE CasinoOK'
  BY <1>2, <1>a DEF Send, Repeat, Fail
<1>3. ASSUME NEW c \in Settles, Settle(c) PROVE CasinoOK'
  <2>1. CASE SettleRead(c)
    BY <2>1, <1>a DEF SettleRead
  <2>2. CASE SettleWrite(c)
    <3>1. PICK b \in DOMAIN call[c].seen :
            casino' = Update(casino, [o \in RowsOf(call[c].key) |->
                                        SettledRow(c, b)])
      BY <2>2 DEF SettleWrite
    <3>2. SettledRow(c, b) \in Row
      BY RowsWritten DEF Calls
    <3>3. RowsOf(call[c].key) \subseteq DOMAIN casino
      BY DEF RowsOf
    <3> DEFINE new == [o \in RowsOf(call[c].key) |-> SettledRow(c, b)]
    <3>4. IsTable(new, Bets, Row)
      BY <1>c, <3>2, <3>3
    <3> HIDE DEF new, Row
    <3> QED
      BY <1>b, <2>2, <3>1, <3>4 DEF SettleWrite, new
  <2> QED
    BY <1>3, <2>1, <2>2 DEF Settle
<1>4. ASSUME NEW c \in Cancels, Cancel(c) PROVE CasinoOK'
  <2>1. CASE CancelRead(c)
    BY <2>1, <1>a DEF CancelRead
  <2>2. CASE CancelWrite(c)
    <3> DEFINE R   == RowsOf(call[c].key)
               new == [b \in R |-> [casino[b] EXCEPT !.status = Cancelled]]
    <3>1. R \subseteq DOMAIN casino
      BY DEF RowsOf
    <3>2. \A b \in R : new[b] \in Row
      <4>1. Cancelled \in Open..Cancelled /\ c \in Calls
        BY DEF Calls, Open, Cancelled
      <4> QED
        BY <3>1, <4>1, RowsWritten
    <3>3. IsTable(new, Bets, Row)
      BY <1>c, <3>1, <3>2
    <3> HIDE DEF Row
    <3> QED
      BY <1>b, <2>2, <3>3 DEF CancelWrite
  <2> QED
    BY <1>4, <2>1, <2>2 DEF Cancel
<1>5. ASSUME NEW c \in Closings, Close(c) PROVE CasinoOK'
  <2> DEFINE R   == {b \in DOMAIN casino : ClosesBet(call[c].key, b)}
             new == [b \in R |-> [casino[b] EXCEPT !.status = Lost]]
  <2>1. R \subseteq DOMAIN casino
    OBVIOUS
  <2>2. \A b \in R : new[b] \in Row
    <3>1. Lost \in Open..Cancelled /\ c \in Calls
      BY DEF Calls, Open, Cancelled, Lost
    <3> QED
      BY <2>1, <3>1, RowsWritten
  <2>3. IsTable(new, Bets, Row)
    BY <1>c, <2>1, <2>2
  <2> HIDE DEF Row
  <2> QED
    BY <1>b, <1>5, <2>3 DEF Close
<1>6. ASSUME NEW v \in Tickets, VPlace(v) PROVE CasinoOK'
  BY <1>6, <1>a DEF VPlace
<1>7. ASSUME NEW r, NEW w, VSettle(r, w) \/ Ask(r, w) PROVE CasinoOK'
  BY <1>7, <1>a DEF VSettle, Ask
<1>8. CASE AskRound \/ AskTx \/ AskEnd
  BY <1>8, <1>a DEF AskRound, AskTx, AskEnd
<1>9. CASE Crash
  BY <1>9, <1>0 DEF Crash, CasinoOK
<1>10. CASE UNCHANGED vars
  BY <1>10, <1>a DEF vars
<1> QED
  BY <1>1, <1>2, <1>3, <1>4, <1>5, <1>6, <1>7, <1>8, <1>9, <1>10 DEF Next

(* Every step keeps the calls.                                             *)
LEMMA CallsStep == TypeOK /\ [Next]_vars => CallsOK'
<1> SUFFICES ASSUME TypeOK, [Next]_vars PROVE CallsOK'
  OBVIOUS
<1>0. CallsOK
  BY DEF TypeOK
<1>a. ASSUME UNCHANGED call PROVE CallsOK'
  BY <1>0, <1>a DEF CallsOK, CallOK
<1>b. IsTable(Unread, Bets, Nat)
  BY EmptyTable
<1>1. ASSUME NEW b \in Bets, Place(b) PROVE CallsOK'
  BY <1>1, <1>a DEF Place, PlaceSave, PlaceBonus
<1>2. ASSUME NEW c \in Calls, Send(c) \/ Repeat(c) \/ Fail(c) PROVE CallsOK'
  <2>1. CASE Send(c)
    <3>1. PICK k \in IF c \in Closings THEN Rounds ELSE Txs,
               w \in IF c \in Settles THEN Wins ELSE {0} :
            call' = [call EXCEPT ![c] = [@ EXCEPT !.at = "sent", !.key = k,
                                                  !.amt = w]]
      BY <2>1 DEF Send
    <3> DEFINE old == [at |-> call[c].at, key |-> call[c].key,
                       amt |-> call[c].amt, seen |-> call[c].seen]
               new == [old EXCEPT !.at = "sent", !.key = k, !.amt = w]
    <3>2. call[c] = old /\ c \in DOMAIN call
      BY <1>0 DEF CallsOK
    <3>3. call'[c] = new
      BY <3>1, <3>2, Zenon
    <3>4. call'[c] = [at |-> "sent", key |-> k, amt |-> w,
                      seen |-> call[c].seen]
      BY <3>3
    <3>5. \A d \in Calls \ {c} : call'[d] = call[d]
      BY <1>0, <3>1 DEF CallsOK
    <3>6. call' = [d \in Calls |-> call'[d]]
      BY <1>0, <3>1 DEF CallsOK
    <3>7. CallOK(c)'
      BY <1>0, <3>4 DEF CallsOK, CallOK
    <3>8. \A d \in Calls \ {c} : CallOK(d)'
      BY <1>0, <3>5 DEF CallsOK, CallOK
    <3>9. ASSUME NEW d \in Calls
          PROVE  call'[d] = [at |-> call'[d].at, key |-> call'[d].key,
                             amt |-> call'[d].amt, seen |-> call'[d].seen]
      BY <1>0, <3>4, <3>5 DEF CallsOK
    <3> QED
      BY <3>6, <3>7, <3>8, <3>9 DEF CallsOK
  <2>2. CASE Repeat(c)
    BY <2>2, <1>0, <1>b, GotoOK DEF Repeat, At
  <2>3. CASE Fail(c)
    BY <2>3, <1>0, AnswerOK DEF Fail
  <2> QED
    BY <1>2, <2>1, <2>2, <2>3
<1>3. ASSUME NEW c \in Settles, Settle(c) PROVE CallsOK'
  <2> c \in Calls
    BY DEF Calls
  <2>1. CASE SettleRead(c)
    <3> DEFINE R    == RowsOf(call[c].key)
               read == [b \in R |-> casino[b].winnings]
    <3>1. R \subseteq DOMAIN casino
      BY DEF RowsOf
    <3>2. IsTable(read, Bets, Nat)
      BY <3>1 DEF IsTable, TypeOK, CasinoOK
    <3>3. Answer(c) \/ Goto(c, "write", read)
      BY <2>1 DEF SettleRead
    <3> HIDE DEF read
    <3> QED
      BY <2>1, <1>0, <3>2, <3>3, GotoOK, AnswerOK DEF SettleRead, At
  <2>2. CASE SettleWrite(c)
    <3>1. PICK b \in DOMAIN call[c].seen :
            \/ Answer(c)
            \/ Goto(c, "more", [o \in DOMAIN call[c].seen \ {b} |->
                                  call[c].seen[o]])
      BY <2>2 DEF SettleWrite
    <3> DEFINE left == [o \in DOMAIN call[c].seen \ {b} |-> call[c].seen[o]]
    <3>2. IsTable(left, Bets, Nat)
      BY <1>0 DEF IsTable, CallsOK, CallOK
    <3> HIDE DEF left
    <3> QED
      BY <2>2, <1>0, <3>1, <3>2, GotoOK, AnswerOK DEF SettleWrite, left
  <2> QED
    BY <1>3, <2>1, <2>2 DEF Settle
<1>4. ASSUME NEW c \in Cancels, Cancel(c) PROVE CallsOK'
  BY <1>0, <1>4, <1>b, GotoOK, AnswerOK
     DEF Cancel, CancelRead, CancelWrite, At, Calls
<1>5. ASSUME NEW c \in Closings, Close(c) PROVE CallsOK'
  BY <1>0, <1>5, AnswerOK DEF Close, At, Calls
<1>6. ASSUME NEW v \in Tickets, VPlace(v) PROVE CallsOK'
  BY <1>6, <1>a DEF VPlace
<1>7. ASSUME NEW r, NEW w, VSettle(r, w) \/ Ask(r, w) PROVE CallsOK'
  BY <1>7, <1>a DEF VSettle, Ask
<1>8. CASE AskRound \/ AskTx \/ AskEnd
  BY <1>8, <1>a DEF AskRound, AskTx, AskEnd
<1>9. CASE Crash
  <2>1. ASSUME NEW c \in Calls
        PROVE  /\ call'[c] = [at |-> call'[c].at, key |-> call'[c].key,
                              amt |-> call'[c].amt, seen |-> call'[c].seen]
               /\ CallOK(c)'
    <3>1. CASE c \in Writing
      <4> DEFINE old == [at |-> call[c].at, key |-> call[c].key,
                         amt |-> call[c].amt, seen |-> call[c].seen]
                 new == [old EXCEPT !.at = "sent", !.seen = Unread]
      <4>1. call[c] = old
        BY <1>0 DEF CallsOK
      <4>2. call'[c] = new
        BY <1>9, <3>1, <4>1, Zenon DEF Crash
      <4>3. call'[c] = [at |-> "sent", key |-> call[c].key,
                        amt |-> call[c].amt, seen |-> Unread]
        BY <4>2
      <4>4. call[c].at # "new"
        BY <3>1 DEF Writing
      <4> QED
        BY <1>0, <1>b, <4>3, <4>4 DEF CallsOK, CallOK
    <3>2. CASE c \notin Writing
      <4>1. call'[c] = call[c]
        BY <1>9, <3>2 DEF Crash
      <4> QED
        BY <1>0, <4>1 DEF CallsOK, CallOK
    <3> QED
      BY <3>1, <3>2
  <2>2. call' = [c \in Calls |-> call'[c]]
    BY <1>9 DEF Crash
  <2> QED
    BY <2>1, <2>2 DEF CallsOK
<1>10. CASE UNCHANGED vars
  BY <1>10, <1>a DEF vars
<1> QED
  BY <1>1, <1>2, <1>3, <1>4, <1>5, <1>6, <1>7, <1>8, <1>9, <1>10 DEF Next

(* Every step keeps the virtual bets and the lookup.                       *)
LEMMA BooksStep == TypeOK /\ [Next]_vars => BooksOK'
<1> SUFFICES ASSUME TypeOK, [Next]_vars PROVE BooksOK'
  OBVIOUS
<1> DEFINE Row == [status : Open..Lost, winnings : Nat]
<1>0. BooksOK
  BY DEF TypeOK
<1>a. ASSUME UNCHANGED books PROVE BooksOK'
  BY <1>0, <1>a DEF BooksOK, books
<1>1. ASSUME NEW b \in Bets, Place(b) PROVE BooksOK'
  BY <1>1, <1>a DEF Place, PlaceSave, PlaceBonus
<1>2. ASSUME NEW c \in Calls, Send(c) \/ Repeat(c) \/ Fail(c) PROVE BooksOK'
  BY <1>2, <1>a DEF Send, Repeat, Fail
<1>3. ASSUME NEW c, Settle(c) \/ Cancel(c) \/ Close(c) PROVE BooksOK'
  BY <1>3, <1>a DEF Settle, SettleRead, SettleWrite, Cancel, CancelRead,
                    CancelWrite, Close
<1>4. ASSUME NEW v \in Tickets, VPlace(v) PROVE BooksOK'
  <2>1. /\ virtual' = Insert(virtual, v)
        /\ UNCHANGED <<announced, lookup>>
    BY <1>4 DEF VPlace
  <2>2. /\ IsTable(virtual', Tickets, Row)
        /\ DOMAIN virtual' = DOMAIN virtual \cup {v}
    BY <1>0, <2>1, InsertAdds DEF BooksOK, Open, Lost
  <2>3. lookup' \in [at : {"idle", "round", "tx", "answered"},
                     round : VRounds \cup {"none"}, tx : VTxs \cup {"none"},
                     found : SUBSET Tickets, before : SUBSET DOMAIN virtual']
    BY <1>0, <2>1, <2>2 DEF BooksOK
  <2> QED
    BY <1>0, <2>1, <2>2, <2>3 DEF BooksOK
<1>5. ASSUME NEW r \in VRounds, NEW w \in Wins, VSettle(r, w) PROVE BooksOK'
  <2> DEFINE R   == {v \in DOMAIN virtual : VRoundOf[v] = r}
             new == [v \in R |-> VSettledRow(v, w)]
  <2>1. /\ virtual' = Update(virtual, new) /\ lookup' = lookup
        /\ announced' = [announced EXCEPT ![r] = w]
    BY <1>5 DEF VSettle
  <2>2. \A v : VSettledRow(v, w) \in Row
    BY InstanceAssumption DEF VSettledRow, Result, Open, Won, Lost
  <2>3. R \subseteq Tickets
    BY <1>0 DEF BooksOK, IsTable
  <2>4. IsTable(new, Tickets, Row)
    BY <2>2, <2>3 DEF IsTable
  <2> HIDE DEF new
  <2>5. IsTable(virtual', Tickets, Row) /\ DOMAIN virtual' = DOMAIN virtual
    BY <1>0, <2>1, <2>4, UpdateKeeps DEF BooksOK
  <2>6. announced' \in [VRounds -> Wins \cup {-1}]
    BY <1>0, <2>1 DEF BooksOK
  <2> QED
    BY <1>0, <2>1, <2>5, <2>6 DEF BooksOK
<1>6. ASSUME NEW r \in VRounds, NEW t \in VTxs, Ask(r, t) PROVE BooksOK'
  BY <1>6, <1>0 DEF Ask, BooksOK, IsTable
<1>7. CASE AskRound \/ AskTx
  <2>1. /\ UNCHANGED <<virtual, announced>>
        /\ \E found \in SUBSET Tickets, l \in {"tx", "answered"} :
             lookup' = [lookup EXCEPT !.at = l, !.found = found]
    <3>1. \A P \in SUBSET Tickets : \A found \in Find(P) : found \subseteq Tickets
      BY DEF Find
    <3>2. DOMAIN virtual \subseteq Tickets /\ lookup.found \subseteq Tickets
      BY <1>0 DEF BooksOK, IsTable
    <3>3. ASSUME AskRound
          PROVE  \E found \in SUBSET Tickets :
                   lookup' = [lookup EXCEPT !.at = "tx", !.found = found]
      BY <3>1, <3>2, <3>3 DEF AskRound
    <3>4. ASSUME AskTx
          PROVE  \E found \in SUBSET Tickets :
                   lookup' = [lookup EXCEPT !.at = "answered", !.found = found]
      BY <3>1, <3>2, <3>4 DEF AskTx, Preferred
    <3> QED
      BY <1>7, <3>3, <3>4 DEF AskRound, AskTx
  <2>2. PICK found \in SUBSET Tickets, l \in {"tx", "answered"} :
          lookup' = [lookup EXCEPT !.at = l, !.found = found]
    BY <2>1
  <2> QED
    BY <1>0, <2>1, <2>2 DEF BooksOK
<1>8. CASE AskEnd
  BY <1>0, <1>8 DEF AskEnd, BooksOK, Idle
<1>9. CASE Crash
  BY <1>9, <1>a DEF Crash
<1>10. CASE UNCHANGED vars
  BY <1>10, <1>a DEF vars
<1> QED
  BY <1>1, <1>2, <1>3, <1>4, <1>5, <1>6, <1>7, <1>8, <1>9, <1>10 DEF Next

(* Every step keeps what is noted of the calls, and the two bounds.        *)
LEMMA HistoryStep == TypeOK /\ [Next]_vars => HistoryOK' /\ BoundsOK'
<1> SUFFICES ASSUME TypeOK, [Next]_vars PROVE HistoryOK' /\ BoundsOK'
  OBVIOUS
<1>0. HistoryOK /\ BoundsOK
  BY DEF TypeOK
<1>a. ASSUME UNCHANGED <<history, bounds>> PROVE HistoryOK' /\ BoundsOK'
  BY <1>0, <1>a DEF HistoryOK, BoundsOK, history, bounds
<1>k. \A c \in Settles \cup Cancels :
        /\ c \in Calls /\ call[c].amt \in Nat
        /\ call[c].at # "new" => call[c].key \in Txs
  <2> TAKE c \in Settles \cup Cancels
  <2>1. c \in Calls /\ c \notin Closings
    BY InstanceAssumption DEF Calls
  <2>2. CallOK(c)
    BY <2>1 DEF TypeOK, CallsOK
  <2>3. call[c].amt \in Nat
    <3>1. \A n \in Wins \cup {0} : n \in Nat
      BY InstanceAssumption
    <3>2. call[c].amt \in Wins \cup {0}
      BY <2>2 DEF CallOK
    <3> QED
      BY <3>1, <3>2
  <2> QED
    BY <2>1, <2>2, <2>3 DEF CallOK
<1>b. ASSUME NEW c \in Settles \cup Cancels, call[c].at # "new",
             Changed(c, call[c].key) \/ UNCHANGED <<ledger, said>>,
             UNCHANGED <<closed, raced, bounds>>
      PROVE  HistoryOK' /\ BoundsOK'
  <2>1. call[c].key \in Txs /\ call[c].amt \in Nat
    BY <1>b, <1>k
  <2>2. ledger' \in [Txs -> Seq(Settles \cup Cancels)]
    <3>1. Append(ledger[call[c].key], c) \in Seq(Settles \cup Cancels)
      BY <1>0, <2>1 DEF HistoryOK
    <3> QED
      BY <1>0, <1>b, <2>1, <3>1 DEF HistoryOK, Changed
  <2>3. said' \in [Txs -> Nat]
    <3>1. said[call[c].key] + call[c].amt \in Nat
      BY <1>0, <2>1 DEF HistoryOK
    <3> QED
      BY <1>0, <1>b, <2>1, <3>1 DEF HistoryOK, Changed
  <2> QED
    BY <1>0, <1>b, <2>2, <2>3 DEF HistoryOK, BoundsOK, bounds
<1>c. ASSUME NEW t \in Txs, Begins(t) \/ UNCHANGED raced,
             UNCHANGED <<ledger, said, closed, bounds>>
      PROVE  HistoryOK' /\ BoundsOK'
  BY <1>0, <1>c DEF HistoryOK, BoundsOK, bounds, Begins
<1>d. ASSUME UNCHANGED history,
             \/ repeats < MaxRepeats /\ repeats' = repeats + 1
                /\ UNCHANGED stops
             \/ stops < MaxStops /\ stops' = stops + 1
                /\ UNCHANGED repeats
      PROVE  HistoryOK' /\ BoundsOK'
  <2>1. HistoryOK'
    BY <1>0, <1>d DEF HistoryOK, history
  <2>2. BoundsOK'
    BY <1>0, <1>d, InstanceAssumption DEF BoundsOK
  <2> QED
    BY <2>1, <2>2
<1>1. ASSUME NEW b \in Bets, Place(b) PROVE HistoryOK' /\ BoundsOK'
  <2>1. TxOf[b] \in Txs
    BY DEF Txs
  <2> QED
    BY <1>0, <1>1, <1>a, <2>1
       DEF Place, PlaceSave, PlaceBonus, HistoryOK, BoundsOK, bounds
<1>2. ASSUME NEW c \in Calls, Send(c) \/ Repeat(c) \/ Fail(c)
      PROVE  HistoryOK' /\ BoundsOK'
  <2>1. CASE Send(c)
    BY <2>1, <1>a DEF Send
  <2>2. CASE Repeat(c)
    BY <2>2, <1>d DEF Repeat
  <2>3. CASE Fail(c)
    BY <2>3, <1>d DEF Fail
  <2> QED
    BY <1>2, <2>1, <2>2, <2>3
<1>3. ASSUME NEW c \in Settles, Settle(c) PROVE HistoryOK' /\ BoundsOK'
  <2>1. CASE SettleRead(c)
    BY <1>c, <1>k, <2>1 DEF SettleRead, At
  <2>2. CASE SettleWrite(c)
    BY <1>b, <2>2 DEF SettleWrite
  <2> QED
    BY <1>3, <2>1, <2>2 DEF Settle
<1>4. ASSUME NEW c \in Cancels, Cancel(c) PROVE HistoryOK' /\ BoundsOK'
  <2>1. CASE CancelRead(c)
    BY <1>c, <1>k, <2>1 DEF CancelRead, At
  <2>2. CASE CancelWrite(c)
    BY <1>b, <2>2 DEF CancelWrite, At
  <2> QED
    BY <1>4, <2>1, <2>2 DEF Cancel
<1>5. ASSUME NEW c \in Closings, Close(c) PROVE HistoryOK' /\ BoundsOK'
  BY <1>0, <1>5 DEF Close, HistoryOK, BoundsOK, bounds, TypeOK, CasinoOK,
                    IsTable
<1>6. ASSUME NEW v \in Tickets, VPlace(v) PROVE HistoryOK' /\ BoundsOK'
  BY <1>6, <1>a DEF VPlace
<1>7. ASSUME NEW r, NEW w, VSettle(r, w) \/ Ask(r, w)
      PROVE  HistoryOK' /\ BoundsOK'
  BY <1>7, <1>a DEF VSettle, Ask
<1>8. CASE AskRound \/ AskTx \/ AskEnd
  BY <1>8, <1>a DEF AskRound, AskTx, AskEnd
<1>9. CASE Crash
  BY <1>9, <1>d DEF Crash
<1>10. CASE UNCHANGED vars
  BY <1>10, <1>a DEF vars
<1> QED
  BY <1>1, <1>2, <1>3, <1>4, <1>5, <1>6, <1>7, <1>8, <1>9, <1>10 DEF Next

(* TypeOK is inductive.                                                    *)
LEMMA TypeStep == TypeOK /\ [Next]_vars => TypeOK'
BY CasinoStep, CallsStep, BooksStep, HistoryStep DEF TypeOK

(* The tables and the calls hold what they may, for any number of bets,    *)
(* calls, repeats, failures and crashes.                                   *)
THEOREM TypeCorrect == Spec => []TypeOK
BY TypeInit, TypeStep, PTL DEF Spec

-----------------------------------------------------------------------------
(***************************************************************************)
(* Casino bets.  Seen from a transaction, a step is one of six: nobody     *)
(* begins to work on it and nothing of it changes, a call begins, or one   *)
(* of the four statements that write its rows is made.                     *)
(***************************************************************************)
Quiet ==
  /\ UNCHANGED <<casino, history>>
  /\ \A c \in Calls : \/ call'[c] = call[c]
                      \/ /\ call'[c].at \notin {"new", "write", "more"}
                         /\ call[c].at # "new" => call'[c].amt = call[c].amt

Starts(c) ==
  LET t == call[c].key
  IN  /\ t \in Txs /\ call[c].at = "sent" /\ call'[c].at = "write"
      /\ call'[c].key = t /\ call'[c].amt = call[c].amt
      /\ OthersStay(c) /\ Begins(t)
      /\ UNCHANGED <<casino, ledger, said, closed>>
      /\ c \in Settles =>
           /\ call'[c].seen = [b \in RowsOf(t) |-> casino[b].winnings]
           /\ \E first \in RowsOf(t) : MaySettle(c, first)

(* Every step is of one of the six kinds.                                  *)
LEMMA StepKinds ==
  TypeOK /\ [Next]_vars =>
    \/ Quiet
    \/ \E c \in Settles \cup Cancels : Starts(c)
    \/ \E c \in Settles : SettleWrite(c)
    \/ \E c \in Cancels : CancelWrite(c)
    \/ \E c \in Closings : Close(c)
    \/ \E b \in Bets : PlaceSave(b)
<1> DEFINE Kinds == \/ Quiet
                    \/ \E c \in Settles \cup Cancels : Starts(c)
                    \/ \E c \in Settles : SettleWrite(c)
                    \/ \E c \in Cancels : CancelWrite(c)
                    \/ \E c \in Closings : Close(c)
                    \/ \E b \in Bets : PlaceSave(b)
<1> SUFFICES ASSUME TypeOK, [Next]_vars PROVE Kinds
  OBVIOUS
<1>0. CallsOK
  BY DEF TypeOK
<1>a. ASSUME UNCHANGED <<casino, call, history>> PROVE Kinds
  BY <1>a DEF Quiet
<1>b. ASSUME NEW c \in Calls, UNCHANGED <<casino, history>>,
             \/ Answer(c)
             \/ Goto(c, "sent", Unread)
      PROVE  Kinds
  <2>1. PICK l \in {"sent", "done"} : Goto(c, l, Unread)
    BY <1>b DEF Answer
  <2>2. /\ call'[c] = [at |-> l, key |-> call[c].key, amt |-> call[c].amt,
                       seen |-> Unread]
        /\ OthersStay(c)
    BY <1>0, <2>1, GotoMoves
  <2>3. call'[c].at = l /\ call'[c].amt = call[c].amt
    BY <2>2
  <2> QED
    BY <1>b, <2>2, <2>3 DEF Quiet, OthersStay
<1> HIDE DEF Kinds
<1>1. ASSUME NEW b \in Bets, Place(b) PROVE Kinds
  BY <1>1, <1>a DEF Place, PlaceBonus, Kinds
<1>2. ASSUME NEW c \in Calls, Send(c) \/ Repeat(c) \/ Fail(c) PROVE Kinds
  <2>1. CASE Send(c)
    <3>1. PICK k, w :
            call' = [call EXCEPT ![c] = [@ EXCEPT !.at = "sent", !.key = k,
                                                  !.amt = w]]
      BY <2>1 DEF Send
    <3>2. \A d \in Calls \ {c} : call'[d] = call[d]
      BY <1>0, <3>1 DEF CallsOK
    <3> DEFINE old == [at |-> call[c].at, key |-> call[c].key,
                       amt |-> call[c].amt, seen |-> call[c].seen]
               new == [old EXCEPT !.at = "sent", !.key = k, !.amt = w]
    <3>3. call[c] = old /\ c \in DOMAIN call
      BY <1>0 DEF CallsOK
    <3>4. call'[c] = new
      BY <3>1, <3>3, Zenon
    <3>5. call'[c].at = "sent"
      BY <3>4
    <3> QED
      BY <2>1, <3>2, <3>5 DEF Send, At, Quiet, Kinds
  <2>2. CASE Repeat(c)
    BY <2>2, <1>b DEF Repeat
  <2>3. CASE Fail(c)
    BY <2>3, <1>b DEF Fail
  <2> QED
    BY <1>2, <2>1, <2>2, <2>3
<1>3. ASSUME NEW c \in Settles \cup Cancels
      PROVE  c \in Calls /\ (call[c].at = "sent" => call[c].key \in Txs)
  BY <1>0, InstanceAssumption DEF Calls, CallsOK, CallOK
<1>4. ASSUME NEW c \in Settles, Settle(c) PROVE Kinds
  <2>1. CASE SettleRead(c)
    <3> DEFINE R    == RowsOf(call[c].key)
               read == [b \in R |-> casino[b].winnings]
    <3>1. CASE Answer(c) /\ UNCHANGED raced
      BY <1>3, <1>b, <2>1, <3>1 DEF SettleRead, history
    <3>2. CASE /\ \E first \in R : MaySettle(c, first)
               /\ Goto(c, "write", read) /\ Begins(call[c].key)
      <4> HIDE DEF read
      <4>1. /\ call'[c] = [at |-> "write", key |-> call[c].key,
                           amt |-> call[c].amt, seen |-> read]
            /\ OthersStay(c)
        BY <1>0, <1>3, <3>2, GotoMoves
      <4>2. call[c].at = "sent" /\ UNCHANGED <<casino, ledger, said, closed>>
        BY <2>1 DEF SettleRead, At
      <4>3. call[c].key \in Txs
        BY <1>3, <4>2
      <4>4. Starts(c)
        BY <3>2, <4>1, <4>2, <4>3 DEF Starts, read
      <4> QED
        BY <4>4 DEF Kinds
    <3> QED
      BY <2>1, <3>1, <3>2 DEF SettleRead
  <2> QED
    BY <1>4, <2>1 DEF Settle, Kinds
<1>5. ASSUME NEW c \in Cancels, Cancel(c) PROVE Kinds
  <2>1. CASE CancelRead(c)
    <3>1. CASE Answer(c) /\ UNCHANGED raced
      BY <1>3, <1>b, <2>1, <3>1 DEF CancelRead, history
    <3>2. CASE Goto(c, "write", Unread) /\ Begins(call[c].key)
      <4>1. /\ call'[c] = [at |-> "write", key |-> call[c].key,
                           amt |-> call[c].amt, seen |-> Unread]
            /\ OthersStay(c)
        BY <1>0, <1>3, <3>2, GotoMoves
      <4>2. call[c].at = "sent" /\ UNCHANGED <<casino, ledger, said, closed>>
        BY <2>1 DEF CancelRead, At
      <4>3. call[c].key \in Txs /\ c \notin Settles
        BY <1>3, <4>2, InstanceAssumption
      <4>4. Starts(c)
        BY <3>2, <4>1, <4>2, <4>3 DEF Starts
      <4> QED
        BY <4>4 DEF Kinds
    <3> QED
      BY <2>1, <3>1, <3>2 DEF CancelRead
  <2> QED
    BY <1>5, <2>1 DEF Cancel, Kinds
<1>6. ASSUME NEW v \in Tickets, VPlace(v) PROVE Kinds
  BY <1>6, <1>a DEF VPlace
<1>7. ASSUME NEW r, NEW w, VSettle(r, w) \/ Ask(r, w) PROVE Kinds
  BY <1>7, <1>a DEF VSettle, Ask
<1>8. CASE AskRound \/ AskTx \/ AskEnd
  BY <1>8, <1>a DEF AskRound, AskTx, AskEnd
<1>9. CASE Crash
  <2>1. UNCHANGED <<casino, history>>
    BY <1>9 DEF Crash
  <2>2. ASSUME NEW c \in Calls
        PROVE  \/ call'[c] = call[c]
               \/ /\ call'[c].at \notin {"new", "write", "more"}
                  /\ call'[c].amt = call[c].amt
    <3>1. CASE c \in Writing
      <4> DEFINE old == [at |-> call[c].at, key |-> call[c].key,
                         amt |-> call[c].amt, seen |-> call[c].seen]
                 new == [old EXCEPT !.at = "sent", !.seen = Unread]
      <4>1. call[c] = old
        BY <1>0 DEF CallsOK
      <4>2. call'[c] = new
        BY <1>9, <3>1, <4>1, Zenon DEF Crash
      <4>3. call'[c].at = "sent" /\ call'[c].amt = call[c].amt
        BY <4>2
      <4> QED
        BY <4>3
    <3>2. CASE c \notin Writing
      BY <1>9, <3>2 DEF Crash
    <3> QED
      BY <3>1, <3>2
  <2> QED
    BY <2>1, <2>2 DEF Quiet, Kinds
<1>10. CASE UNCHANGED vars
  BY <1>10, <1>a DEF vars
<1> QED
  BY <1>1, <1>2, <1>4, <1>5, <1>6, <1>7, <1>8, <1>9, <1>10 DEF Next, Kinds

-----------------------------------------------------------------------------
(***************************************************************************)
(* The calls that work on a calm transaction take turns, and what a        *)
(* settlement has read is what its rows still say: without the two the     *)
(* properties are not inductive.                                           *)
(***************************************************************************)
Alone == \A t \in Txs : Calm(t) => \A c, d \in InFlight(t) : c = d

UpToDate(c) ==
  LET t == call[c].key
  IN  /\ call[c].at = "write" =>
           /\ \A b \in DOMAIN call[c].seen : call[c].seen[b] = said[t]
           /\ c \in SmartSoft => ledger[t] = <<>>
      /\ call[c].at = "more" =>
           /\ \A b \in DOMAIN call[c].seen :
                call[c].amt + call[c].seen[b] = said[t]
           /\ ledger[t] # <<>> /\ ledger[t][Len(ledger[t])] = c

Reads == \A c \in Settles : Calm(call[c].key) => UpToDate(c)

(* Who has changed a transaction has been sent, so what it says stays.     *)
Known == \A t \in Txs : \A i \in DOMAIN ledger[t] : call[ledger[t][i]].at # "new"

Turns == Alone /\ Reads /\ Known

CasinoInv == Turns /\ WinningsAddUp /\ SmartSoftPaysOnce /\ LastWordStands

(* Before any call there is nothing to add up.                             *)
LEMMA CasinoInit == Init => CasinoInv
<1> SUFFICES ASSUME Init PROVE CasinoInv
  OBVIOUS
<1>1. DOMAIN casino = {}
  BY DEF Init, Unread
<1>2. \A c \in Calls : call[c].at = "new"
  BY DEF Init
<1>3. \A t \in Txs : ledger[t] = <<>>
  BY DEF Init
<1>4. Alone
  BY <1>2 DEF Alone, InFlight, Writing, Calls
<1>5. Reads
  BY <1>2 DEF Reads, UpToDate, Calls
<1>6. Known /\ SmartSoftPaysOnce
  BY <1>3 DEF Known, SmartSoftPaysOnce
<1>7. WinningsAddUp /\ LastWordStands
  BY <1>1 DEF WinningsAddUp, LastWordStands
<1> QED
  BY <1>4, <1>5, <1>6, <1>7 DEF CasinoInv, Turns

(* A statement that leaves the history of a transaction alone leaves alone *)
(* what was said of it.                                                    *)
LEMMA WordStays ==
  ASSUME TypeOK, Known, NEW b \in Bets,
         ledger'[TxOf[b]] = ledger[TxOf[b]],
         b \in closed' <=> b \in closed,
         \A c \in Calls : call[c].at # "new" => call'[c].amt = call[c].amt
  PROVE  Word(b)' = Word(b)
<1> DEFINE words == ledger[TxOf[b]]
           last  == words[Len(words)]
<1>1. words \in Seq(Settles \cup Cancels) /\ TxOf[b] \in Txs
  BY DEF TypeOK, HistoryOK, Txs
<1>2. ASSUME words # <<>> PROVE last \in Calls /\ call[last].at # "new"
  <2>1. Len(words) \in DOMAIN words /\ last \in Settles \cup Cancels
    BY <1>1, <1>2
  <2> QED
    BY <1>1, <2>1 DEF Known, Calls
<1>3. words # <<>> => call'[last].amt = call[last].amt
  BY <1>2
<1> QED
  BY <1>3 DEF Word, Result

(* A quiet step leaves every part as it is.                                *)
LEMMA QuietKeeps == TypeOK /\ CasinoInv /\ Quiet => CasinoInv'
<1> SUFFICES ASSUME TypeOK, CasinoInv, Quiet PROVE CasinoInv'
  OBVIOUS
<1>0. Alone /\ Reads /\ Known /\ WinningsAddUp /\ SmartSoftPaysOnce
      /\ LastWordStands
  BY DEF CasinoInv, Turns
<1>1. UNCHANGED <<casino, ledger, said, closed, raced>>
  BY DEF Quiet, history
<1>2. ASSUME NEW c \in Calls
      PROVE  /\ call'[c].at \in {"write", "more"} => call'[c] = call[c]
             /\ call[c].at # "new" => call'[c].at # "new"
             /\ call[c].at # "new" => call'[c].amt = call[c].amt
  BY DEF Quiet
<1>3. Alone'
  <2>1. ASSUME NEW t \in Txs, Calm(t)', NEW c \in InFlight(t)'
        PROVE  c \in InFlight(t) /\ Calm(t)
    BY <1>1, <1>2, <2>1 DEF InFlight, Writing, Calm, Calls
  <2> QED
    BY <1>0, <2>1 DEF Alone
<1>4. ASSUME NEW c \in Settles, (Calm(call[c].key))' PROVE UpToDate(c)'
  <2>1. CASE call'[c].at \in {"write", "more"}
    <3>1. call'[c] = call[c] /\ Calm(call[c].key) /\ c \in Calls
      BY <1>1, <1>2, <1>4, <2>1 DEF Calm, Calls
    <3>2. UpToDate(c)
      BY <1>0, <3>1 DEF Reads
    <3> QED
      BY <1>1, <3>1, <3>2 DEF UpToDate
  <2>2. CASE call'[c].at \notin {"write", "more"}
    BY <2>2 DEF UpToDate
  <2> QED
    BY <2>1, <2>2
<1>5. Known'
  <2>1. ASSUME NEW t \in Txs, NEW i \in DOMAIN ledger[t]
        PROVE  call'[ledger[t][i]].at # "new"
    <3>1. ledger[t][i] \in Calls
      BY DEF TypeOK, HistoryOK, Calls
    <3> QED
      BY <1>0, <1>2, <3>1 DEF Known
  <2> QED
    BY <1>1, <2>1 DEF Known
<1>6. WinningsAddUp' /\ SmartSoftPaysOnce'
  BY <1>0, <1>1 DEF WinningsAddUp, SmartSoftPaysOnce, Calm
<1>7. LastWordStands'
  <2>1. ASSUME NEW b \in DOMAIN casino, Calm(TxOf[b])
        PROVE  casino[b].status = Word(b)'
    <3>1. b \in Bets
      BY DEF TypeOK, CasinoOK, IsTable
    <3>2. Word(b)' = Word(b)
      BY <1>0, <1>1, <1>2, <3>1, WordStays
    <3> QED
      BY <1>0, <2>1, <3>2 DEF LastWordStands
  <2> QED
    BY <1>1, <2>1 DEF LastWordStands, Calm
<1> QED
  BY <1>3, <1>4, <1>5, <1>6, <1>7 DEF CasinoInv, Turns, Reads

(* A call that begins is alone with its transaction, or that is noted; it  *)
(* reads what its rows say, and smart-soft only when nothing was said yet. *)
LEMMA StartsKeeps ==
  ASSUME TypeOK, CasinoInv, NEW c \in Settles \cup Cancels, Starts(c)
  PROVE  CasinoInv'
<1> DEFINE t == call[c].key
<1>0. Alone /\ Reads /\ Known /\ WinningsAddUp /\ SmartSoftPaysOnce
      /\ LastWordStands
  BY DEF CasinoInv, Turns
<1>1. /\ t \in Txs /\ UNCHANGED <<casino, ledger, said, closed>>
      /\ call[c].at = "sent" /\ call'[c].at = "write" /\ call'[c].key = t
      /\ call'[c].amt = call[c].amt /\ OthersStay(c) /\ c \in Calls
  BY DEF Starts, Calls
<1>2. /\ raced \subseteq raced'
      /\ t \notin raced' => InFlight(t) = {}
  BY DEF Starts, Begins
<1>3. \A d \in Calls : d # c => call'[d] = call[d]
  BY <1>1 DEF OthersStay
<1>4. Alone'
  <2>1. ASSUME NEW u \in Txs, (Calm(u))', NEW d \in (InFlight(u))'
        PROVE  Calm(u) /\ (d \in InFlight(u) \/ (d = c /\ u = t))
    BY <1>1, <1>2, <1>3, <2>1 DEF InFlight, Writing, Calm, Calls
  <2>2. ASSUME NEW u \in Txs, (Calm(u))', NEW d \in (InFlight(u))',
               NEW e \in (InFlight(u))'
        PROVE  d = e
    <3>1. CASE u = t
      <4>1. InFlight(u) = {}
        BY <1>2, <2>2, <3>1 DEF Calm
      <4> QED
        BY <2>1, <2>2, <4>1
    <3>2. CASE u # t
      BY <1>0, <2>1, <2>2, <3>2 DEF Alone
    <3> QED
      BY <3>1, <3>2
  <2> QED
    BY <2>2 DEF Alone
<1>5. ASSUME NEW d \in Settles, (Calm(call[d].key))' PROVE UpToDate(d)'
  <2>1. d \in Calls /\ Calm(call'[d].key)
    BY <1>2, <1>5 DEF Calm, Calls
  <2>2. CASE d # c
    <3>1. call'[d] = call[d]
      BY <1>3, <2>1, <2>2
    <3>2. UpToDate(d)
      BY <1>0, <2>1, <3>1 DEF Reads
    <3> QED
      BY <1>1, <3>1, <3>2 DEF UpToDate
  <2>3. CASE d = c
    <3>1. /\ call'[c].seen = [b \in RowsOf(t) |-> casino[b].winnings]
          /\ \E first \in RowsOf(t) : MaySettle(c, first)
      BY <2>3 DEF Starts
    <3>2. ASSUME NEW b \in RowsOf(t)
          PROVE  /\ casino[b].winnings = said[t]
                 /\ casino[b].status = Word(b) /\ TxOf[b] = t
      BY <1>0, <1>1, <2>1, <2>3 DEF RowsOf, WinningsAddUp, LastWordStands
    <3>3. ASSUME c \in SmartSoft PROVE ledger[t] = <<>>
      <4>1. PICK first \in RowsOf(t) : casino[first].status = Open
        BY <3>1, <3>3 DEF MaySettle
      <4>2. Word(first) = Open /\ TxOf[first] = t
        BY <3>2, <4>1
      <4> QED
        BY <4>2 DEF Word, Result, Open, Won, Lost, Cancelled
    <3> QED
      BY <1>1, <2>3, <3>1, <3>2, <3>3 DEF UpToDate
  <2> QED
    BY <2>2, <2>3
<1>6. Known'
  <2>1. ASSUME NEW u \in Txs, NEW i \in DOMAIN ledger[u]
        PROVE  call'[ledger[u][i]].at # "new"
    <3>1. ledger[u][i] \in Calls
      BY DEF TypeOK, HistoryOK, Calls
    <3> QED
      BY <1>0, <1>1, <1>3, <3>1 DEF Known
  <2> QED
    BY <1>1, <2>1 DEF Known
<1>7. WinningsAddUp' /\ SmartSoftPaysOnce'
  BY <1>0, <1>1, <1>2 DEF WinningsAddUp, SmartSoftPaysOnce, Calm
<1>8. LastWordStands'
  <2>1. ASSUME NEW b \in DOMAIN casino, Calm(TxOf[b])
        PROVE  casino[b].status = Word(b)'
    <3>1. b \in Bets
      BY DEF TypeOK, CasinoOK, IsTable
    <3>2. Word(b)' = Word(b)
      BY <1>0, <1>1, <1>3, <3>1, WordStays
    <3> QED
      BY <1>0, <2>1, <3>2 DEF LastWordStands
  <2> QED
    BY <1>1, <1>2, <2>1 DEF LastWordStands, Calm
<1> QED
  BY <1>4, <1>5, <1>6, <1>7, <1>8 DEF CasinoInv, Turns, Reads

(* A call that has written its transaction, or ended, leaves those of other*)
(* calls as they were; with its own it was alone.                          *)
LEMMA OthersUpToDate ==
  ASSUME TypeOK, CasinoInv, NEW c \in Settles \cup Cancels, c \in Writing,
         OthersStay(c), call'[c].key = call[c].key,
         call'[c].at \in {"more", "done"}, UNCHANGED raced,
         \A t \in Txs : t # call[c].key =>
           ledger'[t] = ledger[t] /\ said'[t] = said[t]
  PROVE  /\ Alone'
         /\ \A d \in Settles : d # c /\ (Calm(call[d].key))' => UpToDate(d)'
<1> DEFINE t == call[c].key
<1>0. Alone /\ Reads
  BY DEF CasinoInv, Turns
<1>1. t \in Txs /\ c \in InFlight(t) /\ c \in Calls
  <2>1. c \in Calls /\ c \notin Closings /\ call[c].at # "new"
    BY InstanceAssumption DEF Calls, Writing
  <2>2. t \in Txs
    BY <2>1 DEF TypeOK, CallsOK, CallOK
  <2> QED
    BY <2>1, <2>2 DEF InFlight
<1>2. \A d \in Calls : d # c => call'[d] = call[d]
  BY DEF OthersStay
<1>3. Alone'
  <2>1. ASSUME NEW u \in Txs, NEW d \in (InFlight(u))'
        PROVE  d \in InFlight(u)
    BY <1>1, <1>2, <2>1 DEF InFlight, Writing, Calls
  <2> QED
    BY <1>0, <2>1 DEF Alone, Calm
<1>4. ASSUME NEW d \in Settles, d # c, (Calm(call[d].key))'
      PROVE  UpToDate(d)'
  <2>1. d \in Calls /\ call'[d] = call[d] /\ Calm(call[d].key)
    BY <1>2, <1>4 DEF Calm, Calls
  <2>2. UpToDate(d)
    BY <1>0, <2>1 DEF Reads
  <2>3. CASE call[d].at \in {"write", "more"}
    <3>1. call[d].key \in Txs /\ d \in InFlight(call[d].key)
      <4>1. d \notin Closings
        BY InstanceAssumption
      <4> QED
        BY <2>1, <2>3, <4>1 DEF TypeOK, CallsOK, CallOK, InFlight, Writing
    <3>2. call[d].key # t
      BY <1>0, <1>1, <1>4, <2>1, <3>1 DEF Alone
    <3>3. /\ ledger'[call[d].key] = ledger[call[d].key]
          /\ said'[call[d].key] = said[call[d].key]
      BY <3>1, <3>2
    <3> QED
      BY <2>1, <2>2, <3>3 DEF UpToDate
  <2>4. CASE call[d].at \notin {"write", "more"}
    BY <2>1, <2>4 DEF UpToDate
  <2> QED
    BY <2>3, <2>4
<1> QED
  BY <1>3, <1>4
(* What a settlement or a cancellation does with one write: the rows of no *)
(* other transaction, what was said of no other, and no other call change. *)
Writes(c) == (c \in Settles /\ SettleWrite(c)) \/ (c \in Cancels /\ CancelWrite(c))

LEMMA WriteMoves ==
  ASSUME TypeOK, NEW c \in Settles \cup Cancels, Writes(c)
  PROVE  /\ c \in Calls /\ call[c].key \in Txs /\ c \in Writing
         /\ OthersStay(c) /\ call'[c].key = call[c].key
         /\ call'[c].amt = call[c].amt /\ call'[c].at \in {"more", "done"}
         /\ UNCHANGED <<raced, closed>>
         /\ \/ At(c, "write") /\ Changed(c, call[c].key)
            \/ At(c, "more") /\ c \in Settles /\ UNCHANGED <<ledger, said>>
         /\ DOMAIN casino' = DOMAIN casino
         /\ \A b \in DOMAIN casino :
              TxOf[b] # call[c].key => casino'[b] = casino[b]
<1> DEFINE t == call[c].key
<1>1. c \in Calls /\ c \notin Closings
  BY InstanceAssumption DEF Calls
<1>2. call[c].at \in {"write", "more"}
  BY DEF Writes, SettleWrite, CancelWrite, At
<1>3. t \in Txs /\ c \in Writing
  BY <1>1, <1>2 DEF TypeOK, CallsOK, CallOK, Writing
<1>4. /\ OthersStay(c) /\ call'[c].key = t /\ call'[c].amt = call[c].amt
      /\ call'[c].at \in {"more", "done"}
  <2>1. \E rows, l : l \in {"more", "done"} /\ Goto(c, l, rows)
    <3>1. ASSUME SettleWrite(c)
          PROVE  \E rows : Goto(c, "done", rows) \/ Goto(c, "more", rows)
      BY <3>1, Zenon DEF SettleWrite, Answer
    <3>2. ASSUME CancelWrite(c) PROVE Goto(c, "done", Unread)
      BY <3>2 DEF CancelWrite, Answer
    <3> QED
      BY <3>1, <3>2, Zenon DEF Writes
  <2>2. PICK rows, l : l \in {"more", "done"} /\ Goto(c, l, rows)
    BY <2>1
  <2>3. /\ call'[c] = [at |-> l, key |-> t, amt |-> call[c].amt,
                       seen |-> rows]
        /\ OthersStay(c)
    BY <1>1, <2>2, GotoMoves DEF TypeOK
  <2> QED
    BY <2>2, <2>3
<1>5. UNCHANGED <<raced, closed>>
  BY DEF Writes, SettleWrite, CancelWrite
<1>6. \/ At(c, "write") /\ Changed(c, t)
      \/ At(c, "more") /\ c \in Settles /\ UNCHANGED <<ledger, said>>
  BY <1>2 DEF Writes, SettleWrite, CancelWrite, At
<1>7. PICK new : casino' = Update(casino, new) /\ DOMAIN new = RowsOf(t)
  <2>1. ASSUME SettleWrite(c)
        PROVE  \E new : casino' = Update(casino, new)
                        /\ DOMAIN new = RowsOf(t)
    <3>1. PICK b \in DOMAIN call[c].seen :
            casino' = Update(casino, [o \in RowsOf(t) |-> SettledRow(c, b)])
      BY <2>1 DEF SettleWrite
    <3> DEFINE n == [o \in RowsOf(t) |-> SettledRow(c, b)]
    <3>2. DOMAIN n = RowsOf(t)
      OBVIOUS
    <3> HIDE DEF n
    <3> QED
      BY <3>1, <3>2 DEF n
  <2>2. ASSUME CancelWrite(c)
        PROVE  \E new : casino' = Update(casino, new)
                        /\ DOMAIN new = RowsOf(t)
    <3> DEFINE n == [b \in RowsOf(t) |->
                       [casino[b] EXCEPT !.status = Cancelled]]
    <3>1. casino' = Update(casino, n)
      BY <2>2 DEF CancelWrite
    <3>2. DOMAIN n = RowsOf(t)
      OBVIOUS
    <3> HIDE DEF n
    <3> QED
      BY <3>1, <3>2
  <2> QED
    BY <2>1, <2>2 DEF Writes
<1>8. DOMAIN casino' = DOMAIN casino
  BY <1>7 DEF Update
<1>9. \A b \in DOMAIN casino : TxOf[b] # t => casino'[b] = casino[b]
  BY <1>7 DEF Update, RowsOf
<1> QED
  BY <1>1, <1>3, <1>4, <1>5, <1>6, <1>8, <1>9

(* Once the rows of its transaction say what it says, a call that wrote    *)
(* them alone has kept every part.                                         *)
LEMMA WriteKeeps ==
  ASSUME TypeOK, CasinoInv, NEW c \in Settles \cup Cancels, Writes(c),
         Calm(call[c].key) =>
           /\ ledger'[call[c].key] # <<>>
           /\ ledger'[call[c].key][Len(ledger'[call[c].key])] = c
           /\ c \in Settles => UpToDate(c)'
           /\ \A b \in RowsOf(call[c].key) :
                /\ casino'[b].winnings = said'[call[c].key]
                /\ casino'[b].status = IF c \in Cancels THEN Cancelled
                                       ELSE Result(call[c].amt)
  PROVE  CasinoInv'
<1> DEFINE t == call[c].key
<1>0. Alone /\ Reads /\ Known /\ WinningsAddUp /\ SmartSoftPaysOnce
      /\ LastWordStands
  BY DEF CasinoInv, Turns
<1>1. /\ c \in Calls /\ t \in Txs /\ c \in Writing
      /\ OthersStay(c) /\ call'[c].key = t
      /\ call'[c].amt = call[c].amt /\ call'[c].at \in {"more", "done"}
      /\ UNCHANGED <<raced, closed>>
      /\ \/ At(c, "write") /\ Changed(c, t)
         \/ At(c, "more") /\ c \in Settles /\ UNCHANGED <<ledger, said>>
      /\ DOMAIN casino' = DOMAIN casino
      /\ \A b \in DOMAIN casino : TxOf[b] # t => casino'[b] = casino[b]
  BY WriteMoves
<1>2. HistoryOK /\ \A b \in DOMAIN casino : b \in Bets /\ TxOf[b] \in Txs
  BY DEF TypeOK, CasinoOK, IsTable, Txs
<1>3. \A u \in Txs : u # t => ledger'[u] = ledger[u] /\ said'[u] = said[u]
  BY <1>1, <1>2 DEF Changed, HistoryOK
<1>4. Alone' /\ \A d \in Settles :
                  d # c /\ (Calm(call[d].key))' => UpToDate(d)'
  BY <1>1, <1>3, OthersUpToDate
<1>5. Reads'
  BY <1>1, <1>4 DEF Reads, Calm
<1>6. \/ ledger'[t] = Append(ledger[t], c) /\ At(c, "write")
      \/ ledger'[t] = ledger[t]
  BY <1>1, <1>2 DEF Changed, HistoryOK
<1>7. Known'
  <2>1. ASSUME NEW u \in Txs, NEW i \in DOMAIN ledger'[u]
        PROVE  call'[ledger'[u][i]].at # "new"
    <3>1. ledger[u] \in Seq(Settles \cup Cancels)
      BY <1>2 DEF HistoryOK
    <3>2. \/ i \in DOMAIN ledger[u] /\ ledger'[u][i] = ledger[u][i]
          \/ ledger'[u][i] = c
      <4>1. CASE ledger'[u] = ledger[u]
        BY <2>1, <4>1
      <4>2. CASE ledger'[u] = Append(ledger[u], c)
        BY <2>1, <3>1, <4>2
      <4> QED
        BY <1>3, <1>6, <4>1, <4>2
    <3>3. ASSUME i \in DOMAIN ledger[u]
          PROVE  call'[ledger[u][i]].at # "new"
      <4>1. ledger[u][i] \in Calls
        BY <3>1, <3>3 DEF Calls
      <4> QED
        BY <1>0, <1>1, <3>3, <4>1 DEF Known, OthersStay
    <3> QED
      BY <1>1, <3>2, <3>3
  <2> QED
    BY <2>1 DEF Known
<1>8. SmartSoftPaysOnce'
  <2>1. ASSUME NEW u \in Txs, Calm(u), NEW i \in DOMAIN ledger'[u],
               ledger'[u][i] \in SmartSoft
        PROVE  i = 1
    <3>1. ledger[u] \in Seq(Settles \cup Cancels)
      BY <1>2 DEF HistoryOK
    <3>2. CASE ledger'[u] = ledger[u]
      BY <1>0, <2>1, <3>2 DEF SmartSoftPaysOnce
    <3>3. CASE /\ u = t /\ ledger'[t] = Append(ledger[t], c)
               /\ At(c, "write")
      <4>1. CASE i \in DOMAIN ledger[u] /\ ledger'[u][i] = ledger[u][i]
        BY <1>0, <2>1, <4>1 DEF SmartSoftPaysOnce
      <4>2. CASE ledger'[u][i] = c
        <5>1. c \in Settles
          BY <2>1, <4>2, InstanceAssumption
        <5>2. ledger[t] = <<>>
          BY <1>0, <2>1, <3>3, <4>2, <5>1 DEF Reads, UpToDate, At
        <5> QED
          BY <2>1, <3>3, <5>2
      <4> QED
        BY <2>1, <3>1, <3>3, <4>1, <4>2
    <3> QED
      BY <1>3, <1>6, <3>2, <3>3
  <2> QED
    BY <1>1, <2>1 DEF SmartSoftPaysOnce, Calm
<1>9. ASSUME NEW b \in DOMAIN casino, Calm(TxOf[b])
      PROVE  /\ casino'[b].winnings = said'[TxOf[b]]
             /\ casino'[b].status = Word(b)'
  <2>1. CASE TxOf[b] = t
    <3>1. b \in RowsOf(t)
      BY <2>1 DEF RowsOf
    <3>2. Word(b)' = IF c \in Cancels THEN Cancelled ELSE Result(call'[c].amt)
      BY <1>9, <2>1 DEF Word, Result
    <3> QED
      BY <1>1, <1>9, <2>1, <3>1, <3>2 DEF Result
  <2>2. CASE TxOf[b] # t
    <3>1. Word(b)' = Word(b)
      <4>1. \A d \in Calls : call'[d].amt = call[d].amt
        BY <1>1 DEF OthersStay
      <4> QED
        BY <1>0, <1>1, <1>2, <1>3, <2>2, <4>1, WordStays
    <3> QED
      BY <1>0, <1>1, <1>2, <1>3, <1>9, <2>2, <3>1
         DEF WinningsAddUp, LastWordStands
  <2> QED
    BY <2>1, <2>2
<1>10. WinningsAddUp' /\ LastWordStands'
  BY <1>1, <1>9 DEF WinningsAddUp, LastWordStands, Calm
<1> QED
  BY <1>4, <1>5, <1>7, <1>8, <1>10 DEF CasinoInv, Turns
(* Alone with its transaction, a settlement adds what it says to what the  *)
(* rows still say, once for every row that it has read.                    *)
LEMMA SettleKeeps ==
  ASSUME TypeOK, CasinoInv, NEW c \in Settles, SettleWrite(c)
  PROVE  CasinoInv'
<1> DEFINE t == call[c].key
<1>1. /\ c \in Calls /\ t \in Txs /\ OthersStay(c) /\ call'[c].key = t
      /\ call'[c].amt = call[c].amt
      /\ \/ At(c, "write") /\ Changed(c, t)
         \/ At(c, "more") /\ UNCHANGED <<ledger, said>>
  BY WriteMoves DEF Writes
<1>2. PICK b \in DOMAIN call[c].seen :
        /\ casino' = Update(casino, [o \in RowsOf(t) |-> SettledRow(c, b)])
        /\ \/ Answer(c)
           \/ Goto(c, "more", [o \in DOMAIN call[c].seen \ {b} |->
                                 call[c].seen[o]])
  BY DEF SettleWrite
<1>3. ASSUME NEW o \in RowsOf(t)
      PROVE  casino'[o] = [status   |-> Result(call[c].amt),
                           winnings |-> call[c].amt + call[c].seen[b]]
  BY <1>2, <1>3 DEF Update, SettledRow, RowsOf
<1>4. HistoryOK /\ CallsOK /\ call[c].amt \in Nat
  BY <1>1, InstanceAssumption DEF TypeOK, CallsOK, CallOK
<1>5. c \notin Cancels
  BY InstanceAssumption
<1>6. ASSUME Calm(t)
      PROVE  /\ ledger'[t] # <<>> /\ ledger'[t][Len(ledger'[t])] = c
             /\ \A o \in DOMAIN call[c].seen :
                  call[c].amt + call[c].seen[o] = said'[t]
  <2>1. UpToDate(c)
    BY <1>6 DEF CasinoInv, Turns, Reads
  <2>2. CASE At(c, "write") /\ Changed(c, t)
    <3>1. /\ ledger'[t] = Append(ledger[t], c)
          /\ said'[t] = said[t] + call[c].amt
          /\ ledger[t] \in Seq(Settles \cup Cancels) /\ said[t] \in Nat
      BY <1>1, <1>4, <2>2 DEF Changed, HistoryOK
    <3>2. ledger'[t] # <<>> /\ ledger'[t][Len(ledger'[t])] = c
      BY <3>1
    <3>3. \A o \in DOMAIN call[c].seen : call[c].seen[o] = said[t]
      BY <2>1, <2>2 DEF UpToDate, At
    <3>4. call[c].amt + said[t] = said'[t]
      BY <1>4, <3>1
    <3> QED
      BY <3>2, <3>3, <3>4
  <2>3. CASE At(c, "more") /\ UNCHANGED <<ledger, said>>
    BY <2>1, <2>3 DEF UpToDate, At
  <2> QED
    BY <1>1, <2>2, <2>3
<1>7. ASSUME Calm(t) PROVE UpToDate(c)'
  <2>1. CASE Answer(c)
    <3>1. call'[c] = [at |-> "done", key |-> t, amt |-> call[c].amt,
                      seen |-> Unread]
      BY <1>1, <1>4, <2>1, GotoMoves DEF Answer
    <3>2. call'[c].at = "done"
      BY <3>1
    <3> QED
      BY <3>2 DEF UpToDate
  <2>2. CASE Goto(c, "more", [o \in DOMAIN call[c].seen \ {b} |->
                                call[c].seen[o]])
    <3> DEFINE left == [o \in DOMAIN call[c].seen \ {b} |-> call[c].seen[o]]
    <3>1. \A o \in DOMAIN left :
            o \in DOMAIN call[c].seen /\ left[o] = call[c].seen[o]
      OBVIOUS
    <3> HIDE DEF left
    <3>2. Goto(c, "more", left)
      BY <2>2 DEF left
    <3>3. call'[c] = [at |-> "more", key |-> t, amt |-> call[c].amt,
                      seen |-> left]
      BY <1>1, <1>4, <3>2, GotoMoves
    <3>4. call'[c].at = "more" /\ call'[c].seen = left
      BY <3>3
    <3> QED
      BY <1>1, <1>6, <1>7, <3>1, <3>4 DEF UpToDate
  <2> QED
    BY <1>2, <2>1, <2>2
<1>8. ASSUME Calm(t), NEW o \in RowsOf(t)
      PROVE  /\ casino'[o].winnings = said'[t]
             /\ casino'[o].status = Result(call[c].amt)
  BY <1>3, <1>6, <1>8
<1> QED
  BY <1>5, <1>6, <1>7, <1>8, WriteKeeps DEF Writes

(* A cancellation leaves the winnings, and marks every row.                *)
LEMMA CancelKeeps ==
  ASSUME TypeOK, CasinoInv, NEW c \in Cancels, CancelWrite(c)
  PROVE  CasinoInv'
<1> DEFINE t == call[c].key
<1>1. /\ c \in Calls /\ t \in Txs /\ Changed(c, t)
  <2>1. call[c].at = "write"
    BY DEF CancelWrite, At
  <2> QED
    BY <2>1, WriteMoves DEF Writes, CancelWrite
<1>2. HistoryOK /\ call[c].amt = 0 /\ c \notin Settles
  BY <1>1, InstanceAssumption DEF TypeOK, CallsOK, CallOK
<1>3. /\ ledger'[t] = Append(ledger[t], c) /\ said'[t] = said[t]
      /\ ledger[t] \in Seq(Settles \cup Cancels)
  BY <1>1, <1>2 DEF Changed, HistoryOK
<1>4. ledger'[t] # <<>> /\ ledger'[t][Len(ledger'[t])] = c
  BY <1>3
<1>5. ASSUME NEW o \in RowsOf(t), Calm(t)
      PROVE  /\ casino'[o].winnings = said'[t]
             /\ casino'[o].status = Cancelled
  <2>1. o \in DOMAIN casino /\ TxOf[o] = t
    BY DEF RowsOf
  <2>2. casino'[o] = [casino[o] EXCEPT !.status = Cancelled]
    BY <2>1 DEF CancelWrite, Update
  <2>3. casino[o] \in [status : Open..Cancelled, winnings : Nat]
    BY <2>1 DEF TypeOK, CasinoOK, IsTable
  <2>4. casino[o].winnings = said[t]
    BY <1>5, <2>1 DEF CasinoInv, WinningsAddUp
  <2> QED
    BY <1>3, <2>2, <2>3, <2>4
<1> QED
  BY <1>2, <1>4, <1>5, WriteKeeps DEF Writes
(* What the recorded history cannot say.                                   *)
Recorded ==
  /\ \A t \in Txs : ledger[t] = <<>> => said[t] = 0
  /\ closed \subseteq DOMAIN casino
  /\ \A b \in DOMAIN casino : place[b] # "new"

(* Nothing is said before the first record, and a bet is saved once.       *)
LEMMA RecordedStep == TypeOK /\ Recorded /\ [Next]_vars => Recorded'
<1> SUFFICES ASSUME TypeOK, Recorded, [Next]_vars PROVE Recorded'
  OBVIOUS
<1>0. HistoryOK /\ CasinoOK
  BY DEF TypeOK
<1>a. ASSUME UNCHANGED <<casino, place, ledger, said, closed>>
      PROVE  Recorded'
  BY <1>a DEF Recorded
<1>b. ASSUME NEW c \in Settles \cup Cancels, Writes(c), UNCHANGED place
      PROVE  Recorded'
  <2>1. /\ call[c].key \in Txs /\ UNCHANGED closed
        /\ Changed(c, call[c].key) \/ UNCHANGED <<ledger, said>>
        /\ DOMAIN casino' = DOMAIN casino
    BY <1>b, WriteMoves
  <2>2. ASSUME NEW t \in Txs, ledger'[t] = <<>> PROVE said'[t] = 0
    <3>1. CASE UNCHANGED <<ledger, said>>
      BY <2>2, <3>1 DEF Recorded
    <3>2. CASE Changed(c, call[c].key)
      <4>1. /\ ledger'[call[c].key] = Append(ledger[call[c].key], c)
            /\ ledger[call[c].key] \in Seq(Settles \cup Cancels)
        BY <1>0, <2>1, <3>2 DEF Changed, HistoryOK
      <4>2. t # call[c].key
        BY <2>2, <4>1
      <4> QED
        BY <1>0, <2>1, <2>2, <3>2, <4>2 DEF Changed, HistoryOK, Recorded
    <3> QED
      BY <2>1, <3>1, <3>2
  <2> QED
    BY <1>b, <2>1, <2>2 DEF Recorded
<1>1. ASSUME NEW b \in Bets, Place(b) PROVE Recorded'
  <2>1. CASE PlaceSave(b)
    BY <1>0, <2>1 DEF PlaceSave, Insert, Recorded, CasinoOK
  <2>2. CASE PlaceBonus(b)
    BY <1>0, <2>2 DEF PlaceBonus, Recorded, CasinoOK, history
  <2> QED
    BY <1>1, <2>1, <2>2 DEF Place
<1>2. ASSUME NEW c \in Calls, Send(c) \/ Repeat(c) \/ Fail(c) PROVE Recorded'
  BY <1>2, <1>a DEF Send, Repeat, Fail, history
<1>3. ASSUME NEW c \in Settles, Settle(c) PROVE Recorded'
  <2>1. CASE SettleRead(c)
    BY <2>1, <1>a DEF SettleRead
  <2>2. CASE SettleWrite(c)
    BY <2>2, <1>b DEF SettleWrite, Writes
  <2> QED
    BY <1>3, <2>1, <2>2 DEF Settle
<1>4. ASSUME NEW c \in Cancels, Cancel(c) PROVE Recorded'
  <2>1. CASE CancelRead(c)
    BY <2>1, <1>a DEF CancelRead
  <2>2. CASE CancelWrite(c)
    BY <2>2, <1>b DEF CancelWrite, Writes
  <2> QED
    BY <1>4, <2>1, <2>2 DEF Cancel
<1>5. ASSUME NEW c \in Closings, Close(c) PROVE Recorded'
  BY <1>5 DEF Close, Update, Recorded
<1>6. ASSUME NEW v \in Tickets, VPlace(v) PROVE Recorded'
  BY <1>6, <1>a DEF VPlace, history
<1>7. ASSUME NEW r, NEW w, VSettle(r, w) \/ Ask(r, w) PROVE Recorded'
  BY <1>7, <1>a DEF VSettle, Ask, history
<1>8. CASE AskRound \/ AskTx \/ AskEnd
  BY <1>8, <1>a DEF AskRound, AskTx, AskEnd, history
<1>9. CASE Crash
  <2>1. \A b \in Bets : place[b] # "new" => place'[b] # "new"
    BY <1>9 DEF Crash
  <2>2. DOMAIN casino \subseteq Bets
    BY <1>0 DEF CasinoOK, IsTable
  <2> QED
    BY <1>9, <2>1, <2>2 DEF Crash, Recorded, history
<1>10. CASE UNCHANGED vars
  BY <1>10, <1>a DEF vars, history
<1> QED
  BY <1>1, <1>2, <1>3, <1>4, <1>5, <1>6, <1>7, <1>8, <1>9, <1>10 DEF Next

(* Only a status changes when a round is closed, or one row is new.        *)
LEMMA RowsMayCome ==
  ASSUME TypeOK, CasinoInv, UNCHANGED <<ledger, said>>, raced \subseteq raced',
         \A c \in Calls : \/ call'[c] = call[c]
                          \/ c \in Closings /\ call'[c].at # "new"
  PROVE  Turns' /\ SmartSoftPaysOnce'
<1>0. Alone /\ Reads /\ Known /\ SmartSoftPaysOnce
  BY DEF CasinoInv, Turns
<1>1. ASSUME NEW c \in Settles \cup Cancels
      PROVE  c \in Calls /\ call'[c] = call[c]
  BY InstanceAssumption DEF Calls
<1>2. Alone'
  <2>1. ASSUME NEW t \in Txs, (Calm(t))', NEW c \in (InFlight(t))'
        PROVE  c \in InFlight(t) /\ Calm(t)
    BY <1>1, <2>1 DEF InFlight, Writing, Calm
  <2> QED
    BY <1>0, <2>1 DEF Alone
<1>3. ASSUME NEW c \in Settles, (Calm(call[c].key))' PROVE UpToDate(c)'
  <2>1. call'[c] = call[c] /\ Calm(call[c].key)
    BY <1>1, <1>3 DEF Calm
  <2>2. UpToDate(c)
    BY <1>0, <2>1 DEF Reads
  <2> QED
    BY <2>1, <2>2 DEF UpToDate
<1>4. Known'
  <2>1. ASSUME NEW t \in Txs, NEW i \in DOMAIN ledger[t]
        PROVE  call'[ledger[t][i]].at # "new"
    <3>1. ledger[t][i] \in Settles \cup Cancels
      BY DEF TypeOK, HistoryOK
    <3> QED
      BY <1>0, <1>1, <3>1 DEF Known
  <2> QED
    BY <2>1 DEF Known
<1>5. SmartSoftPaysOnce'
  BY <1>0 DEF SmartSoftPaysOnce, Calm
<1> QED
  BY <1>2, <1>3, <1>4, <1>5 DEF Turns, Reads

(* An open bet is one nothing was said of, so its round may lose it.       *)
LEMMA CloseKeeps ==
  ASSUME TypeOK, CasinoInv, NEW c \in Closings, Close(c)
  PROVE  CasinoInv'
<1> DEFINE R == {b \in DOMAIN casino : ClosesBet(call[c].key, b)}
<1>0. WinningsAddUp /\ LastWordStands /\ Known /\ CallsOK
  BY DEF CasinoInv, Turns, TypeOK
<1>1. /\ casino' = Update(casino, [b \in R |->
                                    [casino[b] EXCEPT !.status = Lost]])
      /\ closed' = closed \cup R /\ UNCHANGED <<ledger, said, raced>>
      /\ c \in Calls /\ Answer(c)
  BY DEF Close, Calls
<1>2. /\ call'[c] = [at |-> "done", key |-> call[c].key,
                     amt |-> call[c].amt, seen |-> Unread]
      /\ OthersStay(c)
  BY <1>0, <1>1, GotoMoves DEF Answer
<1>3. call'[c].at = "done" /\ call'[c].amt = call[c].amt
  BY <1>2
<1>4. Turns' /\ SmartSoftPaysOnce'
  BY <1>1, <1>2, <1>3, RowsMayCome DEF OthersStay
<1>5. ASSUME NEW b \in DOMAIN casino, Calm(TxOf[b])
      PROVE  /\ casino'[b].winnings = said[TxOf[b]]
             /\ casino'[b].status = Word(b)'
  <2>1. /\ casino[b] \in [status : Open..Cancelled, winnings : Nat]
        /\ b \in Bets
    BY DEF TypeOK, CasinoOK, IsTable
  <2>2. casino[b].winnings = said[TxOf[b]] /\ casino[b].status = Word(b)
    BY <1>0, <1>5 DEF WinningsAddUp, LastWordStands
  <2>3. CASE b \in R
    <3>1. casino'[b] = [casino[b] EXCEPT !.status = Lost]
      BY <1>1, <2>3 DEF Update
    <3>2. casino'[b].winnings = casino[b].winnings /\ casino'[b].status = Lost
      BY <2>1, <3>1
    <3>3. Word(b) = Open
      BY <2>2, <2>3 DEF ClosesBet
    <3>4. ledger[TxOf[b]] = <<>>
      <4>1. Open # Cancelled /\ \A w : Result(w) # Open
        BY DEF Result, Open, Won, Lost, Cancelled
      <4> QED
        BY <3>3, <4>1 DEF Word
    <3>5. Word(b)' = Lost
      BY <1>1, <2>3, <3>4 DEF Word
    <3> QED
      BY <2>2, <3>2, <3>5
  <2>4. CASE b \notin R
    <3>1. casino'[b] = casino[b]
      BY <1>1, <2>4 DEF Update
    <3>2. \A d \in Calls : call'[d].amt = call[d].amt
      BY <1>2, <1>3 DEF OthersStay
    <3>3. Word(b)' = Word(b)
      BY <1>0, <1>1, <2>1, <2>4, <3>2, WordStays
    <3> QED
      BY <2>2, <3>1, <3>3
  <2> QED
    BY <2>3, <2>4
<1>6. DOMAIN casino' = DOMAIN casino
  BY <1>1 DEF Update
<1>7. WinningsAddUp' /\ LastWordStands'
  BY <1>1, <1>5, <1>6 DEF WinningsAddUp, LastWordStands, Calm
<1> QED
  BY <1>4, <1>7 DEF CasinoInv

(* A row that joins its transaction before anything was said of it, and    *)
(* while nobody works on it, is open and has won nothing.                  *)
LEMMA PlaceKeeps ==
  ASSUME TypeOK, CasinoInv, Recorded, NEW b \in Bets, PlaceSave(b)
  PROVE  CasinoInv'
<1> DEFINE t == TxOf[b]
<1>0. WinningsAddUp /\ LastWordStands /\ Known
  BY DEF CasinoInv, Turns
<1>1. /\ casino' = Insert(casino, b) /\ UNCHANGED <<call, ledger, said, closed>>
      /\ raced' = IF ledger[t] = <<>> /\ InFlight(t) = {} THEN raced
                                                         ELSE raced \cup {t}
      /\ b \notin DOMAIN casino
  BY DEF PlaceSave, Recorded
<1>2. raced \subseteq raced' /\ t \in Txs
  BY <1>1 DEF Txs
<1>3. Turns' /\ SmartSoftPaysOnce'
  BY <1>1, <1>2, RowsMayCome
<1>4. DOMAIN casino' = DOMAIN casino \cup {b}
  BY <1>1 DEF Insert
<1>5. ASSUME NEW o \in DOMAIN casino', (Calm(TxOf[o]))'
      PROVE  /\ casino'[o].winnings = said[TxOf[o]]
             /\ casino'[o].status = Word(o)'
  <2>1. CASE o = b
    <3>1. casino'[o] = [status |-> Open, winnings |-> 0]
      BY <1>1, <2>1 DEF Insert
    <3>2. ledger[t] = <<>> /\ b \notin closed
      BY <1>1, <1>2, <1>5, <2>1 DEF Calm, Recorded
    <3>3. said[t] = 0 /\ Word(o)' = Open
      BY <1>1, <1>2, <2>1, <3>2 DEF Recorded, Word
    <3> QED
      BY <2>1, <3>1, <3>3
  <2>2. CASE o # b
    <3>1. o \in DOMAIN casino /\ casino'[o] = casino[o] /\ Calm(TxOf[o])
      BY <1>1, <1>2, <1>4, <1>5, <2>2 DEF Insert, Calm
    <3>2. Word(o)' = Word(o)
      <4>1. call' = call /\ ledger' = ledger /\ closed' = closed
        BY <1>1
      <4> QED
        BY <4>1 DEF Word, Result
    <3> QED
      BY <1>0, <3>1, <3>2 DEF WinningsAddUp, LastWordStands
  <2> QED
    BY <2>1, <2>2
<1>6. WinningsAddUp' /\ LastWordStands'
  BY <1>1, <1>5 DEF WinningsAddUp, LastWordStands
<1> QED
  BY <1>3, <1>6 DEF CasinoInv

(* The inductive invariant of the casino bets.                             *)
LEMMA CasinoCorrect == Spec => [](TypeOK /\ Recorded /\ CasinoInv)
<1>1. Init => TypeOK /\ Recorded /\ CasinoInv
  <2>1. Init => Recorded
    BY DEF Init, Recorded, Unread
  <2> QED
    BY <2>1, TypeInit, CasinoInit
<1>2. TypeOK /\ Recorded /\ CasinoInv /\ [Next]_vars =>
        (TypeOK /\ Recorded /\ CasinoInv)'
  <2> SUFFICES ASSUME TypeOK, Recorded, CasinoInv, [Next]_vars
               PROVE  CasinoInv'
    BY TypeStep, RecordedStep
  <2> QED
    BY StepKinds, QuietKeeps, StartsKeeps, SettleKeeps, CancelKeeps,
       CloseKeeps, PlaceKeeps
<1> QED
  BY <1>1, <1>2, PTL DEF Spec

(* What a casino bet has won is the sum of what its settlements said, for  *)
(* any number of bets, rows of a transaction, calls, repeats and failures, *)
(* when no two calls work on its transaction at a time.                    *)
THEOREM Winnings == Spec => []WinningsAddUp
<1>1. CasinoInv => WinningsAddUp
  BY DEF CasinoInv
<1> QED
  BY <1>1, CasinoCorrect, PTL

(* smart-soft settles a transaction once, and before anybody else does.    *)
THEOREM PaysOnce == Spec => []SmartSoftPaysOnce
<1>1. CasinoInv => SmartSoftPaysOnce
  BY DEF CasinoInv
<1> QED
  BY <1>1, CasinoCorrect, PTL

(* A casino bet has the status that the last settlement or cancellation of *)
(* its transaction gave it.                                                *)
THEOREM LastWord == Spec => []LastWordStands
<1>1. CasinoInv => LastWordStands
  BY DEF CasinoInv
<1> QED
  BY <1>1, CasinoCorrect, PTL
-----------------------------------------------------------------------------
(***************************************************************************)
(* Virtual bets.  The index keeps a ticket unique, and every ticket of a   *)
(* round that was settled has what the round was announced to have won.    *)
(***************************************************************************)
Unique == \A v, o \in DOMAIN virtual : SameTicket(v, o) => v = o

Announced == \A v \in DOMAIN virtual :
               virtual[v].winnings \in {0, announced[VRoundOf[v]]}

VirtualInv == Unique /\ Announced /\ LookupsFindTheirTicket

(* The steps about virtual bets; no other step touches them.               *)
LEMMA BookSteps ==
  TypeOK /\ [Next]_vars =>
    \/ UNCHANGED books
    \/ \E v \in Tickets : VPlace(v)
    \/ \E r \in VRounds, w \in Wins : VSettle(r, w)
    \/ \E r \in VRounds, t \in VTxs : Ask(r, t)
    \/ AskRound \/ AskTx \/ AskEnd
<1> SUFFICES ASSUME TypeOK, [Next]_vars,
                    \A v \in Tickets : ~VPlace(v),
                    \A r \in VRounds, w \in Wins : ~VSettle(r, w),
                    \A r \in VRounds, t \in VTxs : ~Ask(r, t),
                    ~AskRound, ~AskTx, ~AskEnd
             PROVE  UNCHANGED books
  OBVIOUS
<1>1. ASSUME NEW b \in Bets, Place(b) PROVE UNCHANGED books
  BY <1>1 DEF Place, PlaceSave, PlaceBonus
<1>2. ASSUME NEW c \in Calls, Send(c) \/ Repeat(c) \/ Fail(c)
      PROVE  UNCHANGED books
  BY <1>2 DEF Send, Repeat, Fail
<1>3. ASSUME NEW c, Settle(c) \/ Cancel(c) \/ Close(c)
      PROVE  UNCHANGED books
  BY <1>3 DEF Settle, SettleRead, SettleWrite, Cancel, CancelRead,
              CancelWrite, Close
<1>4. CASE Crash \/ UNCHANGED vars
  BY <1>4 DEF Crash, vars
<1> QED
  BY <1>1, <1>2, <1>3, <1>4 DEF Next

(* VirtualInv is inductive.                                                *)
LEMMA VirtualStep == TypeOK /\ VirtualInv /\ [Next]_vars => VirtualInv'
<1> SUFFICES ASSUME TypeOK, VirtualInv, [Next]_vars PROVE VirtualInv'
  OBVIOUS
<1>0. BooksOK /\ Unique /\ Announced /\ LookupsFindTheirTicket
  BY DEF TypeOK, VirtualInv
<1>a. ASSUME UNCHANGED <<virtual, announced>> PROVE Unique' /\ Announced'
  BY <1>0, <1>a DEF Unique, Announced
<1>b. ASSUME UNCHANGED lookup PROVE LookupsFindTheirTicket'
  BY <1>0, <1>b DEF LookupsFindTheirTicket
<1>c. lookup \in [at : {"idle", "round", "tx", "answered"},
                  round : VRounds \cup {"none"}, tx : VTxs \cup {"none"},
                  found : SUBSET Tickets, before : SUBSET DOMAIN virtual]
  BY <1>0 DEF BooksOK
<1>1. CASE UNCHANGED books
  BY <1>1, <1>a, <1>b DEF books, VirtualInv
<1>2. ASSUME NEW v \in Tickets, VPlace(v) PROVE VirtualInv'
  <2>1. /\ virtual' = Insert(virtual, v) /\ UNCHANGED <<announced, lookup>>
        /\ \A o \in DOMAIN virtual : ~SameTicket(v, o)
    BY <1>2 DEF VPlace
  <2>2. DOMAIN virtual' = DOMAIN virtual \cup {v}
    BY <2>1 DEF Insert
  <2>3. Unique'
    <3>1. \A o \in DOMAIN virtual : ~SameTicket(o, v)
      BY <2>1 DEF SameTicket
    <3> QED
      BY <1>0, <2>1, <2>2, <3>1 DEF Unique, SameTicket
  <2>4. Announced'
    BY <1>0, <2>1, <2>2 DEF Announced, Insert
  <2> QED
    BY <1>b, <2>1, <2>3, <2>4 DEF VirtualInv
<1>3. ASSUME NEW r \in VRounds, NEW w \in Wins, VSettle(r, w)
      PROVE  VirtualInv'
  <2> DEFINE R   == {o \in DOMAIN virtual : VRoundOf[o] = r}
             new == [v \in R |-> VSettledRow(v, w)]
  <2>1. /\ virtual' = Update(virtual, new) /\ UNCHANGED lookup
        /\ announced' = [announced EXCEPT ![r] = w]
    BY <1>3 DEF VSettle
  <2>2. DOMAIN virtual' = DOMAIN virtual
    BY <2>1 DEF Update
  <2>3. Unique'
    BY <1>0, <2>2 DEF Unique, SameTicket
  <2>4. ASSUME NEW v \in DOMAIN virtual
        PROVE  virtual'[v].winnings \in {0, announced'[VRoundOf[v]]}
    <3>1. VRoundOf[v] \in VRounds
      BY <1>0 DEF BooksOK, IsTable, VRounds
    <3>2. CASE VRoundOf[v] = r
      <4>1. virtual'[v] = VSettledRow(v, w)
        BY <2>1, <3>2 DEF Update
      <4>2. announced'[r] = w
        BY <1>0, <2>1 DEF BooksOK
      <4> QED
        BY <3>2, <4>1, <4>2 DEF VSettledRow
    <3>3. CASE VRoundOf[v] # r
      <4>1. virtual'[v] = virtual[v]
        BY <2>1, <3>3 DEF Update
      <4>2. announced'[VRoundOf[v]] = announced[VRoundOf[v]]
        BY <1>0, <2>1, <3>1, <3>3 DEF BooksOK
      <4> QED
        BY <1>0, <4>1, <4>2 DEF Announced
    <3> QED
      BY <3>2, <3>3
  <2>5. Announced'
    BY <2>2, <2>4 DEF Announced
  <2> QED
    BY <1>b, <2>1, <2>3, <2>5 DEF VirtualInv
<1>4. ASSUME NEW r \in VRounds, NEW t \in VTxs, Ask(r, t) PROVE VirtualInv'
  <2>1. lookup'.at = "round" /\ UNCHANGED <<virtual, announced>>
    BY <1>4 DEF Ask
  <2> QED
    BY <1>a, <2>1 DEF VirtualInv, LookupsFindTheirTicket
<1>5. CASE AskRound
  <2>1. lookup'.at = "tx" /\ UNCHANGED <<virtual, announced>>
    BY <1>c, <1>5 DEF AskRound
  <2> QED
    BY <1>a, <2>1 DEF VirtualInv, LookupsFindTheirTicket
<1>6. CASE AskTx
  <2> DEFINE Mine == {v \in DOMAIN virtual : VTxOf[v] = lookup.tx}
  <2>1. PICK found \in Find(Mine) :
          lookup' = [lookup EXCEPT !.at = "answered",
                                   !.found = Preferred(lookup.found, found)]
    BY <1>6 DEF AskTx
  <2>2. /\ lookup'.found = Preferred(lookup.found, found)
        /\ lookup'.before = lookup.before /\ lookup'.tx = lookup.tx
        /\ lookup.before \subseteq DOMAIN virtual
    BY <1>c, <2>1
  <2>3. ASSUME NEW v \in lookup.before, VTxOf[v] = lookup.tx
        PROVE  \E o \in lookup'.found : VTxOf[o] = lookup.tx
    <3>1. v \in Mine
      BY <2>2, <2>3
    <3>2. PICK o \in Mine : found = {o}
      BY <2>1, <3>1 DEF Find
    <3>3. lookup'.found = {o}
      BY <2>2, <3>2 DEF Preferred
    <3> QED
      BY <3>2, <3>3
  <2>4. LookupsFindTheirTicket'
    BY <2>2, <2>3 DEF LookupsFindTheirTicket
  <2> QED
    BY <1>6, <1>a, <2>4 DEF AskTx, VirtualInv
<1>7. CASE AskEnd
  <2>1. lookup'.at = "idle" /\ UNCHANGED <<virtual, announced>>
    BY <1>7 DEF AskEnd, Idle
  <2> QED
    BY <1>a, <2>1 DEF VirtualInv, LookupsFindTheirTicket
<1> QED
  BY <1>1, <1>2, <1>3, <1>4, <1>5, <1>6, <1>7, BookSteps

(* The inductive invariant of the virtual bets.                            *)
LEMMA VirtualCorrect == Spec => [](TypeOK /\ VirtualInv)
<1>1. Init => TypeOK /\ VirtualInv
  <2>1. Init => VirtualInv
    BY DEF Init, Unread, Idle, VirtualInv, Unique, Announced,
           LookupsFindTheirTicket
  <2> QED
    BY <2>1, TypeInit
<1>2. TypeOK /\ VirtualInv /\ [Next]_vars => (TypeOK /\ VirtualInv)'
  BY TypeStep, VirtualStep
<1> QED
  BY <1>1, <1>2, PTL DEF Spec

(* A virtual ticket is paid what its round won, and once, whatever is sent *)
(* again.                                                                  *)
THEOREM RetriesPayOnce == Spec => []VirtualRetriesPayOnce
<1>1. VirtualInv => VirtualRetriesPayOnce
  BY DEF VirtualInv, Unique, Announced, VirtualRetriesPayOnce
<1> QED
  BY <1>1, VirtualCorrect, PTL

(* A lookup answers with the ticket of the transaction asked for, whatever *)
(* is placed between its two reads.                                        *)
THEOREM Lookups == Spec => []LookupsFindTheirTicket
<1>1. VirtualInv => LookupsFindTheirTicket
  BY DEF VirtualInv
<1> QED
  BY <1>1, VirtualCorrect, PTL
=============================================================================
