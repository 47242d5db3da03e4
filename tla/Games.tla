-------------------------------- MODULE Games --------------------------------
(***************************************************************************)
(* Bets on casino games and on virtual sports.  The providers of the games *)
(* place, settle, close and cancel them by calls that the gateway forwards *)
(* and that it, or the provider, makes again when no answer came back.     *)
(* A call is a few statements with nothing between them to keep another    *)
(* call out; a step is one statement.                                      *)
(***************************************************************************)
EXTENDS Integers, Sequences

CONSTANTS
  Bets,        (* placeCasinoBet calls; each that is saved is one row      *)
  TxOf,        (* TxOf[b]: the transaction_id of b; rows may share one     *)
  RoundOf,     (* RoundOf[t]: the round_id of the bets of transaction t    *)
  BonusBets,   (* the casino bets placed with a bonus                      *)
  Settles,     (* settleCasinoBet calls                                    *)
  SmartSoft,   (* those of the provider smart-soft                         *)
  Cancels,     (* cancelCasinoBet calls                                    *)
  Closings,    (* closeCasinoRound calls                                   *)
  Wins,        (* what a settlement may say was won                        *)
  Tickets,     (* placeVirtualBet calls                                    *)
  VRoundOf,    (* VRoundOf[v]: the round_id of virtual ticket v            *)
  VTxOf,       (* VTxOf[v]: its transaction_id                             *)
  MaxRepeats,  (* bound: calls made again after they were answered         *)
  MaxStops     (* bound: failing statements and crashes of the process     *)

Txs     == {TxOf[b] : b \in Bets}
Rounds  == {RoundOf[t] : t \in Txs}
VRounds == {VRoundOf[v] : v \in Tickets}
VTxs    == {VTxOf[v] : v \in Tickets}
Calls   == Settles \cup Cancels \cup Closings

ASSUME InstanceAssumption ==
  /\ DOMAIN TxOf = Bets /\ DOMAIN RoundOf = Txs
  /\ DOMAIN VRoundOf = Tickets /\ DOMAIN VTxOf = Tickets
  /\ BonusBets \subseteq Bets /\ SmartSoft \subseteq Settles
  /\ Settles \cap Cancels = {} /\ Settles \cap Closings = {}
  /\ Cancels \cap Closings = {}
  /\ Wins \subseteq Nat
  /\ MaxRepeats \in Nat /\ MaxStops \in Nat

(* casino_bets.status and virtual_bets.status                              *)
Open == 0
Won == 1
Lost == 2
Cancelled == 3

VARIABLES
  casino,     (* table casino_bets: status and winnings of each saved row  *)
  place,      (* each placeCasinoBet call: new, bonus, ok or error         *)
  call,       (* each call: where it is, the transaction or round it names *)
              (* (key), the amount won, and the rows it read and has still *)
              (* to go through (seen)                                      *)
  virtual,    (* table virtual_bets: status and winnings of each saved row *)
  announced,  (* what the provider says each virtual round won, -1: not yet*)
  lookup,     (* the getVirtualTicket call: where it is, the round and     *)
              (* transaction asked for, the ticket found, and, for         *)
              (* checking, those saved before it was made                  *)
  provider,   (* whose calls come in: casino and virtual bets share no     *)
              (* table and no call, so each is followed without the other  *)
  repeats, stops,
  ledger,     (* for checking: the settlements and cancellations that      *)
              (* changed a transaction, in order                           *)
  said,       (* for checking: what these settlements won it, in total     *)
  closed,     (* for checking: the bets lost by the closing of their round *)
  raced       (* for checking: the transactions two calls worked on at a   *)
              (* time, or that got another row after they were settled     *)

history == <<ledger, said, closed, raced>>
bounds  == <<repeats, stops>>
books   == <<virtual, announced, lookup>>
vars    == <<casino, place, call, books, provider, bounds, history>>

Unread == <<>>
Idle   == [at |-> "idle", round |-> "none", tx |-> "none", found |-> {},
           before |-> {}]

Init ==
  /\ casino = Unread /\ place = [b \in Bets |-> "new"]
  /\ call = [c \in Calls |-> [at |-> "new", key |-> "none", amt |-> 0,
                              seen |-> Unread]]
  /\ virtual = Unread /\ announced = [r \in VRounds |-> -1]
  /\ lookup = Idle /\ provider \in {"casino", "virtual"}
  /\ repeats = 0 /\ stops = 0
  /\ ledger = [t \in Txs |-> <<>>] /\ said = [t \in Txs |-> 0]
  /\ closed = {} /\ raced = {}

At(c, label)   == call[c].at = label
Goto(c, label, rows) ==
  call' = [call EXCEPT ![c] = [@ EXCEPT !.at = label, !.seen = rows]]
Answer(c)      == Goto(c, "done", Unread)

RowsOf(t)   == {b \in DOMAIN casino : TxOf[b] = t}
Writing     == {c \in Settles \cup Cancels : call[c].at \in {"write", "more"}}
InFlight(t) == {c \in Writing : call[c].key = t}

(* One UPDATE gives the rows in new what new says, and keeps the others.   *)
Update(table, new) ==
  [b \in DOMAIN table |-> IF b \in DOMAIN new THEN new[b] ELSE table[b]]
Insert(table, b) ==
  [o \in DOMAIN table \cup {b} |->
     IF o = b THEN [status |-> Open, winnings |-> 0] ELSE table[o]]

(* For checking: call c changed t, or begins while another works on it.    *)
Changed(c, t) == /\ ledger' = [ledger EXCEPT ![t] = Append(@, c)]
                 /\ said'   = [said EXCEPT ![t] = @ + call[c].amt]
Begins(t)     == raced' = IF InFlight(t) = {} THEN raced ELSE raced \cup {t}

-----------------------------------------------------------------------------
(* placeCasinoBet.  The row is saved first, without the bonus it is placed *)
(* with; the bonus service is told next.  When that fails the caller hears *)
(* of an error, and the row stays.                                         *)

(* A bug: a bet with a bonus is not saved before the bonus service is told.*)
PlaceSaveAfterBonus(b) ==
  /\ provider = "casino" /\ place[b] = "new"
  /\ casino' = IF b \in BonusBets THEN casino ELSE Insert(casino, b)
  /\ place' = [place EXCEPT ![b] = IF b \in BonusBets THEN "bonus" ELSE "ok"]
  /\ UNCHANGED <<call, books, provider, bounds, history>>

PlaceSave(b) ==
  /\ provider = "casino" /\ place[b] = "new"
  /\ casino' = Insert(casino, b)
  /\ place' = [place EXCEPT ![b] = IF b \in BonusBets THEN "bonus" ELSE "ok"]
  /\ LET t == TxOf[b]
     IN  raced' = IF ledger[t] = <<>> /\ InFlight(t) = {} THEN raced
                                                          ELSE raced \cup {t}
  /\ UNCHANGED <<call, books, provider, bounds, ledger, said, closed>>

PlaceBonus(b) ==
  /\ place[b] = "bonus"
  /\ \E answer \in {"ok", "error"} : place' = [place EXCEPT ![b] = answer]
  /\ UNCHANGED <<casino, call, books, provider, bounds, history>>

Place(b) == PlaceSave(b) \/ PlaceBonus(b)

-----------------------------------------------------------------------------
(* The gateway sends a call, and sends it again when it saw no answer.     *)

Send(c) ==
  /\ provider = "casino" /\ At(c, "new")
  /\ \E k \in IF c \in Closings THEN Rounds ELSE Txs,
        w \in IF c \in Settles THEN Wins ELSE {0} :
       call' = [call EXCEPT ![c] = [@ EXCEPT !.at = "sent", !.key = k,
                                             !.amt = w]]
  /\ UNCHANGED <<casino, place, books, provider, bounds, history>>

Repeat(c) ==
  /\ At(c, "done")
  /\ repeats < MaxRepeats
  /\ repeats' = repeats + 1
  /\ Goto(c, "sent", Unread)
  /\ UNCHANGED <<casino, place, books, provider, stops, history>>

(* A bug: nobody looks at the status.                                      *)
AlwaysSettles(c, b) == TRUE

(* settleCasinoBet: the rows of the transaction are read.  Only calls of   *)
(* smart-soft look at a status, that of the first row, whichever it is.    *)
MaySettle(c, b) == c \in SmartSoft => casino[b].status = Open

SettleRead(c) ==
  /\ c \in Settles /\ At(c, "sent")
  /\ LET rows == RowsOf(call[c].key)
     IN  \/ /\ rows = {} \/ \E first \in rows : ~MaySettle(c, first)
            /\ Answer(c) /\ UNCHANGED raced
         \/ /\ \E first \in rows : MaySettle(c, first)
            /\ Goto(c, "write", [b \in rows |-> casino[b].winnings])
            /\ Begins(call[c].key)
  /\ UNCHANGED <<casino, place, books, provider, bounds, ledger, said,
                 closed>>

Result(w) == IF w > 0 THEN Won ELSE Lost

(* A bug: the new winnings replace the old ones.                           *)
SettledRowReplaces(c, b) == [status   |-> Result(call[c].amt),
                             winnings |-> call[c].amt]

(* Once for each row that was read: all rows of the transaction get its    *)
(* winnings plus the new ones.  bonus_id is never set, so the bonus        *)
(* service is not told.                                                    *)
SettledRow(c, b) == [status   |-> Result(call[c].amt),
                     winnings |-> call[c].amt + call[c].seen[b]]

SettleWrite(c) ==
  /\ c \in Settles /\ call[c].at \in {"write", "more"}
  /\ LET t    == call[c].key
         left == DOMAIN call[c].seen
     IN  \E b \in left :
           /\ casino' = Update(casino, [o \in RowsOf(t) |-> SettledRow(c, b)])
           /\ IF left = {b} THEN Answer(c)
              ELSE Goto(c, "more", [o \in left \ {b} |-> call[c].seen[o]])
           /\ IF At(c, "write") THEN Changed(c, t)
              ELSE UNCHANGED <<ledger, said>>
  /\ UNCHANGED <<place, books, provider, bounds, closed, raced>>

Settle(c) == SettleRead(c) \/ SettleWrite(c)

-----------------------------------------------------------------------------
(* cancelCasinoBet looks at the status of the first row it finds.          *)

MayCancel(b) == casino[b].status # Cancelled

CancelRead(c) ==
  /\ c \in Cancels /\ At(c, "sent")
  /\ LET rows == RowsOf(call[c].key)
     IN  \/ /\ rows = {} \/ \E first \in rows : ~MayCancel(first)
            /\ Answer(c) /\ UNCHANGED raced
         \/ /\ \E first \in rows : MayCancel(first)
            /\ Goto(c, "write", Unread) /\ Begins(call[c].key)
  /\ UNCHANGED <<casino, place, books, provider, bounds, ledger, said,
                 closed>>

CancelWrite(c) ==
  /\ c \in Cancels /\ At(c, "write")
  /\ casino' = Update(casino, [b \in RowsOf(call[c].key) |->
                                  [casino[b] EXCEPT !.status = Cancelled]])
  /\ Changed(c, call[c].key) /\ Answer(c)
  /\ UNCHANGED <<place, books, provider, bounds, closed, raced>>

Cancel(c) == CancelRead(c) \/ CancelWrite(c)

(* A bug: settled bets are closed as well.                                 *)
ClosesAnyBet(r, b) == RoundOf[TxOf[b]] = r

(* closeCasinoRound: the bets of the round that are still open are lost.   *)
ClosesBet(r, b) == RoundOf[TxOf[b]] = r /\ casino[b].status = Open

Close(c) ==
  /\ c \in Closings /\ At(c, "sent")
  /\ LET rows == {b \in DOMAIN casino : ClosesBet(call[c].key, b)}
     IN  /\ casino' = Update(casino, [b \in rows |->
                                       [casino[b] EXCEPT !.status = Lost]])
         /\ closed' = closed \cup rows
  /\ Answer(c)
  /\ UNCHANGED <<place, books, provider, bounds, ledger, said, raced>>

-----------------------------------------------------------------------------
(* A bug: the table without its index.                                     *)
SameTicketNoIndex(v, o) == o = v

(* placeVirtualBet: the unique index on (round_id, transaction_id) refuses *)
(* a ticket that is there already, and the caller hears of an error.       *)
SameTicket(v, o) == VRoundOf[o] = VRoundOf[v] /\ VTxOf[o] = VTxOf[v]

VPlace(v) ==
  /\ provider = "virtual"
  /\ \A o \in DOMAIN virtual : ~SameTicket(v, o)
  /\ virtual' = Insert(virtual, v)
  /\ UNCHANGED <<casino, place, call, announced, lookup, provider, bounds,
                 history>>

(* A bug: the winnings are added up, as they are for casino bets.          *)
VSettledRowAdds(v, w) == [status   |-> Result(w),
                          winnings |-> virtual[v].winnings + w]

(* settleBet: one UPDATE of all tickets of the round, whoever placed them. *)
(* The provider announces what a round won once, and may say it again.     *)
VSettledRow(v, w) == [status |-> Result(w), winnings |-> w]

VSettle(r, w) ==
  /\ provider = "virtual"
  /\ announced[r] \in {-1, w}
  /\ announced' = [announced EXCEPT ![r] = w]
  /\ virtual' = Update(virtual,
                 [v \in {o \in DOMAIN virtual : VRoundOf[o] = r} |->
                    VSettledRow(v, w)])
  /\ UNCHANGED <<casino, place, call, lookup, provider, bounds, history>>

(* getVirtualTicket: a ticket of the round and one of the transaction are  *)
(* looked up, and the second is the answer when there is one.              *)
Ask(r, t) ==
  /\ provider = "virtual" /\ lookup.at = "idle"
  /\ lookup' = [at |-> "round", round |-> r, tx |-> t, found |-> {},
                before |-> DOMAIN virtual]
  /\ UNCHANGED <<casino, place, call, virtual, announced, provider, bounds,
                 history>>

Find(S) == IF S = {} THEN {{}} ELSE {{v} : v \in S}

AskRound ==
  /\ lookup.at = "round"
  /\ \E found \in Find({v \in DOMAIN virtual : VRoundOf[v] = lookup.round}) :
       lookup' = [lookup EXCEPT !.at = "tx", !.found = found]
  /\ UNCHANGED <<casino, place, call, virtual, announced, provider, bounds,
                 history>>

(* A bug: the first ticket found is the answer.                            *)
PreferredFirst(byRound, byTx) == IF byRound # {} THEN byRound ELSE byTx

(* The answer carries the ticket of the transaction if both were found.    *)
Preferred(byRound, byTx) == IF byTx # {} THEN byTx ELSE byRound

AskTx ==
  /\ lookup.at = "tx"
  /\ \E found \in Find({v \in DOMAIN virtual : VTxOf[v] = lookup.tx}) :
       lookup' = [lookup EXCEPT !.at = "answered",
                                !.found = Preferred(lookup.found, found)]
  /\ UNCHANGED <<casino, place, call, virtual, announced, provider, bounds,
                 history>>

AskEnd ==
  /\ lookup.at = "answered"
  /\ lookup' = Idle
  /\ UNCHANGED <<casino, place, call, virtual, announced, provider, bounds,
                 history>>

-----------------------------------------------------------------------------
(* A statement of a call fails and the caller is told, or the process stops*)
(* and the gateway, which saw no answer, may make the calls again.         *)
Fail(c) ==
  /\ call[c].at \in {"sent", "write", "more"}
  /\ stops < MaxStops /\ stops' = stops + 1
  /\ Answer(c)
  /\ UNCHANGED <<casino, place, books, provider, repeats, history>>

Crash ==
  /\ Writing # {} \/ \E b \in Bets : place[b] = "bonus"
  /\ stops < MaxStops /\ stops' = stops + 1
  /\ call' = [c \in Calls |->
                IF c \in Writing
                THEN [call[c] EXCEPT !.at = "sent", !.seen = Unread]
                ELSE call[c]]
  /\ place' = [b \in Bets |-> IF place[b] = "bonus" THEN "error" ELSE place[b]]
  /\ UNCHANGED <<casino, books, provider, repeats, history>>

Next ==
  \/ \E b \in Bets : Place(b)
  \/ \E c \in Calls : Send(c) \/ Repeat(c) \/ Fail(c)
  \/ \E c \in Settles : Settle(c)
  \/ \E c \in Cancels : Cancel(c)
  \/ \E c \in Closings : Close(c)
  \/ \E v \in Tickets : VPlace(v)
  \/ \E r \in VRounds, w \in Wins : VSettle(r, w)
  \/ \E r \in VRounds, t \in VTxs : Ask(r, t)
  \/ AskRound \/ AskTx \/ AskEnd
  \/ Crash

Spec == Init /\ [][Next]_vars

-----------------------------------------------------------------------------
IsTable(table, Ids, Row) == /\ DOMAIN table \subseteq Ids
                            /\ table \in [DOMAIN table -> Row]

CasinoOK ==
  /\ IsTable(casino, Bets, [status : Open..Cancelled, winnings : Nat])
  /\ place \in [Bets -> {"new", "bonus", "ok", "error"}]
  /\ \A b \in Bets : place[b] # "new" => b \in DOMAIN casino

CallOK(c) ==
  /\ call[c].at \in {"new", "sent", "write", "more", "done"}
  /\ call[c].amt \in IF c \in Settles THEN Wins \cup {0} ELSE {0}
  /\ IsTable(call[c].seen, Bets, Nat)
  /\ call[c].at # "new" /\ c \notin Closings => call[c].key \in Txs

CallsOK ==
  /\ call = [c \in Calls |-> [at  |-> call[c].at,  key  |-> call[c].key,
                              amt |-> call[c].amt, seen |-> call[c].seen]]
  /\ \A c \in Calls : CallOK(c)

BooksOK ==
  /\ IsTable(virtual, Tickets, [status : Open..Lost, winnings : Nat])
  /\ announced \in [VRounds -> Wins \cup {-1}]
  /\ lookup \in [at : {"idle", "round", "tx", "answered"},
                 round : VRounds \cup {"none"}, tx : VTxs \cup {"none"},
                 found : SUBSET Tickets, before : SUBSET DOMAIN virtual]

HistoryOK ==
  /\ ledger \in [Txs -> Seq(Settles \cup Cancels)] /\ said \in [Txs -> Nat]
  /\ closed \subseteq Bets /\ raced \subseteq Txs

BoundsOK == repeats \in 0..MaxRepeats /\ stops \in 0..MaxStops

(* The tables and the calls have the values their columns and states allow,*)
(* and a placeCasinoBet call that got past its save has its row.           *)
TypeOK == CasinoOK /\ CallsOK /\ BooksOK /\ HistoryOK /\ BoundsOK

Calm(t) == t \notin raced

(* The winnings of a casino bet are the sum of what its settlements said,  *)
(* in any order with cancellations, closings, failures and repeats, as long*)
(* as no two calls work on its transaction at a time and no bet joins it   *)
(* after the first (settleCasinoBet reads them and writes back the sum).   *)
WinningsAddUp ==
  \A b \in DOMAIN casino :
    Calm(TxOf[b]) => casino[b].winnings = said[TxOf[b]]

(* "check if bet has been settled and return message": what smart-soft     *)
(* settles, it settles once, before any other settlement and cancellation, *)
(* however often the call is made.  Two at once can both read an open bet. *)
SmartSoftPaysOnce ==
  \A t \in Txs : Calm(t) =>
    \A i \in DOMAIN ledger[t] : ledger[t][i] \in SmartSoft => i = 1

(* The status a bet has by what was said of its transaction.               *)
Word(b) == LET words == ledger[TxOf[b]]
               last  == words[Len(words)]
           IN  IF words = <<>> THEN IF b \in closed THEN Lost ELSE Open
               ELSE IF last \in Cancels THEN Cancelled
               ELSE Result(call[last].amt)

(* The status of a casino bet is what the last settlement or cancellation  *)
(* said, and a closing of its round loses it only if nothing was said yet. *)
LastWordStands ==
  \A b \in DOMAIN casino : Calm(TxOf[b]) => casino[b].status = Word(b)

(* A virtual ticket wins what its round won, once: neither a settlement    *)
(* made again nor the same ticket placed again pays a second time.         *)
VirtualRetriesPayOnce ==
  \A v \in DOMAIN virtual :
    /\ virtual[v].winnings \in {0, announced[VRoundOf[v]]}
    /\ \A o \in DOMAIN virtual : SameTicket(v, o) /\ virtual[v].winnings > 0 =>
         o = v \/ virtual[o].winnings = 0

(* getVirtualTicket answers with the ticket of the transaction asked for   *)
(* whenever that was saved before the call, although other tickets of the  *)
(* round are found first and more are placed between its two reads.        *)
LookupsFindTheirTicket ==
  lookup.at = "answered" =>
    \A v \in lookup.before :
      VTxOf[v] = lookup.tx => \E o \in lookup.found : VTxOf[o] = lookup.tx
=============================================================================
