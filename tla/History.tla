------------------------------- MODULE History -------------------------------
(***************************************************************************)
(* The pages of bets that users, shops and the back office leaf through    *)
(* while bets are placed and resulted, what they say of a bet and its      *)
(* slips, and the cashout that the history of a user offers for a pending  *)
(* bet.  A page is a count, and then a select of the rows at the offset    *)
(* that the page and the count give: two statements, as are the row of a   *)
(* bet and its slips, and the slips and lost slips that a cashout reads.   *)
(* Rows are numbered in the order of their creation and listed from the    *)
(* newest to the oldest.                                                   *)
(***************************************************************************)
EXTENDS Integers, FiniteSets, BetConstants

CONSTANTS
  Kinds,       (* the listings that are read, of those below               *)
  Filters,     (* the filters asked for: of "all", "settled", "pending"    *)
  PerPages,    (* the perPage a request may name                           *)
  PagerSize,   (* the page size that is written into the code: 100         *)
  Results,     (* the statuses a pending bet may get                       *)
  MaxBets,     (* bound: bets placed                                       *)
  MaxResults,  (* bound: bets resulted while a reader leafs                *)
  Slips,       (* the slips of the bet that is offered a cashout           *)
  Ladder,      (* Ladder[n]: what a cashout pays once n slips are void,    *)
               (* after the deduction of its step; 0 below all steps       *)
  MaxRegrades  (* bound: results that are taken back, or given to the      *)
               (* whole bet by hand                                        *)

AllKinds == {"history",  (* findAll: the bets of a user                  *)
             "tickets",  (* getSportsTickets: those of a client          *)
             "agent",    (* agentBets: those of the users of an agent    *)
             "games",    (* getTickets: virtual bets                     *)
             "virtual",  (* getVirtualTickets: virtual bets, for reports *)
             "casino",   (* getCasinoBets: casino bets, for reports      *)
             "shop"}     (* agentVBets: virtual bets of an agent's users *)

ASSUME InstanceAssumption ==
  /\ Kinds \subseteq AllKinds /\ Filters \subseteq {"all", "settled", "pending"}
  /\ PerPages \subseteq Nat \ {0} /\ PagerSize \in Nat \ {0}
  /\ Results \subseteq BetStatuses \ {BET_PENDING}
  /\ MaxBets \in Nat /\ MaxResults \in Nat /\ MaxRegrades \in Nat
  /\ IsFiniteSet(Slips) /\ Ladder \in [0..Cardinality(Slips) -> Nat]

VARIABLES
  bets,     (* the status of each bet; its domain is 1..(number of bets)   *)
  reader,   (* who leafs: the listing, filter and perPage, the page and    *)
            (* where it is with it, the total counted, the rows shown      *)
  owed,     (* for checking: the rows that matched the filter at the first *)
            (* count, and ever since                                       *)
  slack,    (* for checking: the rows that left the filter since then, or  *)
            (* came into it between a count and its select                 *)
  results,
  slips,    (* the result of each slip of bet 1; "void" is what the feed   *)
            (* made void, "annulled" what was voided by hand, "withdrawn"  *)
            (* a slip cancelled, or voided with its whole bet              *)
  user,     (* who looks at it and may cash it out: where, whether all     *)
            (* events of the bet are matches, the view that is open, the   *)
            (* row, slips and number of pending slips it read, and the     *)
            (* offer of the history, which is the amount of the request    *)
  stale,    (* for checking: the bet was resulted, or a slip lost, voided  *)
            (* or regraded, since the offer was listed                     *)
  doomed,   (* for checking: the slips that had lost when the cashout was  *)
            (* asked for, and have ever since                              *)
  regrades

leafing == <<reader, owed, slack, results>>
cashing == <<slips, user, stale, doomed, regrades>>
vars    == <<bets, leafing, cashing>>

(* A reader leafs, or a user cashes out: neither changes what the other    *)
(* reads, but for the status of bet 1.                                     *)
Leafs == reader.kind # "none"

Away == [at |-> "away", matches |-> TRUE, view |-> "none",
         row |-> BET_PENDING, slips |-> [x \in Slips |-> "pending"],
         pending |-> 0, offer |-> 0]

Init ==
  /\ reader \in {[kind |-> k, filter |-> f, n |-> n, page |-> 1, at |-> "count",
                  total |-> 0, shown |-> {}] :
                    k \in Kinds \cup {"none"}, f \in Filters, n \in PerPages}
  /\ \E m \in IF Leafs THEN 0..MaxBets ELSE {1} :
       bets \in [1..m -> {BET_PENDING} \cup IF Leafs THEN Results ELSE {}]
  /\ owed = {} /\ slack = 0 /\ results = 0
  /\ slips = [x \in Slips |-> "pending"]
  /\ user \in {[Away EXCEPT !.matches = m] : m \in {TRUE, Leafs}}
  /\ stale = FALSE /\ doomed = {} /\ regrades = 0

-----------------------------------------------------------------------------
(* Which bets a listing shows.  The code of a status is a filter of its    *)
(* own, of which 0, for pending, is the one that matters here.             *)
HistoryShows(filter, status) ==
  CASE filter = "all"     -> TRUE
    [] filter = "settled" -> status # BET_PENDING
    [] filter = "pending" -> status = BET_PENDING
TicketsShow(filter, status) == HistoryShows(filter, status)
AgentShows(filter, status)  == HistoryShows(filter, status)

(* The listing of virtual bets takes 0 for no filter, the reports of       *)
(* virtual and casino bets take "settled" for none.                        *)
GamesShow(filter, status)   == TRUE
VirtualShows(filter, status) == filter = "pending" => status = BET_PENDING
CasinoShows(filter, status)  == filter = "pending" => status = BET_PENDING
ShopShows(filter, status)   == TRUE

CeilDiv(a, b) == (a + b - 1) \div b

(* paginateResponse, handed a size that need not be the one of the pages.  *)
Pager(total, size) == CeilDiv(total, size)

(* A bug: the pages are counted from 0, the requests from 1.               *)
HistoryOffsetFromZero(p, n, total) == n * p

(* findAll: an offset past the total is put back by a page, and any offset *)
(* but 0 and 1 by a row.                                                   *)
HistoryOffset(p, n, total) ==
  LET at   == n * (p - 1)
      back == IF at > total THEN n * (p - 2) ELSE at
  IN  IF back > 1 THEN back - 1 ELSE back

(* findAll counts a last page more when the last one is not full.          *)
HistoryLastPage(n, total) ==
  IF total <= n THEN 1
  ELSE CeilDiv(total, n) + (IF total % n > 0 THEN 1 ELSE 0)

(* The page p that each listing answers with, of n rows or of PagerSize,   *)
(* and the last page it names, when it has counted total rows.             *)
HistoryPage(p, n, total) ==
  [offset |-> HistoryOffset(p, n, total), size |-> n,
   last   |-> HistoryLastPage(n, total)]

TicketsPage(p, n, total) ==
  [offset |-> HistoryOffset(p, n, total), size |-> n,
   last   |-> Pager(total, PagerSize)]

AgentPage(p, n, total) ==
  [offset |-> IF p > 1 THEN n * (p - 1) + 1 ELSE 0, size |-> n,
   last   |-> Pager(total, n)]

GamesPage(p, n, total) ==
  [offset |-> PagerSize * (p - 1) + 1, size |-> PagerSize,
   last   |-> Pager(total, PagerSize)]

VirtualPage(p, n, total) == GamesPage(p, n, total)
CasinoPage(p, n, total)  == GamesPage(p, n, total)

ShopPage(p, n, total) == [GamesPage(p, n, total) EXCEPT !.last = Pager(total, n)]

(* ticketsReport and the other entry points, each to its listing.          *)
Shows(kind, filter, status) ==
  CASE kind = "history" -> HistoryShows(filter, status)
    [] kind = "tickets" -> TicketsShow(filter, status)
    [] kind = "agent"   -> AgentShows(filter, status)
    [] kind = "games"   -> GamesShow(filter, status)
    [] kind = "virtual" -> VirtualShows(filter, status)
    [] kind = "casino"  -> CasinoShows(filter, status)
    [] kind = "shop"    -> ShopShows(filter, status)

Page(kind, p, n, total) ==
  CASE kind = "history" -> HistoryPage(p, n, total)
    [] kind = "tickets" -> TicketsPage(p, n, total)
    [] kind = "agent"   -> AgentPage(p, n, total)
    [] kind = "games"   -> GamesPage(p, n, total)
    [] kind = "virtual" -> VirtualPage(p, n, total)
    [] kind = "casino"  -> CasinoPage(p, n, total)
    [] kind = "shop"    -> ShopPage(p, n, total)

MatchingIn(table) ==
  {b \in DOMAIN table : Shows(reader.kind, reader.filter, table[b])}
Matching == MatchingIn(bets)

(* The rows of S at offset, ..., offset + size - 1, the newest first.      *)
Window(S, offset, size) ==
  {b \in S : Cardinality({c \in S : c > b}) \in offset..(offset + size - 1)}

Count ==
  /\ Leafs /\ reader.at = "count"
  /\ reader' = [reader EXCEPT !.at = "select", !.total = Cardinality(Matching)]
  /\ owed' = IF reader.page = 1 THEN Matching ELSE owed
  /\ UNCHANGED <<bets, slack, results, cashing>>

Select ==
  /\ reader.at = "select"
  /\ LET page == Page(reader.kind, reader.page, reader.n, reader.total)
         more == reader.page < page.last
     IN  reader' = [reader EXCEPT
                      !.at    = IF more THEN "count" ELSE "done",
                      !.page  = IF more THEN @ + 1 ELSE @,
                      !.total = 0,
                      !.shown = @ \cup Window(Matching, page.offset, page.size)]
  /\ UNCHANGED <<bets, owed, slack, results, cashing>>

(* Meanwhile bets are placed and resulted.                                 *)
Meanwhile == /\ Leafs /\ reader.at # "done"
             /\ reader.page > 1 \/ reader.at = "select"

Watch ==
  LET gone == Matching \ MatchingIn(bets')
      come == IF reader.at = "select" THEN MatchingIn(bets') \ Matching
                                      ELSE {}
  IN  /\ owed' = owed \ gone
      /\ slack' = slack + Cardinality(gone \cup come)

Place ==
  /\ Meanwhile /\ Cardinality(DOMAIN bets) < MaxBets
  /\ LET b == Cardinality(DOMAIN bets) + 1
     IN  bets' = [c \in 1..b |-> IF c = b THEN BET_PENDING ELSE bets[c]]
  /\ Watch
  /\ UNCHANGED <<reader, results, cashing>>

ResultBet(b) ==
  /\ Meanwhile
  /\ results < MaxResults /\ results' = results + 1
  /\ bets[b] = BET_PENDING
  /\ \E s \in Results : bets' = [bets EXCEPT ![b] = s]
  /\ Watch
  /\ UNCHANGED <<reader, cashing>>

-----------------------------------------------------------------------------
(* Bet 1 and its slips while a user looks.  A slip is resulted or          *)
(* cancelled, and now and then, by hand, by a rollback or when the         *)
(* settlement job finds it void, becomes something else.                   *)

Voids == {"void", "annulled"}
SlipResults == {"pending", "won", "lost", "withdrawn"} \cup Voids

Grade(x) ==
  /\ ~Leafs
  /\ \E r \in SlipResults \ {slips[x]} :
       /\ slips' = [slips EXCEPT ![x] = r]
       /\ stale' = (stale \/ r # "won" \/ slips[x] # "pending")
  /\ slips[x] \notin Voids
  /\ regrades' = IF slips[x] = "pending" THEN regrades ELSE regrades + 1
  /\ regrades' <= MaxRegrades
  /\ doomed' = {y \in doomed : slips'[y] = "lost"}
  /\ UNCHANGED <<bets, leafing, user>>

(* A rejection, and updateBet when it voids or cancels the bet, takes all  *)
(* results back in one statement.  The odds of a void slip stay 1.         *)
Withdraw ==
  /\ ~Leafs
  /\ slips' = [x \in Slips |-> IF slips[x] \in Voids THEN "void"
                                                     ELSE "withdrawn"]
  /\ regrades' = IF \A x \in Slips : slips[x] = "pending" THEN regrades
                                                          ELSE regrades + 1
  /\ regrades' <= MaxRegrades
  /\ stale' = TRUE /\ doomed' = {}
  /\ UNCHANGED <<bets, leafing, user>>

(* A slip that has lost, or was voided by hand, loses the bet.             *)
Loses(x) == slips[x] \in {"lost", "annulled"}

(* The sweep counts void slips, and a bet voided by hand after the sweep   *)
(* selected it may yet be paid.                                            *)
Wins(x) == slips[x] \notin {"pending", "lost", "annulled"}

(* The jobs result the bet, or it is cancelled or voided: by lists they    *)
(* selected and slips they read earlier, so that a cashed out or cancelled *)
(* bet may be resulted all the same, and one whose slips are graded again  *)
(* by what they no longer are.                                             *)
Finish ==
  /\ ~Leafs
  /\ \E s \in {BET_CANCELLED, BET_VOIDED, BET_LOST, BET_WON} :
       /\ s = BET_LOST => regrades > 0 \/ \E x \in Slips : Loses(x)
       /\ s = BET_WON  => regrades > 0 \/ \A x \in Slips : Wins(x)
       /\ bets' = [bets EXCEPT ![1] = s]
  /\ stale' = TRUE
  /\ UNCHANGED <<leafing, slips, user, doomed, regrades>>

(* updateBet of the whole bet: won, lost or pending, whatever its slips    *)
(* are.  Voided or cancelled, it is withdrawn first.                       *)
Overrule ==
  /\ ~Leafs
  /\ \E s \in {BET_WON, BET_LOST, BET_PENDING} : bets' = [bets EXCEPT ![1] = s]
  /\ regrades < MaxRegrades /\ regrades' = regrades + 1
  /\ stale' = TRUE
  /\ UNCHANGED <<leafing, slips, user, doomed>>

-----------------------------------------------------------------------------
(* A bug: a slip that has won counts as certain.                           *)
FactorOfWon(read) == Cardinality({x \in Slips : read[x] \in {"won"} \cup Voids})

(* getProbability and calculateCashout: each slip counts by its odds, won  *)
(* or not; a void slip has odds of 1, so the probability and with it the   *)
(* step of the ladder rises with every one.                                *)
Factor(read) == Cardinality({x \in Slips : read[x] \in Voids})

(* A bug: a lost slip counts as any other.                                 *)
AnyCount(lost) == TRUE

NoneLost(lost) == lost = {}

(* An outright has no probability, and a bet with a lost slip no cashout.  *)
Value(read, lost) ==
  IF user.matches /\ NoneLost(lost) THEN Ladder[Factor(read)] ELSE 0

LostIn(read) == {x \in Slips : read[x] = "lost"}

(* The status of a bet and of a slip, as answers number them.  A slip that *)
(* the feed voided, or that is withdrawn, has its won put back and is      *)
(* listed as pending.                                                      *)

(* A bug: the status of the table is passed on.                            *)
StatusAsStored(status) == status

StatusCode(status) ==
  CASE status = BET_PENDING              -> 0
    [] status \in {BET_WON, BET_CASHOUT} -> 1
    [] status = BET_LOST                 -> 2
    [] status = BET_VOIDED               -> 3
    [] status = BET_CANCELLED            -> 4

SlipCode(result) == CASE result = "won"      -> 1
                      [] result = "lost"     -> 2
                      [] result = "annulled" -> 3
                      [] OTHER               -> 0

SlipCodes == [x \in Slips |-> SlipCode(user.slips[x])]

(* What each view answers about the bet.  findSingle gives a cancelled bet *)
(* the code of a void one; only the history offers a cashout.              *)
HistoryAnswer == [status |-> StatusCode(user.row), slips |-> SlipCodes,
                  pending |-> user.pending,
                  offer |-> IF user.row = BET_PENDING
                            THEN Value(user.slips, LostIn(user.slips)) ELSE 0]
TicketsAnswer == [status |-> StatusCode(user.row), slips |-> SlipCodes]
AgentAnswer   == [status |-> StatusCode(user.row), slips |-> SlipCodes,
                  pending |-> user.pending]
SingleAnswer  == [status |-> IF user.row = BET_CANCELLED THEN 3
                             ELSE StatusCode(user.row),
                  slips  |-> SlipCodes]

Answer == CASE user.view = "history" -> HistoryAnswer
            [] user.view = "tickets" -> TicketsAnswer
            [] user.view = "agent"   -> AgentAnswer
            [] user.view = "single"  -> SingleAnswer

(* Each view reads the row of the bet, then its slips; findAll and         *)
(* agentBets then count those that are pending.                            *)
Counting == {"history", "agent"}

ListBet ==
  /\ ~Leafs /\ user.at = "away"
  /\ \E v \in Counting \cup {"tickets", "single"} :
       user' = [user EXCEPT !.at = "slips of view", !.view = v, !.row = bets[1]]
  /\ stale' = FALSE
  /\ UNCHANGED <<bets, leafing, slips, doomed, regrades>>

ListSlips ==
  /\ user.at = "slips of view"
  /\ user' = [user EXCEPT !.at = IF user.view \in Counting THEN "pending"
                                                            ELSE "listed",
                          !.slips = slips]
  /\ UNCHANGED <<bets, leafing, slips, stale, doomed, regrades>>

ListPending ==
  /\ user.at = "pending"
  /\ user' = [user EXCEPT !.at = "listed",
       !.pending = Cardinality({x \in Slips : slips[x] = "pending"}),
       !.offer = IF user.view = "history" THEN HistoryAnswer.offer ELSE 0]
  /\ UNCHANGED <<bets, leafing, slips, stale, doomed, regrades>>

(* The user asks for what is offered, or for the new value a refusal names,*)
(* or goes; a bet whose slips cannot be read is left out of a list.        *)
Leave ==
  /\ user.at \in {"slips of view", "pending", "listed", "refused", "end"}
  /\ user' = [Away EXCEPT !.matches = user.matches]
  /\ UNCHANGED <<bets, leafing, slips, stale, doomed, regrades>>

Ask ==
  /\ user.at \in {"listed", "refused"} /\ user.offer > 0
  /\ user' = [user EXCEPT !.at = "asked"]
  /\ doomed' = LostIn(slips)
  /\ UNCHANGED <<bets, leafing, slips, stale, regrades>>

(* processCashout: the bet, its slips, the number of lost slips, and then  *)
(* the same computation.                                                   *)
CashoutBet ==
  /\ user.at = "asked"
  /\ user' = [user EXCEPT !.at = IF bets[1] = BET_PENDING THEN "slips"
                                                         ELSE "refused"]
  /\ UNCHANGED <<bets, leafing, slips, stale, doomed, regrades>>

CashoutSlips ==
  /\ user.at = "slips"
  /\ user' = [user EXCEPT !.at = "count", !.slips = slips]
  /\ UNCHANGED <<bets, leafing, slips, stale, doomed, regrades>>

(* A bug: the amount of the request is paid.                               *)
AnyAmount(value, amount) == amount > 0

SameAmount(value, amount) == value = amount

CashoutCount ==
  /\ user.at = "count"
  /\ LET value == Value(user.slips, LostIn(user.slips) \cup LostIn(slips))
     IN  user' = [user EXCEPT
                    !.at    = IF SameAmount(value, user.offer) THEN "update"
                                                               ELSE "refused",
                    !.offer = IF SameAmount(value, @) THEN @ ELSE value]
  /\ UNCHANGED <<bets, leafing, slips, stale, doomed, regrades>>

(* The update asks for nothing: a bet lost by now is cashed out.  What is  *)
(* paid, and how often, is in Closing.                                     *)
CashoutUpdate ==
  /\ user.at = "update"
  /\ bets' = [bets EXCEPT ![1] = BET_CASHOUT]
  /\ user' = [user EXCEPT !.at = "end"]
  /\ UNCHANGED <<leafing, slips, stale, doomed, regrades>>

Cashout == CashoutBet \/ CashoutSlips \/ CashoutCount \/ CashoutUpdate

-----------------------------------------------------------------------------
Next ==
  \/ Count \/ Select \/ Place
  \/ \E b \in DOMAIN bets : ResultBet(b)
  \/ \E x \in Slips : Grade(x)
  \/ Withdraw \/ Finish \/ Overrule
  \/ ListBet \/ ListSlips \/ ListPending \/ Leave \/ Ask \/ Cashout

Spec == Init /\ [][Next]_vars

-----------------------------------------------------------------------------
(* The rows and requests are of the kinds the code makes, and what is about*)
(* to be paid is the value of the slips that were read.                    *)
TypeOK ==
  /\ bets \in [1..Cardinality(DOMAIN bets) -> BetStatuses]
  /\ reader.at \in {"count", "select", "done"} /\ reader.page \in Nat \ {0}
  /\ reader.shown \cup owed \subseteq DOMAIN bets
  /\ slack \in 0..(MaxBets + MaxResults)
  /\ slips \in [Slips -> SlipResults]
  /\ user.at \in {"away", "slips of view", "pending", "listed", "asked",
                  "slips", "count", "update", "refused", "end"}
  /\ user.pending \in 0..Cardinality(Slips)
  /\ user.at = "update" => /\ user.offer > 0
                           /\ user.offer = Ladder[Factor(user.slips)]
  /\ regrades \in 0..MaxRegrades

(* Listings whose pager counts with the size their pages have, or less.    *)
Paged == CASE reader.kind = "tickets" -> reader.n >= PagerSize
           [] reader.kind = "shop"    -> reader.n <= PagerSize
           [] OTHER                   -> TRUE

(* Who follows the pages of a listing to its last one misses at most one   *)
(* of the bets that were there to be listed all the while, and one more for*)
(* each that left the listing meanwhile, or came into it between a page's  *)
(* count and its select: the offsets of all listings are off by one, but   *)
(* each in one direction, and what is placed only pushes rows on to pages  *)
(* still to come.                                                          *)
PagesSkipOne ==
  Leafs /\ reader.at = "done" /\ Paged =>
    Cardinality(owed \ reader.shown) <= 1 + slack

(* An answer agrees with itself although it is read by two or three        *)
(* statements while the bet is resulted, as long as no result is taken back*)
(* and the bet is not resulted by hand: one listed as lost lists a lost    *)
(* slip or one voided by hand, one listed as won neither of them and no    *)
(* pending slip, and no more slips are counted as pending than listed so.  *)
AnswersAgree ==
  user.at = "listed" /\ regrades = 0 =>
    LET Listed(code) == {x \in Slips : Answer.slips[x] = code}
    IN  /\ Answer.status = 2 => Listed(2) \cup Listed(3) # {}
        /\ Answer.status = 1 /\ user.row # BET_CASHOUT =>
             Listed(2) \cup Listed(3) = {} /\ user.pending = 0
        /\ user.pending <= Cardinality(Listed(0))

(* A cashout asked for at the amount the history offered is refused only   *)
(* when since that listing the bet was resulted or cancelled, or a slip was*)
(* lost, cancelled, voided or graded again; slips that win do not change   *)
(* the amount.                                                             *)
OffersHold == user.at = "refused" => stale

(* No bet is cashed out over a slip that had lost before the cashout was   *)
(* asked for, and has not been regraded since.                             *)
LostBetsKeepTheirStake ==
  user.at \in {"update", "end"} /\ user.offer > 0 => doomed = {}
=============================================================================
