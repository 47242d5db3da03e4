# Verification of the betting service

TLA+ models of the betting service (`src/src/`, a NestJS program on MySQL,
RabbitMQ and gRPC), the TLC runs that check them on small instances and the
TLAPS proofs of what is most important about them. Paths below are relative to
`src/src/`.

## 1. The system

### What runs, and why it is hard

One Node process (restarted on failure) serves gRPC requests, consumes RabbitMQ
queues and runs cron jobs. Every `await` is a point where any other call may go
on. No code uses a transaction (`commons/db_transaction.ts` is not used): each
statement commits by itself, each update names rows by an id read earlier, and
the program may stop between any two. A consumer that throws has its message
put back in the queue; up to 200 messages are handled at a time. A job that
throws rejects a promise nobody catches, which ends the process. What keeps two
calls apart is a handful of unique indexes: `winning.bet_id`,
`bet_status.bet_id`, `bet_closure.bet_id`, `cronjob.name`, one each on
`settlement`, `bet_cancel` and `settlement_rollback`.

### Components

| component | state | operations | talks to | what makes it correct |
|---|---|---|---|---|
| bet resulting job (`cronjobs/workers/bet.resulting.service.ts`) | `bet`, `winning`, `bet_closure`, `cronjob` | every 5 s: close all listed bets; every 10 min: put settlements back to unprocessed; on start: list won bets again | wallet, bonus service | pays once, what was recorded; loses no winning |
| bet settlement job, unsettled bet job (`bet.settlement.service.ts`) | `bet`, `bet_slip`, `settlement.processed`, `bet_closure` | every 5 s: result the bets of unprocessed settlements; every 30 s: sweep up the others | the consumers through the tables; wallet | results what the slips say, and every bet in the end |
| cron schedule, start-up (`cronjobs/cronjob.service.ts`) | `cronjob` | ticks; free all locks 10 s after boot | the jobs | no lock is kept for good |
| cashout (`bets/cashout.service.ts`) | `bet`, `bet_slip`, `winning` | offer, process | wallet | not beside another payment; pays what was offered, and nothing for a bet that has lost |
| manual updates (`bets.service.ts`, `updateBet`) | `bet`, `bet_slip`, `winning` | won, lost, void, cancel, pending | wallet | not beside another payment |
| settlement consumer (`consumers/workers/settlement.service.ts`) | `settlement`, `bet_slip` | settle the pending slips of an outcome | settlement job | first result stands |
| bet cancel consumer (`bet.cancel.service.ts`) | `bet_slip`, `bet`, `bet_cancel` | cancel slips and bets, refund | wallet | stakes come back |
| rollback consumer (`settlement.rollback.service.ts`) | `settlement`, `bet_slip`, `bet`, `winning` | undo the settlements of a market | wallet | bets are open again |
| bet placement (`bets.service.ts`, `placeBet`) | `bet`, `bet_slip` | save, debit, publish to the MTS | wallet, MTS | a placed bet is paid for |
| MTS answers (`mts.bet.accepted/cancelled.service.ts`) | `bet_status`, `bet`, `bet_slip` | accept; reject and refund | wallet | refunded once, and only if out |
| casino bets (`casino-bet.service.ts`) | `casino_bets` | place, settle, cancel, close a round | bonus service | winnings add up; what was said last stands |
| virtual bets (`virtual-bet.service.ts`) | `virtual_bets` | place, settle a round, look up | - | a ticket wins once |
| listings (`bets.service.ts` `findAll`, `findSingle`; `retail.service.ts`, `report.service.ts`, `virtual-bet.service.ts`) | - | count, select, decode | - | who leafs sees the rows; an answer agrees with itself |
| MTS timeout job | `bet_status` | schedule commented out | - | - |
| sums of retail and reports, settings, coupons, odds | - | single queries, one upsert | - | - |

### Hazards

`PROJECT.json` lists them by line. They fall into seven groups: several callers
of the same payment; a stop between two statements that belong together; job
decisions made from rows or counts that were read one after another; consumers
that fail half way and are run again over what they left; answers ignored (the
wallet's refusal, a failed `closeBet`); calls of game providers made twice or
at once; and answers to readers put together from several statements.

## 2. Modules

| module | models | properties | composed from |
|---|---|---|---|
| `BetConstants` | `constants.ts` | | |
| `PayOnce` | what closing bets promises: record a winning once, then credit it at most once | | |
| `StakeOnce` | what placing and answering bets promises: take a stake once, before the bet is sent; give it back once, to carry out a rejection that was the first verdict | | |
| `Closing` | every caller that finishes a bet and pays it | `TypeOK`, `PaidOnceAsRecorded`, `OnlyInterruptionsLoseMoney`, `ImplementsPayOnce`, `LocksHaveHolders`, `WonBetsAreListed`, `WonBetsArePickedUp`, `LocksAreReleased` | implements `PayOnce` |
| `Settling` | the three feed consumers, the two jobs that result bets, the resend job, slips resulted by hand | `TypeOK`, `WonBetsHaveWon`, `LostBetsHaveLost`, `SettledBetsAreResulted`, `VoidSlipsAreNotPaid`, `CancelledBetsAreRefunded`, `RollbackResetsBets` | |
| `Acceptance` | placing a bet, the MTS and its answers | `TypeOK`, `RefundedOnceAndOut`, `OnlyInterruptionsLoseStakes`, `ImplementsStakeOnce` | implements `StakeOnce` |
| `Games` | casino and virtual bets | `TypeOK`, `WinningsAddUp`, `SmartSoftPaysOnce`, `LastWordStands`, `VirtualRetriesPayOnce`, `LookupsFindTheirTicket` | |
| `History` | seven listings and their pages, the answer about a bet, the cashout that is offered in it | `TypeOK`, `PagesSkipOne`, `AnswersAgree`, `OffersHold`, `LostBetsKeepTheirStake` | |
| `Lifecycle` | a bet from its placement to its payment: slips, answers, the jobs and a cashout at once | `LifeTypeOK`, `RefundedBetsStayOut`, `PaidBetsWereAccepted`, `ImplementsPayOnce` | `Acceptance` with the jobs' statements; implements `PayOnce` |
| `MCClosing`, `MCSettling`, `MCAcceptance`, `MCGames`, `MCHistory`, `MCLifecycle` | instances and symmetry for TLC | | extend the above |
| `ClosingProofs`, `AcceptanceProofs`, `GamesProofs`, `HistoryProofs`, `LifecycleProofs` | proofs about the module in the name | | extend it |
| `StakeProofs` | `Acceptance` implements `StakeOnce` | | extends `Acceptance` |
| `SettlingProofs`, `DecidingProofs` | proofs about `Settling`: its types; the results of bets | | the second extends the first |

In all modules a step is one statement or one remote call, that is, what happens
between two `await`s. Definitions with a comment "A bug: ..." are mutated forms
of the definition below them, and are used by nothing: each shows that a
property notices that bug.

### Closing

Five kinds of calls are *fibers*, each with a program counter `call[f].at` and
its locals: the resulting job (`ResultingSelect`, `ResultingNext`, `closeBet`,
`DeleteClosure`), the settlement job at the level of bet rows, the unsettled
job, the `closeBet` calls the unsettled job starts and does not await
(`Closers`), cashouts and manual updates. The jobs take and release their lock
(`JobCheck`, `JobLock`, `JobUnlock`) in separate statements as in the code. The
two versions of `closeBet` differ in the code and in the model: only the
resulting job's asks for `won = 1`, only the other sets it.

Which result a bet has is an arbitrary choice here (`ResultBet`,
`UnsettledDecide`), so what is shown of the money holds whatever the slips say.
Amounts are reduced to where they come from: as placed, recomputed after a
void, a cashout, the bonus service. `StatementFails` lets any statement of a
call that catches errors fail, and follows its `catch`; `CreditAnswerLost` is a
booked credit whose answer is lost; `Crash` forgets all calls and keeps the
tables. A wallet credit is a step of the caller, appended to `credits`. A manual
void or cancel writes the slips as well, after the refund
(`bets.service.ts:1056`, `1087`); `Closing` has no slips, so `ManualRefund`
leaves that out, and `History` has it (`Withdraw`).

### Settling

Slips, bets, settlements and their ids, closures and winnings are variables;
each message has a handler with its own program counter, put back to its start
by an exception or a crash. The settlement job keeps the rows it read as locals
(`job.bets`, `job.seen`), the unsettled job its counts. A slip's `void` says
its `void_factor` is positive, its `odd` whether the odds were replaced by it;
a bet's `out` is the set of outcomes whose odds are no longer in its winnings,
so `winning` records which odds were paid. Ids of settlements are reused when
no row and no local holds them, which keeps the state finite (`MaxIds` is more
than can be in use at once). What is one step although the code takes several:
closing a bet (taken apart in `Closing`), completing the slips without a void
factor (nobody reads the difference in between), the four forms of the time
window of a bet cancel (any set of bets). The NaN counts of `resultBet` are in
`JobSummary`: with a void slip the sums are numbers only if every slip adds to
them. A slip counts as lost when its `won` is neither -1 nor 1 (`CountsAsLost`,
`bet.settlement.service.ts:264-275`), so that one voided by hand, whose `won` is
2, loses its bet. The locks are left out, with one call of each job at a time. Checking and
taking a lock are two statements, so two ticks can in fact run side by side;
what that does to the money is in `Closing`, where the lock is taken apart and
every job may have several invocations.

A manual update of a slip (`updateBet` with a slip's id) is three steps: it
reads the bet and the slip, writes the bet's odds if the slip is to be void,
and writes the slip, whatever it is by then. For "void" the code writes the
processing status into `won` and the result into `status`; so does `ManualRow`.
Manual updates of a whole bet, which overwrite its result, are in `Closing` (the
money) and `History` (the answers).

### Acceptance

`placeBet` statement by statement from the first row it saves; the validation
before that answers the user and changes nothing, which is `Refuse`. The MTS
answers any bet it was sent, as often and in whatever order it likes. `Debit`
may book nothing: the wallet answers `success: false` and `placeBet` does not
look. Rejections are requeued by an exception (`RejectSave` on a row that
exists, `HandlerFails`) or a crash.

The mapping to `StakeOnce` reads the verdict off `bet_status` and takes for
`due` the bets whose rejection a handler has noted and is still carrying out
(`CarryingOut`), not the status of the bet: an acceptance that comes late turns
the verdict, and the refund goes on all the same. A handler that fails or a
crash is `Abandon`, or `GiveBack` when only the wallet's answer was lost.

### Games

Each call of a provider (`settleCasinoBet`, `cancelCasinoBet`,
`closeCasinoRound`, `placeCasinoBet`) reads the rows of its transaction and then
writes them one after the other; it may fail or be cut off at any statement
(`Fail`, `Crash`) and be made again (`Repeat`), also after it was answered.
Casino and virtual bets share no table and no call: `provider`, chosen at the
start and never changed, says which of them a behaviour follows. A virtual
ticket is a row that the unique index on round and transaction lets in once;
`getVirtualTicket` reads twice and prefers what the second read finds. Four
variables are for checking only: `ledger` and `said` record which settlements
and cancellations changed a transaction and what they won it, `closed` the bets
lost by the closing of their round, `raced` the transactions two calls worked on
at a time.

### History

A page is a count, then a select at the offset that page and count give
(`Count`, `Select`); each of the seven listings has its own offset, size, last
page and filter, some of them off by one and some with the size 100 written
into the code, which `PagerSize` stands for. The reader starts at page 1 and
goes on to the last page the answer names. Meanwhile bets are placed and
resulted. The user, on the other hand, looks at one bet through one of the
views, which each decode the status and the slips in their own way, and may
cash it out at the amount the history named; slips are won, lost, voided,
annulled by hand and regraded between any two reads (`Grade`). The jobs result
the bet (`Finish`): as lost when a slip has lost or was voided by hand, as won
when none is pending or lost, and by what they read earlier if it was regraded
since. A rejection by the MTS and a manual void or cancel take all results back
at once (`Withdraw`); a manual result of the whole bet asks for none of its
slips (`Overrule`). Both are bounded with the regrades. A reader and a user change
nothing for each other, so a behaviour follows one of the two. `owed`, `slack`,
`stale` and `doomed` are for checking only.

### Lifecycle

`Acceptance` with what the jobs and a cashout do to its bets. The two sides
meet in the tables: `bet` and `slips` are the variables of `Acceptance`, which
the jobs read and write, and `row` refines its slips, which are saved one by
one (`SaveSlip`) while the first of them may already have a result. A rejection
sets column `won` of all slips and of the bet back to -1
(`mts.bet.cancelled.service.ts:71`, `73`): `row` keeps the result a slip was
given, and what a job reads of it is `Stands`, nothing once `slips` is
cancelled; of the bet, `CancelBet` resets `won`. The other steps of `Acceptance`
are those of that module (`Answering`); only the one that goes past the slips
waits for all of them.

Every call is at work on one bet: an invocation of `createBetSettlement` for
one bet of a settlement, a row of the unsettled bet job with the `closeBet` it
starts, a row of the resulting job, a cashout. A bet that a job's select found
is held by the call until its update, so that a rejection or another job may
come in between. A cashout's three reads (`cashout.service.ts:139`, `149`, `150`)
are one step, `CashoutRead`; `History` takes them apart. Each slip has a settlement of its own, `processed` or not, and
one result. Void factors, manual updates, cancels and rollbacks are in
`Settling`, locks and bonus bets in `Closing`.

Stakes move in `Lifecycle` only by the steps of `Acceptance`, which is where
`StakeOnce` is checked. The mapping to `PayOnce` takes
the saver of the `winning` row for the amount recorded and as many entries of
the ledger as there were credits, so a second credit is a second entry and no
stutter.

Two variables are for checking: `ruled`, what the MTS said of each bet, and
`early`, the bets a sweep or a cashout took up while no acceptance was noted:
before the MTS answered, or with a rejection on its way to the bet's row.

## 3. Runs

| run | question | instance | states |
|---|---|---|---|
| `Closing_calls` | can jobs, a detached `closeBet` and a cashout pay twice, pay something else, or lose a winning? | 1 bonus bet, 5 calls | 1.1 M |
| `Closing_interrupted` | and with a manual update, a failing statement and a crash? Does a lock outlive its holder? | 1 bet, 4 calls, 1 fault, 1 crash, 1 of 5 commands | 2 M |
| `Closing_live` | is a won bet listed and paid, and a lock released, after a crash? | 2 bets, 2 jobs, 1 crash | 94 k |
| `Settling_results` | can reads that are not of one moment give a bet a wrong result? | double, 2 settlements, 1 manual update | 3.7 M |
| `Settling_live` | is every settled bet resulted, and as won only if it has? | single, settlement, rollback, cancel, resend, manual update, 1 crash | 476 k |
| `Settling_void` | is a void slip ever paid? Yes. | double, 2 settlements | violation |
| `Settling_cancel` | do cancelled bets get their stake back? No. | double, 1 cancel | violation |
| `Settling_rollback` | does a rollback reopen bets? No. | double, 1 settlement, rollback | violation |
| `Acceptance_answers` | is a rejected stake given back once, and not lost? Taken once? | 2 bets, 1 booking, 3 answers, 1 fault, 1 crash | 118 k |
| `Games_rounds` | do repeated, failing, interrupted and concurrent calls keep the winnings and the last word? | 2 casino bets of one transaction, 2 settlements, 1 cancel, 1 closing, 3 virtual tickets, 1 repeat, 1 failure or crash | 982 k |
| `History_pages` | what can a reader miss, and can an answer or an offer contradict the bet? | up to 6 bets on pages of 1 to 3, `PagerSize` 2; 1 bet of 2 slips, 1 regrade, withdrawal or manual result | 3.8 M |
| `Lifecycle_calls` | is a bet paid that was not accepted or has not won, or that a rejection refunded? Is it paid twice? | 1 bet of 2 slips, 1 acceptance, 1 rejection, 1 call of each kind, 1 fault or crash | 1.5 M |

**Why the bounds are enough to be interesting.** Calls meet only on the rows of
one bet, and a second bet is there where a job's list matters
(`Closing_live`). One call of each kind covers every pair of callers of a
payment. One fault and one crash can hit any statement; a second would hit a
state the first already leads to (crashes clear all locals). In `Settling`,
`MaxTroubles` limits crashes, cancels, rollbacks and manual updates together (a
cancel and a manual update count twice); the order and the mix are free. A double is the
smallest bet for which a count can mix two moments, and two settlements let the
feed go on while a job decides. A single suffices for `Settling_live`, whose
question is whether a bet is looked at at all. In `Games` two rows of one
transaction are enough for a call to stop between them, and two settlements for
a sum; the third virtual ticket is the other transaction of a round that a
lookup may find first. In `History` six bets are three pages of two: a first, a
middle and a last; page sizes of 1 and 3 put the written-in size on either side.
In `Lifecycle` bets share nothing, and two slips are there to be saved and
resulted apart. An acceptance and a rejection are the least with which one
overwrites the other; that answers repeat each other is left to the proofs and
to `Acceptance_answers`. Three more bounds of `Lifecycle_calls` are the
constraint `Bounds` of `MCLifecycle`: a fault or a crash but not both, the
`startUp` of the first start before anything is saved, and one answer of each
kind. Its view leaves out how often a stake was taken, which nothing in
`Lifecycle` reads.
What TLC shows of `Closing`, `Settling`, `Acceptance`, `Games` and `Lifecycle` on
these instances is for the most part proved for all (section 4).

**Deadlock** is checked except in `Acceptance_answers`, `Lifecycle_calls`,
`Games_rounds` and `History_pages`: there all requests and messages end.

**Fairness.** In `Closing`, weak fairness of each fiber's own steps (the event
loop never starves a pending promise, cron ticks recur) and of `startUp` (it is
scheduled 10 s after every boot). In `Settling`, of the handlers (a message is
delivered again until it is acknowledged) and of the three jobs. Nothing is
assumed of requests, of the feed, of the resend job, of failures or crashes.

**Conditions.** Some properties say when they do not hold, and why:

* `OnlyInterruptionsLoseMoney` and `OnlyInterruptionsLoseStakes` are about
  behaviours without failures and crashes; with one, a winning or a stake can
  be lost, since status, record and credit are three statements.
* `WonBetsArePickedUp` and `LocksAreReleased` are checked with a crash and
  without failing statements. The resulting job keeps its lock when its select
  fails (`bet.resulting.service.ts:109`) and unlists a bet it failed to close
  (118-122); both last until the next start.
* `LocksHaveHolders`, the safety half of `LocksAreReleased`, is checked with
  failing statements and excepts that one lock, and the time from a crash to
  the reset of `startUp`.
* `WonBetsAreListed`, the safety half of `WonBetsArePickedUp`, is about one
  invocation of the settlement job, without failing statements and the manual
  command "pending". It needs all three. With "pending" TLC shows a resulting job
  at the delete of a bet it did not close, the bet put back to pending by hand
  and resulted and listed again by a settlement, and then the delete: the bet
  waits for the next start.
* `WonBetsHaveWon` and `LostBetsHaveLost` except bets with a half won or half
  lost slip (a void factor together with a result), the second also bets with a
  slip that is void altogether, whose result is sent as 0: until the settlement
  job voids it, the sweep counts it as lost. For those the counts of
  `taskProcessUnSettledBet` really mix: such a slip is counted as won, then
  voided by the settlement job, then counted as void, and `won === total` holds
  with another slip still pending. Without the exception TLC shows this in 15
  steps. They also except bets of which a settlement was rolled back, which the
  code does not reset (`Settling_rollback`), and bets of which a slip that had a
  result was given another by hand (`Overruled`): nothing results those again.
  `LostBetsHaveLost` allows for a slip voided by hand (`Annulled`), which the
  settlement job counts as lost when another slip of the bet, or the same one,
  was settled; a single voided before that is not looked at by that job, and the
  sweep counts its slip as neither.
* `RefundedOnceAndOut` is about placement and the answers alone. With the jobs,
  `RefundedBetsStayOut` excepts two kinds of bets. `taskProcessUnSettledBet` and
  `processCashout` do not ask whether a bet was accepted, so they may take up
  one whose answer is still to come, or whose rejection has been noted and not
  reached the bet's row, and update it by its id after the
  rejection: it is won or cashed out, paid *and* refunded. And a bet that the
  MTS both accepts and rejects may be resulted between the two. Without either
  exception TLC finds such a bet.
* `PaidBetsWereAccepted` excepts the same early bets of the sweep: it counts the
  slips there are, also while `placeBet` is still saving the others, and pays
  bookings and bets whose placement failed. Of a cashout it says nothing, which
  is paid while slips are pending. It says that the slips of a paid bet were all
  resulted as won, and that they still say so if the MTS did not reject the bet.
  If it did, a rejection that was noted, then overwritten by an acceptance, goes
  on after the bet was resulted and paid: it resets the slips, cancels the bet
  and gives the stake back. TLC shows this when the condition is left out.
* `WinningsAddUp`, `SmartSoftPaysOnce` and `LastWordStands` are about
  transactions that were not `raced` (`Calm`): two settlements at once read the
  same winnings and the second overwrites the first, two `smart-soft` calls both
  see an open bet, and a row that joins a transaction later missed what was said
  of it before. Failures, crashes and repeats are not excepted. A settlement made
  again is another settlement to the code, but for `smart-soft`, and so it is to
  `WinningsAddUp`: that a retry doubles the winnings is not against it.
* `PagesSkipOne` allows one missed row, since all offsets are off by one, and one
  more for each row that left the listing meanwhile or came in between a count
  and its select. It leaves out two combinations (`Paged`): a size of the
  caller's below 100 in `getSportsTickets` and one above 100 in `agentVBets`,
  where pages and pager count with different sizes and whole pages are lost.
* `AnswersAgree` is about answers read while no result of a slip is taken back
  and the back office gives the bet no result of its own: such a result asks for
  none of the slips, and the answer may contradict itself. A slip voided by hand
  explains a lost bet as a lost slip does.
  It does not say that the views agree with one another: they do not (below).

**Disagreements found** between the code and its own comments are the three
violation runs; `PROJECT.json` "findings" quotes the lines.

**Also seen while modelling**, with no text of the repository to hold against
it:

* `findAll` names a page too many when the last one is not full, while the agent,
  virtual, casino and shop pages begin one row late (`offset + 1`).
* `findSingle` codes a cancelled bet 3, the other views 4; a slip voided by the
  feed is listed as "Pending", one voided by hand is not.
* A slip voided by hand has its two columns swapped. The settlement job then
  counts it as lost: a double, whose other slip brings the bet up again, is
  resulted as lost over it; a single, voided before the feed settled it, is left
  pending for good.
* A rejection overwritten by an acceptance is carried out all the same, also
  after the bet was paid (`PaidBetsWereAccepted`, above).
* `retail.service.ts:247` counts won bets by `won = BET_WON` (2), a value that
  column never has: the count is always 0.
* The wallet may answer a debit with `success: false`, which `placeBet` does not
  look at (`bets.service.ts:891`): the bet is placed and sent unpaid.
* A settlement processed before its bet's acceptance is noted is not come back
  to; the bet is left to the sweep.
* `casino_bets.bonus_id` is read and never written, so the bonus service does not
  hear of a casino bet's settlement.
* The RPC `DeletePlayerData` runs `salesReport`.

## 4. Proofs

`ClosingProofs` proves, for any sets of bets, jobs and requests and any number
of failures and crashes, from `FibersAssumption` (kinds of calls are distinct)
and `BoundsAssumption` (what the constants are):

* `TypeCorrect`: `Spec => []TypeOK`. `TypeOK` is inductive; its last part, that
  a call about to record or pay an amount has a bet and an amount, is what the
  other proofs build on.
* `Payment`: `Spec => []PaidOnceAsRecorded`. The property is not inductive: a
  state with two calls that both hold the winning row of a bet satisfies it and
  leads to a double credit. `Claim` adds that such a call is unique, that the
  bet has not been paid yet and that the call carries the recorded amount. The
  unique index makes it so: a call gets past saving the row only if it inserted
  it.
* `Refinement`: `Spec => ImplementsPayOnce`.

The argument of the last two does not go through the 30 actions each time:
lemma `StepKinds` sorts every step into one that records, one that pays, and
one that does neither and brings no call to a claim.

* `Winnings`: `Spec => []OnlyInterruptionsLoseMoney`. `CarriesOn` sums a step up:
  a call about to save or to credit a winning stays so or has done it, and a bet
  gets its final status only with the winning saved or in the hands of a call;
  `WonIsWrittenLast` adds that the back office writes "won" after the winning.

* `Holders`: `Spec => []LocksHaveHolders`, inductive by itself given the types.
  `LockSteps` sorts the steps into those that take a lock, free it, or leave it
  with the invocation that will. Two invocations may hold the same lock, since
  checking and taking it are two statements; that each lock has at least one
  holder survives this.
* `Listed`: `Spec => []WonBetsAreListed`. `ListInv` adds that a bet that may
  still be resulted as won (`Undecided`) is in nobody's hands (`Untouched`): it
  is not listed, in no resulting job's rows and at no `closeBet`. So a job that
  is about to unlist a bet has one that cannot be won and unpaid any more.

`AcceptanceProofs` proves for `Acceptance`, for any number of bets, answers,
failures and crashes: `TypeCorrect`; `Refunds`, `RefundedOnceAndOut`, where the
row in `bet_status` that only one handler can insert plays the part the winning
row plays above; and `Stakes`, `OnlyInterruptionsLoseStakes`.

`StakeProofs` proves `StakesOnce`: `Spec => ImplementsStakeOnce`. Its invariant
says that a request before its debit has taken nothing and before its publish
sent nothing (`Staking`), and that a handler that carries out a rejection is the
only one of its bet, which has a row in `bet_status` and was not paid back
(`Carried`).

`GamesProofs` proves all six properties of `Games` for any sets of rows, calls,
tickets and bounds. Three say the same of a calm transaction: the call that
works on it is alone (`Alone`), what it has read is still what the rows say
(`UpToDate`), and rows and history agree (`Recorded`), except that a call in the
middle of its rows has changed some and not the others. The virtual bets rest on
the unique index (`Unique`) and on a round's result being announced once
(`Announced`).

`LifecycleProofs` proves all three invariants of `Lifecycle`, for any number of
bets, slips, answers and calls: `LifeTypes`, `Refunded`, `Paid`. A bet that was
neither accepted nor taken up early is in no call's hands but for settlements
that found it not accepted (`Untouched`), so a rejection has it to itself. For a
payment, what a call knows when it decides must have been true when it read, one
count after the other, and still be true (`SettlerKnows`, `ResulterKnows`,
`SweeperKnows`): an acceptance means that all slips are there (`Ruled`), so the
sweep's total is the number of selections, and the results given stay in `row`
(`Grows`), though a rejection resets what the tables say of them. Slips are
cancelled only by an answer that rejects the bet (`Ruled` again), which gives
the last clause of `PaidBetsWereAccepted`.

It also proves that the composition implements `PayOnce`: `LifePaysOnce` sorts the steps of a call into recording, paying and neither
(`CallKinds`), from an invariant (`PayInv`) of which the heart is that a call
about to credit is the only one of its bet, which nobody has credited. It holds
although the jobs, the sweep and cashouts share no lock: the unique index of
`winning` is all that keeps them apart.

`SettlingProofs` proves `TypeCorrect` for any picks, messages, manual updates
and crashes. With the types go two facts the rest needs: what a message says
never changes once it was sent (`FeedKeeps`), and a bet is decided only by a
settlement job that has read all its slips (`HasSeen`).

`DecidingProofs` proves `Winners` (`WonBetsHaveWon`) and `Losers`
(`LostBetsHaveLost`). Neither is inductive: the jobs decide from what they read
several statements earlier. The argument is that what a decision rests on lasts.
For a bet that is not let off, a slip keeps its result, or its annulment by
hand, its void factor and its voided status in every step (`RowStep`), but for a half won or half lost slip
that is voided. Hence "all slips have won or are void" (`MayWin`) and "some slip
has lost or was annulled" (`MayLose`) stay true once they are (`PromisesLast`), and so do lower
bounds on the counts of won and void slips, which are disjoint: when they add up
to the number of slips, the bet has won (`AllWonWins`), although no two counts
were of the same moment.

`HistoryProofs` proves what `History` says of the user, for any number of slips
and any ladder: `Answers` (`AnswersAgree`), `Offers` (`OffersHold`) and
`Cashouts` (`LostBetsKeepTheirStake`). While nothing that counts has happened,
the lost and the void slips that were read are those of the table, and so is the
value (`Fresh`); while no slip is regraded, what a bet's status says of its slips
stays true of the slips read after it (`Says`); and a slip that had lost when the
cashout was asked for is still found lost by the count. `TypeCorrect` is `TypeOK`.

`Pages` (`PagesSkipOne`) is about the readers, for any number of bets, filter
and sizes of pages. After page p the reader has been shown all matching rows up
to a `Frontier` but for a `Gap` of at most one, the off-by-one of the offset, so
what it has missed (`Missed`) is bounded by the gap and by `slack`, the rows that
left or came at the wrong moment (`FewMissed`). A row that goes moves the ranks
behind it by one and adds at most one to what is missed (`RowGoes`, `RowMisses`),
one that comes does so only between a count and its select (`Excess`); and when
the answer names no further page, the frontier is past the last row
(`PagesCover`).

The proofs rest on the constants' assumptions only, all evaluated by TLC. In
`Settling`, `History` and `Lifecycle` one is that a bet has finitely many slips.

**Only model-checked**: liveness (`WonBetsArePickedUp`, `LocksAreReleased`,
`SettledBetsAreResulted`), which TLAPS does not do under fairness; what is
proved instead are the safety halves of the first two. The properties of the
three violation runs are false of the code and have no theorem. All other
properties of the runs are theorems.

## 5. Not modelled

The computation of odds, taxes, limits and cashout offers beyond the steps of
the ladder (arithmetic on external data, no state); the conditions a request is
validated against; the sums of retail and the reports, commissions and sales
(single queries that change nothing); coupons and odds lookups (they only read
services); settings (one upsert); the gRPC and protobuf wrappers; the sharding
of queues (each message may run beside any other); code nothing calls
(`createOutrightSettlement`, the outright cancel and rollback,
`taskInsertBetWithoutBetStatus`, `checkCashoutAvailability`, `deletePlayerData`,
the transaction helpers); the MTS timeout job, whose schedule is commented out.

## 6. Plan

Done: all modules of section 2 and the proofs of section 4. Next, in this order:

1. A refinement of closing in `Settling` (one step) by `closeBet` of `Closing`.
2. The safety half of `SettledBetsAreResulted`: a settled bet has a settlement
   to be processed or a job or a sweep that will find it.
3. `Lifecycle` with void factors, manual updates and cancels, which need slips
   with more than one result.
