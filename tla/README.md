# TLA+ models of the Streambet API

Streambet is a NestJS service: users watch streams and bet gold or sweep coins
on the options of a stream's betting rounds; an administrator opens, locks,
settles and cancels the rounds. State is kept in PostgreSQL through TypeORM,
scheduled work in a BullMQ queue, and clients are told of changes over
Socket.IO. This directory holds models of its core, the TLC runs that check
them, and proofs checked by TLAPS. Paths below are relative to `src/src/`
(`src/streambet_api-prod/` is a copy of the same tree). The only automated test
of the repository is `app.controller.spec.ts`.

## 1. Inventory

| Part | State | Operations | What is hard | What makes it correct |
|---|---|---|---|---|
| Betting, `betting/betting.service.ts` | `betting_rounds.status`; `betting_variables` (options): status, `is_winning_option`, a total and a count per currency; `bets`: user, option, round, amount, currency, status, payout | `placeBet`, `editBet`, `cancelBet`, `updateRoundStatus`, `updateBettingVariableStatus`, `declareWinner`, `cancelRoundAndRefund`, `editBettingVariable` | checks made on unlocked reads before a transaction; saves of rows read long before; row locks in different orders; rounding | pools agree with bets; every bet is paid or refunded once; no coin appears or vanishes; a round has one result |
| Wallets, `wallets/wallets.service.ts` | a balance per currency, a ledger of transactions | `create`, `updateBalance` (under `FOR UPDATE`), `updateGoldCoinsByAdmin`, `createTransactionData` | the same purchase credited twice; absolute writes; a bounded ledger column | balance = sum of its ledger, the records of lost bets left out; never negative |
| Streams, `stream/stream.service.ts` | status, viewer count | schedule, update, cancel, delete, end, go live | the delayed job races with all others; debounced writes | a cancelled stream never goes live; a scheduled one does |
| Queue, `queue/` | one delayed job per stream, `jobId` = stream id | add, remove, process with three attempts | a job replaced while it runs | at most one job, for the latest time |
| Gateway, `betting/betting.gateway.ts` | viewers per stream in memory | connect, join, leave, disconnect, betting messages | several sockets of one user, debounce timers | the count of viewers is that of the sockets |
| Payments, `payments/payments.service.ts` | none of its own; wallet and ledger | Stripe and Coinflow webhooks, auto reload | redelivery, failure between two credits | each purchase credited once, completely |
| Accounts, `auth/`, `users/` | users, refresh tokens | register, login, refresh, logout, verify, reset, settings, deletion | token rotation, registration in two steps, rows saved as they were read | every user has a wallet; an old token is refused; a deleted account stays deleted |
| Administration, chat, notifications, e-mail, Redis, geo-fencing, files | | delegate, append or send | | |

The controllers and the gateway call the betting service directly. The betting
service calls the wallet service inside its own transaction, except in
`cancelRoundAndRefund`, whose refunds are transactions of their own. It emits to
the gateway after (sometimes before) its commit. The stream service asks for the
state of rounds when it ends a stream, and cancels them through the betting
service when a stream is called off; betting asks a stream only whether it has
ended. The webhooks of purchases and the registration write wallets through the
wallet service, in statements or transactions of their own.

`PROJECT.json` lists, under "hazards", what in this code is hard to test, each at
its line, and the property that watches it or why none does yet.

## 2. Modules

| Module | What it is |
|---|---|
| `BettingData` | rows, pools, wallets and payouts: the arithmetic, no state |
| `BetBook` | the betting service with each handler running alone: one action per handler |
| `BetFigures` | what users and administrators are shown of `BetBook`'s state |
| `BettingRequests` | the same handlers as they interleave: reads, row locks and commits are steps; it implements `BetBook` |
| `RoundAdmin` | the options of a round created and edited, and the round cancelled refund by refund, while users bet |
| `StreamLife` | what the life of a scheduled stream promises |
| `StreamSchedule` | the stream's row, its delayed job, the worker and the administrators' requests; it implements `StreamLife` |
| `ViewerCounts` | sockets, viewers and the debounced write of the viewer count |
| `WalletLedger` | one wallet and its transactions, and all who write them |
| `Accounts` | the accounts of one person: registration, refresh tokens, deletion |
| `RoundEvents` | what the clients on a stream are shown of a round, and what its bettors are told |
| `MC...` | instances of each for TLC |
| `SumTheorems` | what sums over finite sets do when an element changes, enters or leaves |
| `BettingProofs` | the inductive invariant of `BetBook`, what none of its steps does, that no coin is created or lost, and that the figures of `BetFigures` agree; what row locks keep in `BettingRequests` whichever requests overlap, what more holds when certain requests do not, and that it implements `BetBook` |
| `RoundAdminProofs` | the inductive invariant of `RoundAdmin`, with all its properties |
| `WalletLedgerProofs` | the inductive invariant of `WalletLedger` and its four safety properties |
| `StreamScheduleProofs` | calling a stream off and the refinement of `StreamLife`; the job of a scheduled stream |
| `AccountsProofs` | the inductive invariant of `Accounts` and its two action properties |
| `RoundEventsProofs` | the inductive invariant of `RoundEvents` with its three properties |
| `ViewerCountsProofs` | the inductive invariant of `ViewerCounts`: counts, timers and writes |

### Stakes

The betting modules take stakes to be positive and in gold or sweep coins
(`Amounts`, `Currencies` of `BettingData`). The DTOs demand it (`@IsPositive`,
`@IsIn` in `betting/dto/place-bet.dto.ts`), and over HTTP they are validated. The
gateway does not enforce it: the pipe of `main.ts:55` does not reach gateways,
`handlePlaceBet` has none, and `placeBet` checks neither, where `editBet` (line 724)
refuses an amount that is not positive. Every property and theorem about betting is
therefore about requests that the DTOs admit, and may fail for others: a
negative stake on the losing side makes a contested pot smaller than the winning
total, and the currencies `free_tokens` and `stream_coins` are debited as sweep coins
and counted in no total.

### BetBook

| Variable | Code |
|---|---|
| `roundStatus` | `BettingRound.status` |
| `optionStatus`, `winning` | `BettingVariable.status`, `is_winning_option` |
| `total`, `count` | `totalBets...CoinAmount`, `betCount...Coin`, per option and currency |
| `bets` | rows of `bets`; `NoBet` is a key not used yet |
| `wallet` | `Wallet.goldCoins`, and `sweepCoins` in thousandths |
| `streamEnded` | `Stream.status = 'ended'` |

| Action | Handler |
|---|---|
| `OpenRound`, `LockRound` | `updateRoundStatus` |
| `LockOption` | `updateBettingVariableStatus` with `locked` (`PATCH betting-variables/:id/lock`) |
| `PlaceBet`, `EditBet`, `CancelBet` | `placeBet`, `editBet`, `cancelBet` with `handleCancelBet` |
| `DeclareWinner` | `declareWinner` with its private helpers |
| `CancelRound` | `cancelRoundAndRefund`, when no refund fails |
| `EndStream`, `UpdateStreamStatus` | `endStreamIfAllRoundsClosedOrCancelled`, `updateStreamStatus` |

A refused request changes nothing, so refusals are disabled actions. What a
transaction writes is an operator of its own (`Placing`, `Editing`, `Cancelling`,
`Settling`), given the rows and tables as the transaction reads them; `BetBook`
passes the current ones, `BettingRequests` those it read.

Payouts are computed by the code with doubles: `floor(a / t * p)`. When the exact
value is a whole coin, `a / t` rounded down may make it one less. `Payout` is
therefore the exact value, or one unit less where the exact value sits on the
boundary (`OnBoundary`); which of the two is a free choice. Sweep payouts are
rounded to a thousandth with the same allowance.

`Payable` is the refusal of `updateBalance`: a negative balance, or one that does
not fit `transactions.balanceAfter`, a `decimal(12,3)`.

### BettingRequests

`req` is the sequence of requests that have arrived; each remembers its step
(`pc`), what it has read, the locks it holds and its plan of further locks.

* A read outside a transaction, or inside one without a lock, is a step and its
  result is kept in the request: `PlaceArrives` (the option with its round),
  `PlaceChecks` (the search for another bet), `EditArrives`, `EditChecks`,
  `CancelArrives`, `CancelChecks`, `LockArrives`, `LockCounts`, `DeclareArrives`.
* A row lock is a step (`Acquire`). `SELECT ... FOR UPDATE` returns the row as
  it is then, and the commit writes what it computed from that row
  (`WalletAsRead`, `TotalAsRead`, `CountAsRead`): without the lock, updates would
  be lost.
* The locks are PostgreSQL's: `FOR UPDATE` for `pessimistic_write`, `FOR NO KEY
  UPDATE` for an UPDATE, `FOR KEY SHARE` for the foreign keys of an INSERT. Locks
  on rows that nobody locks for update (rounds, streams, users) are left out:
  they never conflict.
* A commit makes the writes of the transaction visible. TypeORM's `save()` reads
  the row again and updates the columns that differ, so a row read earlier is
  written back as it was (`Editing` and `Cancelling` take the bet as it was read).
  `declareWinner` saves an option that was loaded with its bets and totals before
  the transaction: columns that changed are written back (`Stale`), a bet that
  was moved away is moved back (`Rebound`), a bet that was added would lose its
  option, which the NOT NULL column refuses.
* `Fail` rolls a transaction back at any moment, `DeadlockVictim` is PostgreSQL's
  answer to a circle of waiting transactions.

The re-read of `save()` and the UPDATE that follows it are one step.

`CancelRound`, `LockOption`, `EndStream` and `UpdateStreamStatus` do not occur
here; `RoundAdmin` has the first one step by step, `StreamSchedule` the last two.

### BetFigures

Queries, no state. `RoundTotal` and `Potential` are `getRoundTotals` and
`potentialAmountCal`, from the totals of the options; `StatsBets` and `ValuedBets`
are `getBetStatsByStream` and `getTotalBetValueForStream`, from the rows of bets;
`WinningBets` and `WinnerAmount` are `getStreamRoundsWithWinners`; `DetailsStatus`
and `ListStatus` are the two places that condense the states of a stream's rounds.
A forecast of sweep coins is shown unrounded; it is taken to the unit of a payout.

### RoundAdmin

`createBettingVariable` and `editBettingVariable` with `updateRoundOptions` run
without a transaction: each row that is saved or removed is a step (`NewOption`,
`SaveEdited`, `Remove`, `DropOptions`, `DropRound`), and the cascade of a deleted
option takes its bets (`Deleting`). `cancelRoundAndRefund` reads before its
transaction (`CancelRound`), refunds in transactions of their own (`Refund`), and
saves bets and options on its own connection (`SaveBet`, `SaveCancelled`), seen
when it commits; a failure undoes all but the refunds (`RolledBack`). `save()` of
an option whose bets were loaded would take a newer bet away from it, which the
database refuses (`Newer`, `SaveRefused`). Users' requests read and commit in two
steps; rows the cancellation has saved are locked. `harm` records which of five
mishaps happened: an option deleted with an active bet, a total written back, a
refund kept by a cancellation that failed, a refund of a bet that was cancelled
meanwhile, a bet committed after the cancellation. One user and one coin per bet:
the total of an option is a number of bets. One administrator works at a time.

### StreamSchedule and StreamLife

`stream` is the row (status and `scheduledStartTime`), `job` the one job of id
`stream.id`, `worker` what the processor has read, `req` a request per
administrator, `clock` the time. Every await is a step. `updateStream`,
`updateStreamStatus` and `endStreamIfAllRoundsClosedOrCancelled` read the row and
save it whole later; `cancelScheduledStream` and `deleteScheduledStream` remove the
job, set the status and cancel the rounds they had read. `scheduleStream` is not
awaited by its callers, and a start that has passed by then throws where nothing
catches: the process stops (`ScheduleStream`, `Stopped`).

The queue is BullMQ, modelled from its use: `add` does nothing while a job of the
same id is kept, `remove` throws while a worker holds the job, a failed attempt is
tried again (`Retried`, three in all), a stalled job once, and completed or failed
jobs are evicted. `harm` records the six mishaps that may cost a stream its job.

`StreamLife` is the abstract specification: a stream goes live once its start has
come or is called off for good, and only then are its rounds cancelled. With
create, cancel and delete alone `StreamSchedule` implements it (`LifeOfStream`).

### ViewerCounts

`joinStream` and `joinStreamBet` are two steps: the message (`Send`) and, after the
geo-fencing guard has awaited its look-up, the handler (`Join`, `Rejoin`,
`JoinLobby`), perhaps after the socket has gone. All others run at once. `viewers`
counts sockets per user and stream as the gateway's map does; `meta` is the stream a
socket last joined; `socketOf` is `userSocketMap`. `Broadcast` is `broadcastCount`
with `updateViewerCount`: the latest count is kept and the timer starts anew. A
timer that fires awaits the write (`Fire`, `Written`) and then deletes whatever count
and timer the maps hold, so that a running timer may be unknown to the map
(`orphans`). `doubted` are the streams whose last write was refused, or was not that
of the last count alone; a later write that is clears the doubt.

### WalletLedger

`worker[w]` is a request at one of the places where it awaits. `updateBalance` is
`LockWallet` (the lock with the read), the look for an earlier transaction of the
purchase (`Existing`), and `Skip`, `Refuse` or `Commit`; a Coinflow webhook looks,
credits gold, looks, credits sweep coins and answers; the Stripe webhook and the
automatic reload credit and answer. The registration and `updateGoldCoinsByAdmin`
write the balance and the transaction in two statements (`CreateWallet` or
`AdminWrites`, then `Record`). Any request may fail at any step and the process may
stop. `HasTransaction` asks for the type `purchase`, as the code does, though the
sweep coins of a package are recorded as a bonus: the look finds gold only, and
`Existing` is what keeps the sweep coins from being credited twice.

When a round is settled, `createTransactionData` inserts a second transaction of minus
the stake for every lost bet and leaves the balance alone (`Lose`). So the transactions
of a user who has lost a bet do not add up to his balance: the stake is in them twice,
when it was placed and when it was lost. `lost` is the sum of these records, and the
two properties about the ledger say that it is the whole difference. `staked` bounds
it: the stakes that were debited. Which of them came back is not remembered, so any
of them may be lost.

### Accounts

Up to two rows of users for one address and name. A request reads a row
(`Begins`) and writes it some steps later: single columns (`StoreToken`,
`ClearToken`, `SetStatus`, `Verify`) or the whole row as it was read (`SaveRow`, for
`softDeleteUser` and `updateNotificationSettings`). Refresh tokens are numbered in
the order in which they were signed; two tokens of a user that are signed within
one second are equal in the code and different here. `spent` are those that were
stored and then replaced or cleared. A deleted account comes back only through
settings that were read before the deletion and saved after it, with every column
(`users.service.ts:271`; `DeletedUnlessSavedOver` says that nothing else does it).
That defeats what `admin.service.ts:62` is for ("Deactivate and invalidate tokens
immediately"): the old refresh token is written back with the rest.

### RoundEvents

A handler commits and then goes through the awaits of the gateway: it reads the
wallet, the totals or the forecasts, and emits them (`Read`, `Confirm`, `Update`,
`SendForecasts`); the administrator's requests announce the round and then tell one
user after the other (`Announce`, `List`, `Tell`, `Told`), those of a refund while
their transaction is open (`Declare`, `CancelRound`, then `Tell`, then `Settle` or
`RollBack`). Figures are not computed: `shown` says which of those on the clients
are the present ones, `fresh` whether what a handler has read still is. A commit
makes both old. `told` are the messages that reached each user; `missed` the users
whom a rejected await kept from theirs: the loop of a locked round or of the winners
ends with the first failure, and the losers' promises, which nothing awaits, end the
process (`Unhandled`). `harm` records the three ways to be shown or told something
else: an older figure emitted later, a handler that failed after its commit, a
message of a refund that was rolled back. Totals of a cancelled round are not shown,
and the wallet is that after the user's own last request: neither settlement nor
refund sends a wallet.

The service is called by the gateway and by `betting.controller.ts` (lines 126-164 and
234-245). Over HTTP nothing is emitted after the commit of a placed or cancelled bet,
and after an edit only the forecasts, by `editBet` itself: totals and wallet stay old on
the clients until somebody, or that user, bets over a socket. `Place`, `Edit` and
`Cancel` take either way (`step`), and `silent` says which figures the last bet left
unshown; `RoomIsUpToDate` claims nothing of those. Left out: the chat, the lists of
streams, notices of purchases, gifts and mails, the settings that mute messages, and
what messages say.

## 3. Runs

| Run | Instance | Shows |
|---|---|---|
| `money` | 2 users, 2 bets, stakes 1 and 2, both currencies, a round of two options and one of a single option | rows, pools, results, money, payouts and what is shown of them agree; what was settled stays settled; what was shown is paid |
| `users` | 2 users, 2 bets, 6 requests, one round; users overlap with each other, transactions may fail | every commit is a step of `BetBook` (`ImplementsBook`) |
| `settling` | 3 users, 3 bets, 7 requests; bets overlap with the lock and the result of the round, two results overlap | no double payment; pools and coins stay accounted for (`BooksAreKept`) |
| `answered` | 2 users, 2 bets, 4 requests that overlap in any way: openings, bets, edits, cancellations and locks, a declaration with bets takes five | no request waits for ever |
| `round_admin` | 3 bets, 2 options, 3 requests of the administrator, one outside failure | a stake is refunded once and lost nowhere, totals match bets, a cancelled round is settled, but for five named mishaps |
| `stream_schedule` | 2 administrators, 4 requests of five kinds, 3 instants, one failure, one stop | a scheduled stream has its job, but for six named mishaps |
| `stream_called_off` | the same with create, cancel and delete, 2 rounds, 3 failures | `StreamSchedule` implements `StreamLife`; rounds follow the stream; no job is left for one that was called off; a queued stream leaves the schedule |
| `viewers` | 2 sockets of a user, 2 streams, 4 messages or disconnections, any write refused | viewers are counted exactly; timers come to rest, and with them the stored count is the present one |
| `wallet` | 2 requests at a time, 2 Coinflow purchases and one of Stripe, one other request, one fault | a purchase is credited once and completely; the transactions, those of lost bets left out, explain the balance |
| `accounts` | 2 requests at a time, 5 in all, 2 rows, 3 tokens, one failure | one account per address, with a wallet; late refreshes are refused; only settings saved over it bring a deleted account back |
| `round_events` | 2 users, 2 options, 2 requests at a time, 6 in all, one rejected await | at rest the room shows the present figures, but for those that a bet over HTTP left unshown; what users were told is true, and all bettors were told, but for three named mishaps |

Bounds. Two bets on the two options of a round make a contested pot, one bet or two on
one option the refund of a one-sided one; moving a bet between the rounds and the
currencies needs two rounds and two currencies; stakes 1 and 2 make payouts that are not
whole. For interleavings of bets, every conflict in this code is between two requests,
so two users and two bets suffice, with enough requests to reach it: opening the round,
two bets and what follows (6), a lock, a late bet and two results (7). A wallet of 3
gold coins and 2000 thousandths lets a user bet twice and refuses a third time;
`LedgerMax` is large enough not to interfere. In `round_admin` a third bet is what meets
a cancellation that has refunded one and is about to refund another. A job has three
attempts, so three failures exhaust it. Two sockets of one user, on two streams, give
every way in which two sockets, and two writes of one count, meet; a viewer of another
socket is counted apart. Two requests at a time are enough where each reads one row and
writes it later; five are a registration, a log-in, and three that meet on the row. In
`round_events` two users are a winner, whose message may fail, and a loser, who is told
after him; six requests are an opening, two bets, an edit, a lock and a result, of which
any two overlap.
`MaxRequests`, `MaxEvents`, `MaxAdmin`, `MaxBegun`, `MaxOthers`, `MaxTokens`,
`MaxClock`, `MaxFaults` and `MaxStops` bound the runs and nothing else. Deadlock is
checked in `money` only: elsewhere requests are bounded and the system may come to rest.
Users, bets, administrators and requests are symmetric where liveness is not checked.

Which requests overlap in `BettingRequests` is the constant `Overlap`: the code
allows any. The runs `users` and `settling` restrict it to the overlaps under which
their properties hold: requests of different users, and bets against the lock and the
results. Requests of one user that overlap are not serialised by the code: two
cancellations refund twice (the run `cancelled_once`), two bets placed at once are
both active, a slow request to open a round opens it again after its lock, and two
results name two winning options.

Several properties name, in a variable `harm`, the mishaps under which they do not
hold. Each is a step of the code that the model takes and records; a property says
that there is no other way to break it. They are the hazards of `PROJECT.json`.

One run finds a violation, of a statement of the repository that the code does not
keep (quoted in `PROJECT.json`, "findings"): in `cancelled_once` two overlapping
cancellations refund a bet twice.

Fairness. `BettingRequests`: weak fairness of each request's handler, since Node runs
every continuation, and PostgreSQL grants a free lock and resolves deadlocks.
`StreamSchedule` (`LiveSpec`): time passes, the worker polls the queue, and started
requests go on. `ViewerCounts`: timers fire and the database answers or refuses;
clients owe nothing. `WalletLedger`: requests go on, and a provider reports a purchase
until it is answered with success. Arrivals of requests, failures and stops are never
fair. `BetBook`, `RoundAdmin`, `Accounts` and `RoundEvents` have no liveness: what is
left to do there is a person's choice, or is said of the states at rest.

Every module with a state has a type invariant that is proved. In `BettingRequests` it
is `BetBook`'s for the tables; the types of what requests remember (`Knows`) are part of
the invariant `RInv`. Those of `BetBook`, `BettingRequests`, `RoundAdmin` and
`WalletLedger` are not run as well.

Definitions that begin with the comment "Mutation of" are plausible bugs: replacing
the definition they name by them makes the property that `PROJECT.json` pairs them
with fail. They belong to no specification.

## 4. Proofs

TLAPS proves these for every value of the constants that satisfies the ASSUMEs of
the modules, which TLC evaluates on each run: finite sets of users, bets, workers and
purchases' recipients, positive stakes, distinct model values. Bounds such as
`MaxRequests` are constants too: a theorem holds for each of them.

| Module | Theorem | Statement |
|---|---|---|
| `BetBook` | `TypeCorrect` | `Spec => []TypeOK` |
| | `NoBetStranded` | `Spec => []NoStrandedBet` |
| | `PoolsCorrect` | `Spec => []PoolsMatchBets` |
| | `ResultsCorrect` | `Spec => []ResultsAgree` |
| | `SettlementIsFinal` | `Spec => SettledStaysSettled` |
| | `MoneyIsAccounted` | `Spec => []MoneyAccounted` |
| `BetFigures` | `FiguresAlwaysAgree` | `Spec => []FiguresAgree` |
| | `ForecastsArePaid` | `Spec => PotentialIsPaid` |
| `BettingRequests` | `RequestsTypeCorrect` | `RequestsSpec => []TypeOK` |
| | `RowLocksExclude` | `RequestsSpec => []LocksExclude` |
| | `NoUpdateIsLost` | `RequestsSpec => []ReadsAreCurrent` |
| | `PoolsAreKeptApart` | `EditsKeepApart => (RequestsSpec => []PoolsMatchBets)` |
| | `CommitsAsIfAlone` | `EditsKeepApart => (RequestsSpec => [][Writes]_vars)` |
| | `SettledBetsStay` | `EditsKeepApart => (RequestsSpec => SettledOnce)` |
| | `BooksStayKept` | `EditsKeepApart, RoundsInTurn => (RequestsSpec => []BooksAreKept)` |
| | `RequestsImplementBook` | `HandledOneByOne => (RequestsSpec => ImplementsBook)` |
| `RoundAdmin` | `AdminTypeCorrect` | `Spec => []TypeOK` |
| | `StakeIsRefundedOnce` | `Spec => []RefundedOnce` |
| | `StakeIsKeptOrReturned` | `Spec => []NoStakeLost` |
| | `CancellationIsComplete` | `Spec => []CancelledRoundIsSettled` |
| | `TotalsAreKept` | `Spec => []TotalsMatchBets` |
| `WalletLedger` | `WalletTypeCorrect` | `Spec => []TypeOK` |
| | `PurchaseCreditedOnce` | `Spec => []CreditedOnce` |
| | `AnswerFollowsCredit` | `Spec => []AnsweredIsCredited` |
| | `SweepLedgerIsExplained` | `Spec => []SweepLedgerExplained` |
| | `GoldLedgerIsExplained` | `Spec => []GoldLedgerExplained` |
| `StreamSchedule` | `ScheduleTypeCorrect` | `Spec => []TypeOK` |
| | `ScheduledStreamHasJob` | `Spec => []ScheduledHasJob` |
| | `CalledOffStaysOff` | `OnlyCalledOff => (Spec => []CalledOffHasNoJob)` |
| | `RoundsAreFollowed` | `OnlyCalledOff => (Spec => []RoundsFollowStream)` |
| | `ScheduleImplementsLife` | `OnlyCalledOff => (Spec => LifeOfStream)` |
| `Accounts` | `AccountsTypeCorrect` | `Spec => []TypeOK` |
| | `OneAccountHasTheName` | `Spec => []OneUserPerName` |
| | `WalletIsThere` | `Spec => []WalletUnlessInterrupted` |
| | `LateRefreshRefused` | `Spec => []LateRefreshIsRefused` |
| | `DeletedStaysDeleted` | `Spec => DeletedUnlessSavedOver` |
| `RoundEvents` | `EventsTypeCorrect` | `Spec => []TypeOK` |
| | `NewsIsTrueAlways` | `Spec => []NewsIsTrue` |
| | `BettorsToldAlways` | `Spec => []BettorsAreTold` |
| | `RoomUpToDateAlways` | `Spec => []RoomIsUpToDate` |
| `ViewerCounts` | `ViewerCountsTypeCorrect` | `Spec => []TypeOK` |
| | `ViewersCountedExactly` | `Spec => []CountsAreExact` |
| | `NotifiedWhereConnected` | `Spec => []NotifiedSocketIsOpen` |
| | `SettledCountsAreWritten` | `Spec => []SettledIsWritten` |

The assumptions: `RoundOfAssumption` (an option belongs to one round),
`AmountsAssumption` of `BettingData` (stakes are positive, as the DTOs demand and the
gateway does not enforce: see "Stakes" above), `BetIdsAssumption`, `UsersAssumption`,
`OptionsAssumption` of `BetFigures` (bets, users and options are finite),
`LedgerMaxAssumption`, `OpeningAssumption` (opening balances fit the ledger);
`BetsAssumption`, `OptionsAssumption` of `RoundAdmin`; `WorkersAssumption`,
`PurchasesAssumption` (a purchase comes from one provider), `AmountsAssumption` of
`WalletLedger` (an administrator sets no negative balance); `AttemptsAssumption`,
`MaxClockAssumption`, `EditsAssumption` of `StreamSchedule` (an edit names columns of
the row and gives them values of theirs); `MaxTokensAssumption`, `NoUserAssumption` of
`Accounts`; `OwnersAssumption`, `FiniteAssumption`, `NothingAssumption` of
`ViewerCounts` (a socket has one user; "no stream" is no stream). `RoundEvents` has
none.

`OnlyCalledOff`, `EditsKeepApart`, `RoundsInTurn` and `HandledOneByOne` are hypotheses of
single theorems: which kinds of requests arrive, or overlap. The code does not enforce
them, so these theorems say under which use of the service the property is kept; the
mishaps outside are hazards, or runs such as `cancelled_once`.

### BetBook

The invariant `IInv` is the conjunction of the first four; run `money` checks all but
the types. None is inductive alone: `PoolsMatchBets` shows that `Math.max(0, ...)`
in `editBet` never clamps, but needs the types; `ResultsAgree` needs
`NoStrandedBet`, because `declareWinner` finds a round's bets by `round_id` and
`cancelRoundAndRefund` by option; and that the pools of a closed round stay needs
`NoStrandedBet` too, because `editBet` never looks at the round a bet leaves.
The proof has one lemma per handler for the types and one for the pools; the
latter rest on `SumTheorems`, proved from the definition of the community
module's fold by well-founded induction on subsets.

`MoneyAccounted` is inductive relative to `IInv`. The payout of a stake `a` is `a * pot
/ total`, and `PoolsMatchBets` makes `total` the sum of the stakes that share the pot:
summed over the winners the shares give the pot, up to a unit each (`ProRata`,
`PaidOut`). Otherwise a placed, edited or cancelled bet changes one wallet and one row
by opposite amounts (`UserMoney`), and settling or cancelling a round changes a set of
rows and credits their owners (`RoundMoney`, which sums per owner and then over the
owners). The fee is that of the rows with a result, a set that only a contested pot
enlarges.

`FiguresAgree` follows in part from `IInv` at once: `OverIsCounted` sums `PoolsMatchBets`
over options, so that a total of options is that of the rows on them. What was shown of
a result needs a history: nothing enters, leaves or changes in a round that is over
(`OverRoundKeeps`), and the result that ended it gave the amounts (`DeclareGivesAmount`,
which is `PaidOut` once more). For `PotentialIsPaid`, a locked round counts active bets
only, so the pot that `declareWinner` adds up from the rows is the round's total that the
forecast takes from the options (`PotIsRoundTotal`).

### BettingRequests

Four invariants, each proved with the ones before it; the properties follow.

* `RInv`, for any `Overlap`: the tables have their types, a request knows what its step
  needs (`Knows`), the locks its commit needs are held or still in its plan
  (`LocksCover`), what it read under a lock is what the table holds (`ReadsCurrent`), and
  no two transactions hold locks that conflict (`LocksExclude`). Without the last,
  `ReadsCurrent` is not inductive: a commit of one request would make the row another has
  read stale. `Compatible` is what every step of a lock adds, and only
  `pessimistic_write` and the locks of UPDATE and INSERT make it so.
* `EInv`, under `EditsKeepApart`: an edit or a cancellation overlaps with no result, and
  with no other change of its bet. Then what was read *before* a lock, `save()`'s copy of
  the bet and the option that `declareWinner` loaded, is still so at the commit
  (`SeenAgrees`, `DeclareAgrees`), nothing is written back stale, and each commit
  writes what a request that runs alone writes (`Writes`). For two results on one round
  that overlap, the second finds no active row: that the totals stay matched and no bet
  is settled twice needs no more (`PoolsAreKeptApart`, `SettledBetsStay`).
* `MInv`, with `RoundsInTurn` as well: on one round, two bets are not placed at once, the
  opening overlaps with bets only, and the lock with bets and locks only. The statuses a
  request can meet are then known (`StatusAgrees`). A bet whose option was read before
  the round was locked may still be placed in a closed round; it is then the only active
  one there, because no second is under way, and a late result refunds it: nobody is paid
  from totals that still count the bets settled before, and `AccountedIn`, and with it
  `BooksAreKept`, survive.
* `UInv`, under `HandledOneByOne`: requests for bets are of different users, and the
  administrator handles rounds that no overlapping request is about, while no bet is
  edited or cancelled. All a request checked is then still so when it commits
  (`StillChecked`), each commit is a step of `BetBook`, and every other step a stutter.

The run `settling` satisfies the first two hypotheses and `users` the third, which is
wider than that run. In `BettingRequests` the tables are `BetBook`'s variables, so the
refinement mapping is the identity; the work is in `StillChecked`.

### RoundAdmin

`IInv` is the properties with what they rest on. `ReadAgrees`: a bet that was read
keeps its option and can only leave the state active, because users change nothing
else; and on an option that the cancellation has saved there are no bets but those it
had read, all refunded, because the saved row is locked to the end. `AdminAgrees`: the
options a cancellation has saved or has still to save are all that there are, so when
it commits the active bets are those it refunded: hence `CancelledRoundIsSettled` and
`TotalsMatchBets`. `RefundsAgree` counts the refunds: none of an active bet, one where
the cancellation in progress has refunded it, at most one in all, unless a
cancellation failed or refunded a bet its user had cancelled meanwhile. `BetsAgree`
says that a request of a user waits for the bet it has read.

### WalletLedger

The balance is read and written under its row lock, except by the administrator, whose
UPDATE waits for the lock but not his read, and by the registration, before there is a
wallet. `LockAgrees` says that whoever has read the balance under the lock holds it
and has read the present one; so the written balance is the present one plus the
transaction, and `SweepLedgerExplained` is kept. `CreditedOnce` holds because the
search for an earlier transaction is repeated at the commit, under the lock; the first
search alone would not do. `RequestsAgree` says what waits at which step, and
`AnsweringIsCredited` that a webhook has credited every currency behind it, so that one
about to answer has credited all. For gold the difference of balance and ledger is what
the workers between the two statements of a write still owe, summed over the workers
(`SumTheorems`), unless `harm` says that a change was overwritten or a write left
unrecorded.

### StreamSchedule

Two invariants. The first is of the requests that call a stream off:
`OnlyCalledOff` says that administrators create, cancel and delete, and neither edit
nor end a stream. `QueuedOnce`: before its job is queued a stream has none, and one
request queues it. `WorkerAgrees`: while a worker holds the job `remove` throws, so no
cancellation passes it and the row the worker saves is the row there is.
`RemovedForGood`: once the job is removed there is none again. Each step is then a
step of `StreamLife` or leaves its variables alone (`NextLife`). The rounds follow
because the request that sets the status goes on to cancel the rounds it had read as
open.

The second, `SInv`, is of requests of every kind, and `ScheduledHasJob` follows from
it. At rest that property says only that the job is there; `Scheduled` says it for
every state: while no mishap has happened, a scheduled stream has a good job
(`JobIsGood`), or some request is going to mend it (`Fixes`), and only the request that
queues the job (`Enqueues`) stops being one that does. `WorkerHolds`: a worker that reads
or saves holds the active job, and another attempt is left for it. `EditsKeep`: an edit
that moves nothing keeps the start it has read. The edited row is written out as a
function in `Edited`: `@@` is a definition of the module TLC that the provers do not see.

### Accounts

`OneUserPerName` rests on the unique columns, not on the search that precedes the
insert, but what keeps a saved row from breaking it is that a row that was read is one
that exists. `RowsAgree`: whoever acts on a row finds it, and the one who inserts it is
alone with it, which is also why `WalletUnlessInterrupted` holds. `ReadAgrees`: a row
that will be saved as it was read exists, and its token is one that was signed for its
user. `TokensAgree`, until a row was saved over a newer one (`restored`): no account
holds a token that was replaced, and a refresh that came late has such a token or finds
its account deleted, so one of its two comparisons fails.

### RoundEvents

`ToldInv` follows the messages: one transaction is open at a time (`OneTransaction`),
those whom a handler has still to tell have the bet it tells them of (`PendingHaveIt`), a
refund is told before it is committed (`RefundedAreTold`), and whoever won or lost was
told, or is missed, or a handler is still to tell him (`BettorsWillBeTold`). `ShownInv`
follows the figures, one part for each: what the room does not show as it is, a handler
has still to read, or has read and not yet emitted with nothing changed since (`fresh`),
unless `harm` says that an older figure overtook it or that a failed handler left it
unannounced, or `silent` that the last bet came over HTTP.

### ViewerCounts

`CountsAreExact` and `NotifiedSocketIsOpen` are inductive with the types.
`TimersAgree` is the invariant behind the debounce: a count that waits is the present
one, and a timer or a write in progress will deal with it; when none waits, the column
holds the present count and nothing is writing, or the stream is in `doubted`. At rest
this is `SettledIsWritten`, the safety half of `CountsComeToRest`; that the timers do
come to rest is liveness, and run.

### What the proofs found

Two `CASE`s, in `RoundEvents` (`Result`, `Message`) and `BettingRequests` (`Returned`),
had arms that overlap. TLC takes the first that holds; the language leaves the choice
open, and the invariants could not be proved. They are written with `IF` now, in the
order of the code. `EditsKeepApart`, `RoundsInTurn` and `HandledOneByOne` are what the
proofs asked for, case by case; each is wider than what the runs first assumed.

### Only model-checked

Liveness under fairness: `EveryRequestAnswered` of `BettingRequests` and the others named
under "Fairness". It needs ENABLED, which is out of the prover's reach; so is induction
over data. Every safety property of a passing run has a theorem.

## 5. Not modelled, and the plan

Abstracted: names, what messages say, e-mails, timestamps. Bets of
several streams share nothing but wallets, so one stream is modelled.

Not modelled, and why:

* `updateBettingVariableStatus` and the ending of a stream against overlapping
  requests: each is one step of `BetBook`.
* `flushViewerCounts`: it runs on shutdown only, and `main.ts` never enables shutdown
  hooks.
* A circle of waiting that passes through an await of the process
  (`cancelRoundAndRefund` waits for a wallet on a second connection): the locks of
  wallets are in `BettingRequests`, the handler in `RoundAdmin`.
* The reset of a password, the profile, e-mails, chat, files, analytics, lists: they
  append, query, or update columns that nothing else here reads.
* `src/streambet_api-prod/`: the same files once more. Of the code itself, controllers,
  data transfer objects, entity and module declarations, templates and migrations hold
  no control to model; the models stand for most of `betting/` and `wallets/` and for the
  parts of `stream/`, `queue/`, `payments/`, `auth/` and `users/` that change state.

Proofs left: `updateBettingVariableStatus`, the cancellation of a round and the ending of
a stream as requests of `BettingRequests`, and with them the same four invariants; what
`BooksAreKept` becomes when two bets are placed on one round while it closes (a
late result then divides their pot by totals that still count the bets settled before).
