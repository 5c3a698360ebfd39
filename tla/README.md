# DEX trading bot platform: TLA+ models, checks and proofs

This directory models the platform whose source is in `src/` (an
Express, Prisma, BullMQ and Socket.io backend with a React frontend; bots trade
tokens on PancakeSwap and Uniswap from groups of wallets).  It holds TLA+ modules
translated from the code, TLC configurations that check them on small instances,
and TLAPS proofs of their main properties for every instance.  `B/` below stands for
`src/backend/src/`, `F/` for `src/frontend/src/`.

1. [Inventory](#1-inventory)
2. [Plan](#2-plan)
3. [Modules and code](#3-modules-and-code)
4. [Runs](#4-runs)
5. [Fairness](#5-fairness)
6. [Proofs](#6-proofs)
7. [Where documents, code and expectations disagree](#7-where-documents-code-and-expectations-disagree)
8. [What is not modelled](#8-what-is-not-modelled)

## 1. Inventory

The backend runs as an API (1 to 10 replicas, `src/k8s/hpa.yaml`), an execution
worker (2 replicas, each with `WORKER_CONCURRENCY` slots) and a confirmation
worker.  They share a PostgreSQL database and a Redis instance, and meet
nowhere else: every interaction is a row or a job.  The browser client talks to the
API and to a wallet extension.  The repository has no tests.

| component | state it keeps | operations | talks to | module |
|---|---|---|---|---|
| Bot API `B/controllers/bot.controller.ts` | `Bot` row: status, settings, failure counter | create, update, start, pause, resume, stop, delete | database, scheduler | `BotLifecycle` |
| Scheduler `B/services/scheduler.service.ts` | BullMQ jobs in Redis | schedule (cancel, then add), next run, cancel | Redis | `BotLifecycle` |
| Execution worker `B/workers/execution.worker.ts` | `BotRun` rows, failure counter, cooldown | one cycle per job | database, scheduler, executor, strategy | `BotLifecycle`, `Execution`, `Trading`, `WalletKeys` |
| Executor `B/services/executor.service.ts` | `Transaction` rows, the chain | approve, quote, swap, record | RPC node, database | `Execution`, `Trading` |
| Confirmation worker `B/workers/confirmation.worker.ts` | `Transaction` rows | a round every 5 s over submitted rows | RPC node, database | `Execution` |
| Strategy, DEX adapter `B/services/{strategy.service,pancake.adapter}.ts`, `B/config/dex.ts` | none | intents, quotes, calldata | RPC node | `Trading`, `SwapMath` |
| Trade limits `B/utils/tradeLimit.ts`, `B/services/{bnbPrice,limitSync}.service.ts`, limit request controllers | USD and BNB limit of a user, requests | submit, cancel, approve, reject, override, sync | database, price API | `TradeLimits` |
| Accounts `B/services/auth.service.ts`, auth and user controllers, middleware, `B/utils/seedAdmin.ts` | `User` row: role, active, token version, second factor | register, log in, refresh, enrol, deactivate, set role | database | `Accounts` |
| Wallets and keys `B/controllers/wallet.controller.ts`, `B/utils/userKey.ts`, re-encryption | encrypted keys, groups | import, delete, group, migrate keys | database | `WalletKeys` |
| Prices and holdings `B/controllers/{price,holdings}.controller.ts` | none | route a quote, list tokens | RPC node, price APIs | `PriceRoutes`, `Holdings` |
| Analytics, logs, statistics | none | read and aggregate | database | `Pages`, as queries |
| Notifications `B/socket`, Telegram, audit log | none | emit | clients | - |
| Browser: session `F/api/client.ts`, `F/context/AuthContext.tsx` | cookies, user, shared refresh | retry after a 401, log in and out | API | `Session` |
| Browser: wallet `F/hooks/useWalletConnectionSync.ts`, `F/lib/walletHoldingsLoader.ts`, `F/store/walletStore.ts` | store, loads in flight | connect, switch, load, disconnect | extension, API | `Holdings` |
| Browser: price panel `F/hooks/usePriceCheck.ts`, bot form | form, timer, call in flight | choose a pair, refresh | API | `PriceCheck` |
| Browser: pages `F/pages`, `F/components/bots` | query cache, toasts | query, poll, mutate, invalidate | API | `Pages` |

What is hard, and what makes each part correct:

* **Bot API, scheduler and worker together.**  Every handler checks a status it
  read earlier and then writes by id; every cycle checks the status once, at
  its beginning; the scheduler cancels by listing and removing.  Handlers,
  replicas, slots and the stalled-job check of BullMQ interleave at each
  awaited call.  Correct means: a cycle begins only for an active bot; jobs
  that outlive a stop die out; nothing but a request adds a chain of
  cycles; a chain ends only for a reason the code names; overlapping cycles
  overwrite each other's failure counter, but what all of them have counted
  stays counted, and a bot with too many failures trades no more.
* **Executor, chain and confirmation worker together.**  Broadcasting a swap
  and inserting its row are two steps, in a cycle that may throw, crash or lose its
  bot at any point; overlapping cycles share wallets and nonces; rounds
  of the confirmation worker overlap and use rows they read before.  Correct means:
  rows never say more than the chain; a run's counts are those of its
  rows; settled rows stay settled; swaps are recorded; runs end.
* **Strategy and decisions of an intent.**  Cap, quotes, impact, approval,
  minimum output and gas estimate are reads of a chain and a limit that move in
  between, in truncating integers.  Correct means: a swap is what bot and limit
  allow; its minimum output is fresh; a deep swap is refused; a volume cycle stays balanced.
* **Trade limits.**  Two fields that should agree are written by four actors
  that read before they write.  Correct means: the BNB limit
  follows the USD limit; what was granted stays approved.
* **Accounts.**  Checks on counts of users precede writes; tokens carry the
  version of a row read earlier.  Correct means: a session read before a
  deactivation is never accepted after it; administrators are made by administrators, or with the
  first account, and one is left; the second factor is on for a secret its user has shown.
* **Wallets and keys.**  Keys are created on first use and wallets are
  re-encrypted while workers use them.  Correct means: every wallet can be
  decrypted with the key of its user, migration and repair never undo each
  other, and references never dangle.
* **Prices.**  Routes are tried in order over pools that may revert; the panel
  asks under a debounce, a poll and aborts.  Correct means: the panel comes to
  show the price of the pair on the form, and an older pair's only while it is replaced.
* **Session.**  Parallel 401s share a refresh; answers set cookies in the order they
  arrive.  Correct means: one refresh at a time; a query is refused only for want of a valid refresh
  token or because the refresh was lost; every call ends.
* **Holdings.**  Accounts and chains of the extension change while loads overlap.
  Correct means: a list is shown with its own account, and a wallet that has gone leaves nothing.
* **Pages.**  Every mutation names by hand the queries it invalidates, and
  confirmations outlive their page.  Correct means: what the user changed is shown.

The hazards that follow from this, each at its line and with the properties
that cover it, are listed in `PROJECT.json` under `hazards`.

## 2. Plan

In order of importance; all of them are here.

1. `TradingGate`, the abstract promise; `BotLifecycle`, which implements it;
   `BotLifecycle_proofs`.
2. `SwapLedger`, the abstract promise of the transactions table; `Execution`, which
   implements it, the trading step of a cycle in detail; `Execution_proofs`.
3. `SwapMath`, `Trading` and `Trading_proofs`: the decisions inside that step.
4. `TradeLimits`, `Accounts`, `WalletKeys`, each with its proofs.
5. The browser: `Session` and `Pages` with `Browser_proofs`; `Holdings`, `PriceRoutes` and
   `PriceCheck` with `Panels_proofs`.

Every module is written to be proved about: parameters are constants with named
assumptions, an operation or an awaited call is one action, inductive
invariants are conjunctions of named parts, and nothing is recursive.

How they compose: `BotLifecycle` refines `TradingGate`, `Execution` refines `SwapLedger`; the
lifecycle's step `Trade` is
what `Execution` opens, with one intent per wallet; each intent's way from `Sign` to
`Send` is what `Trading` opens, on the arithmetic of `SwapMath`; the cap it reads is the BNB limit
of `TradeLimits`; the wallets it holds are those of `WalletKeys`.  `Session` sees of
`Accounts` the version its tokens must carry.  `PriceCheck` asks `PriceRoutes`.

## 3. Modules and code

`PROJECT.json` maps each definition to the lines it stands for.

### TradingGate

Abstract.  A bot is `on` or off; a worker slot may go `inside` only while it is on,
and each slot that went inside comes out.  Nothing about jobs, requests or steps.

### BotLifecycle

One bot.  Handlers, the queue and the worker touch only the row and the jobs of
their own bot, so a second bot would do no more than take slots.

| variable | code |
|---|---|
| `bot` | the `Bot` row: `status` (`"deleted"` for no row), `consecutiveFailures`, whether `cooldownUntil` is in the future, the editable settings |
| `job`, `requeued` | BullMQ: the state of each job id; which have been put back by the stalled-job check |
| `pc`, `op` | the next awaited call of each request and slot; what a request asks |
| `snap` | the jobs a running `cancelBotExecution` has listed |
| `cur`, `owned` | the job of each slot; whether the slot still holds its lock |
| `seen`, `result` | `bot.consecutiveFailures` as the cycle read it; how its trades went |
| `budget`, `mishaps` | bounds only: requests and faults left |

A request is `Receive` (load and status check, which answer 404 or 409 and change
nothing when they fail), the write, and the calls that follow: `CancelList`, `CancelListed`,
`CancelFixed` for `cancelBotExecution`, `Register` for the `add`, `Destroy` for the delete.
A cycle is `Take`, `Load` (the checks of lines 111-137), `Reset` (the
daily reset, which re-reads the row), `Skip` or `OpenRun`, `Trade`, `Report`,
`Reschedule`, `Finish` - or `PauseBot` and a cancel, or `Fail`.  `Registers` is the `add` of
`scheduleNextRun`, which may throw after it as well (`ThrowAfterAdd`).

BullMQ is not part of the repository; it is modelled by what the code relies on:
`add` with the id of an existing job has no effect, `remove` fails on a locked job
(and the scheduler swallows that), a job whose lock is not renewed is put back once
and then failed, `removeOnComplete` and the single attempt.  The
daily reset may fall on any cycle.  Job ids `bot-<id>-<now>` come from a finite set; an id may be
used again when nothing refers to it, which is what "fresh" means.

Every operation runs with the faults it may meet: `Abort` (an API process dies, or a
call of a request fails), `Throw` (a call of a cycle fails), `LoseLock` and
`Crash` (the worker outlives, or does not outlive, the lock of its job).

### SwapLedger

Abstract.  What `chain` and `ledger` say of each intent of each cycle: an intent is refused or
swapped (`Refuse`, `Swap`), at most once; a swap is mined, or replaced by another transaction of its
wallet (`Mine`, `Displace`); its row follows it and is settled once (`Record`, `Settle`);
`Delete` takes all rows for good.  `Misreports` says whether a swap may get the row of a refused intent.

### Execution

The trades of several overlapping cycles of one bot, one intent per wallet.

| variable | code |
|---|---|
| `step`, `left`, `at` | where each cycle is; wallets still to do; the current one |
| `ok`, `bad` | `successes` and `failures` of the loop |
| `nonce` | the nonce the signer filled in |
| `run`, `row`, `deleted` | `BotRun` rows; `Transaction` rows; whether the bot is gone, with both |
| `tx`, `allowance` | the chain and mempool: state and nonce of each approval and swap; allowances |
| `batch` | the rows each round of the confirmation worker still has to look at |

`executeIntent` is `Sign`, `Check`, `Allowance`, (`Send`, `Broadcast`, `ApproveWait` for an
approval), `Build`, `Send`, `Broadcast`, `Record`; each of its early returns is a
move to `"refuse"` and each exception one to `"catch"`, where `PersistFailed` inserts the failed row.  What
throws before the `try`, or inside the `catch`, ends the cycle (`"thrown"`).  The node
accepts a transaction with a new nonce, or in place of a pending one with the same
nonce, or refuses it; it mines a wallet's transactions in nonce order.  `DeleteBot` stands
for a stop and a delete in mid-cycle: rows vanish and later inserts fail.

### SwapMath and Trading

`SwapMath` is the bigint arithmetic (truncating division) of `pancake.adapter`: minimum output,
price impact in basis points; the range of random amounts; and the cap of `tradeLimit`, which
compares and cuts in doubles.  A double is right to one part in `Precision` (2^51, a division and a
multiplication included), so `Capped` is a set: next to the limit an amount may pass uncapped, and
a capped one is off by the `Slack` of the limit, or short of the wei that `Math.floor` takes.

`Trading` is one cycle's decisions.  `bot` and `queue` are what `generateIntents` made
(`Smooth` for the two one-sided strategies, `VolumeCycle` for the third; a wallet is its
place in address order) and the worker's slice of it; `pc`, `amount`, `quoted`, `small`,
`floor` are the locals of `executeIntent`; `swaps` are its broadcasts; `pool` and
`limit` are the world, which `PoolMoves`, `LimitMoves` and `Mine` move between any two
reads.  `Cap`, `Balance`, `FullQuote`, `SmallQuote`, `ImpactCheck`, `Allowance`,
`Approve`, `Build`, `Estimate`, `Fees`, `Send` follow the code, each with its
failure.  `built`, `calm`, `highest` and `begun` are history.  The pool is a constant-product
pair without fee; what balances, allowances and gas come to is a choice.  `NativePath` (input is
WBNB, also when a bot sells WBNB) skips allowance and approval; `QuoteSpend` (a purchase with it) is capped.
The cap's branch for a user that is gone cannot be reached: bots refer to their user, and no code
deletes one.

### TradeLimits

`usd`, `bnb` and `active` are fields of the user rows, `request` the rows of
`limit_requests`, `handler` what each API handler has read and does next, `sync` and `lastSync` those of
`LimitSyncService`.  `Submit` and `Create`, `ReadRequest`, `WriteStatus` and `Grant`
(approve, reject, cancel), `Override`, `Recalculate` and `StoreBnb`
(`overrideUserLimit`), `SetActive`, `FetchPrice`, `ReadUsers`, `SyncUser` and `EndSync`
are steps between awaited queries; `Abort` and `Crash` end a handler or the process
between them.  A BNB limit is represented by the USD amount it was computed from.

### Accounts

`row` is the users table, `req` what each request has read and does next, `issued` the
sessions signed.  `Register`, `CountUsers`, `CreateUser`, `SeedDefaultAdminIfEmpty`; `Login`, `Refresh` and
`Sign`; `Setup2fa`, `Verify2fa`, `Enable2fa`; `DeactivateUser`, `ActivateUser`;
`SetUserRole`, `CountAdmins`, `WriteRole`; `Authenticate` for the middleware in front of
them.  A session stands for the two tokens signed together.  `revoked`, `shown` and `overlapped` are history, and so are `entitled` (who was made an
administrator by one, or was being registered or seeded when the first account was created) and `unguarded`
(the administrators changed during a demotion, or a deactivation took the last one).

### WalletKeys

The wallets of one user.  `userKey` is the column `encryptionKey`, `wallet` the rows with the
key each was encrypted with, `member` and `used` the foreign keys of groups and
transactions, `actor` what each request or migrator has in hand.
`ReadKey` and `SaveKey` are `getOrCreateUserEncryptionKey`; `Request` the writes of
import, the debug repair, group creation and deletion; `LoadWallets`, `MigrateWallet`
and `EndMigration` are the migration in a cycle and in the script; `Crash` ends anyone anywhere.

### PriceRoutes and PriceCheck

`PriceRoutes` has `resolveV2` and `resolveV3` as the paths they try in order, a quote
as a set of at most one amount (a revert has none), the conversion to USD and the liquidity
warnings; `Price` is what `getTokenPrice` answers when the node does, `Prices` what it may answer when
calls to the node fail, for every `catch` takes an error for a missing pool.  `PriceCheck` is the form's second step
and the panel: the fields, the debounce timer, the calls in flight, what the panel
shows; `Fetch` aborts the call before it, `GetTokenPrice` answers one, `OnRefresh` is the
button.  The market moves among `Markets`.

### Session

`jar` is the cookies of the browser, `version` the `tokenVersion` of the account,
`user` that of `AuthContext`, `call` the calls of the tab, `refresh` and
`refreshFlight` the shared refresh of `client.ts`.  `Send`, `Serve`, `Receive` (which
settles, is refused or awaits a refresh), `Lost`, the same three for the refresh, and
expiry, revocation and reload.  `Renewal` is the endpoint, whose `catch` answers 401 and clears the
cookies whatever went wrong; whatever becomes of a refresh but success, the calls that wait for it are
rejected with the 401 they had (`Rejected`; `LostRefresh` when the network or a 5xx ended it).  Cookies go out when a call is sent and change when its
answer arrives.

### Holdings

`wallet`, `connecting` and `closing` are the extension's, `synced` what the effects of
`useWalletConnectionSync` have seen, `store` is `walletStore`, `load` and `latest` the loads and the
sequence number of `walletHoldingsLoader` (the identity of the load that holds it).  `Serve` has
what the server may leave out: tokens without metadata, amounts that round to nothing, everything.

### Pages

The pages of both roles as data: which keys each queries, which mutations it offers,
which facts a handler reads or writes, which keys a page invalidates on success.
`entry` is the query cache, a key's content abstracted to `fresh`, `stale` (it misses
something this tab changed on a page that was still offering it) or `excused`; `act` the mutations;
`toast` the confirmation that waits.  `Arrive` is the answer of a query, `NextBatch` the end of
the wait for a batch of invalidations.  `Invalidate` has react-query's rules: a mounted query is
sent anew, an unmounted one is not, and one that has never loaded is joined.  `Untold` is the one mutation
that invalidates nothing, the setup of two-factor authentication.

Definitions whose comment begins with "Mutant of" are plausible mistakes (a missing check, a wrong
count); `PROJECT.json` says which property notices which.

## 4. Runs

| run | instance | what it shows |
|---|---|---|
| `lifecycle_safety` | all six requests, 2 in flight and in all, 2 slots, 2 further job ids, threshold 2, 1 fault of any kind | `IInv`, the inductive invariant; `FailuresStand`; `ImplementsGateSafety`; `OnlyRequestsFork`; `ChainEndsForAReason` |
| `lifecycle_recovery` | start, stop and delete, 3 requests one at a time, 1 slot, 3 further job ids, threshold 1, 1 fault, fair | `InactiveBotDrains` after a crash, a lost lock, an exception or an aborted request; `ImplementsGate`, the refinement of `TradingGate` with its liveness |
| `execution_faults` | 2 cycles, 2 wallets (1 undecryptable), 1 round with a batch of 1, all faults, deletion | `RowsAgreeWithChain`, `RunCountsItsRows`; `ImplementsLedger`, the refinement of `SwapLedger` |
| `execution_liveness` | 2 cycles after an earlier one whose swap is still pending, 1 wallet, 1 round with a batch of 2, no faults, fair | `EverySwapRecorded` when two cycles fight over nonces; `RunsEnd`; `MinedSwapsSettle` when three rows compete for a batch of two |
| `trading` | 8 bots, up to 3 wallets, 2 pools, 2 limits, 2 moves of the world per cycle | `SwapsAsConfigured`, `FreshFloor`, `ImpactBounded`, `CycleBalanced` |
| `limits` | 1 trader, 1 request row, 2 handlers, 1 sync, limits 1 and 2, 3 prices, fair | `LimitsAgree`, `GrantedStaysApproved`, `LimitsFollow` |
| `accounts` | 2 users, 2 requests, 1 deactivation each | `EnabledSecretShown`, `RevokedStayRevoked`, `AdminsMadeByAdmins`, `AdministratorLeft` |
| `wallets` | 2 wallets of one address, 1 request, 2 migrators, 2 keys, fair | `WalletsDecrypt`, `ReferencesLive`, `StaysDecryptable`, `LegacyMigrated` |
| `price` | 2 base and 2 quote tokens, 3 routers, 2 fee tiers, 2 markets, fair | `StaleOnlyWhileChecking`, `AnswersNewest`, `PriceCatchesUp` |
| `session` | 2 calls, 1 revocation, fair | `OneRefresh`, `RefusedWithReason`, `CallsSettle` |
| `holdings` | 2 accounts, 1 connector, 2 tokens (one of a balance that rounds to nothing), 2 loads, fair | `HoldingsOfAccount`, `GoneStaysGone`, `LoadingEnds` |
| `pages` | both roles, every page and the mutations each offers (logging out is in `Session`); 1 key at a time that takes time, 1 mishap, 2 mutations in flight, 1 query left behind, fair | `OwnChangesShow`, `OwnChangesArrive` |

Bounds, and why they are enough:

* `MaxRequests`, `MaxFaults` (guards of `Receive` and of the faults) make the state
  space of a run that never ends finite.  A race of the lifecycle needs two requests
  and a cycle; three requests give start, stop, start.
* `Slots`: two slots make two cycles overlap, which is all that locks and lost
  updates speak about; one slot is enough for a bot to drain or not, because
  the orphan job and the fault are what could keep it alive.  For the safety
  properties the proofs remove this bound.
* `NextIds`: in the fair run three ids, more than its requests and slot can
  refer to at once, so that `Reschedule` is never disabled for want of an id (a
  want of ids would show as a violated `InactiveBotDrains` or `ImplementsGate`).
  In the safety run a want of ids only leaves behaviours out, and the proofs
  bring those back.
* `MaxFailures` is 5 in the code; with 2 there is a first, a last and an overlapping
  failure, and with all requests and two slots a resume of a bot that has failed too often, overlapping
  cycles that lose each other's counts and a start among them (`FailuresStand`).  It is 1 in
  `lifecycle_recovery`, where no property is about the counter.
* `Configs`: one value; which settings a bot has matters to none of
  the properties, that a request to edit it interleaves with the others does.
* `BatchSize` is 100 in the code; 1 makes rounds that hold a part of the
  waiting rows.  In `execution_liveness` it is 2, and the three cycles of a wallet can have three
  rows waiting, one of them dead (its transaction replaced): the code reads
  at most 100 rows in no particular order and never gives up on a
  dead row.  `MinedSwapsSettle` promises that mined swaps are settled while fewer
  rows than a batch are dead; the bound is exact, for with a whole batch of
  dead rows a mined swap may wait for ever.  `MCExecution!LaterSpec` begins after the earlier cycle, in a
  state it can leave behind, which spares its interleavings.
* `trading`: the bots reach every strategy, side, version and early return; their
  amounts are small, a sixth of a pool, or under `Negligible`, and the pools'
  reserves big enough for quotes of three digits.  `MaxMoves` = 2 lets the pool move
  between the quotes and again before the transaction is mined, or pool and limit
  once each.  `Precision` is 2000, so that amounts of this size lie within the slack of the limit, on it and
  beyond it.  The proofs remove these bounds.
* `limits`: races are between two handlers, or a handler and a sync, over the fields of one
  trader; the prices are two within two percent of each other and one farther off.
* `accounts`: two requests give every pair of races; `MaxVersion` = 1 one deactivation
  followed by an activation.  The proofs remove both bounds.
* `wallets`: the two rows are one address, a wallet deleted and imported again; two keys let
  two first uses mint different ones.
* `price`: one market has the token's pool with BNB only, the other with USDT too,
  with a thin pool on one router each.  Any of the calls to the node may fail in any answer.
* `session`: two calls are one that refreshes and one that joins, or one that arrives late.
* `holdings`: two loads are an old one and a new one; a third would wait for a place.
* `pages`: keys influence each other only through a mutation that waits for two batches of
  keys; so one key takes time in a behaviour and the others load at once, and which
  one is chosen in `PagesInit`; the proof of `OwnChangesShow` has any number of them.  A mutation that the slow key neither shows nor is
  invalidated by is left out.  `MaxMishaps` is for changes made elsewhere, failed queries and
  lost answers.  On navigation what the cache kept is either all there or not.  One
  confirmation shows at a time.
* Symmetry only in runs without liveness.  `CHECK_DEADLOCK FALSE` where the system may
  rest: no requests come, cycles have ended, ids or versions are used up.

## 5. Fairness

* Handlers and cycles that have begun go on (weak fairness): the event loop runs
  their continuations.  Faults end them instead, and faults are never fair.
* Delays, the stalled-job check, cooldowns and `setInterval` are timers: weak
  fairness.
* A waiting job is taken (strong fairness on `Take` per job): BullMQ's waiting
  list is first in, first out, so a job that waits is not passed over for
  ever although the slots are now and then all busy.
* The chain mines what is in the mempool, in nonce order (weak fairness).
* Clients owe nothing: no request has to arrive, so `InactiveBotDrains` has
  a premise that requests cease.
* `TradeLimits`: a sync that has begun goes on.  `LimitsFollow` has the rest as premises:
  decisions and crashes end, and the price keeps starting syncs.
* `WalletKeys`: migrators go on.  That they run over all wallets of the user, as the script does,
  and are not interrupted is the premise of `LegacyMigrated`.
* `Session`: the server answers and answers arrive, or are lost.  Access tokens live
  fifteen minutes, so none expires during a refresh (`AccessExpires`).
* `Holdings`: loads end; effects run; a disconnection ends.  The effects of a render run
  before the next click or event of the extension (`Rendered`), which is how React schedules them.
* `PriceCheck`: timers fire (weak).  Answers come through (strong): each poll aborts the
  call before it, so weak fairness would let every call be aborted just before its
  answer; the code assumes that a quote takes less than fifteen seconds.
* `Pages`: queries and mutations end and timers of mounted pages fire (weak); mutations may fail,
  and whether a query fails is no obligation.

## 6. Proofs

Each `_proofs` module holds for any sets and bounds its module declares, under the
assumption named there (disjoint names; finite sets where rows or users are counted; positive thresholds,
reserves and prices; job ids that are no slots) and, for `BotLifecycle` and `Execution`, for any faults.
An invariant is proved by an inductive one, `IInv`, with a lemma per action or group of actions.

| theorem | says |
|---|---|
| `BotLifecycle_proofs!Invariance`, `TypeCorrect`, `FailuresCounted` | `[]IInv`, hence types (the counter never passes its threshold); `FailuresStand` |
| `GateRefinement` | every behaviour implements `TradingGate!SafeSpec` |
| `CarrierInvariance`, `NoForkByTheWorker`, `ChainGoesOn` | the cycles to come are finitely many, and only faults stall a job; hence `OnlyRequestsFork`, `ChainEndsForAReason` |
| `Execution_proofs!Invariance`, `TableAgrees`, `RunsCountRows`, `Settled` | `[]IInv`, hence `RowsAgreeWithChain`, `RunCountsItsRows`, `SettledRowsStay` |
| `Implementation` | every behaviour implements `SwapLedger!Spec` (`ImplementsLedger`) |
| `SwapsRecorded` | `[]EverySwapRecorded` without faults and deletions |
| `Trading_proofs!Invariance`, `BroadcastAsConfigured`, `PaidByFreshQuote`, `DeepSwapsRefused`, `SidesBalanced` | `[]IInv`, hence the four properties of the run `trading` |
| `TradeLimits_proofs!Invariance`, `EnforcedLimit`, `ApprovalStands` | `[]IInv`, hence `LimitsAgree`, `GrantedStaysApproved` |
| `Accounts_proofs!Invariance`, `Revocation`, `TwoFactor`, `Administrators`, `AdministratorRemains` | `[]IInv`, hence the four properties of the run `accounts` |
| `WalletKeys_proofs!Invariance`, `Decryptable`, `References`, `Migrations` | `[]IInv`, hence `WalletsDecrypt`, `ReferencesLive`, `StaysDecryptable` |
| `Browser_proofs!Invariance`, `SharedRefresh`, `QueriesRefused` | `[]IInv`, hence `OneRefresh`; with `TokensFollow`, `RefusedWithReason` |
| `PagesInvariance`, `ChangesShown` | `[]PagesInv`, hence `OwnChangesShow` |
| `Panels_proofs!Invariance`, `ShownIsOfAccount`, `GoneWalletLeavesNothing` | `[]IInv`, hence `HoldingsOfAccount`, `GoneStaysGone` |
| `PriceReplaced`, `OlderAnswersAborted` | `[]PriceInv`, hence `StaleOnlyWhileChecking`; `AnswersNewest` |

`Browser_proofs` is about `Session` and `Pages`, `Panels_proofs` about `Holdings` and
`PriceCheck`.  In each, two components that share no state are treated one after the other; the
second part does not see the assumption of the first.  That is why `Pages` and
`PriceCheck` give their specifications names of their own (`PagesSpec`, `PriceSpec`).

Why the properties are not inductive themselves, and what makes them so:

* *`BotLifecycle!IInv`.*  `Report` stores `seen[w] + 1`, which
  is at most the threshold only because a cycle past its failure check began below
  it.  `Finish` settles `cur[w]`, which is right only when
  the owner's job is active and no other owner has it.  `IInv` adds just these facts,
  and which steps requests and slots can be at.  `FailuresStand` follows step by step: while the counter and
  what every cycle past its check has read are at least `k`, a report without a success writes at least `k` (`Counted`).
* *`GateRefinement`.*  `inside` is the set of slots at `"reset"`, `"setup"` or
  `"trade"`.  Only `Load` brings a slot there, having read
  an active row in the same step.  The lemma `GateMove` says what a slot's move
  means for the gate, `GateSwitch` what a write of the row means.
* *The carriers of `BotLifecycle`.*  `OnlyRequestsFork` counts the cycles to come: jobs in the
  queue, and slots that will register a successor.  Taking, retrying and rescheduling
  exchange a job for a slot or back, one for one (`JobIds` and `Slots` are disjoint), so
  the set of carriers loses one element when it gains one; a cycle that ends only loses one.  A job
  is carried twice only when it was stalled, which takes a fault (`StalledByFault`).
  Cardinalities mean something because the carriers stay finite (`CarrierInv`), though neither
  job ids nor slots need be.
* *`Execution!IInv`.*  A run's counts are those of its rows because the
  current intent has no row yet (`CurrentIntents`), later ones have neither
  row nor swap (`IntentsNotBegun`), rounds hold only rows that have a hash
  (`BatchesHashed`) and so never turn a refused row into another; the counters then
  follow the rows one by one (`CountsMatch`, by cardinality of a set that gains one
  element: lemma `OneMoreRow`) and a closed run repeats them (`RunsReport`).
* *`SwapsRecorded`.*  Without faults and deletions the only way to the catch block is before a
  swap is accepted, so a swap without a row is one that its cycle is about to record (`NoSwapOnFailure`).
* *`Implementation`.*  The ledger's `chain` is the receipt of each swap.  That an intent
  is swapped once and never after its refusal is `CurrentIntents`; that a row settles once and by
  what was mined is `BatchesHashed` with `RowsAgreeWithChain`; and that a swap is called
  refused only if `Misreports` needs one thing more: a swap whose cycle is in
  its catch block was lost to a failed query, a lost answer or the deletion (`CatchesExplained`).
  Nonces, approvals and batches are stutters, or displace swaps of their wallet.
* *`Trading!IInv`.*  `SpendsWithin` follows the amount, `FloorsFromBuild` the minimum output,
  `QuotesFresh` the quotes as long as the pool has not moved since the intent began, and
  `TurnsFollow` the turn: the intents to come alternate, and the next is a purchase when as many of
  each side have begun.  `DeepSwapsRefused` then is arithmetic, for all reserves and
  amounts (`ShallowKeepsPrice`): an estimate of at most 15 % means an output above 84.99 % of the
  marginal one; a hundredth of the amount quotes at most one unit below its share; and
  one unit in a hundred still leaves five sixths.  The cap's doubles enter `SwapsAsConfigured` as the
  `Slack` of the amount and of the limit, for any `Precision`.
* *`TradeLimits!IInv`.*  Nobody who still has a limit to write for a trader outside
  `unsettled` holds another amount (`StaleReader`); a request whose decisions do not
  overlap has one handler about it, which finds it as it left it (`OneDecision`).
* *`Accounts!IInv`.*  `Remembered`: versions only grow, the revoked ones are behind, a count
  taken while there was nobody is zero.  `RolesRemembered`: who counted nobody is entitled once there is
  an account, and a demotion that counted two or more still knows how many there are, as long as nothing
  has crossed it; so of two or more it takes one.
* *`WalletKeys!IInv`.*  `HandsAgree`: before there is a key no wallet is encrypted with one, and
  whoever has asked has the user's key in hand, unless two first uses raced (`forked`).
* *`Session`.*  `OneRefresh` needs only that the flight waited for is under way.
  `RefusedWithReason` needs `TokensFollow`: cookies come in pairs and of no version to
  come (`CookiesPaired`, `AnswersSound`), and a query that is not excused is
  accepted once it is retried (`QueriesFresh`).
* *`Holdings!IInv`.*  The load that holds the number is of the store's account (`LoadsAgree`), and
  the store has what the effects have seen (`StoreFollows`).
* *`Pages!PagesInv`.*  Content that is behind the user's changes is being queried anew, or some mutation
  has not yet invalidated its key; and what a query in flight brings is behind only in the
  second case (`NotForgotten`).  A mutation owes a key from its write to the batch of
  invalidations the key is in (`Owing`, `Owed`).  It rests on the table of pages: what a
  mutation tells to be invalidated covers whatever its page shows of what it
  writes (`TraderPagesCover`, `AdminPagesCover`, by cases over the pages and mutations of the code, but for `Untold`).
* *`PriceCheck!PriceInv`.*  A call under way asks the current question, or the timer that will replace it runs (`CallsAgree`).

Every safety and action property of the runs is stated by one of these theorems.  Only
model-checked is liveness, which the prover does not treat: `InactiveBotDrains`,
the fairness part of `ImplementsGate`, `RunsEnd`, `MinedSwapsSettle`,
`LimitsFollow`, `LegacyMigrated`, `PriceCatchesUp`, `CallsSettle`, `LoadingEnds`, `OwnChangesArrive`.
Induction over data and recursive operators are out of the prover's reach; nothing here needs
them.  About `PriceRoutes` by itself nothing is proved: what `PriceCheck` promises
of answers holds whatever they say.

## 7. Where documents, code and expectations disagree

Met while modelling.  Models and properties follow the code; where a property has an exception
for one of these, it names it (`raced`, `unsettled`, `overlapped`, `unguarded`, `forked`, `excused`, `unclosed`, `Untold`).
`DOC` is `src/cursor-prompt-dex-platform.md`.

Lifecycle and execution:

* DOC:386, "On bot pause/stop: remove the repeatable job": a cycle in flight registers its successor
  after the cancel (`execution.worker.ts:275`).  What holds is `InactiveBotDrains`.
* DOC:434, "start ... register scheduler job": while the first job still runs, its id cannot be
  removed and `add` does nothing (`scheduler.service.ts:29`); if that cycle saw the bot stopped, the bot ends up active without a job.
* DOC:384, one job per bot: following runs have ids of their own (`scheduler.service.ts:66`), so a stop and a
  start during a cycle give two chains.  What holds is `OnlyRequestsFork`.
* `bot.controller.ts:248`, "Stop the bot before deleting": a start between check and delete lets an active bot be deleted.
* DOC:373, "Persist Transaction doc with status 'submitted' and txHash": if the bot is deleted while
  its swap is broadcast, no row can be inserted.
* `dailyNotionalUSD` is compared with its cap and reset daily, and no code increases it.
* An update checks a status it does not write to (`bot.controller.ts:120`), so an active bot can be
  edited; two updates, of DEX and of version, can together leave a pair (`uniswap`, `v3`) whose cycles throw.
* `activeBotCount` is never increased, so the guard on it in `deleteWallet` never applies.

Trading:

* The impact estimate compares integers: a small quote of zero, or an amount of at most 100 wei, passes
  unjudged, and with a small quote below about fifty units rounding lets swaps deeper than a
  sixth through.  Hence the premise `Telling` of `ImpactBounded`.  It is judged on two quotes that may be
  of different blocks, hence the premise that the pool stood still.
* The quoted price recorded is that of the first quote, the minimum output that of the last.
* A volume cycle passes the turn on from a wallet whose side is disabled; a `smooth_buy` bot
  with only sales enabled never trades, though form and API accept it.
* The cap is computed in doubles: an amount a few wei above the limit counts as the limit and passes uncapped, so
  what `SwapsAsConfigured` promises is the limit to one part in 2^51.
* The cap applies to purchases in WBNB only; `maxGweiOverride` is not applied to EIP-1559 fees.

Limits, accounts and keys:

* An approval writes the amount of the request, also when an override has raised the limit above it meanwhile.
* Two submits of a trader can both find no pending request.  A failed query in a sync is an unhandled
  rejection that ends the process (`Crash`).
* DOC:521 requires the second factor on import, start and stop; `requireTotpForAction` is used on no route.
* `userKey.ts:9`, "single stable secret": two first uses both generate one, and what was encrypted
  with the one that lost cannot be decrypted (`forked`).
* The re-encrypt script writes new user keys in a dry run, too.
* Deactivation does not count administrators as demotion does, so the last one can be deactivated, and
  `users.controller.ts:127`, "Cannot demote the last admin", holds of demotions that do not cross (`unguarded`).

Browser:

* `checkAuth` answers 200 without a user once the access cookie has expired, so a reload signs out
  although the refresh token is valid; a refresh answered after a logout brings the cookies back; a check in flight
  at logout sets the user again; signing out on the settings page empties another store than the one with the user.
* "Generate QR" on the settings page switches the second factor off at once (`auth.controller.ts:107`) and
  invalidates nothing (`Settings.tsx:38`): the page goes on saying `enabled` until something else queries the
  account.  It is the one exception of `OwnChangesShow` and `OwnChangesArrive` (`Untold`).
* A refresh that fails for whatever reason, a lost connection or a failed query of the server included, rejects
  the calls that wait for it with their 401; the server then even clears the cookies of a valid session
  (`auth.controller.ts:158`).
* An error of the node is taken for a missing pool: the price panel may say "not listed", or a worse route's price,
  until the next poll.
* The aborted price call switches off the spinner of the one that replaced it; the price of the old pair stays until it is replaced.
* A disconnection that fails leaves the holdings loading (`unclosed`); a failed load keeps the list there was, with its error.
* A confirmation left over from another page invalidates the keys of its own page only; an invalidation during a first
  load joins it, and may keep what it brings (`excused`).
* The confirmation worker always runs apart from the API, so the events it emits reach no page.
* A V3 price is always quoted on PancakeSwap, whatever DEX is asked for, and comes from the first fee tier that answers, not the best.

## 8. What is not modelled

* Notifications: sockets, Telegram and audit entries are output; no state depends on them
  (an audit entry that fails is a failing call in `Accounts`).
* Accounts: profile, passwords and one-time codes themselves, rate limits, and sockets, which are
  authenticated once and never closed.
* Inside the cycle: `dailyNotionalUSD` has no behaviour to check; the skip it would cause is part of `Skip`.
* Calldata and ABI encoding, fees of pools, gas prices: what they come to is a choice of `Trading`.
* Analytics, logs, statistics: they aggregate and change nothing; `Pages` has them as queries over facts.
* Rendering and form validation in the browser; the live feed of transactions, which the next fetch replaces;
  the token search of `BaseTokenSelector`; the polled BNB price beside the limits, which no mutation changes.
* Mappers, which copy fields, and the deployment files, which only justify the replicas.
