# Verification of robinhood-go

TLA+ models of the trading service in `src/`, checked with TLC, and theorems
about them, proved with TLAPS. Go file names below are relative to `src/`.
`PROJECT.json` maps every definition to the lines it stands for, and lists the
runs, the mutants, the findings and the hazards.

## 1. The system

One process (`cmd/server/main.go`) serves an HTTP API, listens to a Robinhood
chain node by websocket, and trades for its users on Pons curves and Uniswap
V4 pools. PostgreSQL holds everything that survives a restart.

| Component | State | Operations | Talks to |
|---|---|---|---|
| **Position trading engine** `internal/strategy/engine.go` | tables `strategy_positions`, `_pending_buys`, `_buy_attempts`, `_pending_actions`, `_sell_failures`, `_events`, `monitor_records`; in memory a mutex per user and token, the ownership cache | `Process` (decide, mark, broadcast, record), `applyOwnFill`, `Tick` (expiry of sells and buys, scheduled sells, polling), `preloadOwnTransactionCache` | node (balances, broadcast, receipts), store, pipeline |
| **Strategy decision** `evaluate`, `strategy/config.go` | none: a function of configuration, price, position | which rule fires, which amount | engine |
| **Event pipeline** `chain/rpc.go`, `Engine.Run`, `api/events.go` | ingress queue, strategy channel, a queue and a backlog per shard, counters | `Subscribe`, `publishEvent`, dispatcher, `enqueue`, `drain`, workers | node, engine, API subscribers |
| **Block poller** `pollCurves`, `pollV4Pools` | cursors in memory | reads the logs of new blocks again and calls `Process` | node, engine |
| **Wallets** `chain/trading.go` | per wallet a mutex and a nonce cursor; approval mutexes and cache | `reserveNonce`, `invalidateNonce`, every sender, `waitReceipt`, approvals, replacement | node, engine, API |
| **Execute workflow** `api/execute.go`, `store/execute.go` | tables `execute_lines`, `_batches`, `_wallets`, `_tokens`; `executeMu`; the coins of the keys | 14 routes that create, fund, trade, replace, sweep and delete wallets | wallets, node, store |
| **Monitor cache and routes** `refreshMonitorCache`, `api/api.go`, `api/routes.go` | tables `monitor_users`, `_tokens`, `_routes`; a copy in memory, for ten seconds | requests of the operator, hourly refresh, load, invalidation, cached readers | engine, API, AVE |
| **AVE access** `api/ave.go` | the token AVE wants, in `ave_configs` | requests with one retry, refresh under a mutex, price refresh, updates by the operator | AVE, store |
| **Position ledger** `applyOwnFill`, `api/ave_sync.go` | amount, quote, cost, average, counters, clocks of a position | a fill, the dust check, the wallet synchronisation | engine, AVE |
| **Codecs** `chain/events.go`, `pons.go`, `uniswap.go`, `crypto`, `httpx`, `config` | none | pure | all |

What is hard here, and what correctness means:

* *Two goroutines on the rows of one position.* A shard worker and the ticker
  both handle the position, and only `Process` takes the mutex. Correct: one
  sell in flight, no token counted twice, no older row written back, no schedule
  on an empty position.
* *Events delivered twice or not at all*, by websocket and poller. Correct: one
  event, one transaction; every fill is accounted.
* *Transactions of unknown fate*: answers lost, buys replaced, receipts late,
  rows expired. Correct: one replacement per nonce; rows that can no longer
  resolve do not block the position for ever; a pending row never names a buy
  that is filled.
* *Restarts.* Ownership is rebuilt from the tables, cursors are lost.
* *Bounded queues and a hung worker.* Correct: order per pool, other shards go
  on, nothing disappears uncounted, the poller makes up for what is dropped.
* *One nonce cursor for trades, transfers and approvals.* Correct: no nonce
  used twice or skipped; no deadlock of the two mutexes.
* *Copies that grow old.* The engine decides with a cache, the hourly refresh
  writes back rows it read before two calls of AVE, the price refresh a token it
  read before its request. Correct: once a write is announced the cache is the
  database; no old routes in a new cache; a token of the operator stays.
* *Two writers of the ledger.* Fills and the wallet synchronisation both set amount
  and cost. Correct: what fills leave is what was paid for it; when trading
  pauses, the row is what the wallet holds.
* *Keys that exist in one row only.* The execute workflow generates keys and
  moves coins to them before or after it stores them. Correct: a key that holds
  coins is never forgotten.

## 2. Modules and plan

| # | Module | Models | Status |
|---|---|---|---|
| 1 | `TradeLifecycle`, `MCTradeLifecycle` | engine: one user, token and pool; worker, ticker, tables, chain | done |
| 1p | `TradeLifecycleProofs` | theorems about 1: the type invariant, seven safety invariants, an action property | done |
| 2 | `WalletNonce`, `MCWalletNonce`, `WalletNonceProofs` | one wallet's nonces, approvals, mutexes | done |
| 3 | `EventPipeline`, `MCEventPipeline`, `EventPipelineProofs` | from the log to `Process`; poller; the refinement of 3a | done |
| 3a | `OrderedFeed` | the abstract promise of the pipeline; its theorem is in `EventPipelineProofs` | done |
| 4 | `ExecuteFunds`, `MCExecuteFunds`, `ExecuteFundsProofs` | keys and coins of an execute line | done |
| 5 | `StrategyRules` | `Parse`, `RuleWithIndex`, `evaluate`, as operators | done |
| 6 | `PositionLedger`, `MCPositionLedger`, `PositionLedgerProofs` | what decisions, fills and the wallet synchronisation make of a position; extends 5 | done |
| 7 | `MonitorCache`, `MCMonitorCache`, `MonitorCacheProofs` | users, tokens, routes, their cache, the hourly refresh | done |
| 8 | `AveAuth`, `AveAuthProofs` | the token for AVE and its refreshes | done |
| 9 | `Totals`, `FoldProofs` | the total of numbers over a finite set; what totals and folds over sequences compute, for 1p, 3 and 6 | done |
| 10 | proofs | every safety property of a passing run: see sections 10 and 11 | done |

Composition: `EventPipeline` says which events reach `Process`, how often and in
which order; `TradeLifecycle` takes any such delivery (each event from either
source, or both, or neither) and says what `Process` does with it.
`WalletNonce` says what a broadcast means to the wallet; `TradeLifecycle` and
`ExecuteFunds` keep of it that transactions of a wallet are ordered and that a
replacement shares the nonce. `OrderedFeed` is the abstract specification of
the pipeline, instantiated with a refinement mapping in `EventPipeline`.
`StrategyRules` is what `TradeLifecycle` abstracts to the set of rules a price
satisfies; `PositionLedger` decides with it, and takes from `TradeLifecycle` that
each fill is accounted once. `MonitorCache` says which switches and routes a
decision reads; `AveAuth` says how a call of AVE, which the two refreshes make,
comes by its token.

## 3. TradeLifecycle

Variables are the rows (`position`, `buyRow`, `attempts`, `actions`, `failures`,
`recorded`, `late`, `seen`), the memory (`own`, `lock`, `pc`, `job`, `phase`, `todo`),
the two sources of events (`heard`, `polled`) and the chain (`tx`, `nextNonce`,
`wallet`). `late` is history, which the order of the ids in `monitor_records` tells: the
buys accounted after a sell that the chain placed behind them. An action is one statement or transaction of the database, or one
call of the node; `job[t]` holds what the goroutine has read, so that stale
values are used as the code uses them.

| Code | Actions |
|---|---|
| `processDecoded`, `processForMonitors` | `Hear`, `Arrive` (with `CachedOwn`, `KnownInDatabase`: whether the trade is recognised as own) |
| `Process` | `Decide`, `Preflight`, `ClearUntradeable`, `MarkStrategyEvent`, `SaveCooldown` |
| `executeLive` | `PersistPendingBuy`, `Broadcast`, `UpdatePendingBroadcast` |
| `savePendingAction` | `SavePendingAction`, `SaveFilledSell`, `InsertPendingAction` |
| `applyOwnFill` | `ApplyOwnFill` (one transaction: record, position, pending rows) |
| failure | `RecordSellFailure`, `ReadWalletAfterFailure`, `ResetPosition` |
| `expirePendingSells`, `expirePendingBuys` | `SelectExpired`, `ExpirePendingAction`, `ExpireDone`, `SelectExpiredBuy`, `DeleteExpiredBuy` |
| `checkScheduled` | `SelectDue`, `ClaimDue` |
| `pollCurves`, `pollV4Pools` | `Poll`, `PollEvent`, `PollDone` |
| environment | `Elapse` (ages of rows, schedule), `Mine` (or revert), `Crash` |

Amounts are small units of tokens. `Wants[e]` is the rule that the price of
event `e` satisfies; `evaluate` decides whether the position allows it. A fault
is a failed call, a revert or a crash, and costs one of `MaxFaults`.

Runs (each takes one to three minutes):

* `trade_sells` - a curve position with a buy, a profit signal and an external
  buy with its cooldown; three hashes, one fault. `OneInFlightSell`,
  `NoPhantomTokens`, `PositionFollowsFills`. Three hashes are a buy and two
  sells, the fewest that can violate the first; one fault is enough for a lost
  answer followed by a poll. `ScheduledSell` is off: with it all three
  fail, which `Trade_v_one_sell.cfg` and `Trade_v_lost_write.cfg` show (a
  write that undoes a fill brings its tokens back); it
  is a hypothesis of their theorems, too. `PositionFollowsFills` lets a write put
  an amount over an empty position, which the reconciliation of an expired sell
  leads to: section 12.
* `trade_buys` - Uniswap V4, three buy signals: an original, its replacement,
  and the buy after them. `BoundedReplacement`, `NoStaleReplacementCandidate`.
  No faults, but buys may revert and expire without one, and `LowValue` lets
  fills be taken for foreign trades.
* `trade_rounds` - one event that both sources deliver, a scheduled full exit,
  one fault, under fairness: `TypeOK`, `EventSubmittedOnce`,
  `PendingTradesRecognised`, `NoOrphanSchedule`, and the liveness properties
  `EveryBuyAccounted`, `StaleActionResolved`, `UnsentBuyResolved`. The pool is a
  curve here, whose ownership check is the cache alone; that the cache is
  complete after a restart for V4 too is theorem `PendingRecognised`.
* `Trade_late.cfg`, by hand, passes - two buys and a stop loss, so that a sell can
  overtake a buy, which one buy cannot show: `NoPhantomTokens` again.
  Nothing fails there: a fill that only the poller delivers needs no fault, since
  `Hear` need never happen. 1.6 million states, searched in full.
* `Trade_v_one_sell.cfg`, `Trade_v_lost_write.cfg`, `Trade_v_schedule_retry.cfg`,
  `Trade_v_chain_order.cfg` are run by hand: promises of comments and of the documents
  the code does not keep; see section 12.

Fairness: both goroutines go on (`WF` of a step of `Process` and of the
ticker: calls of the database and the node return or time out, and nothing
waits but for the mutex, whose holder goes on), the clock advances (`WF` of
`Elapse(FALSE)`), and ninety seconds at some point pass while the position is
quiet (`SF` of `Elapse(TRUE)`, the timeout of pending rows). Mining and
delivery have none: the chain may be silent, the websocket down for ever.

## 4. EventPipeline and OrderedFeed

Queues are sequences, a block is one swap. `PublishEvent` drops when the
ingress queue is full; `Carry`/`Deliver` are the dispatcher, which blocks;
`Receive` is `Run` taking an event, with `Enqueued` and then `Drained`; `Drain`
is its ticker; `Take`/`Finish` are a worker; `Bridge` is the subscriber of the
API; `PollStart`/`PollEvent`/`PollEnd` are the poller; `Disconnect` makes the
reader miss logs; `Restart` empties memory. `enqueue` and the drain that follows
it are one step, since nothing but the worker can act between them and its
receive commutes with it; a counter is incremented with the send it counts. The
backlog limit is looked at before the drain, so an event can be dropped while the
queue has room: the model keeps this order. The strategy filter
(`SetStrategyFilter`) only removes logs before the ingress queue and is left out.

* `pipe_path` - two shards with backlogs, a missed log, a restart; five blocks,
  which overflow every queue. `FeedImplemented` (the refinement) and
  `MetricsAccountForEvents`. `PathSpec` leaves the poller out; it shares no
  variable with the path.
* `pipe_live` - worker `w1` may hang for ever; logs are missed, `Process` and
  the refresh of the monitor cache fail. `TypeOK`, `OtherShardsGoOn`,
  `EveryBlockTried`. Three blocks and queues of one: the hung shard is full after
  one event.

Fairness: weak, of each goroutine but the hung workers and the reader. A
queue that is full is no reason to wait upstream, so weak fairness suffices;
that it does is what `OtherShardsGoOn` says.

`EveryBlockTried` is about blocks above the cursor. Two limits of the code are
therefore outside of it: the first round after a start begins two blocks below
the head (`engine.go:3281`), and a `Process` that returned an error is not tried
again, since the error is logged and dropped (`engine.go:548`) and the cursor moves on.

## 5. WalletNonce

One wallet. `Callers` are goroutines with the kinds of calls they make;
`LockApproval`, `LockWallet`, `ReserveNonce`, `Price`, `SendRaw`, `WaitReceipt`,
`StoreApproval` are the steps of `BroadcastV4`, `Swap`, `sendNative`,
`PrepareV4SellApproval` and their kin, which differ in what they lock and whether
they wait inside the mutex (`AllCalls`). `pool`/`tx` are the node: it accepts a
transaction by nonce and fee, may lose its answer, mine, revert or evict it.

* `nonce_calls` - a shard that buys, replaces and approves beside a request
  that transfers and swaps; two hashes, two fees (a replacement must raise
  the fee), evictions, restart. `TypeOK`, `FreshUnlessReplaced`, `NoNonceGap`,
  `ApprovalIsMined`, `CallsReturn`. Two callers are all a mutex and a cursor
  need to race; two hashes are a sell's two approvals, or a buy and its
  replacement.
* `Nonce_v_explicit.cfg`, by hand - without the condition "not replaced",
  `FreshNonceFree` fails: three hashes, see section 12.

`FreshUnlessReplaced` and `NoNonceGap` are conditional on the node not having
dropped a pooled transaction: nothing in the code looks for that.
Fairness: weak of the steps of a call, strong of taking a mutex, since a mutex
of Go (which hands over after a millisecond of starvation) is obtained
eventually by a goroutine that finds it free again and again. `waitReceipt` has
a deadline of its own, so it returns whatever the node does.

## 6. ExecuteFunds

`line`, `batches`, `wallets` are the tables, `native` and `tokens` the balances,
`pool` the unmined transactions of each key, `mutex` is `executeMu`, `pc`/`job`
the requests being served. Keys are numbered in the order in which they are
generated. `Gas`, the fee, is the unit of the coin. `Init` is the state after
the first `generateWallets` and `checkToken` of a line with one entry in
`walletConfig`; the configuration then has `WalletCount` entries.

| Code | Actions |
|---|---|
| `executeAddLine`, `executeLineUpdate` | `AddLine`, `AddBatch`, `ImportBoss` |
| `executeDeleteLine` | `DeleteLine`, `CheckEmpty`, `DeleteRows` |
| `executeAutoSwap` | `AutoSwap`, `UpsertLine` |
| `executeStart` | `Start`, `ReadActiveBatch`, `CheckSwept`, `ChooseBoss`, `Sweep`, `Awaited`, `SetExecuteLineBoss`, `NewBatch` |
| `executeGenerateWallets` | `GenerateWallets`, `GenerateWallet`, `FundWallet`, `Awaited` |
| `executeNextWallet` | `NextWallet`, `ReplaceWallet`, `Sweep`, `Awaited`, `InsertWallet`, `DeactivateWallet` |
| `executeEnd` | `End`, `Recycle`, `Sweep`, `Awaited`, `Recheck` |
| `executeWithdraw` | `Withdraw`, `Sweep`, `Awaited` |
| `executeCheckToken`, `executeDeleteToken` | `CheckToken`, `TrackToken`, `DeleteToken` |
| `executeBuyData`, `executeSellData` | `Trade`, `ExecuteTrade`, `UpdateTokenStatus` |
| environment | `Mine`, `Fail` (any step of any handler), `Crash` |

A handler that begins with `executeMu` starts when it has it; only `start` reads
before. `updateWithdrawAddress`, and `updateLineData` without a key, write the boss
they read under the mutex and change nothing the model holds. The upsert of
a token takes the status of the row as it is then, so `TrackToken` is one step.

* `funds_line` - any four requests, two at a time, six keys, two faults.
  `TypeOK`, `KeysKept`, `OneActiveWallet`, `EndLeavesDust`, `DeletedEmpty`. Four
  requests reach a second batch with replaced wallets and a deletion; the coins
  are few enough that a boss can run out, and enough to fund both wallets. It
  was also run with five requests, five keys and one fault.
  `CHECK_DEADLOCK FALSE`: the requests are bounded, so the model stops.
* `funds_v_forgotten` - `StoredKeysKept` fails: section 12.

`KeysKept` and `OneActiveWallet` hold of behaviours without a failure, with all
interleavings of the handlers that take the mutex and of those that do not.
With a failure they do not hold and the code does not try: `nextWallet` sends
the coins before it stores the key, and inserts before it deactivates. The run
`funds_v_forgotten` and the hazards say so. `EndLeavesDust` and `DeletedEmpty`
hold with failures as well; both exempt a wallet that was paid, from outside of the
mutex, after the request began.

## 7. StrategyRules and PositionLedger

`StrategyRules` has no state. `Parse` gives absent fields their default (the
switches of the nested sections are off unless given), replaces negative numbers,
filters and sorts levels and sorts rules; `RuleWithIndex` selects a rule;
`Evaluate` is `evaluate`, with `Buying` for a sell of the market and `Selling` for a
buy, whose branches are in the order of the code. Amounts and prices are
integers, ratios per cent, and an average is the pair cost over tokens, so
comparisons are exact where the code has floating point. A nested `enabled` that is
JSON `null`, which the code takes for true, is not a value of the model.

`PositionLedger` is one position with these rules. `row` is
`strategy_positions`, `records` is `monitor_records`, `waiting` the clocks the
rules compare (`TimePasses` lets one run out), `sent` the broadcast trades,
`mined` the fills to be accounted, `ave` the answer that the synchronisation
holds between its request and its transaction.

| Code | Actions |
|---|---|
| `Process`, `evaluate` | `Buy`, `Sell` (with `Eligible`, `Decision`; a pending trade of the side stops it) |
| `prepareSellBalance`, `clearUntradeablePosition` | `Dust`, `ClearRow`, in `Sell` and `ScheduledSell` |
| `checkScheduled` | `ScheduledSell` |
| `applyOwnFill`, `reconstructQuoteSpent` | `Fill` (`Bought`, `Sold`, `OldQuote`, `OldCost`, `ClocksAfter`) |
| `refreshAveWalletPositions`, `syncAveWalletToken` | `AveAnswers`, `AveWrites` (`Synced`) |
| environment | `Mine`, `Drop` (reverted, dropped, cleaned up) |

Trades are prompt here: one of a side is on its way, and it is accounted before a
timeout gives it up, or never mined; late, replaced and lost trades are
`TradeLifecycle`'s. The wallet trades in this token only through the strategy, and
buys one whole token at least. `ConfigAssumption` says
that stored numbers are integers, negative ones included, and stored lists are lists
of rules and of levels. `SortedBy` places each element by the number of those that
come before it, which is what a stable sort does in whatever steps.

* `ledger_fills` - two configurations (a profit ladder given out of order
  with a stop loss; external buys and a schedule), both with a full exit at the
  second sell and at most two buys below the first price; prices 1 and 2; one answer
  of AVE that is behind. Three trades: a buy, and two more of any kind, which
  are the fewest that reach the second sell, the add-on that is refused, and a
  sell after two buys. A buy for 5 dollars at a price of 2 leaves a remainder, so
  prices that are paid, and shares that are sold, do not divide. `LedgerAccounts`, `NthSellEmpties`, `LossBuysBounded` are
  stated of rows that only fills wrote; `SyncHeals` of all. `NthSellEmpties` is
  stated of a count above one: section 12.
  `CHECK_DEADLOCK FALSE`: the trades are bounded.
* `ledger_v_average` - `AverageIsPaid` fails: section 12.

Fairness: every trade is mined or dropped and its fill accounted (what
`TradeLifecycle` checks as `EveryBuyAccounted`), the synchronisation runs every
minute and writes what it was answered, and AVE catches up with the chain. It
is asked to hide what is sold and what is small, so no answer is owed for dust: a
row that still claims tokens which the wallet has no more of stays until the
balance check of the next sell (`SyncHeals` excuses a wallet below `MinBalance`).

## 8. MonitorCache

`user`, `token`, `routes` are the tables; every user has one token. `req` is
where each request of the operator is, `refreshMu` and `refresh` the hourly job
or `syncTokens` under `aveRefreshMu`; `timed`, `aged`, `cached`, `targets`,
`routeCache` are the cache (`monitorAt` is only ever compared, so a time is "none",
"fresh" or "aged"); `loadMu` and `snap` a load; `worker` the goroutines that
handle events.

| Code | Actions |
|---|---|
| `userUpdate`, `userDelete` | `StartUpdateUser`, `StartNewUser`, `WriteUser`, `DeleteUser` |
| `tokenAdd`, `setToken`, `tokenDelete` | `StartAddToken`, `AddToken`, `SetToken`, `DeleteToken` |
| `startAve` | `StartAve`, `Discover`, `GiveUp`, `SaveRoutes` |
| `routeSave`, `routeDelete`, `persistDiscoveredRoute` | `StartSaveRoute`, `SaveRoutes`, `SaveFails`, `DeleteRoute` |
| `syncTokens`, `refreshMonitorTokenData`, `syncMonitorToken` | `StartSyncTokens`, `SyncReadTokens`, `SyncLock`, `JobStart`, `JobReadTokens`, `WriteBack`, `AveFails`, `RefreshEnds` |
| `invalidateCache`, `InvalidateMonitorCache` | `Invalidate` |
| `refreshMonitorCache` | `NoLoad`, `LoadUsers`, `LoadTokens`, `Install`, `LoadFails` |
| `processForMonitors`, `cachedUser`, `cachedTokenEnabled`, `cachedRoutes` | `Event`, `ReadTargets`, `ReadUser`, `ReadEnabled`, `ReadRoutes`, `QueryRoutes`, `StoreRoutes` |

* `monitor_cache` - any two requests, a worker, the ticker that keeps the
  cache loaded, and one of: the hourly job, ten seconds, a failing statement
  (`MaxHappenings`). `TypeOK`, `CoherentUnlessOverlapped`,
  `RoutesNotOlderThanLoad`, `BuyRouteHasSellRoute`, `KeyOfWallet`. Two requests
  and one load are all an overlap needs; the second goroutine is the one that loads
  between a query and its store. One user: the rows of several are independent
  but for their ids. The requests are exchangeable, so they are a symmetry set.
  `CHECK_DEADLOCK FALSE`: the requests end.

Two things the properties excuse, because the code does not prevent them. A write
that overlaps a load: the load installs what it read before, and the
invalidation came too early, so a switch the operator turned is seen up to ten
seconds late, where the comment of `InvalidateMonitorCache` (`engine.go:247`)
says that the next event observes it. And requests of the row of one user that
overlap (`UserRequestsOverlap`): see section 12. A user is updated without a wallet
or key of his own in the request.

## 9. AveAuth

`stored` is `x_auth`, `env` is `AVE_X_AUTH`, `valid` what AVE accepts, `at` and
`auth` each goroutine and its token, `mutex` is `aveAuthMu`. `Start`,
`Request`, `Lock` (with the second look), `Ask`, `Save`, `Retry` are `aveJSON`
and `refreshAveAuth`; `Price` is the goroutine of `refreshAveEthUSDPrice`,
which ends with `Write`; `Update` is the operator; `Fail` is an error or a
timeout at any point, `Restart` loses what is in memory, `Expire` is AVE.

* `ave_auth` - two callers, the price refresh, two refused tokens, one update,
  one fault. `OneTokenPerExpiry`, `OperatorTokenKept`, `StoredTokenHeals`. Two
  callers are rejected together; with the price refresh a third waits. Deadlock
  is checked.

The price refresh writes the token it read before its request back without the
mutex, so it undoes a token that was refreshed or stored meanwhile. Then
concurrent requests do obtain a second token, against `README.md:51` (concurrent
requests of a process reuse the refreshed token): `OneTokenPerExpiry` counts
such writes (`undone`), without which it fails, and `OperatorTokenKept` is
stated before the first. `StoredTokenHeals` says that it does not matter for
ever. `AVE_VISITOR_ID` is configured and no captcha asked for; without them
`refreshAveAuth` always fails. The one price goroutine stands for the ticker; the
refresh at the start overlaps it only when it takes longer than a minute.

Fairness: calls return or time out (both have timeouts), the ticker goes on,
and strong fairness of taking the mutex, as in section 5.

## 10. Proofs

A theorem holds for every value of the constants that the `ASSUME` of its module
allows, and so for any number of events, hashes, keys, callers, shards, faults and
restarts. The assumptions are types and bounds, that things of different kinds
differ (a hash is no event), and that amounts are positive. TLC evaluates all of them in the runs.

| Theorem | Statement, `Spec =>` | Inductive invariant, beside the types |
|---|---|---|
| **`TradeLifecycleProofs`** | | |
| `TypeCorrect` | `[]TypeOK` | `LocalsOK` |
| `SubmittedOnce` | `[]EventSubmittedOnce` | `OnceInv` |
| `PendingRecognised` | `[]PendingTradesRecognised` | itself |
| `NoStaleCandidate` | `[]NoStaleReplacementCandidate` | `StaleInv` |
| `NoOrphanScheduleEver` | `[]NoOrphanSchedule` | `OrphanInv` |
| `TwoBidsPerNonce` | `[]BoundedReplacement` | `BuySteps`, `BidInv` |
| `OneSellInFlight` | `[]OneInFlightSell`, if `~ScheduledSell` | `UnderMutex`, `BuySteps`, `SellInv` |
| `FollowsFills` | `PositionFollowsFills`, if `~ScheduledSell` | `UnderMutex`, `FollowInv` |
| `NoPhantoms` | `[]NoPhantomTokens`, if `~ScheduledSell` | `UnderMutex`, `FollowInv`, `PhantomInv` |
| **`WalletNonceProofs`** | | |
| `TypeCorrect` | `[]TypeOK` | itself |
| `GapFree` | `[]NoNonceGap` | `MutexHeld`, `Unsent`, `NonceInv` |
| `FreshIsFree` | `[]FreshUnlessReplaced` | the same |
| `ApprovedOnlyMined` | `[]ApprovalIsMined` | `ApprovalInv` |
| **`EventPipelineProofs`** | | |
| `TypeCorrect` | `[]TypeOK` | `PipeInv` |
| `FeedCorrect` | `FeedImplemented`, that is, `OrderedFeed!Spec` | `PipeInv` |
| `MetricsAlwaysAccount` | `[]MetricsAccountForEvents` | `PipeInv`, itself |
| `FeedInOrder` | `[]PendingIsNewer`, of `OrderedFeed` | `FeedInv` |
| `TakenInOrder` | `[]PendingIsNewer` of the feed the pipeline implements | `FeedCorrect`, `FeedInOrder` |
| **`ExecuteFundsProofs`** | | |
| `TypeCorrect` | `[]TypeOK` | `TypeInv` |
| `OneActive` | `[]OneActiveWallet` | `KeyUse`, `ActiveOnce` |
| `DeletedLinesEmpty` | `DeletedEmpty` | `EmptySoFar` |
| `EndSweeps` | `EndLeavesDust` | `DustSoFar` |
| `KeysNotLost` | `[]KeysKept` | `KeyUse`, `FundsInv` |
| **`PositionLedgerProofs`** | | |
| `ParseOrders` | not of `Spec`: rules and levels of every parsed configuration | |
| `NthSellEmptiesAlways` | `[]NthSellEmpties` | `Apart`, `LedgerInv` |
| `LossBuysAlwaysBounded` | `[]LossBuysBounded` | the same |
| `RowIsHeld` | the row claims at most what the wallet holds | the same |
| `TypesAlways` | `[]TypeOK` | `BooksInv`: these, `Small`, `Money`, `Rungs`, `Accounted` |
| `AccountsAlways` | `[]LedgerAccounts` | the same |
| **`MonitorCacheProofs`** | | |
| `TypeCorrect` | `[]TypeOK` | `TypeInv` |
| `CacheCoherent` | `[]CoherentUnlessOverlapped` | `CopiesInv` |
| `RoutesRecent` | `[]RoutesNotOlderThanLoad` | `RecentInv` |
| `RoutesInPairs` | `[]BuyRouteHasSellRoute` | `BothInv` |
| `KeysKept` | `[]KeyOfWallet`, if `~UserRequestsOverlap` | `KeyInv` |
| **`AveAuthProofs`** | | |
| `TokensShared` | `[]OneTokenPerExpiry` | `Locals`, `WithinBudget` |
| `OperatorKept` | `OperatorTokenKept` | `Locals`, `ReplacesRejected` |

Four theorems have a hypothesis on a switch of the model. Both values of it are
behaviours of the code; with the other value the property fails, and section 12
names the configuration that shows it.

The arguments:

* *Trades.* `LocalsOK` ties the program counter to the locals: after `Broadcast` a
  hash is in hand, a goroutine inside `Process` holds the mutex, an own event is a
  mined transaction. `OnceInv`: a goroutine between marking an event and the
  node's answer has it in `seen` and nothing was sent for it; the mark (a unique
  key in `strategy_events`) makes it inductive, not the mutex. `StaleInv`: a
  goroutine about to write a hash into the row holds one that is not recorded,
  because it holds the mutex that a fill needs. `OrphanInv`: the snapshots that
  are written back have no schedule without an amount, either.
* `BidInv`: while the row names a nonce and counts no replacement, one
  transaction bids for it; a buy about to be submitted over a pending row finds its
  count raised. Nothing ties the row to the mutex here: `persist` raises the
  count before the broadcast, and a row that the ticker deletes cannot
  come back with the same nonce.
* `SellInv`: while a worker is between its check and its save no sell
  of the position is pending and young. That is where the scheduler, which adds
  one without the mutex, breaks it. `FollowInv`: a copy of the row that is still
  to be written has the amount of the row, or the row was reset.
* `PhantomInv`: the amount of the row, or of a copy still to be written, and the
  buys that are due (mined, not accounted, no sell behind them accounted) are
  covered by the wallet, the sells not accounted yet and the late buys. A sell
  larger than the row is cut off; what is due after it follows it on the chain, and
  at every nonce the wallet had sold no more than it held (`Solvent`). `UnderMutex`
  and `FollowInv` keep the copies those of the row.
* *Nonces.* `NonceInv`: as long as the node dropped nothing, the nonces that the
  pool and the chain hold are an initial segment; all below a reserved nonce are
  held, all below the cursor are held or reserved by the one caller in flight;
  without a replacement by request the reserved one, or else the cursor, is free.
  `MutexHeld` makes that caller the only one.
* *Pipeline.* `PipeInv`: every queue ascends, what a stage holds is older than
  what the stages before it hold, and newer than what the worker took last. The
  refinement then maps a stage to the set of what is in flight: a drop loses an
  element, a worker takes the least one, everything between is a stutter. The counters: a step that
  moves an event leaves the total of the lengths of all queues, and one that
  drops or takes one lowers it by what a counter rises.
* *Execute.* `KeyUse`: keys of lines and keys of wallets are apart, and each is
  generated once. `FundsInv`, as long as nothing failed: a key that is not empty is
  known to a table or carried by the one request that generated it; every
  unmined transaction is waited for by its request; a key that waits for its coins
  is paid by nobody else; the line's own key is the boss of a batch or about to be.
  The last is what makes the stale write of `autoSwap` harmless: the boss it
  overwrites is a boss of a batch too.
* *Ledger.* `Apart`: at most one trade of a side is on its way.
  `LedgerInv`, of rows that only fills wrote: the wallet covers the row in whatever
  order the fills come; the sell on its way that reaches the count takes all the
  row has; a buy on its way below the first price finds the limit not reached.
  `Accounted`, of the same rows: a replay of the records gives the row, since it is a
  fold, and a fill appends one record and changes the row as the fold does; the
  average cost lies `Between` what two buys paid. A buy keeps it there as a
  weighted average does, with the least and the largest price after it chosen anew;
  a sell takes its share rounded down, which costs the rest less than a dollar.
  `Rungs`: a sell of take profit that is on its way still finds its rung there, whatever
  fills come first. `Money` types the numbers of the row. `ParseOrders` is what
  the decisions assume of a configuration: the position of an element of a sorted list
  is a bijection, by counting.
* *Cache.* `CopiesInv`: unless a write overlapped it, a load that runs
  holds the rows it read as they still are. `RecentInv`: a worker whose comparison of
  `monitorAt` will succeed read its routes after the load. `KeyInv`: the row that
  a request merges into is still the row of the user.
* *AVE.* `WithinBudget`: AVE was asked for no more tokens than were needed, less the
  one still owed when the current one is refused. `ReplacesRejected`: who saves
  a token replaces one that was refused while it held the mutex.

A proof of an invariant has one lemma for each group of steps that disturb it, and
a frame lemma for those that touch nothing it reads; the `...Typed` and `...Step`
lemmas say what a helper or a step does, and are cited by every invariant of the
module. Facts about sequences (the front, tail and append of an ascending queue, the
index of an element) are lemmas at the head of `EventPipelineProofs`,
`ExecuteFundsProofs` and `PositionLedgerProofs`.

`FoldProofs` says what `Totals` and folds compute. Both are recursive functions, about
which nothing can be proved without induction, and the induction rules of the library
take a predicate as parameter. `NumberInduction` and `SubsetInduction` are the
same rules stated of a set (of numbers that hold, of subsets that hold), from the
fact that each set of numbers has a least. From them follow that a recursive
function over the subsets of a finite set exists and is unique, that a total
changes by an element that is added, and that a fold over one record more is one
step more (`FoldsAppend`).

What proofs corrected, beside the properties of section 12: with no wallet
configured, the `index` of a wallet had a type with no value (`ExecuteFunds`); the
prices of a fill were typed as market prices (`PositionLedger`); and names that
were only implicitly distinct became assumptions (`MonitorCache`).

## 11. Only model-checked

Every safety property of a passing run is stated by a theorem of section 10. What
remains is checked by TLC on the instance of its run, and by nothing else. Each
property has a mutant of the modelled code that its run refutes.

* Liveness under fairness, which this prover does not reach: `EveryBuyAccounted`,
  `StaleActionResolved`, `UnsentBuyResolved`, `OtherShardsGoOn`,
  `EveryBlockTried`, `CallsReturn`, `SyncHeals`, `StoredTokenHeals`.
* What is refuted needs no proof: the properties of the violation runs.
## 12. What the checks found

Two runs end in a violation, and seven more configurations are run by hand
(`tlc -config X.cfg M`), each with one property that fails:

| Run or configuration, module | The code | What it says of itself |
|---|---|---|
| run `funds_v_forgotten` | `start` funds and stores the new boss in the line, then fails to insert the batch; the next change of the boss overwrites the only copy of the key | `docs/EXECUTE_WORKFLOW.md:81`: `start` keeps the history |
| run `ledger_v_average` | the wallet synchronisation writes AVE's average price into the total cost; the next buy adds its cost and divides by all tokens: six bought at 1, one more at 1, average 7/12 | `docs/STRATEGY_CONFIG.md:73`: a weighted average that only confirmed fills advance |
| `Trade_v_one_sell.cfg`, `MCTradeLifecycle` | the scheduler claims a slot without the mutex while `Process`, past its check, is about to broadcast: two sells in flight | `engine.go:1611` "A position may have only one in-flight sell" |
| `Trade_v_lost_write.cfg`, `MCTradeLifecycle` | `savePendingAction` writes back the position it loaded while a fill commits: the amount goes back | `README.md:66`: only own fills update the position |
| `Trade_v_schedule_retry.cfg`, `MCTradeLifecycle` | a failed scheduled sell whose balance query fails keeps its schedule and is sent again | `engine.go:3424` and `:3528`: no automatic retry |
| `Trade_v_chain_order.cfg`, `MCTradeLifecycle` | the poller calls `Process` beside the shard worker (`engine.go:548`); the mutex of the position excludes them, but does not order them: a buy that the websocket missed is accounted after the sell behind it, which found less than it sold | `docs/FUNCTIONAL_SPEC.md:94`: one position is processed serially in chain order |
| `Nonce_v_explicit.cfg`, `MCWalletNonce` | a replacement initialises an invalidated cursor with its own nonce + 1 | `docs/FUNCTIONAL_SPEC.md:33`: the cursor is synchronised from the RPC again |
| `Monitor_v_two_users.cfg`, `MonitorCache` | two requests create a user with the same next id: the wallet of the one, the key of the other (`KeyOfWallet`) | nothing |
| `Monitor_v_reenabled.cfg`, `MonitorCache` | the hourly refresh writes a token back as it read it, over the operator's switch or deletion (`OnlyOperatorEnables`) | nothing |

Four properties had to be restated when their proofs failed. Each counterexample
was then found by TLC, on a script of the steps or on a small instance:

* `PositionFollowsFills`, even without a scheduler. A worker decides to sell and
  holds a copy of the row; the ticker expires an older sell, reads a wallet that
  is empty at that moment, and resets the position (`engine.go:3071`, `:3518`),
  for which it takes no mutex; the worker's write of the whole row, with its
  cooldown, brings the amount back. It takes four events, too many for
  a run that searches every interleaving. The row then claims what the wallet
  does not hold until the balance check of the next sell, so the property, and
  its theorem, excuse a write over an empty position, and nothing else.
* `NoPhantomTokens` with a late buy. A sell whose fill comes before that of a buy it
  follows on the chain sold tokens of that buy; `applyOwnFill` subtracts no more
  than the row has, and adds the buy in full when it comes. The row then claims
  what is sold, until the synchronisation or the next balance check. The property
  now counts late buys, and nothing else, as an excuse.
* The average cost in `LedgerAccounts`. It compared with prices rounded down, and a
  buy of two tokens for 5 dollars costs more than twice its price of 2. It
  now compares dollars and tokens multiplied out, and the run has such a buy.
* `NthSellEmpties` with a count of one. A buy that is mined between the sending
  of the full sell and its fill leaves its tokens: the sell counts as the first,
  and the count stays reached. With a count above one the buy starts it again.

Divergences without a run of their own are hazards with a note: a buy whose
answer or row is lost stays without an attempt; a position can be reset by a
balance read before the last fill; a swap whose `Process` failed is not tried
again; `nextWallet` loses a key when it fails after the transfer; `startAve`
leaves a token on whose route it could not price; the price refresh undoes a token.

## 13. Not modelled

* Conversions of prices, quotes, slippage and fees, minimum outputs, the price of
  a route: floating point and scaled decimals whose results are inputs here.
* ABI encoding and decoding (`chain/events.go`, `pons.go`, `uniswap.go`), AES,
  HTTP parsing, `config.go`: pure, and their results are the inputs of the models.
* Handlers that only read (lists, views, statistics, exports), uploads, the log of
  trades, the `remain_*` columns of `monitor_records`, gas and realised profit.
* `applyOwnFillLegacy`: nothing calls it.
* Several users, tokens and pools at once: `Process` shares nothing between
  positions but the wallet (`WalletNonce`), the shards (`EventPipeline`) and the cache
  (`MonitorCache`).
* `Cfg.NativeUSDPrice`, which the price refresh writes (`ave.go:79`) and handlers
  read (`api.go:910`, `routes.go:361`) without synchronisation: a data race on a
  string. The engine keeps a copy of its own, taken at the start, so no decision of
  a running position reads the string that races.
