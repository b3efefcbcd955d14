# TLA+ verification of the Gate.io trading bot

This directory models the bot under `src/backend/app`: TLA+ modules translated from
the Python source, TLC configurations that check them on small instances, and TLAPS
proofs of what matters most for every value of the constants. `PROJECT.json` maps each
definition to the source lines it stands for and lists components, runs, mutants,
findings, hazards and theorems.

Paths below are relative to `src/backend/app`.

## The system

| Component | State it keeps | Operations | Correct when |
|---|---|---|---|
| Live position (`services/trading_engine.py`) | `positions`, `orders`, `trades` rows; coins and conditional stops on the exchange | manage (exit, scale out, trail), close, place / amend / cancel the stop, record an entry | rows equal coins; the open position is guarded by one stop of its size and price; an exit completes |
| Reconciliation (`reconciliation/engine.py`) | none of its own; writes rows from exchange orders | open orders each cycle and at startup | a row closes only when its coins are gone |
| Scheduler (`workers/scheduler.py`) | APScheduler jobs, one instance each | `monitor_positions` (60 s), `run_cycle` (15 min), startup recovery, ingestion, reports | overlapping jobs do not undo each other |
| Entry gates (`services/trading_engine.py`, `services/risk/manager.py`) | the session's copy of `strategy_settings`, its row lock | `scan_symbol`, `approve_entry` | no entry while halted or disabled, bounded positions |
| Circuit breaker (`services/risk/circuit_breaker.py`) | `circuit_breaker_events`, the newest decides | evaluate, trip, reset | a trip halts entries, a reset waits an hour |
| Strategy settings (`repositories/trading.py`, `api/v1/health.py`) | `is_enabled` and limits, one row | pause, resume, trip, health pause | the committed flag governs entries |
| Gate.io client (`services/exchange/gateio.py`) | HTTP client, limiter | orders, stops, lookups, candles, up to three attempts each | what an unanswered attempt did is found out |
| Entry order (`services/trading_engine.py`, `execution_quality/splitter.py`) | the coroutine, resting limits | split, market, resting limit, adaptive limit | the row is what was bought; more than was approved only after a call that failed |
| Paper broker (`paper_trading/broker.py`) | simulated account, positions, resting orders | fills, pairs, netting, liquidation, exits, manual orders | cash and positions match the trades |
| Paper engine and worker (`paper_trading/engine.py`, `workers/paper_worker.py`) | account status, the loops and their lock | boot, two loops, retry, shutdown, start / stop / pause / reset | a stop ends the entries while it stands, what was started runs again |
| Risk sizing, account (`services/risk/manager.py`, `account/engine.py`) | balance snapshots, peaks | fetch or fall back, exposure and risk clamps, multipliers | an entry is within the gross cap and its scaled risk of the balance just read |
| Regime, health, go-live gate (`market_regime/`, `strategy_health/`, `walkforward/`, `services/strategy/validation.py`) | regime records, strategy states, run rows | vote, record, pause, resume, validate | a scan acts on advice that fits what it scans |
| Learning and research (`auto_learning/`, `strategy_research/`, `backtest/`) | strategies, versions, requests, cycles | evaluate, rank, propose, approve, promote | what is promoted was tested |
| Candles (`market_data/`, `market_data_quality/`) | `market_data_clean`, `historical_candles` | fetch, judge, store, promote, load | closed bars arrive, vetted, and final if fetched after their close |
| Boot and watchdog (`db/init_db.py`, `workers/watchdog.py`, `heartbeat.py`) | schema version, advisory lock, marker, heartbeat row, `was_stale` | migrate, clean up, recover, beat, poll | one migrates, the worker comes up, an outage is reported once |
| Strategies and indicators, portfolio, execution statistics, frontend | - | numeric, plumbing | - |

Three processes touch the state: the scheduler worker (one event loop whose jobs
interleave at every `await`), the API process (requests in threads) and the paper
worker. They share the PostgreSQL database, and the first two the exchange account. Each
job or request has its own SQLAlchemy session with `autoflush` and `expire_on_commit`
off (`db/session.py`): it works on the copies it loaded, and a commit writes only
the columns that it changed.

What is hard: an order and the commit that records it are separate steps with other
jobs, faults and a crash between them; copies go stale across awaits; the exchange's own
stops fire at any time; answers get lost; retries repeat what may have been done;
a row lock is held across exchange calls; processes boot, hang and are killed beside
each other. `PROJECT.json` "hazards" lists each place.

## Modules

| Module | Models | Builds on |
|---|---|---|
| `LivePosition` | one symbol's spot position: monitor, cycle (reconcile, enter), operator close, exchange stops, faults, crash | |
| `EntryGate` | run_cycle's gates, scan_symbol, approve_entry, breaker events, settings row and lock, API requests | implements `KillSwitch` |
| `KillSwitch` | what the breaker promises: permits issued while armed, spent once | |
| `EntryOrder` | one entry: children, polls, cancels, replacements, the recorded row | |
| `RiskBook` | snapshots and drawdown, the sizing of a cycle's entries over a book of positions | |
| `ScanAdvice` | what a scan is told before it may enter | extends the next three |
| `MarketRegime` | votes, consensus, records and cooldown, filter, router | |
| `StrategyHealth` | update_health in its commits, pause, resume, replay | |
| `WalkForward` | windows, tuning, decision, run rows, the go-live gate | extends `Backtest` |
| `Backtest` | the backtest bar by bar and its metrics, as functions | |
| `Evaluation` | the judgement of a strategy by backtests: windows, folds, gates | extends `Backtest` |
| `StrategyLab` | research loop, learning cycles, operators over shared rows | extends `Evaluation` |
| `PaperBroker` | the simulated account of one symbol: orders, passes, tasks, requests | |
| `PaperBot` | the paper worker, the engine's two loops, the user's requests | |
| `DataFeed` | candles from the exchange to the tables | |
| `Operations` | boot of two processes, heartbeat, watchdog, candle jobs | extends `DataFeed` |
| `MC*` | instances for TLC: values for the constants, specifications that start from an open position | |
| `*_proofs` | the proofs; `Paper_proofs` holds those of `PaperBroker` and `PaperBot` | |

What a strategy earns in a backtest is expensive to evaluate in every state. Those values are
constants (`StrategyLab.Versions`, `WalkForward.Outcomes`), and an ASSUME says that they
are what the definitions compute; TLC evaluates it once.

### LivePosition and the code

`rows`, `orders`, `traded` are the committed tables, `holding` and `stops` the
exchange, `s[a]` the session of job `a`: where it is (`pc`), the row it works on, the
copy `my`, the attempt number and the fill in hand. Every action is the code between
two awaits or commits. `Merge` is the UPDATE of changed columns; `Commit` applies it.
A fault is one call that fails: `feed` (candles, ticker, order lookup), `cancel`,
`place`, `sell` (the call fails before it takes effect), `lost` (it takes
effect and the answer is lost for good), `resent` (an attempt of the client took effect
unanswered and it sends the call again, `exchange/gateio.py:94-112`; the job still waits),
`commit` (the database refuses; the rollback expires the copy) and `crash` (the process
restarts; sessions are gone). A cancel or a lookup sent again changes nothing more, and
an attempt that was not executed changes nothing. `gone`, `fired`, `lost` and
`bare` are history variables: coins sold (or bought, negative) without record, coins
sold by stops, resting stops whose id a fault lost, and whether a fault or a fired
stop took the tracked stop away. They are read by properties only, except that a lost
id is never used again.

Prices are ranks: stop level 0 is the initial stop, 1 the entry price, higher is
locked-in profit. `exitSig` says the price is beyond an exit level for good; the
monitor may also close without it (a passing wick). `Part` is the scale-out fraction in
units; 0 means the exchange's minimum rejects the part.

Abstractions: an order lookup answers for all open orders in one step; an entry
fills in full (EntryOrder has the rest); the engine's logging commits are not steps; the
commits inside `_place_exchange_stop` and `_amend_exchange_stop` do not fail on their own
(a failure there ends like `PlaceFails`); futures, shorts and the liquidation guard are
left out. The outcomes "part" and "zero" of a market sell are in the module and in the
proofs, but no run enables them.

### EntryGate and the code

`cycle` is `run_cycle` with its session: the program counter, the scanned symbol, the
symbols left, `copy` (the settings object the session holds: the flag it was read
with, or expired after a rollback) and `lock` (whether its transaction holds the settings
row). `req[r]` is an API thread between its read and its commit. `Written` is the UPDATE
that is issued only if the copy differs, `RowWritable` its wait for the lock.
`SeenFlag` is what `current_for_update` returns: the object the session already has.

The candle filters (session, data quality, signal, higher timeframe, regime) are
one choice between passing and blocking; health may also pause the strategy. The order
of the symbols is left open. Exceptions that leave `run_cycle` and a killed worker are
both `WorkerDies`. `late` is a history variable: entries sent since the last trip.

`KillSwitch` is the abstract specification. Under the mapping tripped = newest event is a
trip, permit = between approve_entry's look at the breaker and the order, every step
of `EntryGate` is a `KillSwitch` step or a stutter.

### EntryOrder and the code

`plan` is what `splitter.py` made of the quantity, `e` the coroutine (its child, the order
it waits for, the polls left), `book` the exchange's orders, `answers` what each child
returned - the order as it was at that time, which is all the engine ever sees. The
exchange fills resting orders between any two steps. A market child fills at once, in
full or in part; a limit is left to rest; an adaptive limit is polled, cancelled at
its deadline, looked up, and the rest is ordered again. `Resent` is the client: an order
that was executed without an answer (read timeout, dropped connection, 429, 5xx) goes out
again, up to three times in one call, with nothing by which the exchange could tell
that it is the same one; the last answer is all the engine gets. A cancel or a status
call may be sent again too, which changes nothing. Besides, the order is refused, its
answer is lost for good, comes without an id; a poll, a cancel, a status call fails, or
the cancel works and its answer is lost. `seen` is the history of these, with the child
each befell. `Record` is `_execute_entry` on the answers. Prices are 1, so that quantities and
amounts are the same units; the futures branch is left out.

### RiskBook and the code

`last` is the newest balance snapshot with its source and age, `peak` the maximum per
source, `carried` the equity at midnight; `cycle.equity` is what `run_cycle` read
at its start and sizes every entry with. `Refresh` is `fetch_snapshot`: it asks the
exchange, may find that a position has no price, or fails and then writes a copy of the
last snapshot, or of the configured equity, under a fresh date. `Trip` is the day's loss
and the drawdown, `Gates` the source and the age of the snapshot. `Enter` is approve_entry
and everything `scan_symbol` puts around it: the exposure guards (gross, net, beta), the
risk budget, volatility and Kelly scaling, the multipliers of data, health, regime, funding,
book imbalance, portfolio and drawdown, the filters of trend, correlation and slippage,
and the final clamp. `reported` is a history: what the exchange said to the cycle that
asked last, 0 if it did not answer. Ratios
are percentages, divisions round down; an entry price is 1.

### ScanAdvice and the code

One scan of one symbol in its steps: the go-live gate, the flag and the candles, the
router, the signal and the higher timeframe, the regime filter, `update_health`. Readers
of the API endpoints and the paper worker record regimes and judge health in the same
tables meanwhile; pauses, resumes and the replays of `recalculate` fall in between;
walk-forward runs start, end, fail, are deleted, age beyond the limit, or stay running
when their process dies. What the detector votes on a candle is a choice of its possible
votes (`Votes`), what trades a strategy makes a choice of winning and losing ones. The
gate is asked before the scan rather than once for a cycle of several symbols.

### StrategyLab and the code

`run[r]` is one run of the research loop or of a learning cycle with its session's copies;
each of its commits is a step. `set_status`, `add_version` and the stages write the row
they read before the evaluation, column by column. Two learners stand for the nightly job
and `POST /learning/run`. Operators approve, reject, promote by hand and stop the cycle.
`versions` are the contents in the table, judged by `Evaluation`: `backtest_runner.evaluate`
with its windows and folds, the gate of `evaluator.py`, and the ranking.

In `Backtest` one bar is one day, an entry one unit, and the Sharpe ratio is taken of equity
increments, compared exactly by squares. Fees, funding, shorts and maker entries are left
out; the ruin probability and the parameters a sampler proposes are given.

### PaperBroker and PaperBot and the code

`PaperBroker` is the account of one symbol. The tick pass works through the order
list it read, at the price of its tick; each fill awaits the simulated latency between
its check and its booking, so the entry pass waits for the lock but a scale-out task and
an API request do not. `view` is what each session has loaded; the worker's loops share
one session. `shared` is a history: a task or a request booked beside the two passes.
Prices are 1, so fills move cash and quantity by equal units and the ledger can be
checked to the unit; fees, slippage, funding and margin modes are left out.

`PaperBot` is the life around it: the container's process (boot, autostart, wait, engine,
backoff, shutdown, SIGTERM and death), the engine's loops over the copy `seen` of the
account's status, the engine that an error left behind with its other loop running, and
the user's requests, which write the account in sessions of their own. `Autostart` holds
the settings of `paper_autostart_on_boot` to be considered. The histories: `wish` (the user
wants it to run), `ended` (the user's last request was to stop or reset), `late` (entries of
the last symbol since that request; only the user's requests set it back, so that a pause
written over the stop and its auto-resume count on), `blind` (a refresh failed since). The content of ticks and of the mirrored settings is left out.

### DataFeed, Operations and the code

`closed` are the bars of the market, `clean` and `hist` the two tables (a row of `hist` says
who wrote it and whether its bar was still forming when it was fetched), `feed[j]` a job with
the candles it holds: the scheduler's ingestion, the API's revalidation, a loader of
backtests. A batch is fetched (with the bar that still forms), validated, judged against
the newest stored bar, stored in the spike mode of the configuration, committed, and
promoted row by row in a second transaction whose unique constraint another job may hit.

`Operations` adds what runs those jobs: two processes that take the advisory lock of
`init_db`, migrate, stamp or find the schema at head, clean the paper tables once,
mark that, recover and start their loops; they may die, fail, hang and be restarted
at each of these. The scheduler beats, the API polls the age of that row and reports
transitions.

## Runs

| Run | Shows | Bounds |
|---|---|---|
| `position_solo` | types, books, stops accounted for, guarded between passes, exit completes while the row matches the coins | one position of 1 or 3 units, one fault of any kind, stop levels 0..2, 2 attempts, 4 stop ids |
| `position_shared` | a closed row means no coins; no resurrection | the operator closes once, beside the monitor and the cycle; lot of 3, level up to 1 |
| `position_reentry` | one open row | lot of 1, two rows, 3 stop ids, one failed commit or order sent twice |
| `phantom_close` | finding: a scale-out's fill closes the row | lot of 2, half scaled out, no fault |
| `entry_gate` | kill switch, one late entry, bound on positions, serialised entries, requests answered | two symbols, one position, two requests at once out of trip / reset / pause / resume, four happenings (requests, breaches, failures) |
| `entry_order` | budget but for what faults cost, row backed and bought, entry ends | quantities 3 and 4 whole, 1+2, 3+3 and 2+2+3; three modes, minimum 2, one poll, full and partial fills, two faults out of eight |
| `paper_broker` | ledger, one-way mode, stop leg cancelled, stops execute | capital 2, leverage 2, one-way, fills of 2 in full or in part, two orders, one row, one request; resting and manual orders are not mixed |
| `paper_bot` | entries after a stop, start served | one container, with and without autostart, two symbols, one position, one fault |
| `risk_book` | gross cap, scaled risk budget, trusted equity | two symbols, balances 800 and 1000, one unpriced amount of 200, placeholder 2000, two volatilities, three markets, betas 1 and 1.5 |
| `scan_advice` | gate, router and filter, critical strategies stopped | two strategies' windows over 12, 18 and 24 bars, two runs, two trades, a losing streak of 2, two events |
| `strategy_lab` | promotions earned, requests few, cycles closed | two contents, histories of 3, 18 and 24 bars, one research loop, two learners, one operator, two events |
| `operations` | vetted history, one migrator, one wipe, bars arrive (final unless fetched while forming or uploaded), worker comes up, silence reported | two price levels, one bar in a window of 2, three jobs, two lock attempts, two events; spike mode "flag" |

The bounds are small because the hazards are. Three units are the least that a
scale-out, a partial level and a rest need; two stop ids would do for one stop and its
replacement, four leave room for the ones faults lose; two levels tell breakeven from
trailed. One fault per behaviour is what each recovery path of the live position is written
for, and any step of any job may be the one it hits; an entry gets two, since a replaced
limit has two orders to go wrong. Two concurrent requests are what the read-then-commit
races need, two symbols let a cycle go on after an entry. Two resting orders are a pair, and
a pair beside a manual order would only add bookings that `shared` excludes from the
ledger anyway (`Apart`; the proofs have no such bound). Two balances and a placeholder
above both let every wrong equity be told from a right one; two learners are the least
that race for a request; 24 bars are the least over which walk-forward windows roll and
the evaluation has its folds.

Every property of a passing run has a mutant in its module (comments "Mutant:"), a
plausible slip in the code that breaks it.

**Deadlock.** Checked, except in `entry_gate`, `scan_advice`, `strategy_lab` and
`operations`: there, with no events left, a tripped breaker, an idle scan, finished
cycles or an idle deployment are resting states. A finished entry of `EntryOrder` stutters
as a step of its own, so that deadlock before the end is seen.

**Fairness.** `LivePosition`: weak fairness of the monitor and of the cycle - APScheduler
starts both again and again, and a started job runs on (awaits have timeouts). Nothing is
assumed of the market, the stops, the operator or the faults. `EntryGate`: weak fairness of
the cycle's own steps, and strong fairness of each request's commit, because PostgreSQL
hands a released row lock to the transactions that wait for it. `EntryOrder`: weak
fairness of the coroutine (calls return or time out); nothing makes an order fill.
`PaperBroker`: strong fairness of the start of a tick pass, because asyncio.Lock is first in
first out, and weak fairness of a pass under way; nothing of requests or the market.
`PaperBot`: weak fairness of a worker's own steps, of the platform's kill and of the entry
loop; nothing of ticks, market or user. `ScanAdvice`: a health check that was begun commits
unless its process dies. `Operations`: weak fairness of boots (the platform restarts what
ends), recovery, the interval jobs and the watchdog's poll; none of the events.
`RiskBook` and `StrategyLab` state safety only.

## Proofs

Every safety property and every action property that a passing run checks is also
a theorem, for every value of the constants that the ASSUMEs of the modules admit
(TLC evaluates those in the runs) and the hypotheses named here.

**`LivePosition_proofs`.** `TypeCorrect`, from `TypeOK` and `BankedPart` (a scale-out never
banks more than the copy holds - without it the quantity could leave its type), for
every lot, fault set, fill mode and bound.

`ClosedForGood` and `OnePosition` need little: `NoPartAfterRollback`, no partial fills
together with failed commits. `CloseInv` says that no session holds a copy that could write
"open" over a closed row; `RowInv` adds that no row is open while the coins of an entry are
bought and not recorded (`BoughtAlone`), which is what the check in `scan_symbol`, minutes
old at the commit, is worth. The hypothesis is needed for both: a part booked on a copy
that was read again as closed, after the rollback, opens the row again. TLC shows it with
two rows, a lot of 4, two operator closes, two attempts and partial fills (a reconciliation
closes the row over coins, a new entry buys, the retry of a failed commit sells in part),
and then two rows are open; an empty fill taken for a full one does it with a lot of 2.

`BooksBalance` and `ClosedMeansSold` hold, for any number of rows and any faults, under

    Undisturbed == no operator close, full fills, and a scale-out of less than half

which is where the code's defects begin: with half or more the reconciliation closes a
row over coins (`phantom_close`), and a fill the engine only guesses breaks the books by
itself. The inductive invariant `BookInv` adds to the books what the other jobs may rely
on: the cycle's session never sells, entry parts precede closing parts in the orders table
(`CycleParts`, `ClosingOrders`), the monitor's copy agrees with the row in quantity and
status while it sells (`MonitorCopy`), an entry in hand is alone (`EntryAlone`), and the
reconciliation's base copy, though older than the row, can close it only if it is already
sold (`ReadOrders`).

`SharedBooks` and `SharedMeansSold` are the same properties with operators who close: any
number of requests beside the monitor and the cycle, any retries and faults, under

    Shared == one row, full fills, and a scale-out of less than half

and from a start with that position open. `SharedInv` is the argument: a session's copy,
however stale, sells no less than the row holds (`Shares`), so coins sold once are
not there to be sold again and two sales are never in flight together (`OneSale`); and
only the monitor scales out, so what its copy says of quantity and scale-out is current
(`Knows`). Both restrictions are needed. With a second row an operator's stale copy of the
first can sell the coins of the second: TLC violates `BookIdentity` with two rows, a lot
of 1, one close and one failed commit. From a flat account an entry whose commit fails
leaves coins no row knows of, and a stale copy can sell those.

`NoStrayStop` and `GuardedBetweenPasses` are about one position without operator closes.
`StopInv` follows the stop through every step between cancel, placement and commit: who
holds its id, at which level and size it rests, and what a fault left of it.

**`EntryGate_proofs`.** `TypeCorrect`, `AtMostOneLate`, `BoundedPositions`,
`EntriesSerialised` and `GateRefinesKillSwitch`, for any finite set of symbols, any
requests and any bounds. `GateInv` adds to the properties: a scanned symbol is named;
entries are late only while the breaker is tripped, and none is while a permit is out
(the reason the second late entry is impossible); the row is locked from
approval to record (the reason the flag cannot change).

**`EntryOrder_proofs`.** `TypeCorrect`, `BudgetIsKept`, `RowsAreBacked`, `RowsAreBought` and
`EntryIsBounded`, for any split, mode, polls, fills and faults. `BudgetIsKept` bounds what is
bought and what rests by the approved quantity and `Excess`: one child's quantity for each
order the client sent again and each cancel or status call that failed. `OrderInv` has the parts
`PlanInv` (types), `BookedInv` (at most six orders per child, three attempts of two orders,
and the order being worked is that child's), `KeptInv` (what is committed and what is still
due stay within the children begun so far and `Excess`), `AnswersInv` (an answer never claims
more than its order had filled), `RowInv` and `MarketInv`. Totals over the sequences of
orders, answers and faults are treated by induction over prefixes. The two theorems about
rows assume `MarketsFill`, that no market order is answered with an empty fill: the engine
records such an order as filled in whole.

`EntryIsBounded` is the part of `EntryEnds` that needs no fairness: `StepsLeft`, a round of
`MaxPolls + 9` steps per child (its polls and re-sends among them) and one for the record, is a natural number that every
step of the coroutine makes smaller and the exchange's fills leave as it is. That the
coroutine does go on, and so that the entry ends, TLC checks.

**`Paper_proofs`, the broker.** `TypeCorrect`, `LedgerAgrees`, `NeverBoth` and `StopLegStays`,
for any capital, leverage, order templates and requests. `BrokerInv` says what a session's
copy may be: never an emptied version of a row that is still open, and the account itself as
long as nobody booked beside the passes; legs of a pair name each other, and one whose
sibling filled in this pass is on the other side of the pass's price.

**`Paper_proofs`, the bot.** `BotTypesHold` and `StopIsKept`, for any number of symbols and
faults. What is still due after a stop is 1 for a pass that has the last symbol before
it. `StopPart` bounds the sum while the account is stopped, the user's last request stands
(`ended`) and no refresh failed: entries since that request, and what the engine's pass and
that of the engine an error left behind have due, are at most one more than the faults - a second
pass exists only after a fault, and the worker does not retry again before it has ended.

**`RiskBook_proofs`.** `TypeCorrect`, `CapHolds`, `BudgetHolds` and `EquityHolds`. `RiskInv` is
`Types /\ Trust`: a snapshot taken from the exchange is what it reported to the cycle that
wrote it (a failed refresh takes that away), at the gates the
cycle's equity is the newest snapshot's, and past them it was reported, because no refresh
comes between. The cap rests on sums over the finite set of held symbols, which
`NotionalIsSum` and `NotionalGrows` define and bound. `BudgetHolds`
needs no assumption: the budget of an entry is scaled by the product of the multipliers
it was made with. `TypeCorrect` assumes finitely many balances.

**`ScanAdvice_proofs`.** `TypeCorrect`, `ValidatedFirst` and `RouterAgrees`. `AdviceInv` ties a
scan past the gate to a run that approved its strategy, and the regime a scan was routed by
to the newest record unless an event came between.

**`StrategyLab_proofs`.** `TypeCorrect`, `PromotionEarned`, `RequestsStayFew`, `CyclesClose`, for
any strategies, researchers, learners and operators. `LabInv` says of every stale
copy what the row once earned: a copy that may promote has a version that passed.

**`Operations_proofs`.** `TypeCorrect`, `MigratorsExclude`, `CleanupOnce`, `OnlyCleanPromoted`.
`BootInv` ties the boot's places to the advisory lock and the marker, `FeedInv` the rows in
hand to those committed clean; vetting a request is an induction over its rows.

**Only model-checked.** The liveness properties `ExitCompletes`, `RequestsAnswered`,
`EntryEnds`, `StopsExecute`, `StartServed`, `CriticalIsStopped`, `BarsArrive`,
`WorkerComesUp` and `SilenceReported`: TLAPS does not reason about fairness and ENABLED. The
type invariants of `EntryOrder`, `PaperBroker`, `PaperBot`, `RiskBook`, `ScanAdvice`,
`StrategyLab` and `Operations` are theorems and in no run's list. What `Backtest`
and `Evaluation` compute is evaluated, not proved: their facts are inductions over bars.

## Findings

`phantom_close`: with a scale-out of half the position or more, the reconciliation of the
scale-out's own order (`reconciliation/engine.py:188-190`, "A fully-filled close must mark
the position closed") finds it as large as what is left and closes the row; the coins
left are managed by nobody. The default fraction is below that, the setting allows it.

## Claims the code does not keep

The modules state these beside their properties. Each is refuted by TLC when it is put into
the configuration named; none is in a passing run.

| Definition | Claimed by | What happens | Configuration |
|---|---|---|---|
| `LivePosition.LedgerComplete` | `services/trading_engine.py:1417` "Accumulate realized PnL across partial closes instead of overwriting it" | `reconciliation/engine.py:185-187` assigns it when it sees the closing order | `position_solo` |
| `LivePosition.SalesAreRecovered` | `services/trading_engine.py:1900` "exchange order is live, reconciliation will recover it" | the rollback takes the order's row along, which is all the reconciliation looks at | `position_solo`, with the property `SalesAreRecovered` |
| `LivePosition.StopsAccounted`, entries included | `workers/scheduler.py:118` "Idempotent - safe to run alongside run_cycle" | an entry commits its row and places the stop after; a monitor's pass in between places one too, and one id is forgotten | `position_reentry` |
| `LivePosition.EveryExitCompletes` | `services/trading_engine.py:1345-1347` "Alert and let reconciliation recover the actual state" | a third of a lot of 3 is scaled out and the answer or the commit is lost; the row of 3 stands over 2 coins and every later sell of 3 is refused | `position_solo`, with the property `EveryExitCompletes` |
| `EntryGate.ApprovedEnabled` | `workers/scheduler.py:170` "If either is off, no new trades are opened" | the locked read returns the object the session has cached since the gate | `entry_gate` |
| `EntryGate.CooldownKept` | `services/risk/circuit_breaker.py:132` "Require a minimum cooldown of 1 hour" | two resets check before a trip; the second commits after it | `entry_gate` |
| `EntryOrder.WithinBudget` | `services/trading_engine.py:949` "would double the position and blow past the risk budget" | a cancel or status call that fails counts the limit as unfilled; an executed order without an answer is sent again by the client (`exchange/gateio.py:94-112`) | `entry_order` |
| `EntryOrder.NoRowNoOrder` | `services/trading_engine.py:1111` "the exchange has NO open position" | the resting children of a split are no answers; nothing records them | `entry_order` |
| `EntryOrder.RowBacked` without `MarketsFill` | the position row is what was bought | an empty fill of a market order is recorded as the quantity asked for (`_filled_base_qty`) | `entry_order`, with "none" among `Fills` |
| `PaperBot.StopObeyed` | `api/v1/paper.py:50-55` answers `{"status": "stopped"}` | a pause is written over the stop from a stale copy (`paper_trading/risk_simulator.py:67-76`) and resumes after its cooldown, or a boot with autostart begins again (`workers/paper_worker.py:79`) | `paper_bot` |
| `PaperBot.EntriesHaveExits` | `paper_trading/engine.py:63` "Two concurrent loops: ticks drive mark-to-market and stop/TP exits" | a pause ends the tick loop for good (`:94`), the entry loop waits and resumes (`:114`) | `paper_bot` |
| `PaperBroker.FirstCancelsOther` | `paper_trading/broker.py:176` "The first to fill cancels the other" | a list of orders read before the awaits still holds the sibling; the stop leg first, the take-profit leg executes too | `paper_broker` |
| `PaperBroker.ReduceOnly` | `api/v1/paper.py:295` "Reduce-only closes skip the entry gate (they only reduce)" | market orders are applied without the flag | `paper_broker` |
| `RiskBook.RiskHardCapped` | `core/config.py:394-395` "a hard cap on any single trade's risk" | a multiplier above 1 is applied after the risk manager's clamp (`services/trading_engine.py:428`) | `risk_book` |
| `ScanAdvice.Validated` | `workers/scheduler.py:195` "Stops an un-validated strategy from trading real money" | routing picks a strategy the gate was not asked about | `scan_advice` |
| `WalkForward.NewestDecides` | `tests/test_strategy_validation.py:71` "latest (failing) decides" | a rejected run is filed under another status, so an older approval outlives it | `scan_advice`, for every strategy of `Trials` |
| `Operations.BarsFinal` | `market_data/ingestion.py:1` "upsert into historical_candles" | a bar stored while it was forming is passed over by every later ingestion (`:44-56`) and keeps that close | `operations` |
| `Operations.BarsArrive`, spike mode "ignore" | `market_data/ingestion.py:3` "continuously fed" | the price really jumped; every later bar differs from the newest stored one and is dropped | `operations`, with `SpikeMode = "ignore"` and `MaxBars = 2` |

Seen while modelling, without a property: a triggered stop-limit order of the paper broker
never fills (`paper_trading/broker.py:324`); a failed fetch writes its copy under a fresh
date, so the age check never fires, only the source does (`account/engine.py`); the net and
beta guards look at the notional before volatility scaling; walk-forward compares raw
profits of windows of different lengths (`walkforward/validator.py:17`), so that a
strategy that earns at a constant rate is flagged; a learning cycle that crosses parents of
different families raises (`strategy_research/generator.py:109`); the marker row
`paper_cleanup_done` is the first row of `strategy_settings` on a fresh database, and
`current()` returns the first (`repositories/trading.py:190-197`); a crash between cleanup
and marker wipes again.

## Plan

Done: the modules, runs and theorems above. What would come next, in this order:

1. The books of `LivePosition` with partial fills, and with operator closes over several
   rows: which weaker identity holds there, and its invariant.
2. `PaperBroker.LedgerBalances` with its lost updates made explicit: by how much cash and
   rows may differ after tasks and requests booked beside the passes.
3. A composition of `EntryGate` and `EntryOrder`: one permit, several orders.
4. Lemmas about `Backtest` that need no induction (an entry's stop and target, the trail).

## Not modelled, and why

Strategies and indicators, the portfolio optimiser and the execution statistics are
numeric code on floating-point series without interleaving; a signal is a
nondeterministic choice. Futures, shorts and the liquidation guard of the live engine
follow the same control with other calls. Authentication, read-only endpoints,
notifications and the frontend change no modelled state. The components in
`PROJECT.json` say of each part what is left out.
