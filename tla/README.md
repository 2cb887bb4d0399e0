# Verification of EulerX

EulerX (`src/app`) is a FastAPI service with Celery workers on PostgreSQL. An AI
pipeline produces trading signals; for every active strategy a worker turns a
signal into a market order on the user's own exchange account (Hyperliquid,
Bybit or Binance), attaches a take profit and a stop loss, and a monitor records
the position as closed once it has left the exchange. Around this core there are
accounts, paid subscriptions, an ambassador programme that pays commissions, and
reports on the results. This directory holds TLA+ models of these parts, TLC runs
that check them on small instances, and TLAPS proofs for every value of the
constants.

## 1. Inventory

| Component | State it keeps | Operations | Interacts with | Hard behaviour | Correct when |
|---|---|---|---|---|---|
| Analysis pipeline (`worker/tasks.py` 98-213, 376-435, 523-851, 1116-1165, `services/ai_engine.py`, `routers/admin/signals.py`, `routers/admin/system.py`) | three signal tables, `admin_config["disabled_tasks"]`, Celery messages | fetch, generate, deduplicate, store, dispatch; expire, cancel, purge; switch tasks | execution, beat, admins | check-then-insert over minutes; retries, redelivery, hard kills; beat and manual triggers overlap | one live signal per symbol and exchange, nothing handed out twice, nothing skipped |
| Pre-trade decisions (`services/ai_engine.py`, `services/ate.py` 130-560, 1100-1270, 1669-1733, `services/dynamic_config.py`) | settings in `admin_config`, the leverage set at the exchange | aggregate the models' answers, normalise prices, evaluate, size, validate, set the leverage | signals, exchanges, executions | prices, wallet and settings move between the checks | an order has its stop and target on the right sides and risks what was planned |
| Trade execution (`services/ate.py` 46-1733, `worker/tasks.py` 225-373, 485-520, `routers/admin/executions.py` 222-297) | `executions` rows, one open session per attempt | `execute_signal` from the worker task and from the admin trigger | signals, strategies, exchanges | the row is flushed after the order was answered; reads see committed rows only; 4 worker slots and API requests overlap; lost answers, redelivered tasks, crashes | no pair trades twice, no user holds two positions on a symbol, limits hold, nothing is left unprotected or off the books |
| Position monitor (`services/ate.py` 1735-2246, `worker/tasks.py` 1003-1018) | one session per run | `monitor_positions`, every minute | exchanges, executions | runs overlap; works on rows read at its start; one commit at the end | CLOSED only when gone, gone eventually CLOSED |
| Manual close (`routers/execution.py` 127-555, `routers/admin/executions.py` 173-210) | one session per request | `close_execution` | exchanges, executions, monitor | status checked once, written seconds later | closes its own position, records it once |
| Kill switch (`routers/admin/trading.py`) | `admin_config["trading_halt"]`, `strategies.is_active` | halt, resume | strategies, workers | several statements per transaction, two admins | halted means idle; resume restores what the halt stopped |
| Strategies (`routers/strategies.py`, `routers/admin/strategies.py`) | `strategies` | create, update, activate, pause, delete | plan limits, executions (cascade) | the cascade deletes executions of live positions | plan limits hold |
| Billing (`routers/billing.py`, `services/billing.py`, `middleware/permissions.py`, `worker/tasks.py` 886-1000, `routers/admin/subscriptions.py`) | plans, payments, transactions, subscriptions, `users.is_subscribed` | subscribe, trial, webhook, lazy expiry, daily notice, admin overrides | execution (access), ambassador programme | repeated, reordered webhooks; invoices awaited inside a transaction | access is earned, a payment is booked once, one trial each, paid is not waiting |
| Ambassador programme (`services/ambassador.py`, `routers/ambassador.py`, `routers/admin/ambassadors.py`) | ranks, commissions, bonuses, pools, payouts, travel incentives | monthly cycle, recalculation, promotion, bonuses by hand, payouts | subscriptions of the downline | ranks go up and down; repeated and failing cycles; edits by hand | awards are made once, sums and rows agree, payouts stand for their items |
| Accounts (`routers/auth.py`, `routers/telegram.py`, `routers/admin/users.py`, `db/base.py`) | `users`, `ambassadors.total_referrals` | sign up by e-mail or wallet, verify, reset, store exchange keys and bot, admin switches | every other part | stale copies written back; answer before commit; unique columns found late | one account per identity, credentials belong together, answered means stored |
| Results (`routers/admin/analytics.py`, `services/analytics.py`, `services/portfolio_snapshots.py`) | `portfolio_snapshots` | reports, a member's overview, the public page, capture of balances | executions, exchanges | many SELECTs per report, each at another moment; three programs for one figure | breakdowns add up, programs agree, the return is that of the balances shown |
| Rate limiter (`utils/rate_limiter.py`) | counters in one process | check, record | execution, API | one per process, check and record far apart | limit per user |
| Exchange clients (`services/hyperliquid.py`, `bybit.py`, `binance.py`) | none | orders, TP/SL, closes, leverage, balances, queries | everything above | errors returned, raised or swallowed, differently per exchange | outcomes are reported as they are |
| The rest: market streams, chat, learning, support, transparency, admin views, migrations | tables without rules between steps | create, read, update, delete | - | - | - |

PROJECT.json lists every component with its status and, under `hazards`, the
lines where each hard behaviour bites.

Much of what the code promises it keeps only as long as nothing overlaps, and nothing in
it prevents the overlap: four worker slots, API requests and redelivered tasks each have a
session of their own, and no row is locked between the check and the write. The models
therefore let everything overlap. Where a promise fails for that reason, a history variable,
in no guard, records exactly who overlapped whom (`met`, `crossed`, `strayed`, `behind`), or
what an exchange did (`mishap`, `blinded`, `unfilled`), and the property says that nothing
else breaks the promise. These properties need no assumption on the environment, and neither do
their theorems. The promise as the repository words it is kept as a second property that a
cfg of section 4 refutes.

## 2. Modules

| Module | Models | Role |
|---|---|---|
| `ExecutionLedger` | `models/execution.py`: statuses, unique constraints, cascades; `apply_close_details` | abstract specification of the executions table |
| `TradeExecution` | `execute_signal`, worker task, admin trigger, expiry, cancel, purge, delete | detailed specification, implements `ExecutionLedger` |
| `PositionSync` | `monitor_positions`, `close_execution`, connecting and disconnecting accounts | detailed specification, implements `ExecutionLedger` |
| `TradingHalt` | `halt_trading`, `resume_trading`, activate, pause, `_is_trading_halted` | the kill switch |
| `SignalPipeline` | the analysis tasks, their switches, expiry, cancellation, clean-up | from beat to the attempts `TradeExecution` starts with |
| `SignalPrices` | majority, medians, normalisation and filters of `ai_engine.py` | operators |
| `TradeDecision` | one signal from the answers to the order of one strategy, settings, leverage | uses `SignalPrices`; spells out `Reject` and the sizes of `TradeExecution` |
| `Billing` | subscriptions, payments, webhooks, expiry of one user | access to trading |
| `Downline` | referral tree, qualification, rates, commissions | operators |
| `Ambassador` | the monthly cycle and what admins do by hand | uses `Downline` |
| `Accounts` | signup, verification, reset, exchange keys, Telegram, admin switches | sessions on one row of `users` |
| `Performance` | the reports, the overview, the public page, captured balances | readers of the executions table |
| `X_proofs` | the theorems about `X` | for the eight modules of section 5; those of `ExecutionLedger` are in `TradeExecution_proofs`, those of `Downline` and `Performance` in `Ambassador_Performance_proofs`, those of `SignalPrices` in `TradeDecision_proofs` |
| `MCX` | the data of the instances of `X` | extends `X`; `TradingHalt` needs none |

How they compose: `SignalPipeline!Attempt` hands a pair of signal and strategy to
the ATE, which is `TradeExecution!Begin` and what follows; `TradeDecision` refines what
`TradeExecution` does in one step between its idempotency checks and its order.
`TradeExecution` and `PositionSync` both implement `ExecutionLedger`, through which
they see each other: `Close` is all the first needs of the second, a FILLED row all
the second needs of the first. `TradingHalt` looks closer at the two reads at the worker's gate.
`Billing` decides the access that is a free choice in `TradeExecution`, and what
`Ambassador` sees of it is how many live subscriptions a user has. `Performance` reads the table
while it moves.

### ExecutionLedger

The table as other parts may rely on it: a set of rows with a pair (`key`) and a
status. `Record` adds the outcome of one `execute_signal` call, `Close` moves FILLED rows
to CLOSED, `Retire` is `ON DELETE CASCADE`; a retired pair gets no new row
because its foreign key is gone. PENDING exists only inside a session and is
never committed.

### TradeExecution

`pc[a]` is the await at which attempt `a` is: `gate` (the worker's own checks),
`once` (first idempotency layer), `symbol` (second layer), `admit`
(`evaluate_signal` and the count of open executions, and every other reason to
reject), `order`, `flush`, `protect` (TP/SL), `close` (emergency close),
`commit`. `draft[a]` is the row inside the session and `row[a]` the committed
one: a session's writes are invisible to others until `Commit`, and every way
out that is not a commit (`Leave`) throws the draft away. `lot[a]` is what the
order really did on the exchange, which is what the platform cannot see; a
`Slot` (account and symbol) nets the lots of several executions into one
position. `Flush` waits for the unique index (`KeyIsFree`) and then either
conflicts or holds the pair until the session ends; `Cascade` waits for the
sessions in `Flushed`, which hold a key-share lock on their parents.

An exchange's "success" is the acceptance of an order. On Bybit and Binance the code takes it for a fill: the
opening order may leave nothing (`OrderUnfilled`), and so may the order that is to close an unprotected
position, whose row then says FAILED over an open lot (`EmergencyCloseUnfilled`). `SyncCloseMisled` is what the
monitor and a close request write over an open lot; `PositionSync` has their reasons. `met` are the pairs of
attempts whose sessions were open at once, `mishap` what came between an attempt and its exchange.

Simplifications, each of them on the side of fewer behaviours and none needed by a
property: all signals of a symbol have one direction; a reduce-only order takes
the attempt's own lot first; quantities are whole lots; the worker's six reads
at the gate are one step (TradingHalt has two of them apart); drawdown,
subscription and key checks are the nondeterministic `Skip` or `Reject`; a rejection
that flushes at once and one that flushes at the end are the same step;
notifications and the verification log are left out.

### PositionSync

`batch`, `left` and `gone` are the session of a monitor run: rows read at its
start, accounts still to visit and executions already marked. Accounts are visited in the
code's order of exchanges, each with its own reaction to a failing fetch:
`VisitBlind` (Hyperliquid: `{}`), `VisitAborts` (Bybit: raises), `VisitSkips`
(Binance: caught). `rpc` is the phase of a close request. `lot` is again the
truth on the exchange, `moved` marks positions left on an account that the user has replaced. `CloseOrderUnfilled` is a close order that was accepted and left the position as it
was; the request looks for a fill, does not find one, falls back to a ticker or to the entry price and writes CLOSED.
`blinded` and `unfilled` are history: executions taken for closed on an empty answer to a failed fetch, or after
such an order. `SwitchAccount` happens only between the runs and requests
that loaded the keys of that account. An execution enters this module with its
quantity on the exchange (`Open`); what happens before is `TradeExecution`. An exit
price is found or not found; how, and which close reason follows, is left out.

### TradingHalt

`phase[d]` is the next statement of admin request `d`; `read`, `ids` and
`written` are what it has read and updated, uncommitted. Row locks (`Unlocked`,
`Free`) and the INSERT race on the record's unique key are modelled. `wanted` is
a ghost: the strategies their owners last asked to run. `strayed` is history: strategies whose owner acted during
a halt or while an admin request was open (`Says`; what he says undisturbed later counts again), and those that
ran or should have run when a request started beside another one (`Start`). Owners act at
any moment in the passing run; `OwnersWait = TRUE` keeps them quiet in `Halt_double.cfg`, which is about the admins alone.

### SignalPipeline

`job[w]` is the pipeline task of worker process `w`: the stage it is at, the market data it
has, the keys of live signals it read before it asked the models (`skip`), the
drafts, and after the INSERT the pairs still to offer (`left`). `StoreSignals` inserts
all drafts in one transaction, minutes after `ReadActiveKeys`. `Fail` is an
exception outside the loop over pairs (one retry), `LoseWorker` the redelivery that
`acks_late` and `task_reject_on_worker_lost` ask for, `Kill` the hard time limit. A task
that is delivered again starts from nothing under a new number, so a signal is
named by number and key. `sweep` and `edit` are the sessions of
the expiry task and of an admin who cancels: selected first, written back later.
`disabled` is the list of switched-off tasks with its older entry for all exchanges.
`tried`, `offered`, `broken` and `met` are history variables, in no guard; `met` are the pairs of starts that
were at work on a common exchange at the same time (`Meet`).

What the models answer is a free choice per symbol, and so is what an attempt
comes to. The clock ticks at any moment, `Lifetime` in ticks. A signal's three
tables are one, since no statement spans two of them.

### SignalPrices and TradeDecision

`SignalsFrom` maps a round of answers and a view of the market to the signals
stored: none or one. Prices are integers; a `Grain` is the eighth decimal, so `Stored` rounds as
the code does. `TradeDecision` takes the signal through `execute_signal` with one
step per await: `Attempt` (settings, drawdown), `ReadBalance`, `Gates` (trend
filter, evaluation, performance guard), `Size`, `CheckReference` (ticker, TP/SL
validation, row created), the ladder of leverages (`LeverageSet`, `LeverageTooHigh`,
`LeverageFails`, `LadderEnds`), `PlaceOrder`. Meanwhile prices move, the signal
expires and an admin writes settings. The leverage that the code believes in and the
one the exchange has are two variables, because for Binance they differ.

One signal and one strategy; other executions are a `history` chosen at the start. A profile is
allocation, risk multiplier, leverage and drawdown cap. `leverage_limit` is a float: it is counted in tenths (`OneFold`),
`PositionValue` uses all of it and `TargetLeverage`, which is `int(leverage_limit)`, is what the exchange is asked for and
what `Rescaled` divides by.

### Billing

One user: users share no row. `client[c]` is a `/subscribe` request that has read
the table and awaits the invoice; it holds what it will write (`expire`, `cancel`,
`set`). `hook[h]` is a webhook delivery between its reads and its commit, with
the status of the payment it has seen. `Writes` records that a session updates a column only if it
changed its copy. `due` and `grace` are how far `expires_at` and `grace_until` are;
`Elapse` lets them come at any time. `notice` is the daily task between the
e-mails and its UPDATE. `origin` is a ghost: who gave a subscription. `had`, `reset`, `before` and `crossed` are history: subscriptions that have
been active, expired or cancelled, those an admin has set back to PENDING_PAYMENT, what its user had had when a trial was asked
for, and payments with deliveries for their invoice open at the same time (`Meets`).

### Downline and Ambassador

`Downline` computes from the tree what the service computes with recursive queries: paying referrals,
team volume, qualified legs, the highest qualified rank, commissions per level with the
generational override. `Ambassador` runs a request ambassador by ambassador and step by
step (`Cycle`); customers come and go between the steps (`Churn`), and
a failing request is rolled back to what it had saved (`RollBack`). The `ledger` holds
commissions and bonuses as items with a copy number, because nothing in the schema keeps
an award unique. A payout may name an item twice and is then worth it twice; a payout made in one step of the
model names two items at most. Requests do not overlap (`run.busy`). `tidy`, `disputed` and
`pooled` are history: nothing done by hand, items an admin changed or paid twice, how often a pool
was calculated.

### Accounts

`request[c]` is a session: the row as loaded (`view`), the row as the handler
leaves it (`new`) and how far it is. A flush locks the row and its unique values
(`Blocked`), fails on a taken one (`Taken`) or on a code too long for its column (`TooLong`);
the commit writes the changed columns (`Merged`) after the answer is sent. `Refuse` is a key or
a bot that the exchange or Telegram rejects. Codes, links, keys and passwords are the number of the
request that made them. `column` is whether the database enforces VARCHAR(6): SQLite does not,
PostgreSQL does. `Die` ends a process anywhere. `behind` and `crossed` are history: requests that work on what another
has changed since they loaded it, and the keys, bot, address or count whose last change was made
that way (`Cross`). The next request that writes them anew from what is stored makes them whole again.

### Performance

A report is the list of its SELECTs (`Plans`); each step reads one section from the
table as it then is. `Booked`, `Figures` and `GroupBy` are the queries; `Core`, `MemberFigures`
and `PublicFigures` the three programs for one figure. `capture` collects
balances member by member and stores them all or none. `overview` is the part of a
member's overview that reads snapshots. A `Scene` fixes which trades of the
instance happen, so that each behaviour is about one question. A trade in `held` has been read FILLED by a second closing as
well, the monitor's or a request's, which may still write its own result over the first (`Close`). `CleanUp` is the
weekly clean-up: it deletes old EXPIRED signals, and their executions go with them, CLOSED ones included. `PerformanceInit`, `PerformanceNext`,
`PerformanceSpec` and `PerformanceTypeOK` have the prefix because the theorems share a module, and the lemmas on
sums, with those of `Ambassador`.

## 3. Runs

Bounds are named in the cfg files. Attempts and requests of `TradeExecution` and
`PositionSync` are calls made at most once, `Concurrency` is the number of sessions open at once,
monitors are reusable slots.

| Run | Instance | Shows |
|---|---|---|
| `trade_overlap` | 3 attempts, any 2 open at once, 2 strategies of one user, a Bybit and a Hyperliquid signal; symmetry | `NoDuplicatePositions`, `MaxPositionsRespected`: only sessions that overlapped get past the second idempotency layer or the limit |
| `trade_faults` | 2 overlapping attempts on Hyperliquid and Binance, every fault; symmetry | `OrderedOnce`, `OpenLotsAreBooked`: how a pair is ordered twice and how quantity goes off the books, completely. `OneRowPerKey`: the unique index works however sessions overlap. `ProtectedOrAlarmed`: a Bybit or Binance position on the books has its TP/SL or an alarm. `ImplementsLedger` |
| `trade_live` | 2 overlapping attempts of one strategy, worker and trigger, Bybit and Hyperliquid | `SessionsEnd`: waiting for the unique index ends |
| `sync_safe` | 2 executions on one Hyperliquid position, 1 on Bybit, 2 monitors, 1 request, failing fetches, closes that fill nothing, replaced accounts, crashes; symmetry | `ClosedIsGone`: every way in which CLOSED is written over a live position |
| `sync_live` | Hyperliquid and a Binance account that never answers, 2 monitors, 1 request, accounts replaced and removed | `GoneIsRecorded`: what has left is closed while its keys stay on file. `ImplementsLedger` |
| `halt_roundtrip` | 2 strategies, 2 admins, 1 attempt, 3 halts, owners at any moment | `OwnersObeyed`, `HaltedMeansIdle`, `NoneClearedWhileHalted`, all but for `strayed` |
| `billing_safe` | 2 subscriptions, 2 requests and 2 deliveries of one payment at a time, daily task, admins; symmetry | `ActiveIsEarned`, `BookedOnce`, `TrialsOnce`, `PaidIsNotWaiting` |
| `ambassador_cycle` | upline and downline, 2 months, 3 admin requests, 1 payout, 2 copies of an item, thresholds scaled down to two people | `AutomaticOnce`: the service awards once. `PayoutsStand`, `MoneyAddsUp` (`EarnedMatchesRows` and `PoolIsShared`), `TypeOK` |
| `signal_pipeline` | 1 worker, 2 exchanges, 1 symbol, 1 strategy, 2 starts, 2 ticks, every fault | `OneLivePerKey`, `NoneTriedTwice`, `NothingSkipped`, `TogglesOneTask`, and `StaleIsExpired` under fairness |
| `decision_safe` | 3 models, 4 answers, 4 views of the market, each exchange, profiles with a leverage of 2.5, 10 and 1, 2 symbol rules, 2 settings written | `PublishedPrices`, `StopOutBounded`, `BothPricesBracketed` |
| `accounts_safe` | 3 rows, 2 clients, 4 requests, both column widths | `SignupsAgree` (`OneAccountPerIdentity` and `ReferralsCounted`), `VerifiedByOwnCode`, `CredentialsMatch`, `SwitchesStand`, and `AnswersAreStored` under fairness |
| `performance_views` | 5 scenes of at most 3 trades, 2 members, `Retention = 0`: every signal of an earlier day is old | `ReportAgrees` (`ReportAddsUp`, `NothingLeavesReport`, `DrawdownIsWorstFall`), `ViewsAgree`, `ReturnMatchesBalances`, `PerformanceTypeOK` |

Why the bounds are enough:

* Two attempts, monitors or requests make every race: each guard that relates actors
  relates two of them. Three attempts are the fewest in which a FAILED, a CLOSED and a
  FILLED row of competitors coexist; three executions let two share a position while a
  third is elsewhere; a second halt can store the ids of a first one that was resumed, and two admins
  overlap in each of the three rounds.
* Two subscriptions let a paid one meet an abandoned one. Two deliveries of one payment, each with either status, meet
  in every order; a second payment id for the invoice meets the first as two deliveries of one do (`Meets` goes by invoice).
* Two months let a commission be recalculated in its own month and after it, and a rank be lost and
  regained. Thresholds are scaled because the code's ten ranks need hundreds of
  referrals; rates and the bonuses of ranks are the code's.
* A pipeline and its one retry are two starts; with a lifetime of one tick, two ticks let
  a signal of the first expire under the second. One strategy suffices for who is
  offered what, since pairs are independent. With two workers and liveness the run would take too long, so
  `Signal_two_workers.cfg` checks its three invariants with any two pipelines side by side, of one exchange or of two
  (2.8 million states, passes), and the theorems of section 5 cover any number of workers, symbols, exchanges and strategies.
* Three models are the fewest with a majority that is not unanimous. The prices of the
  instance lie on both sides of every threshold; a grain of four units lets rounding go both ways.
* The first account is request 1; three more let two signups and an administrator
  overlap, or a change of address follow an earlier code.
* Three trades on three exchanges and at most three days give a gain, a loss and a gain
  again, one trade that no symbol query joins, and two exchanges that share a symbol.

Symmetry is used only where invariants alone are checked. Type invariants are
proved where a theorem of section 5 says so; `Decision_types.cfg` checks that of
`TradeDecision` (1.8 million states).

### Fairness

`TradeExecution!FairSpec` is weak fairness of `Step(a)`: every call to an exchange
has a client timeout and Celery's soft time limit (120 s) ends the rest. `PositionSync!FairSpec`
is weak fairness of `MonitorStep(m)`: Celery beat starts the monitor every minute.
`SignalPipeline!FairSpec` is weak fairness of `Expiry`, which beat starts every half
hour, and of `Pipeline(w)`. `Accounts!FairSpec` is weak fairness of `Commit(c)`: the code after
the yield of `get_db` runs once the response is out. Nothing is assumed of users,
admins, exchanges or close requests, nor that faults stop.

### Deadlock

Attempts and requests are made at most once or bounded in number, so a behaviour may end: the runs of
`TradeExecution`, `PositionSync`, `Accounts` and `Performance` say `CHECK_DEADLOCK
FALSE`. What must not wait for ever there is the subject of `SessionsEnd` and
`AnswersAreStored`.

## 4. What the code does not keep

### Counterexamples kept for reproduction

These cfgs are expected to fail, each on one property (`tlc -config X.cfg M`).

| Cfg, module, property | Shortest story | The repository says |
|---|---|---|
| `Trade_duplicate`, `MCTradeExecution`, `OneOpenRowPerSlot` | two workers read the open positions of a user (`ate.py:624`), then both open one | `tasks.py:790-793`: "enforces two idempotency layers: ... prevents duplicate positions across strategies or pipeline retries" |
| `Trade_status`, `MCTradeExecution`, `PassesOnlyNew` | a signal is cancelled, then executed: `tasks.py:264` and `ate.py:61` compare with EXPIRED only | `tasks.py:504`: "ATE checks signal.status == NEW for idempotency." |
| `Sync_blind`, `MCPositionSync`, `ClosedWasGone` | a Hyperliquid request fails and counts as "no positions" (`hyperliquid.py:72`); live positions are recorded as closed | `ate.py:1811`: "Position is GONE from Hyperliquid" |
| `Sync_abort`, `MCPositionSync`, `GoneIsRecorded` | one Bybit account cannot be fetched (`ate.py:1905`, not caught); nothing at all is recorded | `ate.py:1836`: "guarantees the execution won't stay FILLED" |
| `Halt_double`, `TradingHalt`, `HaltResumeCancelOut` | two halts overlap; the second stores an empty list and nothing is resumed (`trading.py:111`) | `trading.py:3-5`: "remember which strategies were active before the halt" |
| `Halt_paused`, `TradingHalt`, `HaltResumeCancelOut` | a strategy paused during a halt runs again after the resume (`trading.py:162`) | `trading.py:145`: "leaving user-deactivated strategies untouched" |
| `Signal_overlap`, `MCSignalPipeline`, `OneSignalAtATime` | two runs for one exchange read the live keys, both find none, and both insert a signal (`ai_engine.py:581`) | `ai_engine.py:633`: "Only skip symbols that still have an active (non-expired) signal" |
| `Billing_cancel`, `MCBilling`, `CancelsOnlyPending` | a webhook activates a subscription while `/subscribe` awaits its invoice, which then cancels it | `routers/billing.py:76`: "Cancel any existing pending subscriptions" |
| `Decision_ladder`, `MCTradeDecision`, `NeverAbovePlan` | a leverage of 2 cannot be set, 10 is tried next and the quantity scaled up (`ate.py:1175`) | `ate.py:1169`: "retry with lower values if symbol has a cap" |
| `Decision_loss`, `MCTradeDecision`, `LossPauses` | losses of CLOSED executions do not count (`ate.py:1669`) | its docstring: "Returns True if drawdown limit is hit and strategy should be paused." |

### Limits of the passing runs

What the properties except, because the code does not keep it, and other
limits met on the way. PROJECT.json has their lines under `hazards`.

* Trading. Two attempts that overlap may both open a position on a symbol, both pass the limit, and, for one pair,
  both order; the quantity of the one that loses the INSERT stays on the exchange without a row. So does that of a session that
  dies after its order. A row says FAILED over an open position when the answer was lost, or when the
  emergency close was accepted and filled nothing (`ate.py` 1462-1479). `ProtectedOrAlarmed` leaves out Hyperliquid, where a refused
  stop loss is logged and the position stays open without one. CLOSED is written over an open position on a replaced account, after
  a failed fetch of Hyperliquid, and after a close order that filled nothing, of any exchange: `execution.py` checks `success` only,
  and a fill that never comes falls back to the ticker or the entry. `GoneIsRecorded` speaks of the whole position of a
  symbol, while the keys are on file and prices are found. A close request whose execution is gone
  already reduces whatever else the account holds on the symbol (`Reduce`).
* Pipeline. Overlapping pipelines of an exchange insert two live signals (`met`). A task
  interrupted after its INSERT leaves signals that nothing executes: they live 2 h 15 min and
  the next run, two hours later, skips their keys. Expiry and cancellation overwrite each other. While the older
  `analysis-pipeline` entry is stored the list shows every pipeline off, and the
  workers run them. Two overlapping toggles lose one. Signals of Binance cannot be cancelled. Nothing sets EXECUTING
  or FILLED. One malformed answer of a model aborts the run.
* Decision. The ten-dollar bump never raises a rounded quantity (`ate.py` 130-141). A ticker that
  cannot be read leaves the signal's own entry as the reference. Prices are rounded after their ratio was
  checked, hence the grain in `PublishedPrices`; medians are rounded before. `StopOutBounded` allows the ladder's ten
  over the integer part of the limit: a limit of 2.5 that ends on 10 is sized with 2.5 and scaled by 10/2. The ladder goes on to ten
  even from a leverage of 1, when Binance refuses it with a text about limits.
  The counter-trend override is unreachable with the default settings;
  `ate_confidence_threshold` and `ate_max_executions_per_hour` can be set and are not read by the ATE.
  The row keeps the leverage it was created with.
* Billing. Overlapping deliveries book a payment twice and can write an older status over CONFIRMED (`crossed`); with overlapping
  requests a user gets two trials, each of which was asked for by one who had had nothing (`before`); an admin who sets
  PENDING_PAYMENT makes a paid subscription wait and its user eligible again (`reset`).
  The daily task writes EXPIRING_SOON over a subscription cancelled during the e-mails. EXPIRING_SOON may
  subscribe again. A refused guard rolls back the lazy expiry it made.
* Ambassadors. A repeated cycle adds the month's commission to `rewards_earned` again (`tidy`). A promotion
  by hand inserts a second RANK_ADVANCEMENT row, and later cycles fail on it. A payout accepts items that are PAID or
  named twice; cancelling one resets the items of another (`disputed`). A recalculated pool leaves old
  shares. The scheduled task imports functions that do not exist (`tasks.py:1044`). The check of "12+
  uninterrupted months" looks at the present subscription only.
* Accounts. On PostgreSQL the 64 digits of a hashed code do not fit VARCHAR(6) (`models/user.py:59`), so
  `register` and `submit_email` fail at the flush: the run has both kinds of column. Overlapping
  connect requests of one user mix key, secret and environment, a code mailed to the old address verifies a new one, and overlapping
  signups lose a referral, in each case by a commit on values that another request has changed since (`crossed`). Overlapping admin
  toggles lose one. An admin who edits an e-mail leaves it verified.
* Results. Positions that close between two SELECTs make a report disagree with itself
  (`changed`); a second closing writes its pnl over the first. Deleting a strategy deletes its results, and the weekly
  clean-up those of old signals. A custom range shows the balance of its first day and the
  return of the default range. A failed exchange counts as a balance of 0. Binance is not captured and
  missing from the symbol sections. Administrators' volume is multiplied by the leverage, members' is not. The
  member's drawdown is in percent of the final peak.

## 5. Proofs

Every theorem holds for all values of the constants that satisfy the module's own ASSUME (types of
the constants, a few of them nonempty or finite). What a theorem assumes
beyond that stands in its statement, which is little: `WholeQuotes` for two theorems of `TradeDecision`, finitely many
users for `SignupsAddUp`. No theorem restricts who may overlap, crash, fail or lose what.

* `TradeExecution_proofs`: `IInv` is `TypeOK` with three facts. `SessionOK`: which
  draft a session may have at each await, and that only a finished attempt has a
  committed row. `PairsOK`: `OneRowPerKey` with
  `OneHolderPerKey`; uniqueness of committed rows alone is not inductive, because
  `Commit` checks nothing: what protects it is that the holder of a pair is unique from
  its flush on and that a pair with a committed row has none. `ParentsOK`: the parents
  of a holder exist, by the locks of `Cascade`, which is what lets `Commit`
  map to `Record`. Steps that touch no row and no holder share `QuietStep`.
  `ProtectionStep` adds that a session about to commit FILLED on Bybit or
  Binance has its lot guarded, alarmed or closed, and gives `PositionsAreProtected`.
  `RefinesLedger`: `Commit` is `Record` (`CommitRecords`), `SyncClose` is `Close` (`SyncCloses`), the
  two deletions are `Retire` (`DeletionRetires`), everything else stutters (`StillStutters`). What the abstract
  table promises is proved of it (`LedgerHistoryIsFinal`) and carries over (`TableIsFinal`).
* `TradeExecution_proofs`, any number of sessions. `NoDuplicatePositions` and
  `MaxPositionsRespected` are not inductive: a session commits on what it read several awaits earlier. `OverlapInv` says
  that this still stands but for the sessions it has met, check by check: a row of the pair of a session past the first layer is of one it met
  (`PairClear`), so is a FILLED row of its slot (`SlotClear`), and next to any executions of its strategy that met neither it nor each other
  there is room (`RoomLeft`). `Kinds` sorts the steps: starting meets whoever is open, proceeding checks what it
  passes, committing adds one row, and closes and deletions only take rows away. This gives `OnePositionPerSlot` and `LimitHolds`.
* `TradeExecution_proofs`, orders and books. `Recorded`: a lot belongs to a session that still ends or to an attempt whose row, death, lost
  INSERT or deleted parent explains it; `OrdersMet`: two orders for a pair have met, but for a death or a deletion;
  `OpenLotsOK`: an open lot has its FILLED row, is about to get one, or has one of the listed causes. They give `PairTradedOnce` and `OpenLotsBooked`.
* `PositionSync_proofs`: `ClosedMeansGone`. `ClosedIsGone` alone is not inductive: a run and
  a request write CLOSED for what they found gone, or were told was gone, earlier: `GoneOK` says that it is explained by then and
  stays so (`Explained`), and `OpenedOK` that it was open once, so it cannot open again. `SyncRefinesLedger`
  needs that rows once read never turn absent (`SeenOK`).
* `TradingHalt_proofs`. An open request may write what it read long ago. `WantedOK` and `PausedOK` relate, strategy by strategy, what runs, what is wanted
  and what the halt record and the open requests still carry (`Carries`); outside `strayed` an open request is alone (`Alone`) and finds what it
  read (`RestOK`), which is what `Halt_double.cfg` breaks.
* `Billing_proofs`. `ActiveIsEarned`, `BookedOnce` and `PaidIsNotWaiting` come from one invariant
  `Inv`; none of the three is inductive, since a delivery commits what it decided on rows read earlier, which others may have
  changed. `HookOK` says of every open delivery that what it has read still stands (`Knows`) unless it has crossed another (`CrossOK`),
  `Remembers` and `HadOK` that what a subscription has been is not forgotten by those who write over it. `TrialsOnce` has `TrialInv`: a request for a
  trial, at whatever moment it writes, was eligible when it read, and eligible means new (`EligibleMeansNew`).
* `SignalPipeline_proofs`. A step is quiet or moves one worker (`Kinds`). `WorkOK`: numbers of
  tasks and signals are apart (`NumbersOK`), what was offered bears a number given before and is no longer left
  (`OfferedOK`); this gives `TriedOnce` for any faults. `EvenOK`: the signals of one task are offered, or left to be
  offered, to the same strategies; with `StoredOK` (no signal under a number not given yet) it gives `OfferedEvenly`. `TurnsOK`
  relates two moments: of the keys a pipeline drafts signals for, those live by now come from pipelines it has met (`DraftsOK`), because
  whoever else inserts there is at work at the same time (`MetOK`) and time and admins only end signals
  (`LiveShrinks`); this gives `OneSignalPerKey`.
* `Accounts_proofs`. Each step begins a request, takes it on, commits it or drops it; `Base` is `TypeOK` with
  what a session holds at each stage (`Sessions`). `OneAccountEach` holds by the check at the commit, and
  `SwitchesAreAdmins` because only an administrator's copy differs from its row in the switches: neither
  has an exception. `CredentialsBelongTogether` and `AddressIsProven`: a session that is not `behind` still finds
  in the row what it loaded of its matter, but for what administrators write (`HeldOK`), so the
  merged row is the row of one request; one that is behind leaves it crossed (`RowOK`). `SignupsAddUp` counts: the referrer's
  total is the number of referred rows until a signup that is behind commits, and never more, because
  such a signup writes an older number (`Counted`).
* `TradeDecision_proofs`. `InStep` keeps the stage of the attempt and the row together. `RefusedForGood`: the strategy
  never comes back to a signal it has a FAILED execution for. `ReferenceBracketed`: the last price seen lies between stop and
  target in every order, whatever `SignalPrices` returns. `PublishedLevels` follows the answers: a median of prices named is
  between them (`KthPrice` exists, by induction over the set of answers), normalised levels are in order with the stop
  within its bounds (`Sound`), and rounding each to a grain keeps the order, because a stop is at least half a percent away. This
  assumes `WholeQuotes`: the reference price has at most eight decimals. Without it the theorem is false where
  a price is worth fewer than about eighty grains, since the target can be rounded onto the entry. `OrdersBracketed`
  takes the levels to the order. `LossIsBounded`: the planned quantity is worth the position value until the leverage is
  settled, each rung of the ladder is under its ceiling, and scaling by the rung keeps the product (`SizeOK`), whatever fraction the limit it was sized with has; it needs no assumption.
  Type correctness comes last: it needs all of these, and the confidence of a signal to be a sum over answers (`ConfidenceIsWhole`).
* `Ambassador_Performance_proofs`, the programme, assume nothing beyond the types of the constants. Sums come first: `SumTakes` (what an element adds), `SumUnion`, `SumSame`,
  `SumOfEqual`, which make the figures of `Downline` numbers. `Base` is `TypeOK` with what is left of a request, the
  numbering of copies without a gap (`LedgerOK`) and the types of what a rollback would bring back (`SavedOK`). `PayoutsStand` is not inductive
  under `RollBack`: `PaidOK` says the same of the saved ledger, and that two payouts share only disputed items, or
  cancelling one would reset the other's. `SumsAgree` has two invariants, each again for the current and the saved tables:
  `EarnedOK` (`rewards_earned` is the sum of its rows; in a cycle, whoever is still to come has no
  commission of the month yet) and `PoolOK` (a pool calculated once has its shares, one not calculated has none).
* `Ambassador_Performance_proofs`, the reports, assume `PerformanceConstants` only: types, and finitely many trades and members.
  `TableOK` (nothing is dated later than now, no order is executed before its row began), `CapturesOK` and
  `OverviewOK` give `PerformanceTypeCorrect` and `ReturnsMatch`, whose substance is arithmetic: a return rounded to
  hundredths stays within half a unit (`PercentIsClose`). `ReportsAgree` is not inductive because a section is compared with
  totals another SELECT read earlier, and the table may lose rows and change results in between. `StageOK`: a report is at a section of its plan, which begins with
  the totals. `TotalsOK`: these are the totals of the closed trades of the period as long as nothing
  changed, and no more than them but for what was removed or settled anew (`changed`). `AgreesOK` is what each
  section owes them. Under it: a sum by groups is the sum of the whole (`SumByGroup`, `CountByGroup`), symbols
  included once the exchanges' spellings are merged (`MergedAddUp`); and the loop over days
  that keeps a running total and a peak finds the worst fall (`FallIsWorst`), by an induction on
  the set of days walked that unrolls its recursive function (`UpToInduction`, `FallsSeen`).
  `AllViewsAgree` follows from `TableOK`: owners partition the trades, the
  ranks of `Before` number the closed ones without a gap (`RanksAreAll`), and so the last day of the
  curve is the total of the public page.

Finite sets: the library's induction takes a predicate as a parameter, which the provers cannot instantiate.
`SubsetInduction` and `ElementInduction` state it with the set of subsets for which something holds,
from the well-foundedness of inclusion, and are proved here; a use of them defines that set. This is how sums, medians and maxima
of finite sets of any size come into the proofs.

Only model-checked:

* liveness (`SessionsEnd`, `GoneIsRecorded`, `StaleIsExpired`, `AnswersAreStored`), which is beyond the prover
  under fairness;
* `AutomaticOnce`, which speaks of requests that do not overlap in the first place. Every other invariant and action
  property of section 3 is a theorem.

## 6. Not modelled

* The window of the rate limiter: it lives in the memory of one process, so four workers count apart; in
  `TradeExecution` it is a refusal that may come at any attempt. The check and the record of an attempt are far apart
  (`ate.py` 553 and 1389).
* The limits of a plan on strategies, allocation and tokens (`plan_enforcement.py`): each compares one count
  with one constant, and overlapping requests pass it together.
* `monitor_positions`' search for exit prices and close reasons; signing, rounding and parsing in the exchange clients.
* Market streams, chat, learning, support, transparency, admin views, health endpoints, migrations: caches and plain reads and
  writes without a rule that relates two steps. JWTs keep no state. Notifications are best effort after the state change.
* Sharpe ratios, averages, funnels and exports of the reports: further sums over the same rows.
* Overlapping admin requests in the ambassador programme: nothing in the schema keeps an award unique, so every property
  there would be assumed away or fail for the same reason.

What is worth doing next: `Billing` and `TradeExecution` composed over access that ends between the gate and the order; close reasons in `PositionSync`.
