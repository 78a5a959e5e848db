# A TLA+ verification of the Robinhood trading agent

The program trades crypto live (under many gates), prepares live orders for equities and options,
keeps paper lanes for both, and runs scheduled "scouts" that mail research reports and entry alerts.
This directory models it: TLA+ modules, TLC configurations for small instances, and proofs for all
instances. Paths below are relative to the repository root; the Python package is `src/` in it.

    tlc -config CryptoSupervised.cfg MCCryptoLane     # model-check a run
    tlapm DayStoreProofs.tla                          # check the proofs of a module

| module | content | instances | proofs |
|---|---|---|---|
| `CryptoLane` | the live crypto lane: commands, dashboard, stop file, counters, venue | `MCCryptoLane`, `Crypto*.cfg` | `CryptoLaneProofs` |
| `Settlement` | the verdict WIN / LOSS / OPEN, no state | with `DayStore` | `DayStoreProofs` |
| `DayStore` | the shared day document: scouts, entry alerter, settlement sweep | `MCDayStore`, `Day*.cfg` | `DayStoreProofs` |
| `Calibration` | tallies over the day documents against a replay of the same plays | with `DayStore` | `DayStoreProofs` |
| `OptionPaper` | the options paper lane: loop, proving run, trader cycle, reconciliation | `MCOptionPaper`, `OptionPaper.cfg` | `OptionPaperProofs` |
| `OptionGates` | the risk caps of options, no state | with `OptionOrder` | |
| `OptionOrder` | a live option order through broker, client and venue | `MCOptionOrder`, `OptionOrders.cfg` | `OptionOrderProofs` |
| `EquityGates` | exchange calendar and compliance guards, no state | with `EquityOrder` | `EquityOrderProofs` |
| `EquityOrder` | a live equity order beside the paper loop, over days | `MCEquityOrder`, `EquityOrders.cfg` | `EquityOrderProofs` |
| `Overlays` | rules signal, indicators, news, breadth, liquidity: the decisions | with `EquityCycle` | `EquityCycleProofs` |
| `MassiveClient` | the shared market-data client: cache, throttle, retries | with `EquityCycle` | `EquityCycleProofs` |
| `EquityCycle` | the cycle of the equities loop, reading by reading | `MCEquityCycle`, `EquityReadings.cfg` | `EquityCycleProofs` |
| `EquityPaper` | the equities paper lane: ledger, audit log, proving runs | `MCEquityPaper`, `EquityPaper.cfg`, `EquityTradedClaim.cfg` | `EquityPaperProofs` |
| `CallRegister` | abstract: a register of calls that only grows | refined by `SectorState` | `SectorReadinessProofs` |
| `SectorState` | the Sector Scout's calls, kept in two copies | `MCSectorState`, `SectorCalls.cfg` | `SectorReadinessProofs` |
| `Readiness` | the live-readiness reports of equities and options | `MCReadiness`, `ReadinessReports.cfg` | `SectorReadinessProofs` |

`PROJECT.json` lists the components, runs, mutants, the map to the source, findings, hazards and
theorems.

## 1. Inventory

### Live crypto lane
*Code:* `src/main.py` (commands), `src/risk_manager.py`, `src/order_manager.py`, `src/kill_switch.py`,
`src/logger.py`, `src/live_broker.py`, `src/robinhood_crypto_client.py`, `src/paper_broker.py`,
`src/strategy_engine.py`, `src/dashboard.py`.

*State.* On disk: the `STOP_TRADING` file; the mode, once in `.env` and once in
`trading_rules.yaml`; the risk section of the rules. In SQLite: `orders` (the cooldown is the age of a
symbol's last row), `daily_summary.trade_count` (one row per UTC day), the paper ledger. In the
dashboard's memory: smoke previews that passed the risk check. At the venue: cash, holdings, open
orders. In each process: what it loaded at its start.

*Operations.* `run-live`, the dry, paper, live and bounded loops, smoke and single orders with a typed
confirmation, the dashboard's preview, submit, bounded iteration, stop, clear, return to paper,
cancellation of open orders, the reset of the daily paper summary.

*Interaction.* Every command is an operating-system process; the dashboard is one more and serves one
live-control request at a time. Nothing locks anything; each logger call is one transaction.

*Hard.* Check-then-act on the stop file and the daily count; an order accepted whose HTTP answer is
lost; deaths between the order and its two log writes; midnight UTC between check and count; rules
loaded once by a loop and never again; previews sent long after their check.

*Correct when* the count is exactly what was traded less known leaks, the cap is exceeded by no more
than the races allow, the stop file bounds what still goes out, and loops end under it.

### Day store, entry alerts, scout settlement, calibration
*Code:* `src/entry_alerts/{store,alerter,email,config}.py`, `src/scout_settlement/{engine,settlement}.py`,
`src/scout_calibration/calibration.py`, `src/scout_backtest/backtest.py`, and what a scout writes
(`_persist_for_alerts` in `src/options_scout` and `src/smallcap_scout`).

*State.* One JSON object per day in a bucket: plays, fired ids, and for each play an optional outcome.
Each execution is a container that loads the object, changes it and uploads it whole.

*Operations.* `save_plays` (scouts), `run_cycle` = load, fetch prices, `mark_fired`, mail (alerter,
every 10 minutes), `run_settlement` = list days, grade, `save_outcomes` (evening); on the reading side
`compute_calibration`, `report_summary`, and `settle_play` of the replay.

*Interaction.* Only the object. No generation check on upload; a failed read is an empty document; a
failed upload goes to a local file that vanishes with the container. Scouts and alerter name the day by
the UTC date, the sweep by the New York date.

*Hard.* Lost updates, overlapping alerter executions (600 s timeout and one retry on a 10-minute
schedule), mark before mail, two clocks, re-grading with other data on another day, a replay that has
not all the plays and not all the minutes.

*Correct when* mails are bounded by executions and lost marks, the sweep never meets a writer on the
same day, a final verdict never changes, a recorded win was won, and the published hit rate does not
flatter.

### Option lane
*Code:* `src/robinhood_option_broker.py`, `src/robinhood_option_client.py`, `src/option_risk_gates.py`,
`src/option_runtime.py`, `src/option_strategy.py`, `src/option_trader/`, `src/shared_state.py`.

*State.* The paper ledger (`paper_trades`), the option audit rows, the arm documents, the kill switch;
at the venue, orders and open positions whose premium is capped.

*Operations.* The paper loop (trade a cycle), the proving run (reset, loop, reconcile, record), the
trader cycle (arm check, scout plays, paper loop without reset, reconcile), `submit_option_order`
behind two layers of gates, arming and disarming.

*Hard.* A crash after fills and before the reconciliation; windows of audit rows that belong to a
crashed run; a trader cycle that reconciles a ledger it did not reset; every gate asked before the
send and not with it; an open premium that could not be read and counts as zero; an answer that is
lost and an order that is sent again.

*Correct when* a run taken for clean has traded, a reported mismatch has a cause one can name, no more
than the orders under way go out after a disarm, the caps bound what is open, and one intent is one
order.

### Equity lane
*Code:* `src/robinhood_equity_broker.py`, `src/equity_compliance.py`, `src/market_hours.py`,
`src/equity_runtime.py`, `src/robinhood_equity_client.py`, `src/equity_intelligence/`.

*State.* The `orders` table (day-trade history and unsettled sales are read off its rows), the audit
rows, the paper ledger; in a client the account it read when it was built; in a loop the caches of its
providers and of the one Massive client they share.

*Operations.* `place_limit_order` (gates in a fixed order), `run_equity_cycle` (screen, breadth, and
for each symbol signal, indicators, news, size, order), the paper loop, the proving run, the
request of the client.

*Hard.* Two calendars that differ at holidays; guards whose history is only what was logged; cash from
before the previous order; the crypto lane and both paper lanes writing into the same tables; readings
cached with their failures across midnight; retries past the throttle.

*Correct when* a small account's day trades stay under the limit, no buy is paid with unsettled money,
the overlays can only reduce an entry, and a proving run judged clean is one.

### Live readiness
*Code:* `src/equity_readiness.py`, `src/option_readiness.py`. Reports that run the test suite, read
rules, git, source and audit log, and give a verdict for each gate. *Hard.* The parts of the evidence
are read minutes apart, the account's anchor a second time; bounds at their edges, values that are no
number or no whole one, names that are missing; a test of many cases one of which failed.
*Correct when* a verdict was true of the tree it was made of.

### Sector Scout
*Code:* `src/sector_scout/{runner,state,settlement}.py`. *State.* A list of open calls in a local file
and in a bucket; a read takes the fresher by their time stamps. *Operations.* A run grades the open
calls, saves, appends the new ones, saves. *Hard.* Either write fails silently, a local one half way
too, the two clocks differ in either direction, runs die between the saves and in them, or overlap.
*Correct when* what was saved is found again and a frozen verdict stays.

### The rest
Rankings, indicator arithmetic, the crypto intelligence score, reports and mails compute over fetched
data; `src/web_security.py` filters requests; `deploy/` says which jobs run when. None of these keeps
a state that two steps share.

## 2. Plan

Done, in the order of what depends on it: **CryptoLane**, **Settlement**, **DayStore**,
**OptionPaper**, then **OptionOrder** with its gates, **EquityOrder** with guards and calendar,
**SectorState** with the abstract **CallRegister** it implements, **EquityCycle** with overlays and
client, **EquityPaper**, **Readiness**, **Calibration**.

Left:

1. An atomic day store (`save`, `mark`, `settle` in one step) that DayStore implements as long as no
   two loads overlap, and an order counter that CryptoLane implements up to the named leaks.
2. The replay of `massive_history` as the source of the prices of EquityPaper.
3. The loop of `settle` as a fold, compared with the declarative `Settle`; the liveness of settlement
   (a play is decided or leaves the window), which needs fairness of the sweep.
4. The change log and run tables of the Sector Scout; the settings form of the dashboard, which would
   let `config` of CryptoLane change under a running loop.

## 3. How the models correspond to the code

### CryptoLane

| variable | code |
|---|---|
| `stop` | the file `STOP_TRADING` (`kill_switch.py`) |
| `envLive`, `cfgLive` | `TRADING_MODE` in `.env`, `trading.mode` in `trading_rules.yaml`; written one after the other by `return_to_paper_mode` |
| `config` | `max_trades_per_day`, `max_open_positions`, `allowed_symbols` of the rules |
| `tradeCount`, `cooling` | today's `daily_summary` row; symbols whose last `orders` row is younger than the cooldown |
| `previews` | `app.state.smoke_previews` |
| `venue`, `paper` | the account and its open orders; the sums of the paper ledger |
| `pc`, `job` | where each process stands and what it holds in memory |
| `accepted`, `uncounted`, `stale`, `late` | history, read by no action |

A command is a path through `pc`:

    idle -> preflight -> top -> scan -> evaluate -> submit -> log -> count -> scan ...   loops
    idle -> evaluate -> confirm -> submit -> log -> count -> idle                        smoke, single
    idle -> submit -> log -> count -> idle                                               stored preview

Each arrow lies between two accesses to something shared, so another process, the operator or a death
can come in between. `evaluate` is `RiskManager.evaluate` with its refusals in their order; `submit` is
the broker's `place_order`, whose answer may be an acceptance, a refusal, or an exception after the
venue took the order; `log` and `count` are `log_order` and `increment_trade_count`, each one
transaction. Two paths never count (`smoke` from the command line), which the model keeps.

Abstracted: money is in units (an order is one unit of cash against one unit of a symbol), which keeps
every comparison the gates make except the allocation percentages; these appear as a refusal that may
come on any buy. A signal is nondeterministic under the conditions `generate_signal` puts on
positions. Time is two events, the end of a cooldown and the change of the UTC day. `config` is fixed
in a behaviour (saving settings from the dashboard is left out), `TRADING_ENABLED` and the credentials
are there. Whether the venue accepts the repeated `client_order_id` of a preview sent twice is left
open. The paper fee is left out.

### Settlement

`Settle(play, bars, minutesOf, horizon)` says what `settle` computes: the first of the first `horizon`
sessions that touches a level decides; if it touches both, the first deciding minute decides; missing
or undecided minutes give LOSS. It is written with quantifiers where the code loops.

### DayStore

| variable | code |
|---|---|
| `doc` | the bucket's object of each day: plays, fired, outcomes |
| `utc`, `et` | `datetime.now(timezone.utc)` of scouts and alerter; New York's date of the sweep |
| `market` | bars and minute bars, chosen at the start and the same for everyone |
| `pc`, `job` | the step of each execution; the day, the plays, the document it loaded |
| `alerted`, `disturbed` | history: mails by day and play; uploads that carried an old fired set, or that only reached the local file |

A scout is `load -> write`, the alerter `(load in AlertStart) -> load -> write -> send`, the sweep
`sweep -> merge -> put` for each day. `LoadDay` is the read with its fallback, `WriteLocal` the upload
with its fallback. A scout and the alerter drop outcomes when they write, because `DayState` has no
such field: this is why it matters that they never write a day the sweep has settled. Which unfired
plays a price fetch finds hit is any subset. `SweepDay` passes over plays whose bars cannot be had and
grades an ambiguous session as if it had no minutes when those cannot be had.

Two assumptions about the calendar. Every day is a session, so a horizon counts days. And an execution
of a scout or of the alerter does not last from before midnight UTC until midnight in New York, four
or five hours: the guard of `EtMidnight`. The deployment scripts give the jobs task timeouts of
minutes. `SettlesPastDays` rests on this; without it the sweep and a very long scout could meet.
Dry runs of the alerter and of the sweep write nothing and are left out; dry runs of scouts save plays
and are included.

### OptionPaper

| variable | code |
|---|---|
| `stop` | the file `STOP_TRADING_OPTIONS` |
| `ledger` | filled rows of `paper_trades` in the options ledger |
| `audit` | the `decisions` rows the reconciliation and the readiness gate read: fill, completion, halt, reconcile |
| `pc`, `job` | the step of each execution; its candidates, the cash it read, the expectation it read |
| `runs`, `lost` | bounds: executions and deaths |
| `overlap`, `unlogged` | history: executions that ran next to another; fills booked and never logged |

A proving run is `reset -> top -> cash -> fill -> log -> fill ... -> top -> expect -> compare -> record`,
a trader cycle the same from `armed` without the reset. Both go on to reconcile after a halt, which
leaves a halt row and no completion. `Expected` is what `_expected_from_audit` counts, `CleanWith` the
pairing of completions, windows and reconciliations in `option_paper_proving_runs`.

Abstracted: every fill is one contract for one unit of premium without a fee, so that the quantity, the
notional and the cash comparison say the same thing, and the several reads of the ledger in one
reconciliation are one. Which plays are offered and which pass the per-trade gates is any set under the
total premium cap. `DefinedRiskViolationError` cannot fire, because the mapper frames long options only
(the code says so at `option_runtime.py:611`). An iteration count ends the loop; the deadline in hours
is left out. A trader cycle is recorded on a basis the readiness gate does not count. Proving runs and
trader cycles share their files, as they do when both run on one machine; in the cloud each trader
container has files of its own.

### Calibration

Reads the state of `DayStore`. `Records` are the plays of reported days, `Recorded` the outcome in the
document now, `Replayed(r, gap)` the verdict `settle_play` gives from the bars of the days after the play
(`Span`), `Tally` the counts of `compute_calibration` and `report_summary`. Prices do not change, so a
replay is later data of the same market; the tiers, scouts and days of the page are sets of records.

The replay is not complete, and the model does not pretend it is. `settle_play` gives up on a play whose
bars it cannot fetch (`backtest.py:73`) and settles one without minutes as a loss where both levels were
touched (`settlement.py:115`). `run_backtest` does not read the recorded plays at all: it derives the
options scout's again, on days of its own (`backtest.py:84`, `:137`), so that of a recorded play there
may be no record in the replay, and of the other scout's there never is. `Gap` names what a replay lacks
for a play: nothing, its minutes, or the record. The comparison is made for every choice of gaps. Plays
the replay finds that were never recorded are not compared with anything.

### OptionOrder, OptionGates

| variable | code |
|---|---|
| `armed`, `stop` | the arm marker of the options lane (`FileArmStore`), `STOP_TRADING_OPTIONS` |
| `orders` | the venue's book; an order is known by the key `_deterministic_ref_id` makes of its content |
| `pc`, `job` | where a submission stands; the request, the premium it counts as open, the day its expiry was counted |
| `late`, `intent`, `careful` | history: orders after a disarm or a stop; what the operator asked for; a send whose counts were up to date |

A submission is `arm -> read -> kill` in the broker and `clientArm -> clientRead -> clientKill -> send`
in the client: the arm gate, the caps over the positions read at that moment (or over nothing, when
they cannot be read), the kill switch, twice. `BrokerCaps` and `ClientCaps` of `OptionGates` run the
gates of `evaluate_option_order` over what each layer makes of the order: the client restamps expiry and
direction from the legs. After a lost answer the session sends the order again or gives up. Abstracted:
one contract at one dollar a share, which a cap of one dollar turns into one position; the double human
gate is passed (without it a submission is a preview); the account has level 3.

### EquityOrder, EquityGates

| variable | code |
|---|---|
| `day`, `stop` | the New York date, `STOP_TRADING_EQUITIES` |
| `cash`, `held`, `orders` | the account at the venue and its book |
| `rows`, `trades` | the `orders` table, `daily_summary.trade_count`: shared with the paper loop |
| `client` | the account's cash as `RobinhoodEquityClient.__init__` read it |
| `pc`, `asked` | the submission under way |
| `loop`, `own` | the paper loop beside it and the positions of its ledger |

`risk -> brake -> guards -> send -> log -> count` follows `submit_signal`, `RiskManager.evaluate`,
`place_limit_order` and the two writes after it. `EquityGates` translates the calendar, the window of
sessions, the settlement day (weekdays, holidays included) and the three guards over table rows; the
rows a guard reads are a set of places in the table (`Since`), and a sum of their amounts is counted in
units (`Total`), which keeps the proofs out of recursion over sequences. `LookbackAssumption` says that
the days the guards ask for (`Lookback`, twelve calendar days in the code) reach over the whole window.
Abstracted: a share costs one dollar; a day passes only between submissions; the hours of the day are
the choice to be refused; positions are read fresh, as in the code; the margin and order-type checks,
constant here, are left out.

### EquityCycle, Overlays, MassiveClient

`EquityCycle` walks one loop through `top -> begin -> screen -> liquidity -> breadth -> price -> symbol
-> indicators -> news -> size -> submit` as `run_equity_cycle` does, one reading per step; in between
the operator toggles the stop file. `MassiveClient` answers a question from its cache (path and UTC day)
or sends it: throttle, 429 with backoff, failure, midnight in a sleep. Each provider keeps its readings,
errors included, for the life of the loop (`brake`, `seen`). `Overlays` has the decisions as operators
over readings: `Liquid`, the rules signal, indicator vetoes and scaling, the news filter, the breadth
brake. `rules` stands for the sections of the two YAML files and is fixed in a behaviour. Shares are
percentages, confidence counts millionths; prices, bars and articles are chosen from small sets that lie
on and beside each threshold. What the risk manager refuses is free, except that it reads the stop file
again. The four indicator requests of a symbol are one.

### EquityPaper

| variable | code |
|---|---|
| `stop` | `STOP_TRADING_EQUITIES` |
| `ledger` | the sums of the filled `paper_trades` |
| `audit` | the `decisions` rows the readiness report reads: fill, loop completed, reconciled, counters reset |
| `pc`, `job` | the step of each execution, its symbols left, the portfolio it loaded, its order |
| `overlap`, `dead`, `grace` | history: executions beside another; dead ones; orders past the risk check when the stop file came |

A proving run is `reset -> top -> begin -> symbol -> risk -> fill -> log -> ... -> observe -> compare ->
record`; the loop on connector quotes is the same without the first and the last steps. `Clean` is
`paper_proving_runs`, from the audit log alone. `OtherRow` is what the crypto lane and the commands that
reset counters write into the same table. Any signal may arise; an order is any amount up to the
per-trade limit, the fee is added after the cash check, as `place_order` does.

### SectorState, CallRegister

`bucket` and `local` are the two copies of the call list; a `local` copy is `newer` when its time is
after the blob's. `disk` tells a machine that keeps its directory from containers that do not, `clock`
whether the machine's clock is right, behind or ahead of the bucket's. A run is `grade -> saveGrades ->
append -> saveNew`. `Read` and `Write` are `_read` and `_write`, with the failures they swallow. What
becomes of a local file is its `Fate`: `written`, `unopened` (the old text stays), or `torn`, since
`write_text` empties the file before it writes (`state.py:93`), and a disk that is full or a run that
dies there leaves a file `_read` cannot parse and passes over (`state.py:130`). Such a file is no copy
(`NoCopy`). A read may miss either copy, or both. After an upload every copy is the older one, unless it
has its time from a clock that is ahead (`Aged`). New verdicts are any the data may give: the rule is
`Settlement`'s.

`harm` records that something happened for which the store promises nothing:

* a run started while another was active;
* a failed upload, from a container or with a clock that is behind;
* a failed read of one copy, or of both, that gave other than what is stored;
* a local file torn, by a failed write or by a death, while it alone held what an outage had kept from
  the bucket, and no upload followed;
* a local file that cannot be opened, while its own time, from a clock that is ahead, makes it look newer than
  the blob uploaded after it.

`CallRegister` is what settlement needs of its store: calls are only added and frozen verdicts stay,
until `harm`. `SectorState` implements it with `calls <- Stored, trusted <- ~harm`, where `Stored` is
the newest copy that is still there.

### Readiness

`tree` is what a report can tell of the working copy: the lines pytest prints, the rules, the files and
string literals a scan looks for, what git says, the number of clean proving runs of each lane.
`report` is the report under way: `StartReport` reads the rules, `RunSuite` the outcomes, `Judge` the rest, and
between any two somebody edits one fact. `Judge` takes caps and stop-file names from the rules that were
loaded, and the anchor of the account from the file as it is then (`option_readiness.py:213`).

A value is nothing, a text, a number, or a number in quotes, counted in halves. `float()` makes a number of
the last two; `int()`, which the options report uses for the contract multiplier and the level floors,
drops a fraction (`Truncated`) and raises on a text and on a fraction in quotes (`Raises`), and since
nothing catches it the report ends without a verdict (`crashed`). A stop file has its usual name, another's, is
empty or is missing; `StopOf` is what each report takes a missing one for. `Sound` is the
reference: what the two documents ask of a tree, stated over the tree, on the values the lane works with
(`option_risk_gates.py:244`).

## 4. Runs

| run | instance | properties |
|---|---|---|
| `crypto_supervised` | 1 CLI and the dashboard, 1 symbol, one trade and one position allowed, 2 venue orders, 1 death, 1 preview, 1 reset | `TypeOK`, `CountConserved`, `DailyCapOvershoot`, `BrakeBound` |
| `crypto_loops` | 1 CLI and the dashboard, 2 symbols, the loops, 1 change of day, fairness | `CountConserved`, `DailyCapOvershoot`, `LoopsStop` |
| `day_alerts` | 1 day, 2 scouts and 2 alerters, 6 executions, 2 faults | `AlertsBounded` |
| `day_settle` | 5 days, 1 scout, 1 alerter, the sweep, 12 price histories, 1 fault, horizon 2, window 3 | `TypeOK`, `SettlesPastDays`, `WinsEarned`, `OutcomesSurvive`, `CalibrationUnderstates` |
| `option_paper` | 2 processes, 2 contracts, 3 executions, 1 death, cap 2, cash 1 | `TypeOK`, `CleanIsEarned`, `AlarmIsExplained`, `PremiumBound` |
| `option_orders` | 2 sessions, 3 intents, 2 contracts, cap 1, 1 lost answer, 3 days | `TypeOK`, `CapOvershoot`, `LateOrders`, `OncePerIntent` |
| `equity_orders` | 1 symbol, Friday to Tuesday with a holiday Monday, 4 orders, 1 lost answer, 1 paper cycle | `TypeOK`, `DayTradesBounded`, `FundedFromSettled` |
| `equity_readings` | 1 symbol, a loop of 2 cycles across midnight, 1 failure, fairness | `TypeOK`, `OverlaysOnlyReduce`, `NoVetoOverruled`, `BrakeHolds`, `RequestBudget`, `LoopEnds` |
| `equity_paper` | 2 processes, 2 executions of 2 cycles, 1 death, 1 foreign row, fee 1 | `TypeOK`, `CleanIsEarned`, `AlarmIsExplained`, `OverdraftBounded`, `StopHolds` |
| `sector_calls` | 1 fund, 4 runs, 2 at a time, 2 days, 3 faults | `TypeOK`, `NothingLost`, `IsRegister` |
| `readiness_reports` | every pair of edits, before or in a report, 7 settings | `ReportsTypeOK`, `VerdictWasTrue` |
| `equity_traded_claim` | 1 process, 1 foreign row | `CleanRunTraded`, violated: see section 5 |

All but the last hold; the state spaces are complete, up to 5.3 million states. What they show:

* *Crypto.* The count is what was traded less three named leaks; the cap is passed by at most one order
  for each further process and each order from a stored preview; under a stop file each process
  finishes at most the order it was past the risk manager with, and each loop ends.
* *Day store.* A play is mailed again only for an overlapping execution or an upload that lost marks.
  Despite two clocks the sweep never meets a writer; a final verdict stays through outages; a recorded
  win is one the prices support; and for every tier the published counts of settled plays and wins exceed
  a replay's by no more than what the replay lacks, and its wins fall short by no more than the plays still
  due or whose minutes had to decide.
* *Options.* What a clean run and an alarm can mean; how far premium can pass its cap (paper: the cap
  once for each further process; live: what was sent while another buy was under way or the positions
  could not be read); at most one order of each session after a disarm; a retried intent is one order.
* *Equity orders.* Below the threshold the day trades that are in the table stay within the limit in
  every window, over weekend and holiday, rejected orders and the paper loop's rows notwithstanding; a
  buy is paid from settled money, but for what the session itself spent since it read the account,
  sales that filled later than their day, and sales without a row.
* *Equity readings.* A buy was a buy of the rules and within the cap; what the rules sell reaches its
  order whole, whatever is read for it on the way; no veto is overruled by another reading; the brake is
  the last closed session's; the request budget holds up to one request for each refusal; the loop ends.
* *Equity paper.* When nothing ran beside an execution and its window is its own, the report counts it
  exactly when it was priced on Massive, traded and reconciled; an alarm of a run alone means its own
  last dollar and a fee; the overdraft of unlocked executions has a bound; the stop file holds.
* *Sector Scout.* The two copies are one register while none of the events of section 3 happened.
* *Readiness.* With at most one edit meanwhile, a verdict, or its absence, was true of the tree before or
  after.

*Why the bounds suffice.* The races need two processes and one order each; a third process only adds its
own order, and where a bound counts processes the proofs cover any number. Two symbols are needed for a
cycle that goes on after an order, one elsewhere. One death is enough for each leak, since a leak is one
process between two of its steps. Two alerter executions is what the schedule and the timeout allow.
Five days is the smallest number at which a play can be decided inside the horizon, decided past it, and
leave the window; the histories include a session that spans both levels with each order of its minutes,
and with none. A paper run can be misled by one that died before it and by one beside it: two or three
executions of which two overlap, with one death, contain both. In `option_orders` three intents make two
equal orders and one beside them, and expiry comes within three days. In `equity_orders` four orders are
two day trades; Friday, weekend, holiday and Tuesday are all the ways the two calendars can differ, with
a window of two sessions in the place of five. In `sector_calls` three faults are an outage of the
bucket (one or two failed uploads) with a failed local write or a failed read after it, in any order. In
`readiness_reports` a setting takes the values on its bound and a half and a whole step on either side,
in quotes too, zero, a text, and none; one edit makes a report mixed and two make it wrong, which is why
the property stops at one.

`CHECK_DEADLOCK FALSE` stands in the runs over `DayStore`, `EquityOrder`, `SectorState` and
`EquityCycle`: there the days, the orders or the executions end.

*Fairness.* Two runs need it. `crypto_loops`: weak fairness of `Work(p)`, what a running process does by
itself; the operating system schedules it and its HTTP calls time out. An operator need not type a
confirmation, the venue need not fill, the clock need not move. `LoopsStop` is not immediate: `run_cycle`
itself only passes symbols over, and the loop looks at the file at other points than the cycle does.
`equity_readings`: weak fairness of the steps of the loop and of its client, one thread; failures, 429
answers and the stop file stay free. `LoopEnds` depends on the walk back over sessions without rows, on
the retries and on both counters.

*Mutants.* Each property of a passing run has a broken variant of one mapped definition (marked "Broken
variant" in the modules) that violates it, such as an order logged without being counted, sessions that
start with the play's own day, an order key for every attempt, a holiday that fills a place in the
window, a bucket that is preferred whenever it can be read, a test of many cases judged by its best.

## 5. What is disagreed with

One statement has a run whose counterexample shows it (`findings` in `PROJECT.json`):

* `equity_readiness.py:395-397` says that the window of a clean proving run moved the ledger and that "a
  zero-trade run proves nothing". `paper_proving_runs` counts every `paper_order_filled` row in the
  window (`equity_readiness.py:428`), and the crypto lane writes its paper fills under that name into
  the same table (`order_manager.py:91`): one of them makes a run that filled nothing clean. What is
  true is `EquityPaper.CleanIsEarned`.

Others were met while modelling. The models contain the behaviour, and the property named says what
holds instead:

1. `README.md:24-25`, the stop file blocks orders "before every action": a typed confirmation is
   accepted after the file appeared (`main.py:819`). `BrakeBound`.
2. `dashboard.py:1446`, the most live trades in a day: a smoke order of the command line is neither
   checked against the count (`main.py:795`) nor counted (`main.py:824`). `CountConserved`.
3. `dashboard.py:1735`, one real order per bounded iteration: one for each symbol (`main.py:1846`).
   `DailyCapOvershoot`.
4. `dashboard.py:1743`, no new live orders after the return to paper: a running loop goes on with the
   rules it loaded (`main.py:1894`).
5. `alerter.py:118-119`, a duplicate is impossible: a scout's upload writes the mark away
   (`store.py:370`). `AlertsBounded`.
6. `alerter.py:8`, a play is marked the moment its alert goes out: it is marked before
   (`alerter.py:122`), and a mail that fails is never sent.
7. `robinhood_option_client.py:260-261`, refusing a sale that closes "would trap open positions": below
   the minimum days to expiry the caps refuse it (`option_risk_gates.py:440`), since they treat opening
   and closing alike.
8. `equity_compliance.py:136-137`, the settlement guard keeps a buy from being financed on margin: the
   cash it starts from is that of the client's construction (`robinhood_equity_client.py:158`).
   `FundedFromSettled` counts what was spent since.
9. `liquidity.py:38-40`, the screen "never blocks an EXIT", an open position is closed "regardless of what
   this screen says": a held symbol that fails the screen is not evaluated at all
   (`equity_runtime.py:352-357`), so no signal of it can sell. `OverlaysOnlyReduce` speaks of what is behind
   the signal (`ExitKept`); `Pass` is the step where the screen takes a held symbol out.
10. `trading_rules.yaml:178`, "One reading per cycle": the breadth provider belongs to the loop and
   keeps its first reading, an error too, for all its cycles (`market_regime.py:268`,
   `equity_runtime.py:531`). `BrakeHolds`.
11. `massive_client.py:32-33`, with an interval the shared client stays under the limit
   "deterministically": retries after a 429 pass the throttle by (`massive_client.py:386`). `RequestBudget`.
12. `state.py:72`, "a bucket outage never loses the run": the file that alone has the run is emptied by the
   next write (`state.py:93`), and if that fails the run is lost; in a container it is lost anyway.
   `NothingLost`.
13. `option_readiness.py:166`, `:178`, the checks of the multiplier and the level floors: 100.9 passes for
   100, and a text ends the report with an exception where the caps beside it are reported as not numeric
   (`option_readiness.py:150`). `VerdictWasTrue` takes the truncation from the lane, which truncates alike.

## 6. Proofs

All theorems are checked by TLAPS from the named assumptions on the constants and hold for every
value of them, so for any number of symbols, processes, plays, jobs, days, orders and faults.

### CryptoLane (`CryptoLaneProofs.tla`)
`TypeCorrect`, `BrakeHolds`, `OvershootHolds`, `ConservedHolds`. `TypeOK` alone is not inductive: a
sale could make a holding negative. `Inv` adds `Covered`, what the venue has promised to sell it still
holds, which every order and fill keeps. The three bounds count processes (`Checked`, `Armed`,
`Unsettled`), so each step is reduced to what it does to one process and to the shared counters:
`Local(p)` lists the ways a process moves without touching them, and `BookedMoves` the steps that do.
A lemma per bound (`BrakeStep`, `OvershootStep`, `ConservedStep`) then says how the cardinality of the
set changes when one process moves. `BrakeHolds` needs that `late` is zero while no stop file exists,
`OvershootHolds` and `ConservedHolds` that an order of a checked command past the risk manager was
checked against a count below the cap, and which commands can reach each step (`SeenInv`).

### Settlement (`DayStoreProofs.tla`)
`NoOverclaim`: a WIN means that within the horizon a session reached the target, no earlier one the
stop, and in that session no earlier or equal minute did. `VerdictStays`: a decided play, graded again
with more sessions, has the verdict it had. `OutageIsConservative`: missing minutes can turn a WIN into
a LOSS, never a LOSS into a WIN.

### DayStore (`DayStoreProofs.tla`)
The inductive invariant is `TypeOK`, `Calendar`, `NoneYet` and `Respects`. `Calendar` relates the two
clocks to the days the jobs hold: writers at or after New York's date, the sweep before it. From it,
`PastDaysOnly`. `NoneYet` says that no day a writer can reach has an outcome, so a writer's upload,
which drops outcomes, drops none. `Respects` says that what the sweep holds between its reads and its
upload agrees with every final verdict. From both, `FinalIsFinal`. `PendingWins` extends the claim about
recorded wins to those still in the sweep's memory, and with `NoOverclaim` gives `WinsAreEarned`. For
`AlertsAreBounded` the bound must be sharper while a play is unmarked (`Unmarked`): mails and sends
under way then go back to disturbed uploads only. When a mark is written, at most one more execution
each can follow, which is the bound.

### Calibration (`DayStoreProofs.tla`)
`CalibrationHolds`, for every price history, any number of plays (`Play` finite, since the tallies
count) and any gaps of the replay. What a verdict in the bucket says is traced to the prices:
`Decides(p, d, k)` names the first session of the horizon that touches a level, and `Borne` says that a
WIN was won there with the full minutes and a LOSS reached the stop there. `RecordsBorne` and
`PendingBorne`, every verdict in the bucket and in the sweep's memory is `Borne`, are inductive beside
the invariant of DayStore: the sweep is the only source of verdicts, and what `Settle` decides it
decides at a first touch (`Decided`, which needs that a finite set of numbers has a least one,
`FirstOf`). Where the replay has a record it has all sessions of the horizon, so that it decides at the
same session, with the minutes or conservatively without (`ReplayedAt`): what is final is final there; a
win is a win there unless its minutes are missing; and a loss that the replay wins touched both levels
in that session (`RecordFacts`). The three inequalities are then inclusions of finite sets: the
exceptions cover what one tally has beyond the other (`Covered`, over records and verdicts made
comparable by `Keyed`).

### OptionPaper (`OptionPaperProofs.tla`)
`TypeCorrect`, `PremiumHolds`, `CleanHolds`, `AlarmHolds`. `PremiumBound` counts what is open together
with the candidates that are past the cap and not booked yet (`Pending`), because a cycle checks all its
candidates before it books the first. The invariant adds `PlansWithin`, no execution holds more
candidates than the cap. When a cycle is planned (`PlanStep`), what is open and the new candidates fit
under the cap once, and each of the other processes holds at most the cap (`OthersBound`, from
`Counting`: a set of pairs is no larger than its first components times the most any is paired with). A
booking moves one candidate from `Pending` to the ledger; every other step only shrinks them
(`Shrinking`, `Quiet`).

What the audit log can mean has one invariant for both remaining properties (`RInv`). Numbers of
executions are given once (`Numbered`), executions active together are marked (`Sole`), the `CHOOSE` of
`Latest` finds the latest row (`Ordered`), and an execution that is alone can rely on what it read of the two
stores (`Undisturbed`): a proving run past its reset finds in the ledger its own fills and nothing else.
A clean run that traded nothing itself (`Borrowed`) is excluded in a way that looks one row ahead:
until the next reconcile row the ledger is `Short` of a contract the log expects, so that the
reconciliation to come cannot be clean (`StaysShort`). That is why neither property is inductive alone.

### OptionOrder (`OptionOrderProofs.tla`)
`TypeCorrect`, `CapHolds`, `LateHolds`, `OnceHolds`. For the cap the invariant says what a session between
its last read and its send knows: if it is careful, every live buy is in the premium it counted, so that
its own order still fits (`CapsLeaveRoom`, from the gate); the order that is sent makes every other
session careless. `LateHolds` counts the sessions past their last look at the marker or the file: each can
send one more, and nobody joins them (`LateStep`). `OnceHolds` carries that an intent belongs to one
session, and that an order taken for it has the content the session would send again, so that the key
finds it.

### SectorState (`SectorReadinessProofs.tla`)
`TypeCorrect`, `NothingLostHolds` and `RegisterHolds`, the refinement: `Spec => Register!Spec`. All of
it holds until `harm`, the list of section 3, and says nothing afterwards; the list is part of the
statement. The invariant `Promise` speaks of the time before `harm`: at most one run is active (`Sole`);
only the directory of a machine holds what the bucket lacks, only the directories in use have a file
that looks newer, and a clock that is behind makes none look newer than a blob that is there
(`Holders`); what was saved is in `Stored`, and what a run is about to save extends `Stored`.
`RewrittenIs` and `StoredAfter` say what is stored after a write, for each fate of the local file, each
clock and each outcome of the upload: it is what was written, or, if neither copy took it, what was
stored before. Every step then either keeps `Stored`, or saves an extension of it (`KeepStep`), which is
a step of the register or a stutter (`RegisterStep`); a step that voids the promise is `Void`.

### EquityPaper (`EquityPaperProofs.tla`)
`TypeCorrect`, `StopIsHeld`, `AlarmHolds`, `OverdraftHolds`, `CleanHolds`. Types need that a cycle under
way is still to be counted and that executions have numbers (`TInv`). For the alarm, `AInv` says that
executions active together are marked (`Sole`), that only proving runs reconcile, and what a proving run
past its reset may rely on while nothing ran beside it (`Owned`): the portfolio in its memory is the
ledger, no position is negative, a sale under way is covered, the cash is negative only after a fill of
its own. Whatever earlier executions did, a reset makes this true, and every step of the run keeps it.

`OverdraftHolds` bounds what executions that know nothing of each other can overdraw. The sum of their
orders is no invariant: an order may be decided on cash that is already gone. What is inductive is that
some one process is held back (`Covers`): there is a `p` such that the ledger is below what `p` read by
at most one order of each other process whose reading still allows one (`CashCovered`, and `QtyCovered`
for every symbol). Whoever fills, either it is not `p` and its one order was counted, or it is `p`, and
the check against what it read takes its place. The proof needs `FeeAssumption`, a fee of at most one
unit, that is at most the least order: the broker takes a tenth of a percent (`paper_broker.py:242`).

`CleanHolds` carries, for executions nothing overlapped, what their rows look like while they run
(`Kept`: fills after every loop row of before, then the own loop row) and after they completed
(`Settled`: the fills lie in the window, and what follows the loop row is the own reconciliation). Rows are
only appended, so a window, once closed, keeps its content.

### EquityOrder (`EquityOrderProofs.tla`)
`TypeCorrect`, `FundedHolds`, `DayTradesHold`, for every calendar (`Holidays` is any set of days), any
window, limit, universe and account. Two connections between the book and the table carry both guards:
`RowsTrue`, a row with an order's number says what that order was, and `AskedTrue`, the order under way is
the latest of the book until its row is written. `InOrder` says that orders were placed in sessions,
one after the other.

For the good-faith guard `CashKnown` relates the client's stale cash to the account: it is at most what
is there now with what was bought since. Of this client's unsettled sales the guard has a row each, in
the window it reads (`UnsettledKnown`), because a sale settles on a later weekday and orders go out in
sessions only (`SettlesLater`). Between the guard's answer and the send nothing takes cash, which is
`SendSteps`, so that `FundedFromSettled` is itself inductive.

For the day-trader guard, an account that starts below the threshold must stay there as far as a client
with fresh cash can see: `Balanced`, cash, shares at their price of one and reserved cash add up to
what there was at first. `Guarded` then says of every sale judged on fresh cash that the day trades before
it in its window are fewer than the limit; it speaks of the places in the book, so that later orders do not
disturb it. For a window with too many, the latest day trade in it closes the argument: the others are
before it and in its own window (`InWindow`, where `LookbackAssumption` enters).

### EquityCycle (`EquityCycleProofs.tla`)
`TypeCorrect`, `BudgetHolds`, `OverlaysHold`, `VetoHolds`, `BrakeIsHeld`. The two YAML sections are a
record `rules` of any configuration in `Configs \subseteq Rules`: percentages, ceilings and floors are any
integers, modes any of those the code knows, so the theorems hold for every configuration, multipliers above
one included. Assumed are that what the vendor sends is finite and numeric (`VendorAssumption`), that the
paths the loop asks for are paths of the client (`PathAssumption`), and that the walk back starts at most
`FirstDay` days in (`CycleAssumption`).

Types need where the loop stands while a question is open (`Placed`, `Asked`, `Retrying`). `Budget`
counts a request that was let through and is not answered (`Pending`) and lets the time of the last
request pay for all before it; each new loop starts without one. `OverlaysHold` has two parts, the
states in which an order is submitted (`Reduced`) and the steps between a signal and its order, of which
none leaves a sell of the rules behind (`ExitStays`). It and `VetoHolds` rest on `Kept`, one reading for
a symbol and none where an overlay is switched off, and `Judged`, what the decisions so far say about
the entry at each step, in terms of the readings kept; lemmas on `Overlays` say that a product of
percentages under their caps stays in range (`ScaledRange`, `ModulatedRange`). `BrakeIsHeld` rests on
`Walked`: behind the loop's place in its walk no session was wide enough, and the reading kept is of the
first that was, unless a request of it failed (`Heedful`).

### Readiness (second part of `SectorReadinessProofs.tla`)
`ReportTypeCorrect`, `VerdictHolds`, for any set of settings that are edited and any number of edits
(`BoundAssumption`). The names of the specification begin with `Reports`, so that one module can hold
the proofs of both. `ReadyIsSound` is about one tree: what `evaluate_gate` and `readiness_verdict`
compute from it is what the documents ask of it (`Sound`). Its parts are that the worst case speaks for
a test (`WorstPassed`), that the tests of a lane are those that prove a gate of it (`ProvingNodes`),
that each cap compared by the code is the range the documents name, for whatever a setting holds:
nothing, a text, or a whole or half number of any size and sign, in quotes or not (`EquityCaps`,
`OptionCaps`, and `TruncatedFloor` for what `int()` makes of a number), and that the stop files differ
whichever names are missing (`StopsEquity`, `StopsOption`). A report reads three things at three times:
rules, suite and the rest. An edit changes one of them (`OneApart`), so with one edit meanwhile the
mixture is either the tree before or the tree after (`MixedVerdict`); the invariant `Meanwhile` says
which parts of both a report under way holds.

Only model-checked: the liveness of `LoopsStop` and `LoopEnds`, which is outside this prover. That the
broken variants break their properties, and the disagreements, are TLC's as well.

## 7. What is not modelled

The components with status `not_modelled` in `PROJECT.json` give their reasons: the crypto intelligence
score, the request filters, the deployment scripts. In the others left out are indicator arithmetic, the
rankings of the scouts, rendering, mail layout and recipients, request signing, authentication and account
confinement, the dashboard's pages and settings form, the adjustment of dust quantities in
`reconcile_positions`, the replay of `massive_history` (a symbol may simply have no price), the change
log and run tables of the Sector Scout, the parameter search of the backtest.
The loss limit is in no model because the code never feeds it: `increment_trade_count` is called
without a profit or loss, so that `realized_pnl` stays zero (`risk_manager.py:56`).

Hazards met and not covered by a property:

* `dashboard.py:305`: the handler is asynchronous and calls synchronous code, so a bounded iteration
  blocks the event loop, the stop button included; the models have the stop file come at any moment.
* `risk_manager.py:71-73`: the limit on open positions and the check against scaling count filled
  holdings; buys that are still open are not seen. `risk_manager.py:79` values every position at the
  current symbol's price.
* `store.py:370`: two scouts that upload at the same time lose the plays of one; `store.py:576`: two
  dashboard users lose a recipient. Both are read-modify-write without a check, which the day store
  models for marks and outcomes.
* `engine.py:129`: a play whose day leaves the window of the sweep stays open for ever.
* `option_trader/cycle.py:120`: a trader reconciles a ledger nobody reset against the fills since the
  latest reconciliation; `OptionPaper.AlarmIsExplained` is about proving runs only.
* `equity_runtime.py:574`: a loop whose cycles all failed to price anything is recorded as completed;
  only a fill in the window tells it from one that traded.
