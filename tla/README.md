# TLA+ verification of the paper-trading agent

This directory holds TLA+ models of the program under `src/`, TLC
configurations that check them on small instances, and TLAPS proofs of what
matters most for every size of the instance. `PROJECT.json` is the index:
components, runs, the source lines behind every definition, hazards, findings,
theorems, and for each property a mutated definition that breaks it.

## 1. The system

The program decides, for each symbol of a watchlist, whether to buy, sell or
hold, by a pipeline of agents; records every decision in PostgreSQL; and keeps a
paper-trading ledger of the trades. The same pipeline runs live (one *cycle* per
HTTP request or per day) and in *backtests* over past days. Scripts work on what
is recorded: they fill the news archive, replay and explain decisions, score
forecasts, judge explanations, and publish a snapshot.

| Component | State it keeps | Operations | Interacts with |
|---|---|---|---|
| Backtest run (`backtest.py`, `run_backtest.py`) | rows of `backtests`, `runs`, `backtest_outcomes`; per process the day, the open transaction, tokens spent | command line, create, resume, simulate a day, stop at the cap, finish, mark failed | decision graph; the risk node reads positions through another connection; other processes through the row |
| Decision graph (`graph.py` and nodes) | the state passed from node to node | two analysts in parallel, portfolio manager, risk manager, explainer | models, bars, headlines, repository, trace recorder |
| Risk gate (`risk_manager.py`) | none | share cap, then VaR budget | ledger (holding), bars (VaR) |
| Explainer and trace (`explainer.py`, `trace.py`, `trace_audit.py`) | retrieved headlines; trace steps and open calls | retrieve, ask, validate; record; rebuild from trace | archive of headlines, model callbacks |
| Live cycle (`runner.py`, `postgres.py`) | rows of `runs`, `decisions`, `outcomes`, `price_snapshots` | one transaction over all active symbols | other cycles through rows and locks |
| Lot ledger (`_record_paper_trade`, `_record_backtest_trade`) | lots | buy, FIFO sell with splits | position reads, metrics, replays |
| VaR forecasts (`var_forecasts.py`, `evaluate_var.py`) | `var_forecasts` | record, score later, evaluate offline | daily bars |
| Headline guard (`data_sources.py`, `explainer.py`) | `historical_headlines` | window queries | sentiment analyst, explainer |
| Headline import (`import_fnspid.py`) | the open chunk | read, filter, insert, commit chunk by chunk | watchlist, archive |
| Migrations (`migrate.py`, `bootstrap.py`) | `schema_migrations`, the schema, the watchlist | apply pending files, seed | every container that starts |
| Recorded-decision tools (`replay_risk_rules.py`, `compare_var_node.py`, `explain_recorded.py`) | book of a replay; `risk_explanations` | replay under other rules; explain afterwards under a cap | finished backtests; each other |
| Explanation evaluation (`eval_explanations.py`) | files of `eval/` | explain, judge, report | explainer, public snapshot |
| Public snapshot (`export_public_snapshot.py`, `public_api/main.py`) | files of `docs/data` | export, serve | database, evaluation |
| MCP server (`mcp_server.py`) | none | `get_trace` audits a decision | trace audit |
| Statistics (`risk_math.py`, `indicators.py`) | none | returns, VaR, its tail | risk node, forecasts |
| Model providers (`llm.py`) | none | which model by role, prices | command line, spending cap |
| Connection pool (`db.py`, routers) | free connections, queue | borrow, nest, give back, time out | every request |

Hard behaviours: a backtest process may raise, be killed or fail while it
records its failure, and another one, started with another command or from
another commit, continues its work; live cycles may overlap; reads go through a
connection other than the writing one; prices and headlines become known at other
times than their stamps say; imports, migrations, exports and paid scripts break
off anywhere and are started again, some of them beside each other; requests nest
connections of a bounded pool. `hazards` in `PROJECT.json` names each of these at
its line.

What makes each component correct:

- *Backtest run:* days are whole, each once, in order, all of one strategy, each of
  a commit that the row still tells; success is complete and final; positions keep
  the cap; tokens add up; a row does not stay RUNNING; a run that is always resumed
  ends.
- *Risk gate:* the ruling is the largest part of the proposal that the cap, the
  budget and the holding allow, and the verdict says what became of it.
- *Explainer and trace:* it speaks exactly when the budget changed a trade; a
  citation counts only if it was retrieved for that day; the trace alone
  reproduces the check.
- *Ledger:* every share bought is in exactly one row; FIFO; closed rows are facts.
- *Live cycle:* all or nothing; cap and ledger; no circular wait.
- *Forecasts:* no look-ahead; the VaR comes from exactly the losses it is explained
  with; a score is over one session, final, complete; an evaluation made later finds
  the same figures.
- *News:* the schema is what is recorded; each headline is imported once; none is read
  before it came out and none is missed.
- *Recorded decisions:* a replay ends where the record does; a rule holds what it
  promises; a script that breaks off has lost one paid call at most.
- *Publication:* what is listed is served; an explanation and its trace appear
  together; the published verdict is the pre-registered test.
- *Pool:* no connection leaks, every request ends.

## 2. Modules

| Module | Models | Composed with |
|---|---|---|
| `RiskGate` | `_v1_rules`, `var_max_qty`, the budget, `position_after`, what the ledger makes of a ruling: pure operators | extended by `BacktestRun`, `DecisionGraph`, `LiveCycle`, `ReplayRules` |
| `RunCommand` | the command line of a backtest: what is refused, what runs, what is stored, what a resume must match: pure operators | extended by `BacktestRun` |
| `BacktestRun` | `run_backtest`, `_run_backtest`, `_start_resume`, `_finish`, `_mark_failed` | implements `BacktestPromise` |
| `BacktestPromise` | what a reader of a backtest may assume | |
| `DecisionGraph` | the graph, its nodes, the recorder, `record_*`, `trace_audit` | |
| `FifoLedger` | both `_record_*_trade` functions on rows: pure operators | extended by `ReplayRules` |
| `FifoQueue` | FIFO accounting, share by share, with the gain of what is sold | |
| `ReplayRules` | `replay()`: stops, spacing, caps, FIFO sales with slippage: pure operators | extended by `RecordedRun` |
| `RecordedRun` | a backtest of one symbol as it stands recorded, and its replays | implements `FifoQueue` |
| `ExplainRecorded` | overlapping runs of `explain_recorded.py` | extends `RecordedRun` |
| `LiveCycle` | `run_decision_cycle` at READ COMMITTED with row locks | |
| `RiskMath` | returns, `historical_var`, `tail_losses`: pure operators on the order of a stable sort, so that ties are settled as the code settles them | extended by `VarForecasts` |
| `VarForecasts` | `record_var_forecast`, `fill_realized_returns`, `bars_closed_before`, `evaluate_var.py` | |
| `Migrations` | `migrate.py`, `bootstrap.py` | |
| `HeadlineWindow` | the two historical headline queries | extended by `HeadlineImport` |
| `HeadlineImport` | `import_fnspid.py` | |
| `NewsArchive` | all three together, from an empty database to what a decision reads | composes `Migrations` and `HeadlineImport` |
| `EvalRound` | the stages of `eval_explanations.py`, the sign test | extended by `PublicSnapshot` |
| `PublicSnapshot` | the export, the public routes, `get_trace`, the completeness check | |
| `ConnPool` | the pool under the API's requests | |
| `*_proofs` | theorems about the module they extend; `LiveCycle_proofs` extends `ConnPool` too, and proves what holds of the connections that cycles share | |
| `TradingFacts` | theorems about the gate; lemmas about sums over finite sets, least elements, runs of equal shares | extended by the proof modules of what trades and of what counts |
| `MC*` | constants of the TLC instances | |

### How state and actions correspond to the code

**RunCommand, BacktestRun.** A command is a record of options, the models that
the environment names, and the commit with its dirty flag. `Refused` is what
`main()` exits for, `Strategy` what decides trades, `ConfigOf` what is stored,
`MustMatch` the hand-kept list of what a resume must have in common with it:
`OneStrategy` says that the last is enough for the second. `status`, `config`,
`llmUsage`, `resumes` are the columns of the `backtests` row, `runs` the committed
rows of `runs`, `held` the open shares per symbol (`FifoLedger` justifies keeping
the sum only). A process has a program counter: `Create`/`Resume`/`RefuseResume`
are the first transaction, `CannotPrice`/`StopAtCap`/`BeginDay` the budget check
and the insert, `Decide` one `graph.ainvoke` (its costs, the position read),
`RecordDecision` all inserts of one symbol and the fill, `CommitDay` the commit,
`ReadUsage`/`FinishRun` the two statements of `_finish`, `StepRaises`, `Kill`,
`RejectDecision`, `MarkingFails` the ways to stop. The day's rows live in `delta`
until the commit; `Rollback` discards them. `burnt`, and `by` in a row of `runs`,
are history.

**DecisionGraph.** One action per node, or two where a node awaits a model (the
callbacks `on_chat_model_start` and `on_llm_end`/`on_llm_error` of the recorder
are at these two points, so concurrent analysts interleave in the trace).
Recording is the caller's transaction, and may be refused. Model replies range over
everything their schemas admit: any action with any integer, negative ones
included; explanations that cite right, wrong, missing and unknown days.

**FifoLedger, ReplayRules, RecordedRun.** `AfterTrade` is what one trade makes of
the rows, as one step: nothing reads them half-way, because the transaction is open.
(`LiveCycle` has the same loop among several transactions, lot by lot, with the
locks an `UPDATE` takes.) `SimulateDay` adds a decision, its fill, and one turn of
every replay: a replay is a fold over the tape, so the books beside the run are
what `replay()` returns for each prefix, which is also how `compare_var_node.py`
asks for them. Money is counted in 1/`Unit` of the price, so that fills with
slippage are whole numbers; the rounding of the columns to four decimals
(`NUMERIC(12,4)`) is treated as identity, which is the drift that the replay script
tolerates too. A run is of one symbol, since ledger and tape are
per symbol.

**ExplainRecorded.** A script selects once, pays, then commits one explanation with
its trace; `StoreRefused` is the unique key on the decision, `Break` whatever else
raises.

**LiveCycle.** `tx` are the uncommitted rows of a cycle; a statement sees them over the
committed ones. `Price` is `_latest_close` and the snapshot written back;
`StartSell` reads `open_lots` once, `SellFromNext` is one turn of the loop and waits
for another cycle's row. `overlapped` is history: what holds in serial use only is
claimed while no cycle was started beside another.

**VarForecasts, RiskMath.** Three ticks a day: before the open, in the session, from
the close on. Each session has a close, chosen at the start; a bar is known by its
day and by whether its session was over when it was read. Returns are whole
multiples of 1/`Scale`. `Evaluated` is the offline evaluation, a function of the
state: it can be asked at any time, and `EvaluationAgrees` asks it always. One
symbol, since every query is per symbol. Backtest windows lie in the past, as those of the documented experiments do; nothing in
`run_backtest.py` refuses a window that reaches into the present.

**Migrations, HeadlineImport, HeadlineWindow, NewsArchive.** A migration file is its
number; running it needs the objects of the earlier files and must not find its
own. A container's transaction opens at its first SELECT and ends with its
connection. An import is one row at a time (`InsertRow`), a commit per chunk, and
may die between any two. A headline is a stamp and the time it really came out;
date-only stamps admit every time of that date in any time zone from UTC to New
York. Ranking and the limit of eight headlines are left out.

**EvalRound, PublicSnapshot.** A stage keeps its answers in `out` until it ends; one
that raises writes nothing. `Attributed` is how the judge's grades of A and B are
booked. The export goes file by file at READ COMMITTED: flags in one statement
(`StartExport`), details later (`WriteDecision`), then the index, the backtests, the
evaluation, the manifest. `ExportRaises` leaves what was written, `ExportKilled` a
torn file as well. `LoadDecision`, `ExplainDecision`, `GetTrace` are the public
routes as functions of the files.

**ConnPool.** Requests borrow, nest and return; `psycopg_pool` itself (queue in
order, timeout) is modelled from how it is used and marked external in the map.

## 3. Runs

`pass` runs (TLC finds no error):

| Run | Question | Bounds, and why they are enough |
|---|---|---|
| `BacktestRun_days` | Do stops and resumes ever tear, repeat or skip a day, mix strategies, forget which code ran, or break cap and promise? | 3 processes, 2 days, 2 symbols, all faults, cap 3, quantities of either sign, a VaR over the budget or none: two interruptions of one run, before, inside (between two symbols), between and after days. Three commands: the same strategy from another, dirty commit may resume, one with an explainer added may not |
| `BacktestRun_usage` | Do tokens add up, does the row say how it ended, how far can spending pass the cap, and does a run that is always resumed end? | 3 processes and 3 days (one day each is the worst case), calls that cost 1 or 3, cap 4, exceptions; commands with priced and unpriced models, without a cap, and dry |
| `DecisionGraph_pipeline` | Is the ruling right for every proposal, holding, VaR; are explanation, check and trace right? | cap 4, quantities -1 and 1..5, VaR below, at and above the budget of 2, and none; 3 loss days cut to 2, one of them without headlines, replies of each wrong kind; with and without explainer |
| `ExplainRecorded_tape` | Do rows implement the FIFO queue; does a replay end where the record does; do rules hold; what is lost when scripts overlap or break off? | 3 days over a weekend (spacing counts weekdays), 4 proposals including a negative one and sales over several lots, prices 9 and 10, slippage 1 %, 7 rules, cap 3, VaR over the budget of 2 or none; 2 scripts that take 2 decisions each, calls that cost 1 or 3, cap 4 |
| `LiveCycle_cycles` | Is a cycle all or nothing, can two deadlock, and does the ledger follow the decisions? | 3 cycles, at most 2 at once, 2 symbols, lots of both to start from, sales over two lots, cap 3: two cycles that overlap suffice for a circle, the third follows either kind |
| `VarForecasts_days` | Do forecasts look ahead; is the VaR the least loss of its tail; does a fill set the return to the next final close, for every row whose session is over, once; does the evaluation agree? | 7 days with a holiday, every path of closes 1 or 2, a window of 3 returns at 50 % (a tail of two days), 3 forecasts, live before and in the session and backtest, fills before, in and after the sessions they score |
| `NewsArchive_days` | Whoever migrates, imports and decides beside whom: is the schema recorded, each headline there once, none read early, none missed? | sessions 3, 4 and 7 over a weekend, 5 ticks a day; 2 containers, 2 starts, 2 files; a CSV of three rows with chunks of two, whose last row repeats the first; every possible headline; two ranges, 2 imports. Queries are filters on single headlines, so more of them show nothing new |
| `PublicSnapshot_demo` | Does the site lead nowhere, tear an explanation from its trace, or publish another test than the registered one? | 3 test days and one without news, every pair of grades for each, A and B in both orders, 2 decisions (with and without a trace), 2 exports, so that files of two meet, 2 paid stages, costs 1 or 3 under a cap of 4; three wins have p = 1/4, so an alpha of 30 % separates 3:0 from 2:1 |
| `ConnPool_shared` | Do connections leak; do requests end? | 3 cycles and a reader on 2 connections: more nesting requests than connections |

`violation` runs each refute one sentence of the repository; `findings` in
`PROJECT.json` quotes it:

| Run | What the code does |
|---|---|
| `LiveCycle_sales` | two overlapping cycles sell one lot twice, nothing raises |
| `LiveCycle_prices` | records the first observed price of a symbol for ever |
| `VarForecasts_evening` | scores an evening forecast against its own `last_close` (`ScoresNextSession`, which asks only which sessions a score is over) |

The properties of `BacktestRun` are checked with `MayOverlap = FALSE`, one living
process at a time, which the code does not enforce (see below). Deadlock checking
is off because every system here really stops: backtests end, cycles, imports and
exports are started finitely often, the calendar is finite.

### Other disagreements met while modelling

No run is kept for these; the modules show them when the constants or the
property are changed as said.

*Trading*

- `_start_resume` accepts a RUNNING backtest whose process is alive
  (backtest.py:278). With `MayOverlap = TRUE` (and proposals that only buy, see
  `OverlapOnlyBuys`) both processes commit the same day and `RunsAreWhole` fails.
- Two live cycles that overlap both read the old holding and pass the 20-share cap:
  without `~overlapped`, `LiveCycle!PositionWithinCap` fails.
- A proposal of a negative quantity is approved (`TentativeDecision.quantity` has no
  lower bound), ignored by the ledger, and applied by `position_after`: the stored
  `position_qty` is then not what is held. `ForecastPositionIsHeld` excludes it.
- A VaR does not imply a price. The technical analyst asks for 40 calendar days of
  bars and needs 20 closes (technical_analyst.py:31), the risk manager asks for 400
  days and needs 251 (risk_manager.py:186): a symbol halted for nine sessions or more
  may have the second and not the first. A trade that is ruled then is "silently"
  not recorded (backtest.py:597), and 006_var_forecasts.sql says of `position_qty`
  "Shares held once this decision's trade (if any) is applied", which counts it.
  `ForecastPositionIsHeld` names this as the one case in which the two differ;
  without it (`saved.forecast = saved.held` alone) TLC finds a BUY without a price.
- `fill_realized_returns` compares a session's close with the end of the range it
  asks for, not with the present. var_forecasts.py:109 says "the session-close filter
  drops any day that hasn't closed yet", and 006_var_forecasts.sql:14 that
  "`realized_return` is filled in once close(D) exists": but a fill during the session
  of the last forecast takes its unfinished bar for the close, and the score
  stays (`FillSettles`). `FillsScoreFinalClose` names this as the one case in which a
  score is not the return between two final closes; with `f.realized.final` alone TLC
  finds the fill. The program itself never calls the function, so when it runs is up to
  whoever does.

*Spending*

- README.md:155 promises that paid runs stop "before crossing" their cap; the first
  day of a process is unchecked and a later day may cost more than the average.
  `OvershootWithinSpread` is what does hold.
- The default models have no price (llm.py): a paid, capped run with them raises
  after its first day, and after one more day on every resume (`CannotPrice`).
- A process killed after an earlier one recorded its tokens leaves a total that is
  short, without the `None` in `llm_usage_before` that backtest.py:305 says marks it.
- `explain_recorded.py` counts decisions it could not explain as done without cost
  (`NothingToExplain`): they lower the average that the cap check goes by.
- The stages explain and judge save nothing when a call raises, so all paid calls
  before it are paid again (`StageRaises`).

*Replays*

- The trailing stop looks for its peak only while something is held, before the day's
  buy: the price of the opening day does not count (`Marked`).
- `blocked_by_spacing` says that the "FIRST buy of a position is always allowed", but
  `last_buy_day` survives a sale of everything, so the first buy of the next position
  may be blocked.
- A SELL that takes older, cheaper lots raises the average entry of the rest: a
  replayed position may end a day beyond its stop (`StopsHold` excludes the day of
  such a SELL). The position then stays there over days that are not on the tape, on
  which `replay()` does not run, until the next day that is.

*Archive, publication*

- `migrate.py` speaks of a transaction per file; the SELECT before the first one opens
  the transaction, so they are savepoints, and a failing file takes the earlier ones
  of its run with it (`AllFilesOrNone`).
- The default `--start` of the import is the first day of the in-sample window: the
  lookback of that window's first days is not imported. Across a gap of four days
  between sessions, a lookback of three loses a day's headlines (`NoneMissed` is
  claimed up to the lookback).
- Run with `--trace` on a decision that has a trace already, `explain_recorded.py`
  pays and then fails on the unique key of the steps; without it, the completeness
  check reports that decision for good (`SeenTogether`).
- The export checks its size limit after everything is written; never deletes files of
  decisions that are no longer listed; and leaves a torn file behind when killed, until
  the next complete export (`ListedIsServed`). The API caches files for its lifetime.
- The export needs every test day judged; the report of `eval_explanations.py` is over
  the judged days only, may be of new explanations with old judgements, and divides by
  zero when no day was judged.

**Fairness.** `BacktestRun!FairSpec`: a running process goes on (the event loop
runs what is ready), and an operator resumes a stopped backtest. Without the
second assumption a stopped run stays stopped, and rightly. No fault is forced or
forbidden by fairness; `EventuallySucceeds` is about behaviours in which nothing
raises, since there is one process to a day and each must be able to do its own.
`FairPoolSpec`: every await ends, by an answer or by the pool's timer, which is
what psycopg_pool guarantees; requests need not be sent and need not fail. The
other runs check safety only: what their actors do is started by hand or by a
schedule, and nothing in the code starts them again.

## 4. Proofs

Checked by TLAPS for every value of the constants:

- `TradingFacts`: whatever is proposed, a holding within the cap stays within
  it (`GateKeepsCap`); a BUY stays within the budget (`BuyStaysInBudget`); the gate
  never trades more than proposed (`GateOnlyShrinks`).
- `DecisionGraph_proofs`: the ruling that is recorded is the largest part of the
  proposal that cap, budget and holding allow (`RulingsAreLargest`), and the stored
  position is what the ledger then holds, unless a trade without a price was ruled
  (`ForecastsShowHoldings`). The arithmetic is
  a lemma about the gate alone, resting on one about the quotient in `var_max_qty`;
  `GInv` says that what the risk node read and ruled is untouched until the decision
  is recorded. An explanation is stored exactly when the VaR budget changed the trade
  (`BudgetChangesAreExplained`), the citation check says what it should
  (`ValidIsGrounded`) and can be repeated from the trace alone
  (`TracesRebuildExplanations`), for any number of driver days, headlines and replies.
  `EInv`: the explainer has retrieved for the first `k` driver days and keeps what it
  found until it asks; `TInv`: each look-up of it is one closed step of the trace, in
  order, and the reply another, wherever the analysts' steps come in between. `None`
  is assumed to differ from any explanation (`NoneIsNoExplanation`).
- `BacktestRun_proofs`, under `~MayOverlap` (one process at a time: the code does
  not enforce it, see section 3) and distinct symbols: types, days, strategy, code,
  positions, finality, and that `BacktestRun` implements `BacktestPromise`. The
  invariant `IInv` adds to the properties what they rest on.
  `OneWriter`: at most one process is alive. `RowInv`: a living process works on a
  RUNNING row with settings that match the stored ones. `DayInv`: a working process
  is at the day after the last committed one, hence `LastDone = Len(runs)` on resume,
  and every day was decided under matching settings; `OneStrategy` then follows from
  the lemma `MustMatchDecides`. `CodeInv`: the last resume is the writer's.
  `OpenDay`: the uncommitted day, committed now, would keep the cap, and symbols
  still to come are untouched by it, so the position the risk node reads on its
  other connection is exact. Without the last part `PositionWithinCap` is not
  inductive, which is just the defect the comment in `_run_backtest` records.
  `BacktestAccounts` adds the spending: with exceptions only (no kill, no failing
  `_mark_failed`), recorded and unrecorded tokens always add up to `burnt`.
  `BacktestOvershoot` needs neither assumption: also processes that overlap pass their
  cap by no more than their first day cost, or by the spread between a dear day and
  the cheap ones before it. `SpendInv` says of a process that its completed days cost at
  least the cheapest calls, and that the open day began where one more average day
  still fitted under the cap. Its
  hypothesis `CostsBounded` says that a call cannot cost more than some bound, which
  `max_tokens` guarantees.
- `LiveCycle_proofs`: with any number of cycles, symbols and lots, a cycle leaves all
  of its rows or none (`CyclesAreWhole`), no two wait for each other's row locks
  (`LocksAreOrdered`), and cycles that do not overlap keep the cap (`CyclesKeepCap`).
  `LInv` speaks of all versions of a row, the committed one and those of open
  transactions: they agree on symbol and age (`SameLot`), and open lots of one symbol
  have different ages (`AgesDiffer`), hence two cycles that sell one symbol lock its
  lots in the same order, and those of other symbols in the order of the watchlist.
  For the cap, `Balanced` says of the one running cycle that its version of the rows
  differs from the committed one by what its decisions moved, and by as much of the
  sale under way as is sold. The same module holds what is proved of `ConnPool`: of any
  number of requests, however they nest, fail and time out, each ended one holds no
  connection, and the others and the pool hold all there are (`ConnectionsAreReturned`).
  `PoolInv`: what a request owns follows from its stage, and the queue lists exactly
  those that wait, once each, so that as many connections leave a hand-over as came into
  it.
- `ExplainRecorded_proofs`: every share bought is accounted for once
  (`SharesAreAccounted`), closed rows stay (`ClosedRowsStay`), the quantity the script
  rebuilds from opinions and flags is the ruled one (`RebuiltIsRuled`), and any number
  of overlapping scripts each lose one paid answer at most (`LossIsBounded`). A sale
  folds a loop over the open lots. The proof tabulates the fold over all subsets of the
  lots and shows, by a least subset for which it fails, that after each turn rows and
  remaining shares still add up (`SaleKept`). `RInv` adds that the held quantity is
  within the cap, without which a SELL might be refused or go short. `SInv` ties what
  a script has paid to the number of rows it stored; it needs `CostsBounded` as well.

  *The ledger is a queue* (`LedgerIsFifoQueue`): the rows implement `FifoQueue`, the
  shares of the open rows, in the order of their ids, being the queue. `Spread` writes
  such a sequence as runs of equal shares, one for each row; a row that is closed is a
  run of none. `TradingFacts` has the algebra of runs: what `n` shares off the front
  leave, and that empty runs do not count. One turn of the loop takes from the first run
  that is there (`SpreadTake`), the whole sale takes `SubSeq(queue, 1, n)`, and what its
  rows record as gain is the sum over those shares. `QInv` adds to `RInv` that rows are
  opened in the order of their ids.

  *The replay is trusted* (`ReplayIsTrusted`): the ledger's rows and the replay's lots
  are different structures with different loops, but a day moves both as it moves the
  queue (`Moves`), and what a queue and its gain become is determined. `XInv` says that
  they agree now; so does the baseline as long as no budget bit.

  *Stops are kept* (`StopsAreKept`): for any tape, quantities and number of lots, by a
  lemma for one day: a position that is down by its stop is sold as a whole before the
  day's proposal, so one that is left is not; and a purchase on that day, at its price
  with slippage, is not down by the stop either, hence the two together are not.
  Hypothesis `StopsWiderThanSlippage`: a stop narrower than the slippage would be hit by
  the purchase itself. At 5 basis points any stop from 1 % on is wider; the script's are
  3 % and 5 %.
- `NewsArchive_proofs`: no query returns a headline before it came out, for any
  archive, resolution of the clock and offset (`HeadlinesNeverLookAhead`); the index
  range of a retrieval loses none of its window (`ScansOnlyNarrow`); no headline that
  was there from the start is passed over while its date ends (`NoHeadlineMissed`, with
  the hypothesis `SessionsClose` that each session but the first has an earlier one
  within the look-back: with the code's three days that is so across weekends, and not
  across the long ones of section 3, where a day's headlines are indeed lost); imports
  add up for any file, chunk size and ranges (`ImportsAddUp`; `ImportInv`: what archive
  and open chunk hold are, without repetition, the matching rows of the file up to
  the current one); and any number of containers leaves the schema recorded
  (`SchemaStaysRecorded`, `MigrationsAreWhole`). There `MigrationInv` needs to know of
  an open transaction that has run a file that what it read is still all there is, and
  that no other has run one: the lock on what is being created is what makes it
  inductive.
- `VarForecasts_proofs`: for any calendar and prices, forecasts are made from final
  closes (`ForecastsNeverLookAhead`), a fill is complete and final
  (`FillsAreComplete`), and if live cycles run before or during the session
  (`LiveTicks` without the evening) what a fill sets is the return over exactly one
  session, between final closes if and only if it does not run during that session
  (`ScoresAreOneSession`). `FInv` says of each forecast that its last close is of the
  newest session over at its `as_of`. Two more rest on counting: the stored VaR is the
  least loss of the stored tail, and the tail is the worst days of the window
  (`TailsAreBehindVar`), and the offline evaluation finds the same VaR and return at
  any later time (`EvaluationsAgree`). The days of a window are ordered by loss and,
  where losses are equal, by date; each has a rank, the ranks fill `1..n`, so the order
  statistic that `historical_var` reads and the list that `tail_losses` cuts are of
  the same order. `VInv` says of each forecast that VaR and tail are those of the
  sessions over at its `as_of`, and of those of a backtest that their session has since
  been held: later bars then come after the window and cannot change it.
- `PublicSnapshot_proofs`: however exports break off, are killed and are repeated
  beside scripts that explain, what is listed is served (`WhatIsListedIsServed`), and
  an explanation appears with its trace or not at all (`BothOrNeither`), for any number
  of decisions, exports and audits. Both rest on order. `DemoInv`: rows only gain an
  explanation or a trace; the published list was read before whatever the running
  export has still to write, so a file that is overwritten says no less than the list
  that names it; and flags read before a decision is explained name neither its
  explanation nor its trace, those read afterwards name both.

  *The verdict is exact* (`VerdictIsExact`): for any golden days, orders of A and B and
  grades. `JudgeInv` follows the rows from the judge to the published file: the golden
  days in their order, each once, every grade under the answer it was given for. That
  the p-value is exact is about arithmetic: `sign_p` adds up binomial coefficients, each
  a quotient of factorials (integer division, exact by `DivideExact`). `ChooseIsWays`
  shows that a coefficient is the number of subsets of that size, by Pascal's rule for
  the subsets and a least `n` for which the count would fail; `TailCounts` adds up the
  sizes up to `k`; `Mirror` turns heads into tails; and `SignTailExact` settles the two
  cases in which the tails of both sides overlap, where the code caps the p-value at 1,
  or do not.

Every safety property of section 3 that the code keeps is stated by a theorem. Only
model-checked are liveness (`EventuallySucceeds`, `EveryRequestEnds`) and `ENABLED`,
which are out of the prover's reach. Assumptions on constants say what the code
provides: a replayed stop or cap that is absent differs from any number, a file differs
from what stands for no file and for a torn one, a decision recorded with the
explainer's trace has its explanation, since the run commits both in one transaction.
Hypotheses of theorems that a run satisfies but the code does not enforce are named in
the theorem (`~MayOverlap`, distinct symbols); section 3 says what happens without them.

## 5. Not modelled

- Numbers as such: RSI, parametric VaR, correlation, the Kupiec test, P&L and drawdown
  in percent, token prices. They are floating-point formulas without state.
- Texts: prompts, reasoning, ranking of headlines and retrieval scores, the key pattern
  of traces, redaction and shortening in the export.
- The live news source and `OpenPriceBook`: single reads of an API.
- The other tools of the MCP server, response shapes, health and start-up of the API:
  single read-only queries, plain I/O.
- The in-memory repository (a test double) and the schemas.
- Scripts that make one pass over a file or a query and are run by hand
  (`build_return_dataset.py`, `export_dashboard_data.py`, `fetch_bars.py` and the like),
  and the training notebooks: no state that two steps could disagree about.
- Terraform. Only the hour of the schedule matters to the program; it is `LiveTicks`.

## 6. Plan

What remains, by what it would add:

1. Instances: a symbol named twice on the command line, and backtest processes that
   overlap. Both break properties that are claimed for the other case only, and no
   document promises either.
2. The retrieval scores of `eval_retrieval.py`, should a decision come to depend on
   them.
