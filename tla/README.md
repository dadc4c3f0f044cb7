# A specification of the trading bot

TLA+ modules, TLC configurations and TLAPS proofs for this repository: a bot
that prices weather markets, records what it would do, trades on paper and,
when an operator says so, with money. The modules follow the code's control
(every state change, guard, early return and error path) and abstract its data.
Paths are relative to the repository (`src/` in PROJECT.json).

## The system

| Component | State it keeps | Operations | What makes it hard |
|---|---|---|---|
| Bot control (`bot_control/state.py`) | append-only `bot_control_events`; the newest row *is* the state | start, stop, enable, disable, kill, reset, audit rows | each request reads the newest row and inserts its own on another connection; failed reads fall back to a default |
| Live order store (`live_trading/repository.py`) | `live_orders`, `live_order_fills`, `live_reconciliation_runs` | create_intent, transition, apply_remote_order, record_fill, refresh_fill_totals, settle_order, update_mark_to_market, risk_state | every transition is an unconditional update that commits on its own, from a row read earlier |
| Live execution (`live_trading/service.py`) | the local variables of each cycle | reconcile, cancel_bot_orders, submit_one, run_cycle | crashes between commits, lost answers, orders that fill while one looks elsewhere |
| Dashboard (`dashboard/app.py`) | none of its own | the bot endpoints; some call the service without the cycle lock | requests overlap cycles and each other |
| Exchange (`kalshi_client/`, external) | orders, fills, results, books | create, cancel, list, stream | moves on its own; a call may take effect though its answer is lost |
| Paper trading (`paper_trading/`, `scripts/run_paper_trading.py`) | `paper_trades` | settle, exit, open | three transactions, each planned from an earlier read, by cycles nothing keeps apart |
| Alert pipeline (`scripts/generate_alerts.py`, `refresh_same_day_observations.py`, `mark_settled_alerts.py`, `send_notifications.py`, `scheduler/`) | `alerts`, `pipeline_runs` | price, refresh, settle, notify | three scheduled jobs over one table, no lock, slow outside calls |
| Order-book stream (`trading_readiness/stream.py`, `collector.py`) | one book a market in memory, its snapshots | baseline, snapshot, delta, gap repair, reconnect | losses are known only from numbers shared by all markets |
| Forward evidence (`trading_readiness/collector.py`, `freeze.py`, `readiness.py`, `report.py`) | freezes, decisions, order events, manifests on disk | freeze, collect, settle, report | overlapping runs; deployments replace manifests and code under a running test |
| Professional journal (`trading_readiness/professional*.py`) | decisions, events, journal, reviews, all append-only | judge, act, record, review | the position is reconstructed from the last decisions; one failure rolls back a run |
| Loss stops, breakers (`live_trading/risk.py`, `risk/`) | functions of trades | breakers, their replay and its validation | boundaries, activations that must happen once |
| Weather and prices (`weather/`, `edge/`, `sizing/`) | none | brackets, locks, conditional probabilities, Kelly sizes | inclusive boundaries, rounding, mixed feeds |
| Research (`backtest/`, `strategy_research/`, `scripts/investigate_market_edge.py`) | none | splits, fits, selection, verdicts | look-ahead, folds, populations that do not match |

How they meet: cron starts the pipeline (generate, settle, paper cycle, live
cycle, notify), the settlement cycle, the same-day refresher and the evidence
collector; systemd keeps the stream, the price feed and the dashboard running;
all of them share one PostgreSQL database and call the exchange over HTTP. Only
the live cycle takes a lock.

What makes each part correct: a killed bot is never trading (bot control); an
order the exchange has is never outside what the risk limits count, exposure
stays within them, one submission is open at a time, positions are settled once
and on what they hold, an emergency stop reaches every resting order (live
execution); a market is traded once, a record once closed stays, openings stay
within their means and settlements are never skipped (paper trading); rows of a
market settle as the market did, all of them, and a person is told once (alert
pipeline); a recorded book is the exchange's or a gap says that it may not be
(stream); evidence of a cohort is made by the code its freeze names and counted
once (forward evidence); decisions form one chain that refers only to what is
recorded, and a position is not reopened without news (journal); what is locked
stays locked, what is priced adds up, what is activated is activated by
definition, and no verdict rests on the future (the pure computations).

## Modules

| Module | Models |
|---|---|
| `ControlSwitch` | what the operator is promised: one switchboard, every request at once |
| `BotControl`, `MCBotControl` | `bot_control/state.py` and its endpoints: read, insert, commit, failures |
| `LiveOrders`, `LiveExecution`, `MCLiveExecution` | rows of `live_orders` and the functions of one row; cycles, requests, exchange, crashes, lost and late answers |
| `FixedLimits` | the constants and checks of `live_trading/risk.py` the professional decision repeats |
| `MarketBook` | best bids, derived asks and executable depth of a book |
| `PositionSizing` | `edge/calculator.py`, `kalshi_client/fees.py`, `sizing/kelly.py` |
| `PaperTrading`, `MCPaperTrading` | `paper_trading/engine.py` inside the cycle of `run_paper_trading.py` |
| `AlertPipeline`, `MCAlertPipeline` | the three jobs that share `alerts` |
| `OrderBookStream` | the collector's stream mode |
| `EvidenceRules` | a collector's decision, its conservative fill, its settlement, as functions |
| `Readiness` | forward counts, gates and conclusion of the readiness report |
| `ForwardEvidence`, `MCForwardEvidence` | collector runs, freezes and deployments, on top of the two |
| `ProfessionalDecision` | `select_professional_decision` and what it calls, as functions |
| `ProfessionalJournal`, `MCProfessionalJournal` | the runs that judge, record, act and review |
| `Brackets`, `SettlementDay` | brackets, readings, locks, conditional prices; a day of readings |
| `Breakers`, `TradeHistory` | circuit breakers, replay and validation; an account's trades |
| `Research`, `ResearchArchive` | paging, splits, fits, scores, verdicts; an archive of settled events |
| `Records`, `MCRecords` | the last three histories composed: one grows, the others rest |
| `FoldLemmas` | lemmas on the folds of the community modules: sums, maxima, folds over a set |
| `Records_proofs` | theorems about `OrderBookStream`, `SettlementDay` and `TradeHistory` |
| `AlertPipeline_proofs` | theorems about `AlertPipeline` and about `ResearchArchive`, the research on alerts that have settled |
| `*_proofs`, the others | theorems about the module they are named after |

Definitions marked *Faulty* are variants of the definition that follows them,
with a plausible mistake; PROJECT.json pairs each with a property that rejects
it. No specification uses them.

### BotControl

`latest` is the row `get_bot_state` returns. A request goes `Arrive`, (`Gate`
for live/enable), `ReadState`, `Insert`, `Commit`, or `Fail` anywhere. `Insert`
fixes `created_at`, the start of the transaction; `Commit` makes the row
visible, and newest only if no later one is already. `ReadFaults` lets a read be
answered with `_SAFE_DEFAULT`. What is written is `RowFor`: three columns,
copied from the state read for the requests in `Copies`.

### LiveOrders and LiveExecution

One action is one statement that touches the database or the exchange; anything
may step in between. `pc` names the statements. The loops of `reconcile` are one
action per row. `seen[p]` holds the rows a process has read or got back, and
decisions use it exactly where the code uses the object it holds, while updates
apply to the table as it is then. `Abort` is the exception that ends a cycle and
the death of the process: committed changes stay, the connection and with it
the lock go. A count is a number of lots, `Units` of which make the one
contract an order asks for; which signals pass, prices, balances, data ages and
loss stops are free choices; the dashboard's rows are reduced to `control`; the
exchange is what `service.py` relies on. `LateDelivery` lets a create arrive
after its caller gave up; `Overlap` lets a dashboard reconciliation fall into a
cycle that holds the lock.

### PaperTrading

A cycle is `Start` (bot state, positions), `ReadOutcomes`, `Settle`,
`ReadAlerts`, `Exit`, `ReadLedger`, `OpenPositions`: reads and transactions
where the code has them, the planning functions in full, in cents and 1/10000
dollar. The `update`s of `_apply_closes` look at no status; the insert of the
positions fails as a whole on the unique ticker. `alone` and `due` record
whether another cycle ran during this one and what was due when it began.
`bankroll_resets` stay empty.

### AlertPipeline

Three jobs, each a sequence of scripts. A script reads, makes slow calls (one
per city or market, each of which may fail) and commits what it has at its end.
What a price is worked out from is a pair of versions, of the forecast and of
the rest; `alerts[m]` is the market's rows in insertion order, and "the newest
row" is the last. Pushes are counted where the person receives them.

### OrderBookStream

A connection fetches every book (`Baseline`), subscribes, and receives
messages in order, some missing; `Process` is the collector's whole handler: the
sequence check, the gap it records and repairs by refetching the one ticker,
the delta that a negative depth refuses. A book is the depth of one price
level, since a delta touches one. `dirty[m]` is the number of the last change
its book must be wrong by: lost, or counted twice because the book was fetched
while it was on the way.

### EvidenceRules, Readiness, ForwardEvidence

A run of the collector is one transaction: check of the manifests' hashes,
settlement of what is unsettled, books of all markets, a decision of both
candidates on each, conservative fills, the professional part (represented by
its policy row), commit. Two sets of hashed files are told apart, and a
deployment moves code and, where a commit tracks them, manifests. `history`
records that a manifest was replaced and that runs overlapped. The backtest
study is a constant. TLC's books are active or not and never stale; a stale one
only adds a rejection, and the theorems allow it. A matter of the code worth
knowing: a candidate's row in the database is never compared (`on conflict do
nothing`), a professional policy's is, and a mismatch rolls the settlements back
with the decisions; an eligible decision is never partially filled, because its
depth check asks for the quantity; a market that is VOID stays unsettled.

### ProfessionalDecision, ProfessionalJournal

The decision is a function of the row's snapshot, the position and the events
since the earlier decision: facts, material events, blockers hard and soft,
exits, re-entries, action. A run settles, records a row with its simulated
order, judges every row not yet judged and reviews what settled, all in one
transaction that a failure rolls back; `tx` is what it has written. Reading a
fact of the earlier decision back from JSON as text makes an observed extreme
"new" each time (professional.py:706), so a market with an observation has a
material event in every decision; `ReentryNeedsEvent` therefore says that the
event exists, is no price and was not used before, not that the temperature
moved. The model has the comparison as it is.

### Brackets, Breakers, Research and their histories

Pure functions, translated with their boundaries and rounding: temperatures in
1/100 degree with METAR and 5-minute readings, forecasts as finite weights,
probabilities in percent. Each has a module that grows a bounded input (a
day's readings, an account's trades, an archive of settled events) and states
properties against a definition of its own: the final extreme, the definition
of a streak and of a day's loss, the max-min form of the isotonic regression,
disjoint and ordered windows.

## Runs

| Run | Instance | Shows |
|---|---|---|
| `BotControl_race` | 3 interchangeable requests, failing reads | never killed and trading; a kill is lost only to a reset or a stale read; LIVE only from live_enable or a copy of LIVE |
| `BotControl_serial` | 1 request slot, 6 rows | refinement of `ControlSwitch` |
| `LiveExecution_workers` | 2 workers, a dashboard request, 2 orders of one market that only one fits, 1 fault | coverage, real exposure, one submission at a time, settled is final |
| `LiveExecution_live` | worker and emergency stop, 1 order of 2 lots, late delivery, 1 fault, fair scheduler | closed is closed, settled in full; a kill drains the exchange, ambiguity is resolved, a stray order is found |
| `ProfessionalJournal_chain` | 2 runs, 3 rows, 2 changes or failures | references, one chain, one position, re-entry on news, one review |
| `PaperTrading` | 2 cycles, 2 markets of one day whose stakes exceed its share, 1 piece of news, 1 death | no re-entry, records kept, openings within means, ledger agrees with results, settlements not skipped |
| `AlertPipeline` | 3 jobs, a city, 3 inserting runs, 1 fault, fair scheduler | rows settle alike and all, one push a date, the newest row does not fall back |
| `OrderBookStream` | 2 markets, 5 messages a connection, 2 losses, a drop, a database error, fair service | books track, gaps are noticed, the stream returns |
| `ForwardEvidence` | 2 runs, a market, 2 batches, a deployment, a fault, fair scheduler | pure cohorts, settled once, whole batches, fills settle |
| `Records` | 4 brackets and 3 readings; 4 trades over 3 dates; 7 dates of 3 brackets | locks, prices, activations, research |

The bounds are the smallest that let every case happen, and TLC covers every
action and disjunct of each next-state relation. Two orders stand for one signal
at two prices; three requests are one more than any race needs; two cycles,
runs or jobs are what a race needs; one fault is followed by its repair. Three
journal rows give an entry, an exit and a re-entry; five messages of two
markets give two snapshots, a loss, a later number of the other market and a
repair. Seven dates make the research's windows, folds and holdout non-empty, with
boundaries that rounding decides.

Runs that TLC refutes, each with a sentence of the repository:

| Run | Sentence | What happens |
|---|---|---|
| `Records_impossible` | "'between 79 and 80' includes both ends" (weather/probability.py:227) | `bracket_is_impossible` rules a bracket out once the extreme has reached its upper boundary; a maximum of exactly 80 wins it. `classify_lock_status` gets the same case right |
| `ForwardEvidence_integrity` | the readiness gates decide whether evidence suffices (README.md:145) | every REST snapshot of a decision run carries a recovery reason, each counts as an integrity violation, and none is allowed: clean evidence cannot pass |

Five more disagreements are in the models without a run that isolates them:

- a kill blocks "until reset_kill_switch is explicitly called" (state.py:315),
  but a request that read before it commits after it, and a `stop` that acts
  "without touching the kill switch" (state.py:248) writes the safe default's
  `kill_switch=False` when its read fails. `KillLostOnlyToStaleRead` names both
  as the only ways;
- an orphan is an order "with no local record" (service.py:103), but SETTLED
  rows are not among the records compared, so a settled order that is still
  listed makes every later reconciliation unhealthy;
- "maximum $1.00 bot exposure per market" (DECISIONS.md:389) is lost where a
  cancellation is recorded with the filled count read before it while lots
  fill (one order of two lots and a second order show it), and where a dashboard
  reconciliation falls into a cycle and moves the row under submission back to
  PENDING (`Overlap = TRUE` shows it). The instance of `LiveExecution_workers`
  has orders of one lot and no such overlap.

A state read before the cycle's lock is used to its end, so a cycle that read
LIVE still submits after a stop; `SubmissionDiscipline` therefore speaks of the
state *read*, and `KilledDrains` shows that such an order is still canceled
after a kill. Properties of cycles and runs that say "no other overlaps" are
false without it, in the models as in the code: two paper cycles close a trade
twice (the later outcome stays) and spend the same cash, two collector runs
settle a fill twice and fork the chain, a slow script inserts older prices over
newer ones.

## Fairness

- `LiveExecution`: weak fairness of `BeginCycle` and `Continue` of each worker:
  cron starts cycles whatever the control state is (OFF and killed cycles still
  reconcile), and a statement that has begun ends or fails.
- `AlertPipeline`: the settlement cycle is started again and again, and a
  pricing script that has begun goes on; neither pipeline nor refresher need
  ever start.
- `ForwardEvidence`: runs are started again and again and go on to their end,
  and a market closes at its time.
- `OrderBookStream`: the reconnect loop and the receiver go on.

Nothing else is asked of operators, deployments, the dashboard or the exchange:
orders need not fill, markets need not resolve, no change need be sent. Crashes,
failed calls and losses are finitely many; a cycle that always dies drains
nothing. `PaperTrading`, `ProfessionalJournal` and `Records` have safety
properties only.

## Proofs

For every value of the constants: any number of requests, orders, markets,
workers, rows, faults. What a theorem assumes of the constants stands beside
them in the component's module, and TLC evaluates it on every run.

Sums and folds. `MapThenSumSet`, `Max`, `FoldSet` and the recursive functions
behind them cannot be unfolded for every input by an induction theorem, since
those take an operator as parameter. `FoldLemmas` proves what is needed without
one: if a fact failed for some subset of a finite set, it would fail for a
smallest one, `SmallestSet`, which a well-founded order on subsets gives; that
set without one element gives the contradiction (`SubsetInduction`). That a fold
is the one function with its equations (`FoldUnique`, `FoldExists`) gives what
sums obey (`SumRemove`, `SumJoins`, `SumMonotone`, `SumGrows`); the arguments
below about money, depth and probability use nothing else of them.

### `BotControl_proofs`

`TypeCorrect`, `KilledNeverTrades`, `KillLost`, `LiveNotConjured`. The invariant
adds that every row *held* by a request is coherent and not newer than the
newest row. `SerialImplementsSwitch`: with one slot and no failed read a row
held is the newest row (`Fresh`), so each commit is one step of `ControlSwitch`.

### `LiveExecution_proofs`

`TypeCorrect`; `OrdersCovered` (`[]Covered`) and `OneSubmission`
(`SubmissionDiscipline`), assuming `~LateDelivery` and `~Overlap`, both
necessary. `Covered` is not inductive. `IInv` adds `LockHeld` (who reconciles or
submits holds the lock), `ListedAll` (what was listed is all there is, since
only the lock holder's orders arrive), `HandledCounted` (rows handled are
counted when their order exists), `SubmittingRows` (a row SUBMITTING is a dead
cycle's, or the one being submitted), `TargetRow` and `CancelsKnown`; one lemma
per part shows that every step preserves it.

Under the same two assumptions, `SettledStays` (`SettledIsFinal`), `OverIsOver`
(`ClosedIsClosed`) and `SettlesInFull` (`SettledInFull`). The lock holder has
read settled rows out of what it works on (`OpenRows`), so its unconditional
updates reach open rows only. The rest compares three copies of an order, the
exchange's, what a reconciliation has read of it, and the row: what was read
lags behind the exchange, which never takes a fill back nor reopens an order
(`Lagging`), and nothing rests in a settled market (`ExchangeSound`). Fills and
results are one read of the model (a result is published hours after the last
fill), so a reconciliation that knows a market's result has its fills in full,
and its loops run in the order that brings them into the row before it is
settled (`Counts`, `InFull`). The run of `LiveExecution_live` also checks
`ClosedIsClosed` with late creates, which the theorem excludes.

`ExposureLimited` (`[]ExposureWithinLimits`): what the account has really
committed stays within every scope of orders the limits speak of, for orders of
one lot (`Units = 1`) and again without late creates and overlaps. With several
lots, or an overlap, the limit *is* lost (see above), so these hypotheses are
what the code needs and not what the proof does. `ExposureInv` adds that an
order of one lot is filled or not (`ExchangeWhole`), that a row never counts
less than its order can still cost (`RowsWhole`), and that the limits hold with
the order about to be created added (`WithinAll`). When a worker has chosen its
target from the rows, `Covered` makes the sum over the rows an upper bound of
the sum over the exchange's orders; between that check and the create, only
fills, cancellations and settlements move the exchange, and none of them adds a
commitment.

### `PaperTrading_proofs`

`NeverReentered`, `RecordsStay`, `SettlesWhatIsDue`. The invariant speaks of
each cycle apart: what it plans to close has been entered (`PlanEntered`); while
it is alone, what it plans to close is open and not among the positions it goes
on with (`PlanOpen`); what was due when it began is among its positions and then
in its plan (`DuePlanned`). Steps of a cycle leave the others in order because
none of them is alone (`OthersKept`).

`LedgerAgrees` (`[]Booked`): what is closed as won or lost is what the market
resolved to, at its full value or at nothing, so that no loss exceeds the cost.
`OpensWithinMeans` (`OpeningWithinMeans`): a cycle that is alone opens positions
for no more than the cash beyond the reserve and no more than each day's cap.
`MoneyInv` adds types, that every close is one the market and the trade's cost
allow (`ClosedRightly`), also while it is only planned, and that what a cycle
alone has read of the ledger is still the ledger when it opens (`CycleMoney`).
`Plans` is the contract of the code's greedy loop: whatever the order in which
candidates are taken, what it has bought so far is paid from what is left.
Assumed (`PaperAssumption`): finitely many markets, events with dates, prices
from 1 to 99 cents, the caps and the reserve fractions of the whole.

### `AlertPipeline_proofs`

`PushedOnce` (`[]NotifiedOnce`). Pushes of a market and date never exceed its
recorded row plus one for each crash and one for the push under way
(`PushesBounded`); what is to be pushed is of markets not notified that date
(`CandidatesOpen`), which holds because only one job notifies.

`SettlesAlike` (`[]SettledAlike`) and `NewestNeverBack` (`NeverBack`): rows are
their market's and settled, if at all, as it resolved (`RowsSound`), and a job
that nobody overtook has priced its rows from nothing older than the newest
unsettled row has (`HeldSound`); both rest on the world's versions only
advancing. `NeverBack` says "unless another script inserted", and that is no
weakness of the proof: with overlapping runs newer rows do get older successors.

`ResearchIsHonest` (`[]ResearchHonest`), for any winners, odds and ladder without
gaps. An archive is any sequence of winners (`ArchiveInv`), so the argument is
about the functions of `Research`, each lemma for every set of rows it can be
given:

- splits (`BacktestsAreInOrder`, `InvestigationsAreInOrder`): the dates of the
  rows are a rising sequence that has each once (`AscendingIs`), every split is
  of windows of that sequence (`WindowsSplit`, `FoldsAlong`), and the rounded
  bounds of the folds do not fall and stay within it (`RoundedIs`);
- the fit (`IsotonicAlwaysExact`): after every round of pooling the groups are
  blocks of the first ones, a block's mean is at most the mean of each of its
  heads, and the blocks looked at so far rise (`PoolInv`). Twice the number of
  groups, less the place looked at, falls every round, so after two rounds a
  group nothing falls any more; what the fit then gives a group is the maximum of
  minima the isotonic regression is defined by (`PooledIsMaxMin`);
- scores (`PopulationsAlwaysAgree`): an event has at most one signal, which is
  won or lost, and every row has all three numbers;
- stability (`StabilityAlwaysMeansSkill`): the sum over the clusters is the sum
  of the second date's and of the others', and both are among the analyses;
- rows (`LaddersAlwaysWhole`, `ResidualsAlwaysOnce`): the pages read from the
  historical tier reach every market after the start date (`PageReached`), and
  a winner's lost strikes are those its neighbours leave open (`RepairedIs`).

Assumed (`ArchiveAssumption`): a ladder of at least three rungs, the inner ones
of two degrees and each beginning where the one before ends, odds in percent,
and no more historical markets after the start date than 20 pages hold, which
is where the backtest stops reading. Start date, page size and the two dates of
the tiers are the module's.

### `Records_proofs`

`GapsAreNoticed`. Numbers on the wire ascend and follow the last one seen, and
what is missing between two of them was lost, so the next number received
reveals it.

`BooksAreTracked` (`[]BooksTrack`), for every number of markets and a deepest
book of at least one contract: a book that is not dirty, with the changes still
on the wire, is the exchange's. `BookInv` states it with the market's snapshot
while that is on its way, and with the book once it is not (`Tracked`); per
connection each market has at most one snapshot, which precedes its changes
(`WireShaped`); without a connection nothing is on its way (`LinkRests`). Each
kind of message the collector processes is a lemma about one sum over the wire.

`LocksAreFinal`, for every ladder, day of readings and official extreme: the
readings that count report a temperature the day had (`ReportsTrue`), which the
day's extreme bounds (`OneExtreme`), and the official extreme is that one
rounded (`SettledOnExtreme`). Rounding is monotone, so a boundary passed stays
passed.

`PricesAreWhole` (`[]PricesHold`): the conditional prices of a ladder add up to
the whole mass of the forecast, a bracket that is decided is priced as decided,
and a forecast judged hot, cold or inside would itself have been settled in a
later, an earlier or the same bracket. The prices of the first rungs together
are a function of the last one's upper end (`PriceTo`), so their sum telescopes:
each rung adds what `PriceTo` gains on it, and the mass an observation has
realised goes to the one rung that the observation is in (`Reached`). Assumed
(`LadderCovers`): the ladder starts below, ends above and has neither gap nor
overlap between, forecasts are finite weights, and no temperature is exactly
between two whole degrees.

`ActivationsAreExact` (`[]ActivationsExact`), for any results, streak limits and
daily share. `HistoryInv` says what the history gives the replay: closed trades
have the moments 1, 2, ... and dates that do not fall, whatever order they were
opened in; `Closed` then lists them by moment (`ClosedIs`). Each pass of the
report is a fold, which `StreaksRun` and `DaysRun` turn into a state after every
trade, and each has an invariant over these states: after k trades the streak
pass has one row for every trade whose run of losses is exactly the limit, and is
armed when the run is shorter (`StreakInv`); the daily pass holds the bankroll, the
trades of its date, and a row for every earlier date that lost its share
(`DailyInv`). Sorting is a permutation (`RanksAre`), so the report has these rows
and no others; deduplication keeps one row a date and type (`DedupedIs`), and
daily rows differ in their dates.

### `ForwardEvidence_proofs`

`PureCohorts`. A stored freeze is the manifest it was made from unless that
manifest has been replaced (`FreezeKept`), a run that got past its checks
executes the frozen code (`RunsFrozen`), a policy version is stored once
(`PoliciesUnique`), so a decision's code follows from its versions
(`DecisionsPure`).

`SettlesOnce` (`[]SettledOnce`) and `BatchesAreWhole` (`[]BatchesHold`) rest on
`RowsInv`: a decision's id tells its run, batch, market and candidate, and no
other has it (`IdsUnique`, `NumbersFresh`); an event is of a decision committed
with it or before (`EventsOwned`); an outcome is of a filled order and what its
market resolved to (`OutcomesEarned`), one a decision when runs did not overlap
(`OutcomesOnce`); a decision is written with its order event, its book and the
other candidate's decision on the same book (`BatchesWhole`). The last also says
that an eligible order is filled in full and within its limit, or not at all
when the market is not active. That is a result about two functions: the depth
check counts the levels within the limit (`EligibleDecision`), the fill takes
better levels first (`AllTaken`, `TakenSum`), and levels have positive
quantities when the diagnosis has nothing to say, so the quantity asked for is
reached, at an average no worse than the limit. Assumed (`EvidenceAssumption`):
ladders with one level a price, integers as data, code hashes that differ from
that of a missing file.

### `ProfessionalJournal_proofs`

`JournalIsClosed` (`[]JournalClosed`), for any overlap of runs: what a row
refers to is in the journal, before a commit as well as after it. `JournalInv`
says it of what is committed and of what each run sees (`DataInv`), with the ids
drawn so far (`Numbered`) and every row judged when a run commits (`AllJudged`).

`OneChain` (`[]LinearChain`), `PositionIsOne` (`[]OnePosition`),
`ReentryIsInformed` (`[]ReentryNeedsEvent`) and `ReviewIsOnce`
(`[]ReviewedOnce`), each of runs that do not overlap, as the properties say.
`SerialInv` is then: one run is open, and both the tables and its view of them
are in order (`Alone`, `InOrder`), that is, keys are unique, a row not yet
judged is later than all judged and nothing is settled before (`PendingLast`), a
row has one simulated order that is settled once (`OrdersOnce`). Position and
re-entry speak of the last `Window` decisions, since the code looks no further
back (a hazard in PROJECT.json). Assumed: a window of at least one.

### Only model-checked

Every liveness property (`KilledDrains`, `AmbiguityResolved`, `StrayFound`,
`EverySettles`, `StreamReturns`, `FillsSettle`): fairness and ENABLED are out of
the prover's reach. So is induction over data, which the folds of `FoldLemmas`
replace wherever a theorem needs a loop.

## Not modelled, and why

- Signing, URLs, retries of reads, parsing of exchange answers, pages and
  charts of the dashboard, messages, reports and audits: they keep no state or
  only print it. A malformed acknowledgement, which `submit_one` takes for a
  rejection, is therefore in the list of hazards without a property.
- A worker that outlives its database connection and with it the lock; the
  advisory lock is modelled as ending with the process.
- Profit and loss of live orders: the loss stops of `live_trading/risk.py`
  block or pass freely. The consecutive-loss stop has no date and never ends
  once reached (repository.py:437).
- The price feed: a cache of the last price with an age limit, whose scheduled
  reconnect is looked at only when a message arrives (subscriber.py:124).
- `risk/controls.py`: only its tests call it. It appends a row per switch and
  reads the table as disabled unless it has exactly one row.
- Reaction samples, contract truth, alert payloads and account figures of the
  professional collector; professional archives of a version that returns are
  compared with the archive, not with the new code.
- Logistic and residual fits, bootstrap intervals, spread and scale fits,
  forecast downloads: floating-point statistics. Readings that lie exactly
  between two whole degrees are left out (`Tie`), since the code's and the
  station's rounding need not agree on them. A start-date event of the archive
  may lose brackets to paging (harness.py:169), so `LaddersWhole` speaks of the
  dates after it.
