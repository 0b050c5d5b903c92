# A verification project for crypto-sentiment-analytics

The repository collects one-minute candles and news articles, stores them in
TimescaleDB, scores the articles, derives bar features from both and trains a
model that says BUY, HOLD or SELL. Its processes share nothing but Kafka, the
database and two advisory locks. What is hard about it is not the arithmetic but
what happens when these processes meet: a consumer that is fenced while it
writes, an article that is re-tagged while it is scored, a backfill that works
from a picture of the table while the live stream goes on. The TLA+ modules here
model that part, and the pure algorithms around it whose boundaries are easy to
get wrong; TLC checks them on small instances, and TLAPS proves every safety
property of the passing runs for every size.

Paths below are relative to `src/`.

## 1. Inventory

| Part | State | Operations | Talks to |
|---|---|---|---|
| Market ingestion, `ingestion/market/` | reconnect delay, producer buffer | stream candles, publish, reconnect | Binance websocket -> Kafka |
| News ingestion, `ingestion/sentiment/` | `seen_urls` of each poller, GDELT retry budget | poll feeds, tag, publish | RSS, GDELT -> Kafka |
| Storage consumers, `streaming/*_consumer.py`, `resilient_writer.py` | position, attempt, connection; committed offset; tables `market_data`, `raw_sentiment` | take, validate, write with retries, commit, fail fast | Kafka -> database |
| Supervisor, `streaming/run_storage_consumers.py` | per worker: process, `restart_times`, `next_start_at` | launch, poll, restart with backoff, crash-loop guard, shutdown | the two consumers |
| Live scorer, `sentiment/run_sentiment_scoring.py` | the batch in work; `sentiment_scores` | fetch unscored, insert a row per coin | `raw_sentiment` -> `sentiment_scores` |
| Repair, `maintenance/`, `tools/health_check.py` | `State`: what the checks found | check, market and news backfill, retag, score, rebuild features, signals | every table; its own lock and the feature lock |
| Backfill tools, `tools/backfill_*.py` | cursor time, key pool | page through an API, insert or merge | Binance, CryptoCompare, GDELT -> database |
| Feature job, `features/` | `features_bar`, its columns, the advisory lock | ensure_schema, plan, read, build, upsert | `market_data`, `sentiment_scores` -> `features_bar` |
| Signal job, `signals/` | `signals` table, failure count | feature pass, train, predict, upsert | `features_bar` -> `signals` |
| API and dashboard, `api/`, `dashboard/` | connection pool | read-only queries | database |
| Lag detection, `lag_detection/` | none | series, event study, statistics | database -> reports |
| Scoring models, configuration, logging | none that changes | | |

The hard behaviours, and what makes each part correct:

* **Storage consumers.** Crashes between write and commit, a write whose answer
  is lost, a process that is fenced and does not know it, outages, messages that
  cannot be stored. Correct when nothing committed is lost, a redelivery changes
  nothing, the offset never goes back, and no message blocks those behind it.
* **Supervisor.** Several workers, one polling loop, a sliding window. Correct
  when restarts are rate-limited, it gives up only in a real crash loop, a dead
  worker is back in bounded time and no process survives the shutdown.
* **Scoring and re-tagging.** Four writers of two tables with different
  transaction boundaries. Correct when an article has scores of its own coins, of
  all of them, and gets them in the end.
* **Feature job.** Three kinds of process around one lock, several frequencies,
  late data, a table that grows columns. Correct when no row goes back to older
  data, nothing that arrives falls between two passes, every row is computed
  from its whole rolling window and a new column is filled everywhere.
* **Market ingestion and backfill.** A closed candle comes once; asynchronous
  sends, gaps while disconnected, half-open ranges, pages cut at a limit, windows
  without data, a candle that still forms, all beside the live writer. Correct when
  a candle never changes, paging ends, a clean backfill leaves no hole and what the
  live path loses is filled in the end.
* **News ingestion.** URLs marked before they are published, retries under a
  budget on an event loop that somebody else may block. Correct when nothing is
  marked that was never accepted, and a cycle ends within its budget (it does not;
  how far it runs over is bounded).
* **News backfill.** Rotating keys, paging backwards by seconds, windows that are
  refused. Correct when a run that ends without complaint has left nothing out, and
  no key is given up unused.
* **Health check.** One process, one connection, eight steps that make each
  other's results stale. Correct when only one process repairs, and what is still
  pending at the end failed, was skipped or is not to be had.
* **API pool.** Creation race and exhaustion. Correct when no connection leaks.
* **Analysis and backtest.** Series with holes, events, walk-forward blocks.
  Correct when lags are hours, not rows, and nothing is predicted from the future.

`PROJECT.json` lists the hazards one by one, at the line where each bites, with
the properties that cover it or the reason why none does.

## 2. Plan

Done, in this order:

1. `Delivery` (abstract) and `StorageConsumer`, with `StorageConsumer_proofs`.
2. `Supervisor`, with `Supervisor_proofs`.
3. `Scoring`.
4. `FeatureJob`.
5. `CandleStore` (abstract), `MarketIngestion`, `Ranges` and `MarketBackfill`, which
   composes the live and the repairing writer and refines `CandleStore`.
6. `HealthCheck`, `RepairPlans`: the repair run as a whole.
7. `Pollers`, `NewsBackfill`, `ApiPool`: the remaining services that keep state.
8. `Analysis`, `Backtest`: functions of their inputs against reference definitions.
9. The proofs: `MarketBackfill_proofs`, `Scoring_proofs`, `FeatureJob_proofs`, the rest
   of `Supervisor_proofs`, `Algorithms_proofs` (the modules without actions),
   `Services_proofs` (the services and their composition), and `NumberFacts` for the
   lemmas they share.

Left: in `FeatureJob`, articles with URLs, for the duplicates of
`features/transforms.py:96`; in `RepairPlans`, the loop over the coins with its counter
of unreachable ones.

## 3. Modules

### Delivery, StorageConsumer, MCStorageConsumer

`Delivery` is the promise of the streaming code without processes: a partition is
applied to a table in log order, the first row of a key wins, a message the
server refuses is set aside, and the committed offset only passes settled
messages. It knows no retries, leases or crashes.

`StorageConsumer` is the loop of both consumers (they differ in validation and in
who owns the retry loop, not in control). Every member of the group has a `pc`
(`down`, `polling`, `writing`, `committing`), a position, an attempt counter and a
connection that may be broken without its knowing. `TakeForWrite`, `TakeInvalid`
and `TakeUnhandled` are the three ways validation ends; `Insert`, `InsertAckLost`,
`InsertOnBroken`, `InsertRejected` and `ServerRefuses` the ways `execute` ends;
`ConnectionError` is the `except` of `write()` with its last-attempt re-raise;
`Exit` is the `finally` block. Validation is reduced to what the loop
distinguishes: a message is a good row, a row the server always refuses, invalid,
or one that raises something nobody handles. The group coordinator is external:
it may evict a member at any time (`Evict`), forgets dead ones
(`ExpireSession`), hands the partition to whoever polls and starts it at the
committed offset. A fenced member keeps running and may still write, which is
what the code allows.

`D == INSTANCE Delivery` shares the variables `log`, `committed`, `rows` and
`skipped`, so the refinement mapping is the identity on them.

### Supervisor

`run_storage_consumers.py` with an explicit clock. One pass of `_supervise` is a
`BeginPass` that reads the clock and one visit per worker, as in the source's
`for`; workers die between any two visits. `PopsLeft` is the pruning `while`,
`Loops` the guard, `Backoff` the delay. `granted` and `downSince` are history
variables: all restarts ever granted and the time of the last death, against
which the properties measure what the pruned deque makes of them. The sleep may
be late by `Slack`. Its initial states, steps and specification are `SuperInit`,
`SuperNext` and `SuperSpec`; the run `services` checks them.

### Scoring, MCScoring

`raw_sentiment` and `sentiment_scores` under the storage consumer (`Arrive`), the
CryptoCompare merge (`Merge`), the live scorer (autocommit: `StoreScore` is one
row) and the repair (`Check`, `Retag`, `Count`, `FetchBatch`, `CommitBatch`: one
transaction each). Scores themselves are left out; a row is its (article, coin)
pair. `hurt` records what has happened to an article's scores, so that the
invariants can say *only these* events damage them.

A repair can stop in three ways. `Abort` is a kill, a lost connection or an error of
the database: the open transaction is rolled back. `InterruptRetag` and
`InterruptScore` are Ctrl+C, or an exception of another kind, between two statements
of a transaction: `_step()` catches `Exception` only and does not roll back, and the
`finally` of `main()` unlocks and commits (`tools/health_check.py:203-207`), as does
the next query on that connection (`maintenance/checks.py:91`). What was done stays
done: some or all tags updated and some of the scores deleted (`"halved"`), or some
coins of an article stored (`"torn"`).

Articles never stop arriving: `Forget` gives the place of an article nobody has to do
with any more to a new one, so that a bounded set of places stands for an endless
stream, in which older articles can be crowded out of the newest `BatchSize`.

### FeatureJob, MCFeatureJob

`features_bar` as a derived table. Time is counted in bars of the shortest
frequency. Every late arrival is a *fact* about a slot, and a stored row remembers
which facts it was computed from (`seen`), from which slot its pass read (`from`)
and its `computed_at`. Values are left out: a row is right when it has seen what
it should have.

A job goes through `EnsureRead` and `EnsureAlter` (the two transactions of
`ensure_schema`), `TryLock` (which also reads the watermarks: nobody else moves
them while the lock is held), `ReadCandles` and `ReadScores` (two transactions),
`BeginWrite` (whose `now()` becomes `computed_at`), `Write` and `Finish`. The
callers differ as in the source: the signals loop runs `ensure_schema` every time
and forgets a full refresh whatever the outcome, the loop of `run_feature_job`
keeps it after a failure but not after a skipped pass, the health check waits for
the lock and gives up. `Plan` is `plan_run`, `NextFrom` where its incremental branch
begins; `Flagged` is the query of `check_features`. `ArriveNow` is a row whose time stamp and commit coincide;
`TakeStamp` and `ArriveLater` separate them, as `backfill_symbol` and the
repair's transaction do. Two history variables: `lost`, a full refresh that was owed
and got lost, and `passed`, the bars that a pinned pass left behind the watermarks it
moved.

Left out: `--end`, `--symbol` lists (one symbol), gaps in the candle grid, a table
that does not exist yet, processes still running an older configuration, and
`job_runs`, a log that nothing reads back.

### CandleStore, MarketIngestion, Ranges, MarketBackfill, MCMarketBackfill

`CandleStore` is what readers of `market_data` rely on: a candle appears once, never
changes, is not there before its minute and is final only after it. It knows no
writers.

`MarketIngestion` is the live path of one symbol. `stream` is where `run()` stands;
`Connect`, `Publish` (which resets the delay), `Disconnect` and `WakeUp` (sleep, then
double) are its loop, `CloseCleanly` the end of `async for` without an exception, and
`EndIngestion` every way the process ends: the buffer may be sent in part, since
`flush()` is only reached by a `KeyboardInterrupt` raised inside the loop. `due` are
closing events on the connection; they come once. `Deliver` and `DropAfterRetries`
are the producer's thread, whose future is dropped. `Consume` is the consumer's
`is_closed` test and its INSERT; retries and fencing are in `StorageConsumer`.

`Ranges` is `maintenance/ranges.py` as operators. `Coalesce`, the loop over the sorted
ranges, is a fold over the set of them that takes the one that starts last away
(`LastToStart`) and joins it to what the others give; `DayRanges` is such a fold over the
days (`Extend`).
Time is counted in half minutes, so that a clock reading lies inside a minute.

`MarketBackfill` extends both. `Gaps` is `check_market`, `StartBackfill` the merged
ranges, `FetchPage`, `FetchNothing` and `InsertPage` the three ways a pass of the
`while` goes on, `Klines` Binance's answer to a window that includes both ends, at
most a page of it and the newest candle as it is at that moment. `RetryPage` and
`FailBackfill` are the attempts and every way out. `listed` are the minutes Binance
has at all. The clock ticks between any two of these steps.

`C == INSTANCE CandleStore WITH now <- now, table <- table`: the mapping is the identity on
the two variables; connections, pages and cursors are internal.

### HealthCheck

`main()` of `tools/health_check.py` as a sequence `Steps` of areas. `work` is what a
complete check would find pending; a step takes its own area off and puts on what
`MakesStale` says. It need not take it off: `Healed` are the outcomes of a step whose
summary does not say FAILED, and `MayRemain` says when its own area may stay, namely
when the source has nothing for a part of the history (`dry`, `NoData`), when the news
repair has reached its days or its quota, and when somebody else has left work, which
may also use up the batches of `score()`. `CutShort` are the outcomes of a step that
fails or is killed, some of its pages or batches being committed. `plan` is what the process has found, once before the repairs
(`Inspect`) and for the bars once more before they are rebuilt (`LookAgain`). A
check may crash (`Found`), a step may fail with a usable connection (`StepFails`),
abort the transaction (`StepAborts`), or meet the aborted one of an earlier step
(`StepOnAborted`); `LookCrashes` is the second look, which no guard covers.
`KillCheck` is a kill or Ctrl+C at any point. `calm` is a history variable: nobody else
has left work since the process looked.

### Pollers

One process, `running` the coroutines in it, `seen` the two sets of URLs. `PollFeed` is a
feed's whole loop body, which does not yield. `SendRaises` ends the process, because
nobody catches a `KafkaError`; `LoseNews` is the dropped future. A second small machine,
`GNext`, is the inside of one GDELT poll in seconds: the two places where the wait is
computed differ in when they read the clock, and `RssBlocks` is what the other poller,
whose `requests.get` blocks the event loop, adds.

### NewsBackfill

CryptoCompare: `KeyRefused` is `mark_exhausted` with `AdvanceKey`, `RetryRequest` and
`CcFails` the network errors, `HttpRejected` a 4xx, which `raise_for_status` turns into
the end of the run, `ReadPage` the paging (newest first, `before_ts` one second
before the oldest), `LeaveRange` the three ways a range ends. `complete` are the ranges
paged to their end. GDELT: `WindowFetched`, `WindowBlocked` (attempts, skipped window,
early stop) and `WindowFails`.

### ApiPool

`_connection()` of `api/db.py` at the granularity at which threads can interleave: the two
looks at `_pool` (`BeginRequest`, `PassInit`), the constructor (`MakePool`), `GetConn`,
`Query` and `PutConn`, which reads the global again.

### RepairPlans, Analysis, Backtest, MCServices

`RepairPlans`, `Analysis` and `Backtest` have variables for their inputs and no actions: each initial state is one
input. `RepairPlans` is what `maintenance/repair.py` asks for.
`Analysis` is `lag_detection/` up to the statistics (grid and gaps, lag pairs, complete
runs, rolling windows, event clusters, horizons, onset) with the dashboard's significance
windows. A horizon has two flags, `significant` (with the minimum effect), which the onset
reads, and `significant_fdr`, which the dashboard reads; the first implies the second. `Backtest` is `training_rows`, the walk-forward blocks, `generate_signals` and
`strategy_returns` without the classifier. Each invariant compares the translated loop
with a definition by quantifiers over the same input, part by part: `RepairPlansAreExact`
is `MarketAsksExactly` and `NewsAsksExactly`; `SeriesFaithful` says that hours stay in
place (`GridKept`), that gaps are reported (`GapsReported`), that the segment tested is a
longest complete one (`SegmentLongest`), that the onset lies in a window of the chart
although the two read different flags (`HorizonsAgree`) and that each article is in one
event (`EventsPartition`).

`MCServices` puts these small modules and `Supervisor` side by side. They share no state,
so their interleavings would add nothing: `focus` is chosen once and says which of the seven
machines moves (`OnlyHealth` to `OnlySupervisor`) or which inputs are enumerated, while the
others rest in one initial state. For the proofs
each service has a specification of its own: `HSpec` (health check), `PSpec` and `GSpec`
(pollers, inside of a GDELT cycle), `NewsSpec`, `ASpec` (API pool), `SuperSpec`
(supervisor). `Spec` is that of all
of them side by side, which the run checks; `BSpec` is that of the market's two paths.

### The proof modules

`StorageConsumer_proofs`, `Supervisor_proofs`, `Scoring_proofs`, `FeatureJob_proofs` and
`MarketBackfill_proofs` extend the module they are named after, `Algorithms_proofs` the
three modules without actions; `Services_proofs` extends `MCServices`, `Algorithms_proofs`
and `Supervisor_proofs`.
`NumberFacts` has the lemmas about numbers and folds that they share and nothing of the
code.

## 4. Runs

| Run | Question | Answer |
|---|---|---|
| `storage` | Two members, one partition: is anything lost, repeated or reordered by two faults of any kind? | `AtLeastOnce`, `ReplayDeterminism`, `OffsetAdvancesByOne` and the refinement `ImplementsDelivery` hold; every message is committed unless an unhandled one is before it (`EventuallyCommitted`) |
| `storage_written` | Is everything that is committed stored, apart from what the code means to skip? | No: an error of the server counts as an error of the row |
| `storage_poison` | Are poison messages skipped? | Not those that raise something unexpected |
| `scoring` | Which interleavings damage scores, what does a repair restore, is everything scored? | Only the named ones: a re-tag or a merge under a scorer's hands, a scorer that stops between two coins, a repair interrupted between UPDATE and DELETE (`RightCoinsOnly`, `WholeArticles`); a repair that nobody disturbs restores tags and leaves no work (`RepairHeals`); every article that newer ones do not crowd out (`EventuallyScored`) |
| `scoring_retag` | Does re-tagging exclude new tags with old scores? | No: the live scorer may hold the old tags |
| `scoring_pairs` | Is there a row for each pair in the end? | Not after a crash between two coins |
| `features` | Do three kinds of job with late data, a new column and a failure keep the table right? | No row goes back (`NeverOlder`), none lacks history, nothing on time is missed unless a pinned pass moved the watermarks past it (`NextPassCovers`, `EventuallySeen`), a full refresh is lost in four known ways only (`MigrationOwed`) |
| `features_align` | Does the health check report every missing or stale bar? | No: a rebuild from inside a longer bar leaves that bar out |
| `market` | Live stream and backfill on one table, two faults: does a candle ever change, does a backfill leave holes, does it end, is everything filled? | `ImplementsCandleStore`, `CleanRunLeavesNoGap`, `BackfillEnds` and `EveryMinuteStored` hold; a candle that still forms is stored in one way only (`PartialOnlyAtTheEnd`) |
| `services` | Does each of the smaller services keep its promise under faults, and do the algorithms agree with their reference definitions? | One repairing process (`OneRepairAtATime`), nothing pending but what failed, was skipped or has no data (`LeftoverIsWhatFailed`), no article marked in vain (`SeenMeansSent`), a bounded overrun (`OverrunBounded`), no refused key asked while another is left (`KeysSpent`), no article or window left out in silence (`NothingSilentlySkipped`), no leak (`PoolIsConsistent`), and `RepairPlansAreExact`, `SeriesFaithful`, `NoLookahead`. Supervisor: the guard limits the rate (`RestartRate`) and trips only in a crash loop (`GivesUpOnlyOnCrashLoop`), restarts are neither late (`PromptRestart`) nor early (`BackoffRespected`), and nothing survives the shutdown (`NothingLeftRunning`) |
| `keys` | Does the CryptoCompare tool stop only when every key is exhausted? | No: a 4xx on the first key ends the run with the others unused |
| `gdelt_ceiling` | Is the retry budget a hard ceiling on the time of a cycle? | No: requests and blocked time come on top of it |

The last column's *No* rows are the findings of `PROJECT.json`, each with the line
that promises otherwise. `features_align` shows one of two ways in which
`ReportedInSync` fails. The other needs one frequency only and has no run of its own: a
candle that is committed between a pass's read and its upsert is older than the
`computed_at` of a bar that has not seen it (`maintenance/checks.py:340`). Likewise
`RotatesUntilSpent`, which `keys` checks with distinct keys, fails a second time with a key
that is listed twice: `all_exhausted` is then never true, and a pool of refused keys is
asked again and again (`tools/backfill_cryptocompare.py:125`).

### Bounds, and why they are enough

* `storage`: two members are what fencing needs (one that lost the partition and
  its successor; a third behaves as one of them). Three messages let a pair of
  equal keys surround another message or a skipped one. Two faults let the second
  strike while the first is being handled. Two attempts have a first, which
  retries, and a last, which raises.
* `scoring`: three articles for batches of two, so that the `LIMIT` cuts one off and
  articles that keep arriving can crowd it out; two coins (an article can be torn), one
  merged page of one article, and one crash, abort or interrupt. Repairs are not bounded,
  so a second one meets what the first has left, and arrivals are not either.
* `features`: frequencies 1 and 2, lookback and window of one bar. The incremental
  zone, the health check's zone and the window between them then all lie inside
  six slots, of which three are complete in the beginning. One late arrival: a score
  (stored or deleted), which is on time when three slots are complete and the health
  check's business when four are, or a candle, for which it is four and five. One
  failure, and besides the endless loop one start, by hand or of a health check
  (`MaxStarts`). The pinned start of `MCCalls` lies inside a longer bar and, in the end,
  ahead of the first watermarks by more than the lookback, so that `passed` is not empty. One late arrival suffices as the properties speak of
  one fact at a time. The table starts without the new column, and with one or
  both frequencies. `features_align` needs the clock to run to 10 so that a rebuild can
  lie entirely behind the incremental zone.

* `market`: four minutes hold a first and a last candle with a gap of two between
  them, more than a page of two, so that a gap is cut at the limit, a window can be
  empty (`listed` may be `{1, 4}`) and the last minute can still form while the page
  is read and be over when it is inserted. Two faults: one makes the gap, the other
  strikes the repair. Forming candles are followed for one minute; all are skipped
  alike. Two attempts have a first and a last.
* `services`, health check: two processes for the lock (interchangeable, hence the
  symmetry), one fault, one arrival, and two beginnings, each with areas of which one
  makes the next stale (candles and bars; tags and news, which both make scores stale),
  with and without data at the source. Pollers: two feeds and the other poller
  for one URL, an article without a date that gets two times. GDELT cycle: sizes for which the
  budget, the cap of the backoff and the last attempt are each met before the others in
  some run, with requests and blocks shorter than a backoff. CryptoCompare: key lists with and without a repeated key, every archive of
  up to two articles in each of four seconds, pages of two, two ranges, a cap of three
  pages. GDELT windows: four, given up after two blocked ones in a row. API: three
  requests for two connections. Supervisor: two workers for the order of visits, a window
  of five longer than the backoffs up to the guard's limit of two restarts, so that it can
  trip, and a clock up to eight, long enough for the window to pass and a second series to
  begin. The constants of the source keep the proportions, not the sizes.
* `services`, algorithms: seven minutes contain two gaps nearer to and farther from each
  other than a join of two; six hours let a gap lie inside a window of three; three articles
  make one event, two or three; five bars and a horizon of two let a label reach over
  a block's start.

`CHECK_DEADLOCK FALSE` appears where a bounded behaviour may really end (the log is
read to its end, the last minute is over, a service has stopped); `Scoring.cfg` and
`FeatureJob.cfg` check for deadlock, since the live scorer and the signals loop never stop.

### Fairness

* `StorageConsumer!FairSpec`: the loop of a running process goes on, the
  supervisor starts it again, the coordinator expires dead sessions, a broken
  database comes back. Faults are bounded, not fair. With the supervisor given up
  nothing is promised: `Supervisor` says when that is.
* `Scoring!FairSpec`: the live scorer polls for ever and is restarted by hand
  (nothing in the code supervises it); a repair that has begun goes on. This is not
  enough for `EventuallyScored` of every article: the query takes the newest
  `BATCH_SIZE`, and arrivals that the scorer does not outrun starve the older ones. The
  property is therefore about an article that from some time on never has a full batch
  of newer ones in front of it (`Crowded`); without this premise TLC refutes it.
* `FeatureJob!FairSpec`: the signals loop goes on, and the session that holds the
  lock gets on with its pass. It is *not* assumed that the signals loop ever
  finds the lock free.

* `MarketBackfill!FairSpec`: time passes; the live path goes on, `run()` being an endless
  loop and the producer's thread a daemon; a backfill that has begun goes on. Here the
  operator is fair too: a process that has ended is started again and the health check
  is repeated while it finds gaps, for the code leaves both to the operator. Without
  that, `EveryMinuteStored` is not to be had. Faults are bounded, not fair.

No fairness is assumed for arrivals, for time and manual starts outside `market`, or for
the health checks of `Scoring` and `FeatureJob`. The services have safety properties only.

### What the code does, where one might expect otherwise

The properties state exactly what holds; these are the exceptions they carry, beside
the findings:

* The candle that still forms when a backfill begins is stored as it is, and DO NOTHING
  keeps the final one out for ever (`tools/backfill_market.py:112`).
* Ctrl+C, or an exception other than one of the database, within `retag()` or
  `score()` leaves half a transaction committed (`tools/health_check.py:203-207`): new tags
  with old scores, or some of an article's coins, and another run finds nothing to do for
  either. `maintenance/repair.py:6-7` says that "an interrupted run is fixed by simply
  running it again", `:95-96` that nobody sees new tags with old scores (`NoOldScores` fails
  in this way too; its run shows the race with the live scorer).
* Sustained arrivals starve older articles: the queries of both scorers take the newest
  first and stop at a limit.
* A success does not reset the counter of unreachable coins, though the comment speaks of
  "Two coins in a row" (`maintenance/repair.py:38`). The counter is not modelled; the
  hazard is listed with this reason.
* A repair step that returns may have healed nothing, as when Binance has no candles for
  the gap; the report says so (`tools/health_check.py:221-222`) and `LeftoverIsWhatFailed`
  allows it.
* Articles of the second at which a full page was cut can be jumped over
  (`tools/backfill_cryptocompare.py:253`).
* A GDELT cycle can exceed its "hard ceiling" (the finding of `gdelt_ceiling`), but not by
  more than a request and two blocking RSS fetches (`OverrunBounded`).
* A pass pinned by `--start`, or by the health check, ahead of the watermarks moves them:
  the next incremental pass begins that much later, and a bar between the two that lies
  further back than the lookback is not computed again, whatever has arrived for it
  (`features/run_feature_job.py:49`). `NextPassCovers` and `EventuallySeen` name these
  bars (`passed`). They were first stated without the exception, which no run had
  refuted; the proof could not be done, and with one slot more TLC showed why.
* When a step has aborted the transaction, the second `check_features` raises outside any
  guard: the run ends without its second report (`tools/health_check.py`).
* Two requests that both find no pool make one each; the first one's connection is then
  put back into a pool that does not know it, and its answer is lost (`api/db.py:46`).
* `event_car` counts rows, not hours: across a missing bar the curve is late
  (`lag_detection/event_study.py:180`), and its base is the close at the end of the
  event's own bar, where its docstring (lines 166 to 169) promises the return at each hour,
  NaN at gaps, and a base at or just before the event. Event curves are not modelled; the
  hazard is listed with this reason.
* `walk_forward` trains on labels whose price is the close of the block's first bar, the
  bar it predicts first; that bar has closed when the prediction is made, so nothing is
  known too early, though the docstring's "Nothing from inside" the block
  (`signals/backtest.py:8`) reads more strictly.

## 5. Proofs

`StorageConsumer_proofs` proves, for any set of members, keys and messages and
any limits, `TypeOK`, `AtLeastOnce`, `ReplayDeterminism`, `OffsetAdvancesByOne`
and the refinement `Spec => D!DSpec`. None of them is inductive: the commit of a
member is right only because of what it did several steps before. The invariant
`Inv` adds, for each member,

* what it has *in hand*: a member about to commit position `n` has settled message
  `n`, and everything before its position is settled whether or not it still owns
  the partition, and
* its *lease*: as long as the coordinator takes it for the owner, its position is
  the committed offset, plus one while a message is in hand.

A fenced member keeps the first part and loses the second, which is why its write
is harmless and its commit is refused. `NextStoreStep` is the step lemma on which
the refinement and the offset property both rest: each action is, on the shared
variables, one of the few shapes `Delivery` knows.

`Supervisor_proofs` proves `TypeOK`, `RestartRate`, `GivesUpOnlyOnCrashLoop`,
`NothingLeftRunning`, `PromptRestart` and `BackoffRespected` for any number of workers
and any interval, lateness, backoff, limit and window. The difficulty is that the code
remembers a pruned deque and the properties speak of all restarts ever granted. The
invariant says that the deque is a suffix of that history, that the history is ordered in
time, and that all entries dropped are older than the window at the time of the last
reading of the clock; a lemma on `PopsLeft` shows that the pruning `while` keeps this.
For `BackoffRespected`, `Scheduled` follows: when a restart is granted, the deque holds
exactly the restarts of the window, so that the delay chosen from its length is the one
the history asks for (`EarlierCount` relates the two counts). `PromptRestart` is about the
loop: `Waiting` says that an exit is noticed by the next pass and a backoff that is over
by the one after, which takes a case distinction on whether the pass under way has
visited the worker already (`Lagging`).

`Scoring_proofs` proves `TypeOK`, `RightCoinsOnly`, `WholeArticles` and `RepairHeals` for
any articles, coins, tagger, batch sizes and any number of crashes, interrupts, merges and
repairs. What makes scores wrong is what a scorer has in its hands. `Held` therefore follows a job
from the query to its rows: its coins are tags of the article unless a re-tag came
between (`WorkHeld`, `BatchHeld`), and an article whose scores are there in part is the
head of the work (`InPart`). An interrupted transaction of the repair is a step of its own
in the proof: what it committed is right but for the articles it marks. `Healing` is the other half, for a repair that nobody
disturbs: every keyword article has its tags or is still to be re-tagged, and the batches
counted before are enough for what is unscored now (`Enough`), although the live scorer
takes articles of the same set.

`FeatureJob_proofs` proves `TypeOK`, `WholeHistory`, `NextPassCovers`, `MigrationOwed` and
`NeverOlder` for any frequencies, lookback and window and any number of arrivals, passes,
failures and kills. A pass works for long with what it read when it began, so the
invariant says what that is worth:

* `ReadingOf` relates a pass in flight to the table: the watermarks are where they were
  when it planned (`PlanKept`), no row knows a fact that the pass has not read
  (`CandlesRead`, `ScoresRead`), and what came on time after it read lies in the lookback.
  It holds because of the lock, through `InPass(p) <=> holder = p`, and gives `NeverOlder`.
* `RowsSound`: each row reached back far enough, has seen only facts of its own slots, and
  what it misses is in front of the next pass, or the row is in `passed` (`Covered`).
* `Debts`: columns that were added are noticed by the job that adds them, which owes the
  refresh until a pass from the first slot on has written every row (`RefreshWritten`).

`MarketBackfill_proofs` proves `TypeOK`, the refinement `BSpec => C!CSpec`,
`PartialOnlyAtTheEnd` and `CleanRunLeavesNoGap` for any listing, page size, number of
attempts and grace. The refinement needs `Timely`: everything in hand (`due`, the buffer,
the topic, a page) is of a minute that has begun, and that has ended if the candle claims
to be final; it is put in a table of which it was true long before. The backfill needs
`AtWork`: the ranges end at the minute of the check, the page is Binance's answer to the
window at the cursor and leaves nothing out up to its last candle (`PageInHand`), and what
was listed and missing when the gaps were computed is stored by now or still ahead of the
cursor (`NothingForgotten`). That it is ahead of it in the beginning is `GapsCover` and
`CoalesceTheorem`: merging loses no range and makes none empty, for any finite set of
ranges and any distance.

`Services_proofs`: `OneRepairAtATime` follows from `LockHeld`, which ties the lock to the
places of a process. `LeftoverIsWhatFailed` is an induction along `Steps`: for a process
that nobody disturbed, what lies behind it is settled, failed, or lacks the data it is made
of, and what is pending and lies ahead is in its plan (`SettledFor`). It is the order of the
steps that keeps this, as what a step makes stale lies ahead of it (`StaleIsAhead`). `PoolIsConsistent` is
nearly inductive; `PoolsToCome` bounds the pools by the threads that are making one, and
`Lending` says that a pool nobody has made yet has lent nothing.

`SeenMeansSent` is proved for any feeds and faults, `OverrunBounded` for any budget,
backoffs and durations, the wait being cut at what is left (`WaitInBudget`), `KeysSpent` by
`KeysInUse`: a refused key is the current one only when all are refused, since
`AdvanceKey` goes to the next that is not, whatever is listed twice. `NothingSilentlySkipped` follows from `Paging`
(behind the cursor everything is stored but for seconds at which a page was cut) and
`Blocked` (the last windows, as many as are counted, were blocked). `EachByItself` and
`TypeTheorem` put the services together: a behaviour of `MCServices!Spec` is, seen from
each service, one of that service alone, the supervisor's included, and the inputs of the
modules without actions never change (`InputsStay`).

`Algorithms_proofs` is about the modules without actions. Their theorems have the shape
"whatever the inputs, if of their types, the computation agrees with its definition by
quantifiers", and `Services_proofs` turns each into `Spec => []P`, the inputs being typed
in the initial states and fixed from then on. A loop of the source is a fold, and a fold
is a recursive function that the library only chooses; three steps make it provable:

* `FoldExists` and `SequenceFoldExists` (in `NumberFacts`) show by induction that a
  function satisfying the recursion exists, so that the chosen one does;
* a lemma `...Unfold` per loop states its result as the last of a series of values, each
  one step from the one before;
* an invariant of the loop is shown to be kept by the step (`...StepGood`) and carried
  along the series by `Induction`.

The loop invariants are what a careful programmer would write beside the loops. For
`NoLookahead`: the position after each bar follows from the last call before it
(`PositionsFollowCalls`), and the walk-forward blocks tile the test window, a row lying in
exactly one (`OneBlock`, `PredictedOnce`). For `SeriesFaithful`: the windows, gaps and
segments found so far are the maximal runs of the part read, the one still open apart
(`SigWindowsAreRuns`, `GapsAreRuns`, `SegmentIsLongest`, `OnsetIsFirst`), the events so far
are cut at the pauses so far (`EventsArePartition`), and an onset lies in a window of the
chart because the run that makes it lies in a maximal run of the weaker flag
(`OnsetInWindow`, `RunAround`). For
`RepairPlansAreExact`: the gaps of the candle table are exactly its maximal runs of
missing minutes (`PlanIsGaps`), their lengths add up to the number of minutes in them
(`MinutesCounted`), the calls merged so far hold every range and between two ranges only
what is nearer than the joining distance (`CallsGood`), and the runs of days are in order and
never touch (`RunsGood`, `RecentGood`).

All theorems assume only the named assumptions on the constants, which the passing runs
evaluate. Those that the proofs called for are as the code has them: a set of
durations is finite and not empty, a list of keys or of ranges is not empty, frequencies
are positive and the shortest is one slot, pages and batches are not empty, the threads of
the API are finitely many, the RSS feeds are a list.

`NumberFacts` has least and largest members of sets of numbers, an induction principle
stated with a set, since the library's theorems take a predicate, which the provers cannot
be given, and the facts about folds above.

What the proofs found:

* the exception `passed` above;
* `RepairPlansAreExact` was false when the plan covers one minute only and there is no
  candle at all: the property took the grace for granted where the code, with an empty
  table, asks for everything. The proof could not be done; TLC then showed it with
  `PlanMinutes` 1. The property now says that the grace is one behind a candle;
* the steps of `Backtest!Positions` were given by a CASE whose arms overlapped for the
  first call, which TLC resolves in the order of writing and a proof cannot; they are
  now told apart.

The other properties were proved as they had been checked.

Only model-checked:

* the liveness properties (`EventuallyCommitted`, `EventuallyScored`, `EventuallySeen`,
  `BackfillEnds`, `EveryMinuteStored`) and the fairness arguments behind them, which are
  outside TLAPS's reach, as is any statement about ENABLED;
* what the violation runs show, which are examples.

## 6. Not modelled

* Kafka's retention (a committed offset that has fallen off the log) and
  rebalancing of several partitions: members compete for one.
* In the supervisor: Ctrl+C before the `try` of `main()`, between creating a
  process object and starting it, and a second Ctrl+C during `_shutdown`. A
  terminated process is assumed to end within the join that follows.
* FinBERT and VADER, the classifier and its metrics, p-values, VAR, Granger tests, the
  bootstrap, technical indicators: numerical code that the rest uses as a function of its
  inputs. The choice among tuning candidates rests on these numbers; a candidate whose
  last trade looks beyond the tuning period (`signals/`) is therefore not expressed.
* Dashboard pages and API endpoints: rows are formatted, nothing changes. Configuration,
  logging, DDL, Docker and start scripts: no state that changes, or formatting.
* In the health check: the Docker and Kafka checks and the ages of signals and reports,
  which are printed and repair nothing, and the flags that leave a step out
  (`--skip-market` and the like).
* The counter of unreachable coins in the market repair (`maintenance/repair.py:37`):
  `RepairPlans` ends at what is asked for, coin by coin.
* The return curves of events (`event_car`) and their baselines.
* The removal of duplicate articles in `features/transforms.py:96`: which copy counts
  depends on where a pass begins to read; `FeatureJob` leaves values out.
* Prices and malformed messages on the live path of candles: they are skipped and change
  nothing.
* `close_pool()` at the API's shutdown, which runs when no request is left.
