--------------------------- MODULE MarketBackfill ---------------------------
(***************************************************************************)
(* The repair path of one symbol's candles, beside the live one: the gap   *)
(* check (maintenance/checks.py, ranges.py) and the paged download         *)
(* (tools/backfill_market.py, maintenance/repair.py). It reads the table   *)
(* once, then works from that picture while the live path goes on.         *)
(*                                                                         *)
(* Times are in half minutes as in Ranges: minute m opens at 2m and a      *)
(* reading of the clock in minute m is 2m + 1.                             *)
(***************************************************************************)
EXTENDS MarketIngestion, Ranges

CONSTANTS PageSize,     \* MAX_CANDLES_PER_CALL
          MaxAttempts,  \* MAX_ATTEMPTS
          Grace,        \* stale_minutes.market, in minutes
          Listings      \* sets of minutes for which Binance may have candles

ASSUME BackfillAssumption ==
    /\ PageSize \in Nat \ {0} /\ MaxAttempts \in Nat \ {0} /\ Grace \in Nat
    /\ Listings \subseteq SUBSET C!Minutes

VARIABLES
    listed,    \* minutes Binance has a candle of: it has gaps of its own
    job,       \* "idle", "fetching" or "inserting"
    ranges,    \* ranges left to fetch, the current one first
    cursor,    \* cursor_time
    attempt,   \* of the current page
    page,      \* the page received, not yet inserted
    asOf,      \* minute in which the gaps were computed
    result     \* of the last backfill: "none", "clean" or "failed"

bvars == <<listed, job, ranges, cursor, attempt, page, asOf, result>>

allvars == <<mvars, bvars>>

NoCandles == [m \in C!Minutes |-> "none"]

Opens(m) == Minute * m

Stored == {Opens(m) : m \in {n \in C!Minutes : table[n] # "none"}}

\* check_market at the current moment.
Gaps == MarketGaps(Opens(1), Opens(now) + 1, Stored, Minute * Grace)

BInit ==
    /\ MInit
    /\ listed \in Listings
    /\ job = "idle" /\ ranges = << >> /\ cursor = 0 /\ attempt = 1
    /\ page = NoCandles /\ asOf = 0 /\ result = "none"

\* A health check finds gaps and begins with the first of the merged ranges.
StartBackfill ==
    /\ job = "idle"
    /\ Gaps # {}
    /\ ranges' = Coalesce(Gaps, Minute * PageSize)
    /\ cursor' = Head(ranges')[1]
    /\ attempt' = 1
    /\ job' = "fetching" /\ asOf' = now
    /\ UNCHANGED <<mvars, listed, page, result>>
-----------------------------------------------------------------------------
\* The answer to one call: at most PageSize candles from `from` to `to`, both
\* included, the newest as it is at this moment.
Klines(from, to) ==
    LET inWindow == {m \in listed : from <= Opens(m) /\ Opens(m) <= to /\ m <= now}
        first == {m \in inWindow : Cardinality({n \in inWindow : n < m}) < PageSize}
    IN  [m \in C!Minutes |->
            IF m \notin first THEN "none" ELSE IF m = now THEN "partial" ELSE "final"]

\* The window is cut at the present instead of at the range's end.
WindowEnd_Now ==
    IF Opens(now) + 1 <= cursor + Minute * PageSize
      THEN Opens(now) + 1 ELSE cursor + Minute * PageSize

WindowEnd ==
    IF Head(ranges)[2] <= cursor + Minute * PageSize
      THEN Head(ranges)[2] ELSE cursor + Minute * PageSize

\* `while cursor_time < end`, then the next range, then the end.
Advance(to) ==
    /\ attempt' = 1 /\ page' = NoCandles
    /\ IF to < Head(ranges)[2]
         THEN cursor' = to /\ job' = "fetching" /\ UNCHANGED <<ranges, result>>
         ELSE /\ ranges' = Tail(ranges)
              /\ IF ranges' = << >>
                   THEN job' = "idle" /\ result' = "clean" /\ cursor' = 0
                   ELSE job' = "fetching" /\ cursor' = Head(ranges')[1]
                        /\ UNCHANGED result

FetchPage ==
    /\ job = "fetching"
    /\ page' = Klines(cursor, WindowEnd)
    /\ page' # NoCandles
    /\ job' = "inserting"
    /\ UNCHANGED <<mvars, listed, ranges, cursor, attempt, asOf, result>>

\* An empty answer only proves that nothing is there, not that time moved.
FetchNothing_Stays ==
    /\ job = "fetching"
    /\ Klines(cursor, WindowEnd) = NoCandles
    /\ Advance(cursor)
    /\ UNCHANGED <<mvars, listed, asOf>>

\* No candle in this window: go on behind it.
FetchNothing ==
    /\ job = "fetching"
    /\ Klines(cursor, WindowEnd) = NoCandles
    /\ Advance(WindowEnd)
    /\ UNCHANGED <<mvars, listed, asOf>>

LastOpen == Opens(Max({m \in C!Minutes : page[m] # "none"}))

\* Goes on behind the window although the page was cut at its limit.
InsertPage_SkipsWindow ==
    /\ job = "inserting"
    /\ InsertCandles(page)
    /\ Advance(WindowEnd + Minute)
    /\ UNCHANGED <<now, stream, delay, due, buffer, topic, faults, listed, asOf>>

\* execute_values and commit, then go on behind the last candle received.
InsertPage ==
    /\ job = "inserting"
    /\ InsertCandles(page)
    /\ Advance(LastOpen + Minute)
    /\ UNCHANGED <<now, stream, delay, due, buffer, topic, faults, listed, asOf>>

\* Without the test of the last attempt.
RetryPage_NoLimit ==
    /\ job = "fetching"
    /\ Fault
    /\ attempt' = attempt + 1
    /\ UNCHANGED <<now, table, stream, delay, due, buffer, topic,
                   listed, job, ranges, cursor, page, asOf, result>>

\* A status worth a retry, or a connection that fails, before the last attempt.
RetryPage ==
    /\ job = "fetching"
    /\ attempt < MaxAttempts
    /\ Fault
    /\ attempt' = attempt + 1
    /\ UNCHANGED <<now, table, stream, delay, due, buffer, topic,
                   listed, job, ranges, cursor, page, asOf, result>>

\* The last attempt, another status, a ban, an error of the database or the end
\* of the process: rollback. Pages committed so far stay, the rest of the
\* symbol's ranges waits for the next check.
FailBackfill ==
    /\ job # "idle"
    /\ Fault
    /\ job' = "idle" /\ ranges' = << >> /\ cursor' = 0
    /\ attempt' = 1 /\ page' = NoCandles /\ result' = "failed"
    /\ UNCHANGED <<now, table, stream, delay, due, buffer, topic, listed, asOf>>

BackfillSteps == FetchPage \/ FetchNothing \/ InsertPage
-----------------------------------------------------------------------------
BNext ==
    \/ (Tick \/ IngestionSteps \/ IngestionFaults) /\ UNCHANGED bvars
    \/ StartBackfill \/ BackfillSteps \/ RetryPage \/ FailBackfill

BSpec == BInit /\ [][BNext]_allvars

(* Fairness: time passes, the live path goes on, and so does the repair. That *)
(* ingestion is started and the health check is run again after an outage is  *)
(* up to the operator; FairSpec assumes an operator who does. Each of the     *)
(* three has finitely much to do, so one condition for each is enough.        *)
FairSpec ==
    /\ BSpec
    /\ WF_allvars(Tick /\ UNCHANGED bvars)
    /\ WF_allvars(IngestionProgress /\ UNCHANGED bvars)
    /\ WF_allvars(StartBackfill \/ BackfillSteps)
-----------------------------------------------------------------------------
TypeOK ==
    /\ MTypeOK
    /\ listed \in Listings
    /\ job \in {"idle", "fetching", "inserting"}
    /\ cursor \in 0 .. Opens(LastMinute) + 1
    /\ attempt \in 1 .. MaxAttempts
    /\ page \in [C!Minutes -> C!Kinds]
    /\ asOf \in 0 .. now
    /\ result \in {"none", "clean", "failed"}
    /\ job = "idle" <=> ranges = << >>
    /\ job = "inserting" <=> page # NoCandles

(* Two writers, pages read in one minute and stored in another, messages     *)
(* delivered late: the table keeps the promise of CandleStore. A candle that *)
(* a reader has seen never changes, and none is there before its minute      *)
(* (INSERT ... ON CONFLICT DO NOTHING on both paths).                        *)
ImplementsCandleStore == C!CSpec

(* The candle that still forms when a backfill begins is stored as it is, and *)
(* by the promise above it stays so. That is the only way a minute that has   *)
(* not ended enters the table: at most one candle of each backfill, that of   *)
(* the minute in which its gaps were computed (tools/backfill_market.py:112,  *)
(* window_end; streaming/market_consumer.py, is_closed).                      *)
PartialOnlyAtTheEnd ==
    [][\A m \in C!Minutes :
          table[m] # "partial" /\ table'[m] = "partial"
              => job = "inserting" /\ m = asOf]_allvars

(* A backfill that ends without a failure has left no hole: whatever Binance *)
(* has a candle of, up to the grace the gap check allows, is stored, at the  *)
(* edges of merged ranges, of pages cut at their limit and of windows        *)
(* without a candle (maintenance/ranges.py; backfill_symbol).                *)
CleanRunLeavesNoGap ==
    [][job # "idle" /\ job' = "idle" /\ result' = "clean"
          => \A m \in listed : m <= asOf - Grace => table'[m] # "none"]_allvars

(* Paging ends, whatever windows are empty (the comments in backfill_symbol: *)
(* "rather than looping forever", "doesn't cause an infinite loop").         *)
BackfillEnds == []<>(job = "idle")

(* A candle the live path has lost, by a stream that was down or a send that *)
(* failed with nobody waiting for it, is stored by a later backfill: every   *)
(* minute Binance has, once it is older than the grace.                      *)
EveryMinuteStored ==
    <>[](\A m \in listed : now > m + Grace => table[m] # "none")
=============================================================================
