------------------------------ MODULE Analysis ------------------------------
(***************************************************************************)
(* lag_detection/ and the charts' windows: what is computed from a series  *)
(* of bars with holes and from a list of articles, up to the statistics.   *)
(* A loop over a series is a fold with its local variables as a record.    *)
(* Bars are hours; the bar h covers [h, h + 1) and has the price of its    *)
(* end.                                                                    *)
(***************************************************************************)
EXTENDS Integers, Sequences, SequencesExt

CONSTANTS Hours,         \* bound: bars of the hours 1 .. Hours
          FullBar,       \* CANDLES_PER_BAR
          MaxArticles,   \* bound: strongly scored articles
          ClusterWindow, \* cluster_window_hours
          MinRun,        \* onset_min_run
          ScanWindow, ScanStep  \* window and step of the rolling scan

ASSUME AnalysisAssumption ==
    /\ Hours \in Nat \ {0} /\ FullBar \in Nat \ {0} /\ MaxArticles \in Nat
    /\ ScanWindow \in Nat \ {0} /\ ScanStep \in Nat \ {0}
    /\ ClusterWindow \in Nat /\ MinRun \in Nat \ {0}

VARIABLES bars,             \* hour -> candles in its bar, 0 if it does not exist; or << >>
          significant_fdr,  \* by horizon: p_fdr < alpha
          significant,      \* by horizon: and the effect is at least min_effect_car
          articles          \* sequence of [time, score], by time

svars == <<bars, significant_fdr, significant, articles>>

NoHorizons == significant_fdr = << >> /\ significant = << >>

Ordered(arts) == \A i \in 1 .. Len(arts) - 1 : arts[i].time <= arts[i + 1].time

\* One input at a time; align_series raises when there is no bar at all.
SInit ==
    \/ /\ bars \in {b \in [1 .. Hours -> {0, FullBar - 1, FullBar}] : \E h \in 1 .. Hours : b[h] > 0}
       /\ NoHorizons /\ articles = << >>
    \/ /\ significant_fdr \in [1 .. Hours -> BOOLEAN]
       /\ significant \in {s \in [1 .. Hours -> BOOLEAN] :
                             \A h \in 1 .. Hours : s[h] => significant_fdr[h]}
       /\ bars = << >> /\ articles = << >>
    \/ /\ articles \in {a \in UNION {[1 .. n -> [time : 1 .. Hours, score : {-1, 1, 2}]] :
                                        n \in 0 .. MaxArticles} : Ordered(a)}
       /\ bars = << >> /\ NoHorizons
-----------------------------------------------------------------------------
\* A set of numbers as an ascending sequence.
InOrder(S) ==
    [i \in 1 .. Cardinality(S) |-> CHOOSE h \in S : Cardinality({g \in S : g <= h}) = i]

\* The hours there is a row of in market_data, in order.
Index == InOrder({h \in 1 .. Hours : bars[h] > 0})

\* align_series without the reindexing: missing bars are dropped.
Align_DropsGaps ==
    LET rows == IF bars[Last(Index)] < FullBar THEN Front(Index) ELSE Index
    IN  IF Len(rows) < 2 THEN << >>
        ELSE [i \in 1 .. Len(rows) - 1 |-> [hour |-> rows[i + 1], valid |-> TRUE]]

\* align_series: the full grid between the first and the last bar, without a
\* last bar that still forms and without the first, which has no return. A row
\* is valid if its bar and the one before have a price.
Align ==
    LET first == Head(Index)
        last == IF bars[Last(Index)] < FullBar THEN Last(Index) - 1 ELSE Last(Index)
    IN  IF last <= first THEN << >>
        ELSE [i \in 1 .. last - first |->
                 [hour |-> first + i,
                  valid |-> bars[first + i] > 0 /\ bars[first + i - 1] > 0]]

\* _gap_runs: [start, end, bars] of each run of rows without a return.
GapRuns(rows) ==
    LET step(acc, row) ==
            IF ~ row.valid
              THEN [runs |-> acc.runs, prev |-> row.hour,
                    start |-> IF acc.start = 0 THEN row.hour ELSE acc.start,
                    count |-> IF acc.start = 0 THEN 1 ELSE acc.count + 1]
            ELSE IF acc.start # 0
              THEN [acc EXCEPT !.runs = Append(@, <<acc.start, acc.prev, acc.count>>), !.start = 0]
            ELSE acc
        end == FoldLeft(step, [runs |-> << >>, start |-> 0, prev |-> 0, count |-> 0], rows)
    IN  IF end.start # 0 THEN Append(end.runs, <<end.start, end.prev, end.count>>) ELSE end.runs

\* cross_correlation at lag k: the pairs (cause at t - k, effect at t) that
\* dropna leaves of the shifted rows.
Pairs(rows, k) ==
    {<<rows[i - k].hour, rows[i].hour>> :
        i \in {j \in DOMAIN rows : j - k \in DOMAIN rows /\ rows[j].valid /\ rows[j - k].valid}}

\* longest_complete_run: <<start, length>> of the longest, the first of equals.
LongestCompleteRun(rows) ==
    LET step(acc, i) ==
            LET ok == i <= Len(rows) /\ rows[i].valid
            IN  CASE ok /\ acc.start = 0 -> [acc EXCEPT !.start = i]
                  [] ~ ok /\ acc.start # 0 ->
                        [best |-> IF i - acc.start > acc.best[2]
                                    THEN <<acc.start, i - acc.start>> ELSE acc.best,
                         start |-> 0]
                  [] OTHER -> acc
    IN  FoldLeft(step, [best |-> <<1, 0>>, start |-> 0], [i \in 1 .. Len(rows) + 1 |-> i]).best

\* rolling_lag_scan: <<window_start, window_end>> of the windows that are analysed,
\* those without a gap. (Low coverage and errors leave out more of them.)
ScannedWindows(rows) ==
    {<<rows[i].hour, rows[i + ScanWindow - 1].hour>> :
        i \in {j \in 1 .. Len(rows) - ScanWindow + 1 :
                 (j - 1) % ScanStep = 0 /\ \A k \in j .. j + ScanWindow - 1 : rows[k].valid}}
-----------------------------------------------------------------------------
\* sig_windows of the dashboard: runs of horizons, by significant_fdr.
SigWindows ==
    LET step(acc, h) ==
            [runs |-> IF ~ significant_fdr[h] /\ acc.start # 0
                        THEN Append(acc.runs, <<acc.start, acc.prev>>) ELSE acc.runs,
             start |-> IF ~ significant_fdr[h] THEN 0 ELSE IF acc.start = 0 THEN h ELSE acc.start,
             prev |-> h]
        end == FoldLeft(step, [runs |-> << >>, start |-> 0, prev |-> 0],
                        [i \in DOMAIN significant_fdr |-> i])
    IN  IF end.start # 0 THEN Append(end.runs, <<end.start, end.prev>>) ELSE end.runs

\* onset_lag: the first horizon of the first run of MinRun, by `significant`;
\* 0 for None.
OnsetLag ==
    LET step(acc, h) ==
            LET run == IF significant[h] THEN acc.run + 1 ELSE 0
            IN  [run |-> run,
                 onset |-> IF acc.onset = 0 /\ run >= MinRun THEN h - MinRun + 1 ELSE acc.onset]
    IN  FoldLeft(step, [run |-> 0, onset |-> 0], [i \in DOMAIN significant |-> i]).onset

\* _close_cluster of the articles a to b; 0 is the direction of no news.
NetScore(a, b) ==
    FoldLeft(LAMBDA sum, i : sum + articles[a + i - 1].score, 0, [i \in 1 .. b - a + 1 |-> i])

CloseCluster(a, b) ==
    [time |-> articles[a].time, size |-> b - a + 1, up |-> NetScore(a, b) > 0]

\* cluster_events: an article within the window of the one before it joins its
\* event.
ClusterEvents ==
    LET step(acc, i) ==
            IF i = 1 \/ articles[i].time - articles[i - 1].time <= ClusterWindow
              THEN acc
              ELSE [events |-> Append(acc.events, CloseCluster(acc.start, i - 1)), start |-> i]
        end == FoldLeft(step, [events |-> << >>, start |-> 1], [i \in DOMAIN articles |-> i])
    IN  IF articles = << >> THEN << >>
        ELSE Append(end.events, CloseCluster(end.start, Len(articles)))

\* The maximal runs of the positions of a sequence of BOOLEANs that are TRUE.
MaximalRuns(seq) ==
    {r \in (DOMAIN seq) \X (DOMAIN seq) :
        /\ r[1] <= r[2] /\ \A i \in r[1] .. r[2] : seq[i]
        /\ r[1] = 1 \/ ~ seq[r[1] - 1]
        /\ r[2] = Len(seq) \/ ~ seq[r[2] + 1]}

\* The lag correlation pairs bars that are k hours apart, whatever is missing
\* between them (series_builder.py:167), and a window of the rolling scan lasts as
\* long as it says.
GridKept ==
    LET rows == Align
    IN  /\ \A k \in -2 .. 2 : \A p \in Pairs(rows, k) : p[2] - p[1] = k
        /\ \A w \in ScannedWindows(rows) : w[2] - w[1] = ScanWindow - 1

\* The reported gaps are the maximal runs of the rows without a return.
GapsReported ==
    LET rows == Align
        missing == [i \in DOMAIN rows |-> ~ rows[i].valid]
    IN  ToSet(GapRuns(rows)) = {<<rows[r[1]].hour, rows[r[2]].hour, r[2] - r[1] + 1>> :
                                   r \in MaximalRuns(missing)}

\* The segment for Granger is as long as the longest run of rows with a return.
SegmentLongest ==
    LET rows == Align
        present == [i \in DOMAIN rows |-> rows[i].valid]
    IN  LongestCompleteRun(rows)[2] = Max({r[2] - r[1] + 1 : r \in MaximalRuns(present)} \union {0})

\* The chart's windows are the maximal runs of significant_fdr; the onset is the
\* start of the first run of `significant` that is long enough, and the horizons
\* that make it one lie inside one window of the chart.
HorizonsAgree ==
    LET onsets == {r[1] : r \in {s \in MaximalRuns(significant) : s[2] - s[1] + 1 >= MinRun}}
    IN  /\ ToSet(SigWindows) = MaximalRuns(significant_fdr)
        /\ OnsetLag = IF onsets = {} THEN 0 ELSE Min(onsets)
        /\ OnsetLag # 0 =>
              \E w \in ToSet(SigWindows) : w[1] <= OnsetLag /\ OnsetLag + MinRun - 1 <= w[2]

\* The articles of the events together.
Total(events) == FoldLeft(LAMBDA sum, e : sum + e.size, 0, events)

\* Events partition the articles at the pauses longer than the window.
EventsPartition ==
    LET pauses == {i \in 2 .. Len(articles) :
                      articles[i].time - articles[i - 1].time > ClusterWindow}
        firsts == IF articles = << >> THEN << >> ELSE InOrder({1} \union pauses)
    IN  /\ [i \in DOMAIN ClusterEvents |-> ClusterEvents[i].time]
              = [i \in DOMAIN firsts |-> articles[firsts[i]].time]
        /\ Total(ClusterEvents) = Len(articles)

(* Time is not lost on the way: the lag correlation and its gaps, segment and *)
(* windows keep the hours of the bars they are computed from                 *)
(* (series_builder.py, rolling.py), an onset is within a window the chart    *)
(* shows (event_study.py:onset_lag, dashboard/app.py:sig_windows), and the   *)
(* events are the articles cut at their pauses. The return curves of the     *)
(* events (event_study.py:event_car) are not part of it.                     *)
SeriesFaithful ==
    /\ bars # << >> => GridKept /\ GapsReported /\ SegmentLongest
    /\ HorizonsAgree
    /\ EventsPartition
=============================================================================
