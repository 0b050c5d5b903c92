------------------------------- MODULE Ranges -------------------------------
(***************************************************************************)
(* maintenance/ranges.py: from "what is missing" to "what to fetch".       *)
(* A range <<s, e>> is half open. Candle times are in half minutes, so     *)
(* that a reading of the clock can lie inside a minute; days are whole     *)
(* numbers.                                                                *)
(***************************************************************************)
EXTENDS Integers, Sequences, SequencesExt

Minute == 2

Larger(a, b) == IF a >= b THEN a ELSE b

Starts(r, s) == r[1] < s[1] \/ (r[1] = s[1] /\ r[2] <= s[2])

\* The gaps between consecutive candles of `times` (_MARKET_GAPS_SQL).
InternalGaps(times) ==
    {<<p[1] + Minute, p[2]>> : p \in
        {q \in times \X times :
            /\ q[2] - q[1] > Minute
            /\ \A v \in times : ~ (q[1] < v /\ v < q[2])}}

\* What is missing before the oldest and after the newest candle. The last
\* minutes are not missing: the live stream has not written them yet.
HeadGap_OffByOne(historyStart, times) ==
    {r \in {<<historyStart, Min(times)>>} : r[2] - r[1] > Minute}

HeadGap(historyStart, times) ==
    {r \in {<<historyStart, Min(times)>>} : r[2] - r[1] >= Minute}

TailGap(clock, times, grace) ==
    {r \in {<<Max(times) + Minute, clock>>} : r[2] - r[1] > grace}

\* Missing ranges of one symbol, given the times of its candles.
MarketGaps(historyStart, clock, times, grace) ==
    IF times = {}
      THEN {<<historyStart, clock>>}
      ELSE HeadGap(historyStart, times) \union InternalGaps(times)
             \union TailGap(clock, times, grace)

\* The next range, in the order of their starts, behind those merged so far.
Join(merged, r, joinWithin) ==
    IF merged # << >> /\ r[1] - Last(merged)[2] < joinWithin
      THEN Append(Front(merged), <<Last(merged)[1], Larger(Last(merged)[2], r[2])>>)
      ELSE Append(merged, r)

LastToStart(ranges) == CHOOSE r \in ranges : \A q \in ranges : Starts(q, r)

\* Ranges nearer than joinWithin become one.
Coalesce(ranges, joinWithin) ==
    MapThenFoldSet(LAMBDA r, merged : Join(merged, r, joinWithin), << >>,
                   LAMBDA r : r, LastToStart, ranges)

\* The next day, in order, behind the runs so far.
Extend(runs, d) ==
    IF runs # << >> /\ d = Last(runs)[2]
      THEN Append(Front(runs), <<Last(runs)[1], d + 1>>)
      ELSE Append(runs, <<d, d + 1>>)

\* Runs of consecutive days, <<first day, day after the last>>.
DayRanges(days) ==
    MapThenFoldSet(LAMBDA d, runs : Extend(runs, d), << >>, LAMBDA d : d,
                   LAMBDA s : Max(s), days)

\* The part of each run on or after `since`; a run that only straddles it is
\* dropped.
RecentDayRanges_DropsStraddling(runs, since) ==
    SelectSeq(runs, LAMBDA r : r[1] >= since)

\* The part of each run on or after `since`.
RecentDayRanges(runs, since) ==
    FoldLeft(LAMBDA kept, r : IF r[2] > since THEN Append(kept, <<Larger(r[1], since), r[2]>>)
                              ELSE kept, << >>, runs)

\* missing_minutes: their total length.
MissingMinutes(ranges) ==
    MapThenSumSet(LAMBDA r : (r[2] - r[1]) \div Minute, ranges)
=============================================================================
