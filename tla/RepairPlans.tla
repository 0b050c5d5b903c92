----------------------------- MODULE RepairPlans -----------------------------
(***************************************************************************)
(* maintenance/repair.py: what the repairs fetch, out of what the checks   *)
(* found. Functions of their inputs; the loops that do the fetching are    *)
(* MarketBackfill and NewsBackfill.                                        *)
(***************************************************************************)
EXTENDS Ranges

CONSTANTS PlanMinutes,  \* bound: candles of the minutes 1 .. PlanMinutes
          PlanDays,     \* bound: days 1 .. PlanDays
          JoinMinutes   \* MAX_CANDLES_PER_CALL

ASSUME RepairPlansAssumption ==
    PlanMinutes \in Nat \ {0} /\ PlanDays \in Nat /\ JoinMinutes \in Nat

VARIABLES candles,   \* minutes whose candles are stored
          daysOff,   \* days without articles
          since      \* the first day the news repair may fill

rvars == <<candles, daysOff, since>>

\* The two repairs do not depend on each other: one input at a time varies.
RInit ==
    \/ candles \in SUBSET (1 .. PlanMinutes) /\ daysOff = {} /\ since = 1
    \/ daysOff \in SUBSET (1 .. PlanDays) /\ since \in 1 .. PlanDays /\ candles = {}

\* The clock stands inside the minute after the last; the grace is two minutes.
MarketPlan ==
    MarketGaps(Minute, Minute * (PlanMinutes + 1) + 1, {Minute * m : m \in candles}, 2 * Minute)

\* The ranges of one coin, as the market repair asks for them.
MarketCalls == Coalesce(MarketPlan, Minute * JoinMinutes)

\* The runs of one coin, as the news repair fills them: newest first.
NewsCalls == Reverse(RecentDayRanges(DayRanges(daysOff), since))

\* The candles whose minutes some range of a set reaches.
MinutesOf(calls) ==
    {m \in 0 .. PlanMinutes + 1 : \E r \in calls : r[1] <= Minute * m /\ Minute * m < r[2]}

\* Every minute that has ended and has no candle, but for a tail within the grace,
\* is in a range; the rest of a range is the stored minutes between two that were
\* joined; the missing minutes are counted once, and no two ranges are near enough
\* to be one.
MarketAsksExactly ==
    LET missing == (1 .. PlanMinutes) \ candles
        inGrace == candles # {} /\ Max(candles) = PlanMinutes - 1
        asked == MinutesOf(ToSet(MarketCalls))
    IN  /\ \A m \in missing : m \in asked <=> ~ (inGrace /\ m = PlanMinutes)
        /\ \A m \in asked \intersect candles :
              \E a, b \in missing : a < m /\ m < b /\ b - a <= JoinMinutes
        /\ MissingMinutes(MarketPlan) = Cardinality(missing \intersect asked)
        /\ \A i \in 1 .. Len(MarketCalls) - 1 :
              MarketCalls[i + 1][1] - MarketCalls[i][2] >= Minute * JoinMinutes

\* Exactly the empty days from `since` on, no two runs touching, newest first.
NewsAsksExactly ==
    LET days == {d \in 1 .. PlanDays : \E r \in ToSet(NewsCalls) : r[1] <= d /\ d < r[2]}
    IN  /\ days = {d \in daysOff : d >= since}
        /\ \A i \in 1 .. Len(NewsCalls) - 1 : NewsCalls[i + 1][2] < NewsCalls[i][1]

(* What is asked for is what is missing: every minute without a candle, and  *)
(* besides only what lies between two gaps that are joined (ranges.py:        *)
(* missing_minute_ranges, coalesce), and every empty day that may be filled   *)
(* (day_ranges, recent_day_ranges).                                           *)
RepairPlansAreExact == MarketAsksExactly /\ NewsAsksExactly
=============================================================================
