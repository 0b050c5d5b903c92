------------------------------ MODULE FeatureJob ------------------------------
(***************************************************************************)
(* The feature job: features_bar as a table derived from market_data and   *)
(* sentiment_scores, written by three kinds of process that exclude each   *)
(* other with an advisory lock.                                            *)
(*                                                                         *)
(*   signals  signals/run_signals.py, one pass every few minutes           *)
(*   manual   features/run_feature_job.py, started by hand with            *)
(*            --full-refresh, --start or --every                           *)
(*   health   tools/health_check.py: check_features, then rebuild_features *)
(*                                                                         *)
(* Time is counted in bars of the shortest frequency: slot n is complete   *)
(* when now > n. A bar <<f, s>> covers the slots s .. s + f - 1. What      *)
(* arrives late (a backfilled candle, a score, a deleted score) is a fact  *)
(* about a slot; the values themselves are left out.                       *)
(***************************************************************************)
EXTENDS Integers, Sequences, FiniteSets

CONSTANTS Freqs,     \* cfg.frequencies in slots, the shortest is 1
          Lookback,  \* incremental_lookback_bars
          Rolling,   \* rolling_long_bars: how far back a bar's row reaches
          Builts,    \* frequencies the table may have been built with before
          Columns,   \* whether it may have all columns of the configuration
          FirstNow, MaxNow,  \* bounds: complete slots at the start and at the end
          Calls,     \* bound: command lines of run_feature_job that are used
          Late,      \* bound: what may arrive late, <<kind, slot>>
          MaxFacts,              \* bounds: late arrivals, manual starts and
          MaxStarts, MaxCrashes  \* health checks, failures and kills

ASSUME FeatureAssumption ==
    /\ Freqs \subseteq Nat \ {0} /\ 1 \in Freqs /\ IsFiniteSet(Freqs)
    /\ Lookback \in Nat \ {0} /\ Rolling \in Nat \ {0}
    /\ Builts \subseteq SUBSET Freqs /\ Columns \subseteq BOOLEAN
    /\ FirstNow \in Nat /\ MaxNow \in Nat /\ FirstNow <= MaxNow
    /\ Calls \subseteq [full : BOOLEAN, every : BOOLEAN, start : {-1} \union 0 .. MaxNow - 1]
    /\ \A c \in Calls : c.every => c.start = -1
    /\ Late \subseteq {"candle", "score"} \X Nat
    /\ MaxFacts \in Nat /\ MaxStarts \in Nat /\ MaxCrashes \in Nat

Jobs == {"signals", "manual", "health"}
Slots == 0 .. MaxNow - 1
Bars == {k \in Freqs \X Slots : k[2] % k[1] = 0}
None == -1

VARIABLES
    now,      \* complete slots
    facts,    \* late arrivals in commit order: [kind, slot, stamp, onTime]
    clock,    \* stamps given out so far (ingested_at, scored_at)
    open,     \* stamps taken by writers that have not committed yet
    migrated, \* the table has the columns of the current configuration
    rows,     \* features_bar: bar -> [seen, at, from, filled]
    holder,   \* the session that holds the advisory lock
    pc, full, start, every,  \* per job: place, its options
    added,    \* what ensure_schema found missing
    pass,     \* per job: the pass it is in
    used,     \* used up bounds: starts, crashes
    lost,     \* history: a full refresh that was owed got lost
    passed    \* history: bars that a pinned pass left behind the watermarks

vars == <<now, facts, clock, open, migrated, rows, holder, pc, full, start,
          every, added, pass, used, lost, passed>>

inputVars == <<now, facts, clock, open>>
optionVars == <<full, start, every, added>>
historyVars == <<lost, passed>>

NoPass == [from |-> 0, wf |-> 0, top |-> 0, candles |-> 0, scores |-> 0, at |-> 0]

SmallestOf(S) == CHOOSE x \in S : \A y \in S : x <= y
LargestOf(S) == CHOOSE x \in S : \A y \in S : x >= y

MaxFreq == LargestOf(Freqs)

\* The bars that are complete when n slots are.
CompleteBars(n) == {k \in Bars : k[2] + k[1] <= n}

\* The slots whose data enters the row of a bar: its own and those of the
\* rolling window before it.
Deps(k) == k[2] - Rolling * k[1] .. k[2] + k[1] - 1

\* Slots before this one are left to the health check at time n, the others to
\* the incremental passes.
Until(n) == n - MaxFreq * Lookback

\* A table built earlier, maybe by a configuration with fewer columns and fewer
\* frequencies.
Init ==
    /\ now = FirstNow
    /\ facts = << >> /\ clock = 0 /\ open = {}
    /\ migrated \in Columns
    /\ \E F \in Builts :
          rows = [k \in {b \in CompleteBars(FirstNow) : b[1] \in F} |->
                     [seen |-> {}, at |-> 0, from |-> 0, filled |-> migrated]]
    /\ holder = "nobody"
    /\ pc = [p \in Jobs |-> IF p = "signals" THEN "idle" ELSE "off"]
    /\ full = [p \in Jobs |-> FALSE]
    /\ start = [p \in Jobs |-> None]
    /\ every = [p \in Jobs |-> p = "signals"]
    /\ added = [p \in Jobs |-> FALSE]
    /\ pass = [p \in Jobs |-> NoPass]
    /\ used = [starts |-> 0, crashes |-> 0]
    /\ lost = FALSE /\ passed = {}
-----------------------------------------------------------------------------
(* The input tables.                                                        *)

\* A slot ends with all its candles stored.
Advance ==
    /\ now < MaxNow
    /\ now' = now + 1
    /\ UNCHANGED <<facts, clock, open, migrated, rows, holder, pc, optionVars,
                   pass, used, historyVars>>

Fact(kind, slot, stamp) ==
    [kind |-> kind, slot |-> slot, stamp |-> stamp, onTime |-> slot >= Until(now)]

\* One row in autocommit mode (market consumer, live scorer): stamp and commit
\* coincide.
ArriveNow(kind, slot) ==
    /\ Len(facts) + Cardinality(open) < MaxFacts
    /\ slot < now
    /\ clock' = clock + 1
    /\ facts' = Append(facts, Fact(kind, slot, clock + 1))
    /\ UNCHANGED <<now, open, migrated, rows, holder, pc, optionVars, pass, used, historyVars>>

\* ingested_at of backfill_symbol is taken before the first page is fetched,
\* scored_at of the repair when its transaction begins.
TakeStamp ==
    /\ Len(facts) + Cardinality(open) < MaxFacts
    /\ clock' = clock + 1
    /\ open' = open \union {clock + 1}
    /\ UNCHANGED <<now, facts, migrated, rows, holder, pc, optionVars, pass, used, historyVars>>

ArriveLater(kind, slot) ==
    /\ slot < now
    /\ \E stamp \in open :
          /\ facts' = Append(facts, Fact(kind, slot, stamp))
          /\ open' = open \ {stamp}
    /\ UNCHANGED <<now, clock, migrated, rows, holder, pc, optionVars, pass, used, historyVars>>

\* retag() deletes the scores of an article: their stamps go with them.
DeleteScores(slot) ==
    /\ Len(facts) + Cardinality(open) < MaxFacts
    /\ slot < now
    /\ facts' = Append([i \in DOMAIN facts |->
                           IF facts[i].kind = "score" /\ facts[i].slot = slot
                             THEN [facts[i] EXCEPT !.stamp = 0] ELSE facts[i]],
                       Fact("score", slot, 0))
    /\ UNCHANGED <<now, clock, open, migrated, rows, holder, pc, optionVars,
                   pass, used, historyVars>>
-----------------------------------------------------------------------------
(* Starting a pass.                                                         *)

\* Where a job is when its pass is over.
Rest(p) == IF p = "signals" THEN "idle" ELSE IF every[p] THEN "waiting" ELSE "off"

\* ensure_schema, first transaction: are columns of the configuration missing?
EnsureRead(p) ==
    /\ added' = [added EXCEPT ![p] = ~ migrated]
    /\ pc' = [pc EXCEPT ![p] = "alter"]

\* The loop of run_signals: ensure_schema, then one pass.
Wake ==
    /\ pc["signals"] = "idle"
    /\ EnsureRead("signals")
    /\ UNCHANGED <<inputVars, migrated, rows, holder, full, start, every, pass, used, historyVars>>

\* run_feature_job.main.
Launch ==
    /\ pc["manual"] = "off"
    /\ used.starts < MaxStarts
    /\ \E c \in Calls :
          /\ full' = [full EXCEPT !["manual"] = c.full]
          /\ every' = [every EXCEPT !["manual"] = c.every]
          /\ start' = [start EXCEPT !["manual"] = c.start]
    /\ EnsureRead("manual")
    /\ used' = [used EXCEPT !.starts = @ + 1]
    /\ UNCHANGED <<inputVars, migrated, rows, holder, pass, historyVars>>

\* Loop mode: the next pass, without ensure_schema.
Again ==
    /\ pc["manual"] = "waiting"
    /\ pc' = [pc EXCEPT !["manual"] = "lock"]
    /\ UNCHANGED <<inputVars, migrated, rows, holder, optionVars, pass, used, historyVars>>

\* The slots check_features reports: older than what every incremental pass
\* redoes, and the bar is missing or an input row is younger than it.
Flagged ==
    {n \in 0 .. Until(now) - 1 :
        \/ <<1, n>> \notin DOMAIN rows
        \/ \E i \in DOMAIN facts :
              facts[i].slot = n /\ facts[i].stamp > rows[<<1, n>>].at}

\* check_features of the health check decides what rebuild_features will do.
Check ==
    /\ pc["health"] = "off"
    /\ used.starts < MaxStarts
    /\ start' = [start EXCEPT !["health"] =
                    IF Flagged = {} THEN None ELSE SmallestOf(Flagged)]
    /\ pc' = [pc EXCEPT !["health"] = "checked"]
    /\ used' = [used EXCEPT !.starts = @ + 1]
    /\ UNCHANGED <<inputVars, migrated, rows, holder, full, every, added, pass, historyVars>>

Rebuild ==
    /\ pc["health"] = "checked"
    /\ EnsureRead("health")
    /\ UNCHANGED <<inputVars, migrated, rows, holder, full, start, every, pass, used, historyVars>>

\* Second transaction: ADD COLUMN IF NOT EXISTS. All three callers turn a
\* non-empty answer into a full refresh.
EnsureAlter(p) ==
    /\ pc[p] = "alter"
    /\ migrated' = TRUE
    /\ full' = [full EXCEPT ![p] = @ \/ added[p]]
    /\ start' = [start EXCEPT ![p] = IF p = "health" /\ added[p] THEN None ELSE @]
    /\ pc' = [pc EXCEPT ![p] = "lock"]
    /\ added' = [added EXCEPT ![p] = FALSE]
    /\ UNCHANGED <<inputVars, rows, holder, every, pass, used, historyVars>>
-----------------------------------------------------------------------------
(* run_once.                                                                *)

\* A full refresh that p owed is gone.
Forget(p) ==
    /\ full' = [full EXCEPT ![p] = FALSE]
    /\ lost' = (lost \/ full[p])

Leave(p) ==
    /\ pc' = [pc EXCEPT ![p] = Rest(p)]
    /\ pass' = [pass EXCEPT ![p] = NoPass]
    /\ start' = [start EXCEPT ![p] = None]

\* pg_try_advisory_lock says no: the pass is skipped and counts as done.
Skip(p) ==
    /\ pc[p] = "lock" /\ holder # "nobody"
    /\ p # "health"
    /\ Forget(p)
    /\ Leave(p)
    /\ UNCHANGED <<inputVars, migrated, rows, holder, every, added, used, passed>>

\* _lock_features waits and gives up.
GiveUp ==
    /\ pc["health"] = "lock" /\ holder # "nobody"
    /\ Forget("health")
    /\ Leave("health")
    /\ UNCHANGED <<inputVars, migrated, rows, holder, every, added, used, passed>>

Stored(f) == {k[2] : k \in {b \in DOMAIN rows : b[1] = f}}

\* The watermark that is furthest ahead decides.
WriteFrom_Furthest == LargestOf({LargestOf(Stored(f)) - Lookback * f : f \in Freqs})

WriteFrom == SmallestOf({LargestOf(Stored(f)) - Lookback * f : f \in Freqs})

\* Where an incremental pass begins; without a watermark, with the first slot.
NextFrom == IF \E f \in Freqs : Stored(f) = {} THEN 0 ELSE WriteFrom

\* Reads only what it writes.
HistoryNeeded_None == 0

HistoryNeeded == (Rolling + 2) * MaxFreq

\* plan_run: None reads or writes from the first slot there is.
Plan(p) ==
    IF start[p] # None
      THEN [wf |-> start[p], from |-> start[p] - HistoryNeeded]
    ELSE IF full[p] \/ \E f \in Freqs : Stored(f) = {}
      THEN [wf |-> 0, from |-> 0]
    ELSE [wf |-> WriteFrom, from |-> WriteFrom - HistoryNeeded]

BeginPass(p) ==
    /\ pc' = [pc EXCEPT ![p] = "candles"]
    /\ pass' = [pass EXCEPT ![p] = [NoPass EXCEPT !.wf = Plan(p).wf, !.from = Plan(p).from]]
    /\ UNCHANGED <<inputVars, migrated, rows, optionVars, used, historyVars>>

\* Does not look at the answer of pg_try_advisory_lock.
TryLock_Ignored(p) ==
    /\ pc[p] = "lock"
    /\ holder' = IF holder = "nobody" THEN p ELSE holder
    /\ BeginPass(p)

\* The lock, and the watermarks: nobody moves them while it is held.
TryLock(p) ==
    /\ pc[p] = "lock" /\ holder = "nobody"
    /\ holder' = p
    /\ BeginPass(p)

\* fetch_candles and fetch_scores are two transactions.
ReadCandles(p) ==
    /\ pc[p] = "candles"
    /\ pass' = [pass EXCEPT ![p].candles = Len(facts), ![p].top = now]
    /\ pc' = [pc EXCEPT ![p] = "scores"]
    /\ UNCHANGED <<inputVars, migrated, rows, holder, optionVars, used, historyVars>>

ReadScores(p) ==
    /\ pc[p] = "scores"
    /\ pass' = [pass EXCEPT ![p].scores = Len(facts)]
    /\ pc' = [pc EXCEPT ![p] = "build"]
    /\ UNCHANGED <<inputVars, migrated, rows, holder, optionVars, used, historyVars>>

\* The bars are computed and the transaction of the upsert begins: its now()
\* is computed_at.
BeginWrite(p) ==
    /\ pc[p] = "build"
    /\ pass' = [pass EXCEPT ![p].at = clock]
    /\ pc' = [pc EXCEPT ![p] = "write"]
    /\ UNCHANGED <<inputVars, migrated, rows, holder, optionVars, used, historyVars>>

\* feats[feats["bucket"] >= plan.write_from]; the bar that still forms is
\* dropped.
Targets(p) == {k \in CompleteBars(pass[p].top) : k[2] >= pass[p].wf}

\* The facts about slots of the bar that the pass has read.
Seen(p, k) ==
    {i \in DOMAIN facts :
        /\ i <= IF facts[i].kind = "candle" THEN pass[p].candles ELSE pass[p].scores
        /\ facts[i].slot \in Deps(k) /\ facts[i].slot >= pass[p].from}

\* upsert_features commits.
Write(p) ==
    /\ pc[p] = "write"
    /\ rows' = [k \in DOMAIN rows \union Targets(p) |->
                   IF k \in Targets(p)
                     THEN [seen |-> Seen(p, k), at |-> pass[p].at,
                           from |-> pass[p].from, filled |-> TRUE]
                     ELSE rows[k]]
    /\ passed' = (passed \ Targets(p)) \union
                   {k \in DOMAIN rows \ Targets(p) :
                       start[p] # None /\ NextFrom <= k[2] /\ k[2] < NextFrom'}
    /\ pc' = [pc EXCEPT ![p] = "unlock"]
    /\ pass' = [pass EXCEPT ![p] = NoPass]
    /\ UNCHANGED <<inputVars, migrated, holder, optionVars, used, lost>>

\* A finally block without the unlock.
Finish_KeepsLock(p) ==
    /\ pc[p] = "unlock"
    /\ full' = [full EXCEPT ![p] = FALSE]
    /\ Leave(p)
    /\ UNCHANGED <<inputVars, migrated, rows, holder, every, added, used, historyVars>>

\* finish_run, unlock. A full refresh is done, unless --start pinned the pass.
Finish(p) ==
    /\ pc[p] = "unlock"
    /\ holder' = "nobody"
    /\ IF start[p] = None
         THEN full' = [full EXCEPT ![p] = FALSE] /\ UNCHANGED lost
         ELSE Forget(p)
    /\ Leave(p)
    /\ UNCHANGED <<inputVars, migrated, rows, every, added, used, passed>>
-----------------------------------------------------------------------------
InPass(p) == pc[p] \in {"candles", "scores", "build", "write", "unlock"}

Unlocked(p) == holder' = IF holder = p THEN "nobody" ELSE holder

\* Resets the flag before it knows how the pass ended.
Fail_ForgetsFull(p) ==
    /\ InPass(p)
    /\ used.crashes < MaxCrashes
    /\ used' = [used EXCEPT !.crashes = @ + 1]
    /\ Unlocked(p)
    /\ Leave(p)
    /\ full' = [full EXCEPT ![p] = FALSE]
    /\ IF p = "manual" /\ every[p] THEN UNCHANGED lost
       ELSE lost' = (lost \/ full[p])
    /\ UNCHANGED <<inputVars, migrated, rows, every, added, passed>>

\* An exception ends the pass: rolled back and unlocked. Only the loop of
\* run_feature_job remembers that it owes a full refresh.
Fail(p) ==
    /\ InPass(p)
    /\ used.crashes < MaxCrashes
    /\ used' = [used EXCEPT !.crashes = @ + 1]
    /\ Unlocked(p)
    /\ Leave(p)
    /\ IF p = "manual" /\ every[p] THEN UNCHANGED <<full, lost>> ELSE Forget(p)
    /\ UNCHANGED <<inputVars, migrated, rows, every, added, passed>>

\* The process is gone: the server releases its session's lock. The loop of
\* run_signals is started again.
Kill(p) ==
    /\ pc[p] \notin {"idle", "off"}
    /\ used.crashes < MaxCrashes
    /\ used' = [used EXCEPT !.crashes = @ + 1]
    /\ Unlocked(p)
    /\ Forget(p)
    /\ pc' = [pc EXCEPT ![p] = IF p = "signals" THEN "idle" ELSE "off"]
    /\ pass' = [pass EXCEPT ![p] = NoPass]
    /\ added' = [added EXCEPT ![p] = FALSE]
    /\ start' = [start EXCEPT ![p] = None]
    /\ every' = [every EXCEPT ![p] = (p = "signals")]
    /\ UNCHANGED <<inputVars, migrated, rows, passed>>

Inputs ==
    \/ Advance \/ TakeStamp
    \/ \E x \in Late : ArriveNow(x[1], x[2]) \/ ArriveLater(x[1], x[2])
    \/ \E x \in Late : x[1] = "score" /\ DeleteScores(x[2])

Enter(p) == EnsureAlter(p) \/ Skip(p) \/ TryLock(p)

Work(p) ==
    ReadCandles(p) \/ ReadScores(p) \/ BeginWrite(p) \/ Write(p) \/ Finish(p)

Next ==
    \/ Inputs
    \/ Wake \/ Launch \/ Again \/ Check \/ Rebuild \/ GiveUp
    \/ \E p \in Jobs : Enter(p) \/ Work(p) \/ Fail(p) \/ Kill(p)

Spec == Init /\ [][Next]_vars

(* The loop of run_signals runs for ever and the session that holds the lock *)
(* gets on with its pass. Signals may find the lock taken every time.        *)
FairSpec ==
    /\ Spec
    /\ WF_vars(Wake \/ Enter("signals"))
    /\ WF_vars(\E p \in Jobs : Work(p))
-----------------------------------------------------------------------------
TypeOK ==
    /\ now \in FirstNow .. MaxNow
    /\ facts \in Seq([kind : {"candle", "score"}, slot : 0 .. now - 1,
                      stamp : 0 .. clock, onTime : BOOLEAN])
    /\ Len(facts) + Cardinality(open) <= MaxFacts
    /\ clock \in 0 .. MaxFacts /\ open \subseteq 1 .. clock
    /\ migrated \in BOOLEAN
    /\ DOMAIN rows \subseteq CompleteBars(now)
    /\ \A k \in DOMAIN rows :
          /\ rows[k].seen \subseteq DOMAIN facts /\ rows[k].at \in 0 .. clock
          /\ rows[k].filled \in BOOLEAN
    /\ holder \in Jobs \union {"nobody"}
    /\ \A p \in Jobs : InPass(p) <=> holder = p
    /\ pc \in [Jobs -> {"off", "idle", "waiting", "checked", "alter", "lock",
                        "candles", "scores", "build", "write", "unlock"}]
    /\ full \in [Jobs -> BOOLEAN] /\ added \in [Jobs -> BOOLEAN]
    /\ every \in [Jobs -> BOOLEAN] /\ start \in [Jobs -> {None} \union Slots]
    /\ lost \in BOOLEAN /\ passed \subseteq DOMAIN rows

(* The lock keeps the table from going back: a pass that read its inputs    *)
(* early, however slow it is and whoever else writes, never replaces a row  *)
(* by one that knows less (features/store.py, try_lock and upsert_features).*)
NeverOlder ==
    [][\A k \in DOMAIN rows : k \in DOMAIN rows' /\ rows[k].seen \subseteq rows'[k].seen]_vars

(* Each row is computed from the whole rolling window before it, although   *)
(* an incremental or pinned pass reads a part of the history only           *)
(* (FeatureConfig.history_needed, over all frequencies).                    *)
WholeHistory ==
    \A k \in DOMAIN rows : rows[k].from <= 0 \/ rows[k].from <= k[2] - Rolling * k[1]

(* Nothing that arrives on time falls between two passes: as long as a row  *)
(* has not seen it, the next incremental pass will rewrite that row, however *)
(* the passes before it interleaved with the arrival (plan_run's watermarks *)
(* minus the lookback, taken over all frequencies). Only a pass that --start *)
(* or rebuild_features pinned ahead of the watermarks leaves a row behind    *)
(* them, when it moves them by more than the lookback.                       *)
NextPassCovers ==
    (\A f \in Freqs : Stored(f) # {}) =>
        \A i \in DOMAIN facts, k \in DOMAIN rows :
            facts[i].onTime /\ facts[i].slot \in Deps(k) /\ i \notin rows[k].seen
                => k[2] >= WriteFrom \/ k \in passed

(* A column that was added is filled in every row, or a job still owes the  *)
(* full refresh, unless it was lost in one of four ways: the pass was       *)
(* skipped because another held the lock, failed outside the loop of        *)
(* run_feature_job, was killed, or was pinned by --start.                   *)
MigrationOwed ==
    migrated /\ (\E k \in DOMAIN rows : ~ rows[k].filled)
        => (\E p \in Jobs : full[p] \/ added[p]) \/ lost

(* What arrives on time is in every row it belongs to in the end, but for    *)
(* the rows a pinned pass left behind.                                       *)
EventuallySeen ==
    \A i \in 1 .. MaxFacts :
        (i \in DOMAIN facts /\ facts[i].onTime) ~>
            (i \in DOMAIN facts /\ \A k \in DOMAIN rows \ passed :
                                     facts[i].slot \in Deps(k) => i \in rows[k].seen)

(* tools/health_check.py:18, the check finds "feature bars missing or       *)
(* computed before their inputs changed": when it finds none and no job is  *)
(* at work, every bar of that age is stored and has seen what is known of   *)
(* its slots, or the next incremental pass is going to rewrite it.          *)
ReportedInSync ==
    /\ Flagged = {}
    /\ \A p \in Jobs : pc[p] \in {"idle", "off", "waiting"}
    /\ \A f \in Freqs : Stored(f) # {}
    => \A k \in CompleteBars(Until(now)) :
          \/ k[2] >= WriteFrom
          \/ /\ k \in DOMAIN rows
             /\ \A i \in DOMAIN facts : facts[i].slot \in Deps(k) => i \in rows[k].seen
=============================================================================
