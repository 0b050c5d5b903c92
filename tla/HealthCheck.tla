----------------------------- MODULE HealthCheck -----------------------------
(***************************************************************************)
(* tools/health_check.py: look at everything, repair what is pending in    *)
(* dependency order, look again. What a repair does is reduced to what is  *)
(* pending: a step takes its own area off, if it can (the source may have  *)
(* no data, a step may be cut short), and puts on what it makes stale.     *)
(* The repairs themselves are in MarketBackfill, NewsBackfill, Scoring and *)
(* FeatureJob; here is how they hang together: their order, when each      *)
(* reads its plan, one database connection for all, and the lock.          *)
(***************************************************************************)
EXTENDS Naturals, Sequences

CONSTANTS Checks,        \* runs of the health check: a process each
          Nobody,        \* the lock is free
          MaxHFaults,    \* bound: faults in a behaviour
          MaxArrivals,   \* bound: work the live processes leave behind
          InitialWork    \* what may be pending in the beginning

(* "market": candles missing; "news": days without articles; "tags": stored  *)
(* tags differ; "scores": articles unscored; "bars": bars older than their   *)
(* inputs; "signals", "reports": older than the bars.                        *)
Areas == {"market", "news", "tags", "scores", "bars", "signals", "reports"}

ASSUME HealthAssumption ==
    /\ Nobody \notin Checks /\ MaxHFaults \in Nat /\ MaxArrivals \in Nat
    /\ InitialWork \subseteq SUBSET Areas

\* The steps in the order of main(); "look" is the second check_features.
Steps == <<"market", "news", "tags", "scores", "look", "bars", "signals", "reports">>

\* What the repairs take from the State of a check: its gaps, the articles to
\* re-tag, the bar to rebuild from. The other steps look for themselves.
HasPlan == {"market", "news", "tags", "bars"}

\* What becomes stale when the step has changed something.
MakesStale(s) ==
    CASE s = "news" -> {"scores"}
      [] s = "tags" -> {"scores"}
      [] s \in {"market", "scores"} -> {"bars"}
      [] s = "bars" -> {"signals", "reports"}
      [] OTHER -> {}

VARIABLES
    dry,       \* environment: Binance has nothing for a part of the history
    work,      \* pending areas, as a complete check would find them
    lock,      \* holder of the repair lock
    hpc,       \* "off", "looked", the step to do, "unlock", "after", "gone"
    plan,      \* areas the process has found pending and has a plan for
    failed,    \* areas whose check crashed, or whose step failed or was skipped
    tx,        \* its connection: "ok" or "aborted" (a statement has failed)
    calm,      \* history: nobody else has left work since it looked
    hfaults, arrivals

hvars == <<dry, work, lock, hpc, plan, failed, tx, calm, hfaults, arrivals>>

HInit ==
    /\ dry \in BOOLEAN
    /\ work \in InitialWork
    /\ lock = Nobody
    /\ hpc = [p \in Checks |-> "off"]
    /\ plan = [p \in Checks |-> {}] /\ failed = [p \in Checks |-> {}]
    /\ tx = [p \in Checks |-> "ok"]
    /\ calm = [p \in Checks |-> TRUE]
    /\ hfaults = 0 /\ arrivals = 0

HFault == hfaults < MaxHFaults /\ hfaults' = hfaults + 1

Repairing(p) == hpc[p] \in Areas \union {"look"}

At(p, s) == hpc[p] = s

Goto(p, to) == hpc' = [hpc EXCEPT ![p] = to]

\* p leaves w pending; who has looked before is disturbed by what is new in it.
StillCalm(p, w) ==
    [q \in Checks |-> calm[q] /\ (q = p \/ w \subseteq work \/ hpc[q] \in {"off", "gone"})]

Becomes(p, w) == work' = w /\ calm' = StillCalm(p, w)

\* The process is gone, and its session, which held the lock if it did.
Ends(p, w) ==
    /\ work' = w /\ calm' = [StillCalm(p, w) EXCEPT ![p] = TRUE]
    /\ Goto(p, "gone")
    /\ plan' = [plan EXCEPT ![p] = {}] /\ failed' = [failed EXCEPT ![p] = {}]
    /\ tx' = [tx EXCEPT ![p] = "ok"]
    /\ lock' = IF lock = p THEN Nobody ELSE lock

\* To the step after the present one.
Onward(p) ==
    \E i \in DOMAIN Steps :
        At(p, Steps[i]) /\ Goto(p, IF i = Len(Steps) THEN "unlock" ELSE Steps[i + 1])

\* A late candle, a new article, another tagger.
Arrive ==
    /\ arrivals < MaxArrivals
    /\ \E a \in Areas :
          work' = work \union {a} /\ calm' = [q \in Checks |-> hpc[q] \in {"off", "gone"}]
    /\ arrivals' = arrivals + 1
    /\ UNCHANGED <<lock, hpc, plan, failed, tx, hfaults>>

\* _guard: a check that crashes finds nothing; its rollback keeps the connection
\* usable for the next.
Found(p, crashed) ==
    /\ plan' = [plan EXCEPT ![p] = (work \intersect HasPlan) \ crashed]
    /\ failed' = [failed EXCEPT ![p] = crashed]

\* inspect_all.
Inspect(p) ==
    /\ hpc[p] = "off"
    /\ \/ Found(p, {}) /\ UNCHANGED hfaults
       \/ HFault /\ \E a \in Areas : Found(p, {a})
    /\ Goto(p, "looked")
    /\ UNCHANGED <<work, lock, tx, calm, arrivals>>

\* --check-only, failing unit tests, no connection, or the lock is taken.
LeaveAlone(p) ==
    /\ hpc[p] = "looked"
    /\ Ends(p, work)
    /\ UNCHANGED <<hfaults, arrivals>>

\* Repairs although the lock was not obtained.
BeginRepairs_NoLock(p) ==
    /\ hpc[p] = "looked"
    /\ lock' = p
    /\ Goto(p, Head(Steps))
    /\ UNCHANGED <<work, plan, failed, tx, calm, hfaults, arrivals>>

BeginRepairs(p) ==
    /\ hpc[p] = "looked"
    /\ lock = Nobody
    /\ lock' = p
    /\ Goto(p, Head(Steps))
    /\ UNCHANGED <<work, plan, failed, tx, calm, hfaults, arrivals>>
-----------------------------------------------------------------------------
\* Steps guarded by what was found; reports are made on request.
NotNeeded(p) ==
    /\ \E s \in {"market", "news", "tags"} : At(p, s) /\ s \notin plan[p]
    /\ Onward(p)
    /\ UNCHANGED <<work, lock, plan, failed, tx, calm, hfaults, arrivals>>

Wanted(p, s) ==
    CASE s \in {"market", "news", "tags"} -> s \in plan[p]
      [] s = "signals" -> "bars" \notin failed[p]
      [] OTHER -> TRUE

\* The step has something to do: scoring reads its own list, the feature step
\* rebuilds what the last check_features has found, signals are made from what
\* is there.
Applies(p, s) == s \in work /\ tx[p] = "ok" /\ (s \in HasPlan => s \in plan[p])

\* What the source does not have, and what cannot be made without it.
NoData == IF dry THEN {"market", "signals"} ELSE {}

\* What a step that goes through may leave of its own area: the days before
\* auto_news_backfill_days and the end of the quota; what there is no data for;
\* what has come since it looked, which may also use up the batches of score().
MayRemain(p, s) == s = "news" \/ s \in NoData \/ ~ calm[p]

Healed(p, s) ==
    {(work \ {s}) \union MakesStale(s)}
        \union (IF MayRemain(p, s) THEN {work, work \union MakesStale(s)} ELSE {})

\* What a step cut short may leave: it commits by pages, batches and passes, and
\* the commit of main()'s finally clause, or of the next check, takes the half
\* done with it, such as new tags without the deletion of the scores.
CutShort(p, s) ==
    {work} \union
    (IF Applies(p, s)
       THEN {work \union MakesStale(s), (work \ {s}) \union MakesStale(s)}
              \union (IF s = "tags" THEN {work \ {s}} ELSE {})
       ELSE {})

\* The step returns and its summary does not say FAILED or skipped.
StepSucceeds(p) ==
    /\ tx[p] = "ok"
    /\ \E s \in Areas :
          /\ At(p, s) /\ Wanted(p, s)
          /\ \E w \in IF Applies(p, s) THEN Healed(p, s) ELSE {work} : Becomes(p, w)
    /\ Onward(p)
    /\ UNCHANGED <<lock, plan, failed, tx, hfaults, arrivals>>

Fails(p, s) == failed' = [failed EXCEPT ![p] = @ \union {s}]

\* FAILED or skipped in the summary, with a usable connection: an API that does
\* not answer, the feature lock held elsewhere, any exception but one of a
\* statement. _step does not roll back.
StepFails(p) ==
    /\ tx[p] = "ok" /\ HFault
    /\ \E s \in Areas :
          /\ At(p, s) /\ Wanted(p, s) /\ Fails(p, s)
          /\ \E w \in CutShort(p, s) : Becomes(p, w)
    /\ Onward(p)
    /\ UNCHANGED <<lock, plan, tx, arrivals>>

\* A statement fails in the database: _step catches the exception and does not
\* roll back. What the step committed before stays.
StepAborts(p) ==
    /\ tx[p] = "ok" /\ HFault
    /\ \E s \in Areas :
          /\ At(p, s) /\ Wanted(p, s) /\ Fails(p, s)
          /\ \E w \in {work, work \union MakesStale(s)} :
                (w # work => Applies(p, s)) /\ Becomes(p, w)
    /\ tx' = [tx EXCEPT ![p] = "aborted"]
    /\ Onward(p)
    /\ UNCHANGED <<lock, plan, arrivals>>

\* The next steps on that connection fail with InFailedSqlTransaction.
StepOnAborted(p) ==
    /\ tx[p] = "aborted"
    /\ \E s \in Areas \ {"reports"} : At(p, s) /\ Wanted(p, s) /\ Fails(p, s)
    /\ Onward(p)
    /\ UNCHANGED <<work, lock, plan, tx, calm, hfaults, arrivals>>

\* Signals are skipped when the features were not refreshed.
SkipSignals(p) ==
    /\ At(p, "signals") /\ ~ Wanted(p, "signals")
    /\ Fails(p, "signals")
    /\ Onward(p)
    /\ UNCHANGED <<work, lock, plan, tx, calm, hfaults, arrivals>>

\* --with-reports is not given; otherwise inspect_all clears an aborted
\* transaction first, and the reports run as processes of their own.
Reports(p) ==
    /\ At(p, "reports")
    /\ \/ tx[p] = "aborted" /\ tx' = [tx EXCEPT ![p] = "ok"] /\ UNCHANGED hpc
       \/ Onward(p) /\ UNCHANGED tx
    /\ UNCHANGED <<work, lock, plan, failed, calm, hfaults, arrivals>>

\* Rebuilds by the first look.
LookAgain_Not(p) ==
    /\ At(p, "look") /\ tx[p] = "ok"
    /\ Onward(p)
    /\ UNCHANGED <<work, lock, plan, failed, tx, calm, hfaults, arrivals>>

\* check_features on a fresh State, after everything that changes its inputs.
LookAgain(p) ==
    /\ At(p, "look") /\ tx[p] = "ok"
    /\ plan' = [plan EXCEPT ![p] = (@ \ {"bars"}) \union (work \intersect {"bars"})]
    /\ failed' = [failed EXCEPT ![p] = @ \ {"bars"}]
    /\ Onward(p)
    /\ UNCHANGED <<work, lock, tx, calm, hfaults, arrivals>>

\* It is under no _step and no _guard: the exception leaves main(), whose
\* finally clause cannot unlock either; the session ends, no second report.
LookCrashes(p) ==
    /\ At(p, "look")
    /\ IF tx[p] = "aborted" THEN UNCHANGED hfaults ELSE HFault
    /\ Ends(p, work)
    /\ UNCHANGED arrivals

\* The finally clause; on an aborted transaction pg_advisory_unlock fails and
\* the lock stays until the connection is closed.
Unlock(p) ==
    /\ hpc[p] = "unlock"
    /\ lock' = IF tx[p] = "ok" THEN Nobody ELSE lock
    /\ Goto(p, "after")
    /\ UNCHANGED <<work, plan, failed, tx, calm, hfaults, arrivals>>

\* The second report, close(), exit.
Finish(p) ==
    /\ hpc[p] = "after"
    /\ Ends(p, work)
    /\ UNCHANGED <<hfaults, arrivals>>

\* Ctrl+C, or the process or its session dies, in the middle of a step or not.
KillCheck(p) ==
    /\ hpc[p] \notin {"off", "gone"} /\ HFault
    /\ \E w \in CutShort(p, hpc[p]) : Ends(p, w)
    /\ UNCHANGED arrivals

HRun(p) ==
    \/ BeginRepairs(p) \/ LeaveAlone(p)
    \/ NotNeeded(p) \/ StepSucceeds(p) \/ StepOnAborted(p) \/ SkipSignals(p)
    \/ Reports(p) \/ LookAgain(p) \/ LookCrashes(p) \/ Unlock(p) \/ Finish(p)

HNext ==
    /\ \/ Arrive
       \/ \E p \in Checks :
             HRun(p) \/ Inspect(p) \/ StepFails(p) \/ StepAborts(p) \/ KillCheck(p)
    /\ UNCHANGED dry

HSpec == HInit /\ [][HNext]_hvars
-----------------------------------------------------------------------------
HTypeOK ==
    /\ dry \in BOOLEAN /\ work \subseteq Areas
    /\ lock \in Checks \union {Nobody}
    /\ \A p \in Checks :
          /\ hpc[p] \in {"off", "looked", "look", "unlock", "after", "gone"} \union Areas
          /\ plan[p] \subseteq Areas /\ failed[p] \subseteq Areas
          /\ tx[p] \in {"ok", "aborted"} /\ calm[p] \in BOOLEAN

(* "one repair run at a time" (tools/health_check.py:55): the process that   *)
(* repairs holds the lock, through steps that abort its transaction, an      *)
(* unlock that fails and sessions that die.                                  *)
OneRepairAtATime == \A p \in Checks : Repairing(p) => lock = p

(* "Repairs, in dependency order" (tools/health_check.py:26): what is still  *)
(* pending when the steps are over, and nobody else has left work meanwhile,  *)
(* is there because "its step failed or was skipped above, or the source has *)
(* no data for that period" (tools/health_check.py:221-222; older days of    *)
(* articles and the reports wait for --with-news and --with-reports). No step *)
(* makes stale what an earlier one has repaired, and none works from a plan   *)
(* that an earlier one has overtaken.                                         *)
LeftoverIsWhatFailed ==
    \A p \in Checks :
        hpc[p] = "unlock" /\ calm[p]
            => work \ {"news", "reports"} \subseteq failed[p] \union NoData
=============================================================================
