-------------------------- MODULE Services_proofs --------------------------
(***************************************************************************)
(* The services, for any processes, articles, feeds, keys, windows and     *)
(* limits: the health check, the news pollers and a GDELT cycle, the two   *)
(* news backfill tools, the connection pool of the API, and all of them    *)
(* side by side (MCServices), with the inputs of the modules that have no  *)
(* actions.                                                                *)
(***************************************************************************)
EXTENDS MCServices, Algorithms_proofs, Supervisor_proofs

-----------------------------------------------------------------------------
(* The health check. A process owns the lock from the first step to its     *)
(* unlock, aborted transactions included (LockHeld). While the steps go on, *)
(* what lies behind an undisturbed process is settled, failed or not to be  *)
(* had (SettledFor), and what lies ahead and needs a plan is in the plan    *)
(* (PlannedBy). A step may leave what it likes of its own area, as long as  *)
(* it is excused, and makes stale only what lies ahead (WithinReach).       *)

CheckPlaces == {"off", "looked", "look", "unlock", "after", "gone"} \union Areas

CheckTyped ==
    /\ dry \in BOOLEAN /\ work \subseteq Areas
    /\ lock \in Checks \union {Nobody}
    /\ hpc \in [Checks -> CheckPlaces]
    /\ plan \in [Checks -> SUBSET Areas]
    /\ failed \in [Checks -> SUBSET Areas]
    /\ tx \in [Checks -> {"ok", "aborted"}]
    /\ calm \in [Checks -> BOOLEAN]

\* The lock is held from the first step to the unlock.
LockHeld ==
    \A p \in Checks : hpc[p] \in Areas \union {"look", "unlock"} => lock = p

-----------------------------------------------------------------------------
\* The steps as a successor relation.
Follows(here, there) ==
    \/ here = "market" /\ there = "news"
    \/ here = "news" /\ there = "tags"
    \/ here = "tags" /\ there = "scores"
    \/ here = "scores" /\ there = "look"
    \/ here = "look" /\ there = "bars"
    \/ here = "bars" /\ there = "signals"
    \/ here = "signals" /\ there = "reports"
    \/ here = "reports" /\ there = "unlock"

\* Onward goes to the step that follows.
LEMMA OnwardFollows ==
    ASSUME NEW p \in Checks, Onward(p)
    PROVE  \E there \in Areas \union {"look", "unlock"} :
              Follows(hpc[p], there) /\ hpc' = [hpc EXCEPT ![p] = there]
  <1>1. PICK i \in DOMAIN Steps :
            At(p, Steps[i]) /\ Goto(p, IF i = Len(Steps) THEN "unlock" ELSE Steps[i + 1])
    BY DEF Onward
  <1>2. Len(Steps) = 8 /\ DOMAIN Steps = 1 .. 8
    BY DEF Steps
  <1>3. i \in 1 .. 8
    BY <1>2
  <1>4. i = 1 \/ i = 2 \/ i = 3 \/ i = 4 \/ i = 5 \/ i = 6 \/ i = 7 \/ i = 8
    BY <1>3
  <1>5. CASE i = 8
    BY <1>1, <1>2, <1>5 DEF Steps, At, Goto, Follows
  <1>6. CASE i # 8
    <2>1. hpc[p] = Steps[i] /\ hpc' = [hpc EXCEPT ![p] = Steps[i + 1]]
      BY <1>1, <1>2, <1>6 DEF At, Goto
    <2>2. Follows(Steps[i], Steps[i + 1]) /\ Steps[i + 1] \in Areas \union {"look", "unlock"}
      BY <1>4, <1>6 DEF Steps, Follows, Areas
    <2>3. QED BY <2>1, <2>2
  <1>7. QED BY <1>5, <1>6

\* The process is typed after a step forward.
LEMMA OnwardTyped ==
    ASSUME CheckTyped, NEW p \in Checks, Onward(p)
    PROVE  hpc' \in [Checks -> CheckPlaces]
  BY OnwardFollows DEF CheckTyped, CheckPlaces

-----------------------------------------------------------------------------
(* Types and the lock. *)

LEMMA InitCheck == ASSUME HInit PROVE CheckTyped /\ LockHeld
  BY HealthAssumption DEF HInit, CheckTyped, LockHeld, CheckPlaces, Areas

\* What a step makes stale is an area.
LEMMA StaleTyped == \A s \in Areas : MakesStale(s) \subseteq Areas
  BY DEF MakesStale, Areas

\* What a step at s may leave, whether it goes through or is cut short.
WithinReach(s, w) == w \subseteq work \union MakesStale(s) /\ w \subseteq Areas

LEMMA HealedWithin ==
    ASSUME CheckTyped, NEW p \in Checks, NEW s \in Areas, NEW w \in Healed(p, s), s \in work
    PROVE  WithinReach(s, w)
  BY StaleTyped DEF CheckTyped, Healed, WithinReach

LEMMA CutWithin ==
    ASSUME CheckTyped, NEW p \in Checks, NEW s \in Areas, NEW w \in CutShort(p, s)
    PROVE  WithinReach(s, w)
  BY StaleTyped DEF CheckTyped, CutShort, WithinReach

\* At a place that is no step there is nothing to cut short.
LEMMA CutTyped ==
    ASSUME CheckTyped, NEW p \in Checks, NEW place, NEW w \in CutShort(p, place)
    PROVE  w \subseteq Areas
  <1>1. CASE place \in Areas
    BY <1>1, CutWithin DEF WithinReach
  <1>2. CASE place \notin Areas
    BY <1>2 DEF CheckTyped, CutShort, Applies
  <1>3. QED BY <1>1, <1>2

\* The history of the others stays Boolean.
LEMMA CalmTyped ==
    ASSUME CheckTyped, NEW p \in Checks, NEW w
    PROVE  StillCalm(p, w) \in [Checks -> BOOLEAN]
  <1>1. \A q \in Checks :
          (calm[q] /\ (q = p \/ w \subseteq work \/ hpc[q] \in {"off", "gone"})) \in BOOLEAN
    OBVIOUS
  <1>2. QED BY <1>1 DEF StillCalm

LEMMA BecomesTyped ==
    ASSUME CheckTyped, NEW p \in Checks, NEW w \in SUBSET Areas, Becomes(p, w)
    PROVE  work' \subseteq Areas /\ calm' \in [Checks -> BOOLEAN]
  BY CalmTyped DEF Becomes

LEMMA EndsTyped ==
    ASSUME CheckTyped, LockHeld, NEW p \in Checks, NEW w \in SUBSET Areas, Ends(p, w)
    PROVE  /\ work' \subseteq Areas
           /\ lock' \in Checks \union {Nobody}
           /\ hpc' \in [Checks -> CheckPlaces] /\ tx' \in [Checks -> {"ok", "aborted"}]
           /\ plan' \in [Checks -> SUBSET Areas] /\ failed' \in [Checks -> SUBSET Areas]
           /\ calm' \in [Checks -> BOOLEAN]
           /\ LockHeld'
  <1>1. calm' \in [Checks -> BOOLEAN]
    BY CalmTyped DEF Ends
  <1>2. QED
    BY <1>1, HealthAssumption DEF CheckTyped, LockHeld, Ends, Goto, CheckPlaces, Areas

\* How the four actions that end a process do it.
LEMMA EndingOf ==
    ASSUME CheckTyped, NEW p \in Checks,
           LeaveAlone(p) \/ LookCrashes(p) \/ Finish(p) \/ KillCheck(p)
    PROVE  \E w \in SUBSET Areas : Ends(p, w)
  <1>1. CASE LeaveAlone(p) \/ LookCrashes(p) \/ Finish(p)
    BY <1>1 DEF LeaveAlone, LookCrashes, Finish, CheckTyped
  <1>2. CASE KillCheck(p)
    <2>1. PICK w \in CutShort(p, hpc[p]) : Ends(p, w)
      BY <1>2 DEF KillCheck
    <2>2. QED BY <2>1, CutTyped
  <1>3. QED BY <1>1, <1>2

\* A step that succeeds, and what it leaves.
SucceedsAt(p, s, w) ==
    /\ At(p, s) /\ Wanted(p, s)
    /\ IF Applies(p, s) THEN w \in Healed(p, s) ELSE w = work
    /\ Becomes(p, w)

LEMMA SuccessAt ==
    ASSUME CheckTyped, NEW p \in Checks, StepSucceeds(p)
    PROVE  \E s \in Areas, w \in SUBSET Areas : SucceedsAt(p, s, w) /\ WithinReach(s, w)
  <1>1. PICK s \in Areas :
          /\ At(p, s) /\ Wanted(p, s)
          /\ \E w \in IF Applies(p, s) THEN Healed(p, s) ELSE {work} : Becomes(p, w)
    BY DEF StepSucceeds
  <1>2. PICK w \in IF Applies(p, s) THEN Healed(p, s) ELSE {work} : Becomes(p, w)
    BY <1>1
  <1>3. WithinReach(s, w)
    <2>1. CASE Applies(p, s)
      BY <1>2, <2>1, HealedWithin DEF Applies
    <2>2. CASE ~ Applies(p, s)
      BY <1>2, <2>2 DEF WithinReach, CheckTyped
    <2>3. QED BY <2>1, <2>2
  <1>4. SucceedsAt(p, s, w)
    BY <1>1, <1>2 DEF SucceedsAt
  <1>5. QED BY <1>3, <1>4 DEF WithinReach

\* A step that fails, with or without an aborted transaction, and what it leaves.
LEMMA FailureAt ==
    ASSUME CheckTyped, NEW p \in Checks, StepFails(p) \/ StepAborts(p)
    PROVE  \E s \in Areas, w \in SUBSET Areas :
              At(p, s) /\ Fails(p, s) /\ Becomes(p, w) /\ WithinReach(s, w)
  <1>1. CASE StepFails(p)
    <2>1. PICK s \in Areas : At(p, s) /\ Fails(p, s) /\ \E w \in CutShort(p, s) : Becomes(p, w)
      BY <1>1 DEF StepFails
    <2>2. PICK w \in CutShort(p, s) : Becomes(p, w)
      BY <2>1
    <2>3. WithinReach(s, w)
      BY CutWithin
    <2>4. QED BY <2>1, <2>2, <2>3 DEF WithinReach
  <1>2. CASE StepAborts(p)
    <2>1. PICK s \in Areas :
            /\ At(p, s) /\ Fails(p, s)
            /\ \E w \in {work, work \union MakesStale(s)} : Becomes(p, w)
      BY <1>2 DEF StepAborts
    <2>2. PICK w \in {work, work \union MakesStale(s)} : Becomes(p, w)
      BY <2>1
    <2>3. WithinReach(s, w)
      BY StaleTyped DEF WithinReach, CheckTyped
    <2>4. QED BY <2>1, <2>2, <2>3 DEF WithinReach
  <1>3. QED BY <1>1, <1>2

\* A step forward of the process that holds the lock.
LEMMA OnwardLockHeld ==
    ASSUME CheckTyped, LockHeld, NEW p \in Checks, Onward(p), lock' = lock
    PROVE  LockHeld'
  <1>1. PICK there \in Areas \union {"look", "unlock"} :
            Follows(hpc[p], there) /\ hpc' = [hpc EXCEPT ![p] = there]
    BY OnwardFollows
  <1>2. hpc[p] \in Areas \union {"look"}
    BY <1>1 DEF Follows, Areas
  <1>3. lock = p
    BY <1>2 DEF LockHeld
  <1>4. QED BY <1>1, <1>3 DEF LockHeld, CheckTyped

LEMMA NextCheck ==
    ASSUME CheckTyped, LockHeld, [HNext]_hvars
    PROVE  CheckTyped' /\ LockHeld'
  <1>1. CASE UNCHANGED hvars
    BY <1>1 DEF hvars, CheckTyped, LockHeld
  <1>0. dry' \in BOOLEAN
    BY DEF HNext, hvars, CheckTyped
  <1>2. CASE Arrive
    BY <1>0, <1>2 DEF Arrive, CheckTyped, LockHeld, Areas
  <1> SUFFICES ASSUME NEW p \in Checks,
                      HRun(p) \/ Inspect(p) \/ StepFails(p) \/ StepAborts(p) \/ KillCheck(p)
               PROVE  CheckTyped' /\ LockHeld'
    BY <1>1, <1>2 DEF HNext
  <1>3. CASE LeaveAlone(p) \/ LookCrashes(p) \/ Finish(p) \/ KillCheck(p)
    <2>1. PICK w \in SUBSET Areas : Ends(p, w)
      BY <1>3, EndingOf
    <2>2. QED BY <1>0, <2>1, EndsTyped DEF CheckTyped
  <1>4. CASE BeginRepairs(p)
    <2>1. Head(Steps) = "market"
      BY DEF Steps
    <2>2. QED
      BY <1>0, <1>4, <2>1, HealthAssumption DEF BeginRepairs, Goto, CheckTyped, LockHeld, CheckPlaces, Areas
  <1>5. CASE Inspect(p)
    <2>1. PICK crashed \in SUBSET Areas : Found(p, crashed)
      BY <1>5 DEF Inspect
    <2>2. plan' \in [Checks -> SUBSET Areas] /\ failed' \in [Checks -> SUBSET Areas]
      BY <2>1 DEF Found, CheckTyped
    <2>3. hpc' \in [Checks -> CheckPlaces] /\ LockHeld'
      BY <1>5 DEF Inspect, Goto, CheckTyped, LockHeld, CheckPlaces, Areas
    <2>4. QED BY <1>0, <1>5, <2>2, <2>3 DEF Inspect, CheckTyped
  <1>6. CASE NotNeeded(p)
    BY <1>0, <1>6, OnwardTyped, OnwardLockHeld DEF NotNeeded, CheckTyped
  <1>7. CASE StepSucceeds(p)
    <2>1. PICK s \in Areas, w \in SUBSET Areas : SucceedsAt(p, s, w)
      BY <1>7, SuccessAt
    <2>2. work' \subseteq Areas /\ calm' \in [Checks -> BOOLEAN]
      BY <2>1, BecomesTyped DEF SucceedsAt
    <2>3. QED
      BY <1>0, <1>7, <2>2, OnwardTyped, OnwardLockHeld DEF StepSucceeds, CheckTyped
  <1>8. CASE StepFails(p) \/ StepAborts(p)
    <2>1. PICK s \in Areas, w \in SUBSET Areas : Fails(p, s) /\ Becomes(p, w)
      BY <1>8, FailureAt
    <2>2. work' \subseteq Areas /\ calm' \in [Checks -> BOOLEAN]
      BY <2>1, BecomesTyped
    <2>3. failed' \in [Checks -> SUBSET Areas]
      BY <2>1 DEF Fails, CheckTyped
    <2>4. /\ Onward(p) /\ lock' = lock /\ plan' = plan
          /\ tx' = tx \/ tx' = [tx EXCEPT ![p] = "aborted"]
      BY <1>8 DEF StepFails, StepAborts
    <2>5. QED BY <1>0, <2>2, <2>3, <2>4, OnwardTyped, OnwardLockHeld DEF CheckTyped
  <1>10. CASE StepOnAborted(p)
    BY <1>0, <1>10, OnwardTyped, OnwardLockHeld DEF StepOnAborted, Fails, CheckTyped
  <1>11. CASE SkipSignals(p)
    BY <1>0, <1>11, OnwardTyped, OnwardLockHeld DEF SkipSignals, Fails, CheckTyped, Areas
  <1>12. CASE Reports(p)
    BY <1>0, <1>12, OnwardTyped, OnwardLockHeld DEF Reports, CheckTyped, LockHeld
  <1>13. CASE LookAgain(p)
    BY <1>0, <1>13, OnwardTyped, OnwardLockHeld DEF LookAgain, CheckTyped
  <1>14. CASE Unlock(p)
    BY <1>0, <1>14, HealthAssumption DEF Unlock, Goto, CheckTyped, LockHeld, CheckPlaces, Areas
  <1>15. QED
    BY <1>3, <1>4, <1>5, <1>6, <1>7, <1>8, <1>10, <1>11, <1>12, <1>13, <1>14 DEF HRun

-----------------------------------------------------------------------------
(* What is pending while the steps go on. *)

\* The areas whose step lies behind a process, but for those that may rest:
\* older days of articles, and reports nobody asked for.
Behind(place) ==
    CASE place \in {"news", "tags"} -> {"market"}
      [] place = "scores" -> {"market", "tags"}
      [] place \in {"look", "bars"} -> {"market", "tags", "scores"}
      [] place = "signals" -> {"market", "tags", "scores", "bars"}
      [] place \in {"reports", "unlock"} -> {"market", "tags", "scores", "bars", "signals"}
      [] OTHER -> {}

PlannedBy(p) ==
    /\ hpc[p] \in Areas \union {"looked", "look"}
         => work \intersect {"market", "tags"} \subseteq plan[p] \union failed[p]
    /\ hpc[p] = "bars" /\ "bars" \in work => "bars" \in plan[p]

\* The leftover of a process nobody has disturbed, wherever it is.
SettledFor(p) ==
    calm[p] => PlannedBy(p) /\ work \intersect Behind(hpc[p]) \subseteq failed[p] \union NoData

Settled == \A p \in Checks : SettledFor(p)

LEMMA InitSettled == ASSUME HInit PROVE Settled
  BY DEF HInit, Settled, SettledFor, PlannedBy, Behind, Areas

\* What one process does while another is at its own step.
Undisturbed(q) ==
    /\ hpc'[q] = hpc[q] /\ plan'[q] = plan[q] /\ failed'[q] = failed[q]
    /\ hpc[q] \notin {"off", "gone"} /\ calm'[q] => calm[q] /\ work' \subseteq work

LEMMA UndisturbedSettled ==
    ASSUME NEW q \in Checks, SettledFor(q), Undisturbed(q), dry' = dry
    PROVE  SettledFor(q)'
  <1>0. NoData' = NoData
    BY DEF NoData
  <1> SUFFICES ASSUME calm'[q]
               PROVE  /\ PlannedBy(q)'
                      /\ work' \intersect Behind(hpc'[q]) \subseteq failed'[q] \union NoData
    BY <1>0 DEF SettledFor
  <1>1. CASE hpc[q] \in {"off", "gone"}
    BY <1>1 DEF Undisturbed, PlannedBy, Behind, Areas
  <1>2. CASE hpc[q] \notin {"off", "gone"}
    <2>1. /\ PlannedBy(q) /\ work \intersect Behind(hpc[q]) \subseteq failed[q] \union NoData
          /\ work' \subseteq work
      BY <1>2 DEF SettledFor, Undisturbed
    <2>2. work' \intersect Behind(hpc'[q]) \subseteq failed'[q] \union NoData
      BY <2>1 DEF Undisturbed
    <2>3. PlannedBy(q)'
      BY <2>1 DEF Undisturbed, PlannedBy
    <2>4. QED BY <2>2, <2>3
  <1>3. QED BY <1>1, <1>2

\* Who stays calm sees nothing new.
LEMMA BecomesDisturbs ==
    ASSUME NEW p \in Checks, NEW q \in Checks, q # p, NEW w, Becomes(p, w)
    PROVE  hpc[q] \notin {"off", "gone"} /\ calm'[q] => calm[q] /\ work' \subseteq work
  BY DEF Becomes, StillCalm

\* A step forward of p leaves the place of q alone.
LEMMA OnwardOthers ==
    ASSUME CheckTyped, NEW p \in Checks, NEW q \in Checks, q # p, Onward(p)
    PROVE  hpc'[q] = hpc[q]
  BY OnwardFollows DEF CheckTyped

LEMMA OthersUndisturbed ==
    ASSUME CheckTyped, NEW p \in Checks, NEW q \in Checks, q # p,
           HRun(p) \/ Inspect(p) \/ StepFails(p) \/ StepAborts(p) \/ KillCheck(p)
    PROVE  Undisturbed(q)
  <1>1. CASE LeaveAlone(p) \/ LookCrashes(p) \/ Finish(p) \/ KillCheck(p)
    <2>1. PICK w \in SUBSET Areas : Ends(p, w)
      BY <1>1, EndingOf
    <2>2. hpc[q] \notin {"off", "gone"} /\ calm'[q] => calm[q] /\ work' \subseteq work
      BY <2>1, CalmTyped DEF Ends, StillCalm
    <2>3. QED BY <2>1, <2>2 DEF Ends, Goto, CheckTyped, Undisturbed
  <1>2. CASE BeginRepairs(p) \/ Unlock(p)
    BY <1>2 DEF BeginRepairs, Unlock, Goto, CheckTyped, Undisturbed
  <1>3. CASE Inspect(p)
    <2>1. PICK crashed \in SUBSET Areas : Found(p, crashed)
      BY <1>3 DEF Inspect
    <2>2. QED BY <1>3, <2>1 DEF Inspect, Found, Goto, CheckTyped, Undisturbed
  <1>4. CASE NotNeeded(p)
    BY <1>4, OnwardOthers DEF NotNeeded, Undisturbed
  <1>5. CASE StepSucceeds(p)
    <2>1. PICK s \in Areas, w \in SUBSET Areas : SucceedsAt(p, s, w)
      BY <1>5, SuccessAt
    <2>2. hpc[q] \notin {"off", "gone"} /\ calm'[q] => calm[q] /\ work' \subseteq work
      BY <2>1, BecomesDisturbs DEF SucceedsAt
    <2>3. QED BY <1>5, <2>2, OnwardOthers DEF StepSucceeds, Undisturbed
  <1>6. CASE StepFails(p) \/ StepAborts(p)
    <2>1. PICK s \in Areas, w \in SUBSET Areas : Fails(p, s) /\ Becomes(p, w)
      BY <1>6, FailureAt
    <2>2. hpc[q] \notin {"off", "gone"} /\ calm'[q] => calm[q] /\ work' \subseteq work
      BY <2>1, BecomesDisturbs
    <2>3. Onward(p) /\ plan' = plan
      BY <1>6 DEF StepFails, StepAborts
    <2>4. QED BY <2>1, <2>2, <2>3, OnwardOthers DEF Fails, CheckTyped, Undisturbed
  <1>8. CASE StepOnAborted(p)
    BY <1>8, OnwardOthers DEF StepOnAborted, Fails, CheckTyped, Undisturbed
  <1>9. CASE SkipSignals(p)
    BY <1>9, OnwardOthers DEF SkipSignals, Fails, CheckTyped, Undisturbed
  <1>10. CASE Reports(p)
    BY <1>10, OnwardOthers DEF Reports, Undisturbed
  <1>11. CASE LookAgain(p)
    BY <1>11, OnwardOthers DEF LookAgain, CheckTyped, Undisturbed
  <1>12. QED
    BY <1>1, <1>2, <1>3, <1>4, <1>5, <1>6, <1>8, <1>9, <1>10, <1>11 DEF HRun

-----------------------------------------------------------------------------
(* The process's own steps. A step that goes on from s is good when it     *)
(* leaves s clear or failed, lets nothing new appear behind it, and takes  *)
(* nothing out of the plan or the failures but what it looks up again.     *)

\* Before s nothing is behind the process that is not behind it after s, but s.
LEMMA BehindGrows ==
    ASSUME NEW here, NEW there, Follows(here, there)
    PROVE  /\ Behind(there) \subseteq Behind(here) \union {here}
           /\ here # "market" => here \notin Behind(here)
           /\ there # "off" /\ there # "looked"
           /\ there = "bars" => here = "look"
           /\ here \in Areas \union {"look"}
  BY DEF Follows, Behind, Areas

\* Nothing a step makes stale lies behind it.
LEMMA StaleIsAhead ==
    ASSUME NEW s \in Areas, NEW there, Follows(s, there)
    PROVE  MakesStale(s) \intersect (Behind(there) \union {"market", "tags"}) = {}
  BY DEF Follows, MakesStale, Behind, Areas

LEMMA OnwardSettled ==
    ASSUME CheckTyped, NEW p \in Checks, SettledFor(p), Onward(p), dry' = dry,
           calm'[p] => calm[p],
           plan'[p] \ {"bars"} = plan[p] \ {"bars"},
           failed[p] \ {"bars"} \subseteq failed'[p],
           hpc[p] # "look" => failed[p] \subseteq failed'[p],
           hpc[p] = "look" => work' \subseteq work /\ ("bars" \in work' => "bars" \in plan'[p]),
           \A there : Follows(hpc[p], there)
                 => (work' \ work) \intersect (Behind(there) \union {"market", "tags"}) = {},
           calm[p] => (hpc[p] \in work' \ {"news", "reports"} => hpc[p] \in failed'[p] \union NoData)
    PROVE  SettledFor(p)'
  <1>1. PICK there \in Areas \union {"look", "unlock"} :
            Follows(hpc[p], there) /\ hpc' = [hpc EXCEPT ![p] = there]
    BY OnwardFollows
  <1>2. hpc'[p] = there
    BY <1>1 DEF CheckTyped
  <1>0. NoData' = NoData
    BY DEF NoData
  <1> SUFFICES ASSUME calm'[p]
               PROVE  /\ PlannedBy(p)'
                      /\ work' \intersect Behind(there) \subseteq failed'[p] \union NoData
    BY <1>0, <1>2 DEF SettledFor
  <1>3. PlannedBy(p) /\ work \intersect Behind(hpc[p]) \subseteq failed[p] \union NoData
    BY DEF SettledFor
  <1>4. work' \intersect {"market", "tags"} \subseteq plan'[p] \union failed'[p]
    <2>1. work \intersect {"market", "tags"} \subseteq plan[p] \union failed[p]
      BY <1>1, <1>3, BehindGrows DEF PlannedBy
    <2>2. work' \intersect {"market", "tags"} \subseteq work
      BY <1>1
    <2>3. QED BY <2>1, <2>2
  <1>5. there = "bars" /\ "bars" \in work' => "bars" \in plan'[p]
    BY <1>1, BehindGrows
  <1>6. work' \intersect Behind(there) \subseteq failed'[p] \union NoData
    <2> SUFFICES ASSUME NEW a \in work' \intersect Behind(there)
                 PROVE  a \in failed'[p] \union NoData
      OBVIOUS
    <2>1. a \in work /\ a \notin {"news", "reports"}
      BY <1>1 DEF Behind
    <2>2. CASE a = hpc[p]
      BY <2>1, <2>2
    <2>3. CASE a # hpc[p]
      <3>1. a \in Behind(hpc[p])
        BY <1>1, <2>3, BehindGrows
      <3>2. a \in failed[p] \union NoData
        BY <1>3, <2>1, <3>1
      <3>3. hpc[p] = "look" => a # "bars"
        BY <3>1 DEF Behind
      <3>4. QED BY <3>2, <3>3
    <2>4. QED BY <2>2, <2>3
  <1>7. QED BY <1>2, <1>4, <1>5, <1>6 DEF PlannedBy

LEMMA SuccessSettled ==
    ASSUME CheckTyped, NEW p \in Checks, SettledFor(p), StepSucceeds(p), dry' = dry
    PROVE  SettledFor(p)'
  <1>1. PICK s \in Areas, w \in SUBSET Areas : SucceedsAt(p, s, w) /\ WithinReach(s, w)
    BY SuccessAt
  <1>2. /\ hpc[p] = s /\ s # "look" /\ Onward(p) /\ plan' = plan /\ failed' = failed
        /\ work' = w /\ tx[p] = "ok"
    BY <1>1 DEF SucceedsAt, Becomes, At, StepSucceeds, Areas
  <1>3. calm'[p] => calm[p]
    BY <1>1 DEF SucceedsAt, Becomes, StillCalm
  <1>4. ASSUME NEW there, Follows(s, there)
        PROVE  (work' \ work) \intersect (Behind(there) \union {"market", "tags"}) = {}
    <2>1. MakesStale(s) \intersect (Behind(there) \union {"market", "tags"}) = {}
      BY <1>4, StaleIsAhead
    <2>2. QED BY <1>1, <1>2, <2>1 DEF WithinReach
  <1>5. ASSUME calm[p], s \in work' \ {"news", "reports"}
        PROVE  s \in failed[p] \union NoData
    <2>1. PICK there : Follows(s, there)
      BY <1>2, OnwardFollows
    <2>2. s \notin MakesStale(s)
      BY DEF MakesStale, Areas
    <2>3. s \in work
      BY <1>1, <1>2, <1>5, <2>2 DEF WithinReach
    <2>4. CASE Applies(p, s)
      <3>1. w \in Healed(p, s)
        BY <1>1, <2>4 DEF SucceedsAt
      <3>2. MayRemain(p, s)
        BY <1>2, <1>5, <2>2, <3>1 DEF Healed
      <3>3. QED BY <1>5, <3>2 DEF MayRemain
    <2>5. CASE ~ Applies(p, s)
      <3>1. s \in HasPlan /\ s \notin plan[p]
        BY <1>2, <2>3, <2>5 DEF Applies
      <3>2. s \in {"market", "tags", "bars"}
        BY <1>5, <3>1 DEF HasPlan
      <3>3. QED BY <1>2, <1>5, <2>3, <3>1, <3>2 DEF SettledFor, PlannedBy, Areas
    <2>6. QED BY <2>4, <2>5
  <1>6. QED BY <1>2, <1>3, <1>4, <1>5, OnwardSettled

\* Every way of failing puts the area on what failed; at most the areas ahead
\* become pending.
LEMMA FailureSettled ==
    ASSUME CheckTyped, NEW p \in Checks, SettledFor(p), Onward(p), plan' = plan, dry' = dry,
           NEW s \in Areas, At(p, s), Fails(p, s), NEW w, WithinReach(s, w),
           (work' = w /\ calm' = calm) \/ Becomes(p, w)
    PROVE  SettledFor(p)'
  <1>1. hpc[p] = s /\ s # "look"
    BY DEF At, Areas
  <1>2. failed'[p] = failed[p] \union {s}
    BY DEF Fails, CheckTyped
  <1>3. (calm'[p] => calm[p]) /\ work' \subseteq work \union MakesStale(s)
    BY DEF Becomes, StillCalm, WithinReach
  <1>4. \A there : Follows(s, there)
          => (work' \ work) \intersect (Behind(there) \union {"market", "tags"}) = {}
    BY <1>3, StaleIsAhead
  <1>5. QED BY <1>1, <1>2, <1>3, <1>4, OnwardSettled

\* Nothing becomes pending where the work stays as it is.
LEMMA SameWithin ==
    ASSUME CheckTyped, NEW s PROVE WithinReach(s, work)
  BY DEF WithinReach, CheckTyped

LEMMA OwnSettled ==
    ASSUME CheckTyped, NEW p \in Checks, SettledFor(p), dry' = dry,
           HRun(p) \/ Inspect(p) \/ StepFails(p) \/ StepAborts(p) \/ KillCheck(p)
    PROVE  SettledFor(p)'
  <1>1. CASE LeaveAlone(p) \/ LookCrashes(p) \/ Finish(p) \/ KillCheck(p)
    <2>1. PICK w \in SUBSET Areas : Ends(p, w)
      BY <1>1, EndingOf
    <2>2. hpc'[p] = "gone"
      BY <2>1 DEF Ends, Goto, CheckTyped
    <2>3. QED BY <2>2 DEF SettledFor, PlannedBy, Behind, Areas
  <1>2. CASE BeginRepairs(p)
    <2>1. hpc[p] = "looked" /\ hpc'[p] = "market" /\ UNCHANGED <<work, plan, failed, calm>>
      BY <1>2 DEF BeginRepairs, Goto, CheckTyped, Steps
    <2>2. QED BY <2>1 DEF SettledFor, PlannedBy, Behind, Areas
  <1>3. CASE Inspect(p)
    <2>1. PICK crashed \in SUBSET Areas : Found(p, crashed)
      BY <1>3 DEF Inspect
    <2>2. /\ hpc'[p] = "looked" /\ plan'[p] = (work \intersect HasPlan) \ crashed
          /\ failed'[p] = crashed /\ work' = work
      BY <1>3, <2>1 DEF Inspect, Found, Goto, CheckTyped
    <2>3. QED BY <2>2 DEF SettledFor, PlannedBy, Behind, Areas, HasPlan
  <1>4. CASE NotNeeded(p)
    <2>1. PICK s \in {"market", "news", "tags"} : hpc[p] = s /\ s \notin plan[p]
      BY <1>4 DEF NotNeeded, At
    <2>2. calm[p] => (s \in work \ {"news", "reports"} => s \in failed[p] \union NoData)
      BY <2>1 DEF SettledFor, PlannedBy, Areas
    <2>3. QED BY <1>4, <2>1, <2>2, OnwardSettled DEF NotNeeded
  <1>5. CASE StepSucceeds(p)
    BY <1>5, SuccessSettled
  <1>6. CASE StepFails(p) \/ StepAborts(p)
    <2>1. PICK s \in Areas, w \in SUBSET Areas :
            At(p, s) /\ Fails(p, s) /\ Becomes(p, w) /\ WithinReach(s, w)
      BY <1>6, FailureAt
    <2>2. Onward(p) /\ plan' = plan
      BY <1>6 DEF StepFails, StepAborts
    <2>3. QED BY <2>1, <2>2, FailureSettled
  <1>8. CASE StepOnAborted(p)
    <2>1. /\ Onward(p) /\ plan' = plan /\ work' = work /\ calm' = calm
          /\ \E s \in Areas : At(p, s) /\ Fails(p, s)
      BY <1>8 DEF StepOnAborted
    <2>2. QED BY <2>1, SameWithin, FailureSettled
  <1>9. CASE SkipSignals(p)
    <2>1. /\ Onward(p) /\ plan' = plan /\ work' = work /\ calm' = calm
          /\ At(p, "signals") /\ Fails(p, "signals") /\ "signals" \in Areas
      BY <1>9 DEF SkipSignals, Areas
    <2>2. QED BY <2>1, SameWithin, FailureSettled
  <1>10. CASE Reports(p)
    <2>1. CASE UNCHANGED hpc
      BY <1>10, <2>1 DEF Reports, SettledFor, PlannedBy, NoData
    <2>2. CASE Onward(p)
      BY <1>10, <2>2, OnwardSettled DEF Reports, At
    <2>3. QED BY <1>10, <2>1, <2>2 DEF Reports
  <1>11. CASE LookAgain(p)
    <2>1. /\ hpc[p] = "look" /\ Onward(p) /\ work' = work /\ calm' = calm
          /\ plan'[p] = (plan[p] \ {"bars"}) \union (work \intersect {"bars"})
          /\ failed'[p] = failed[p] \ {"bars"}
      BY <1>11 DEF LookAgain, At, CheckTyped
    <2>2. "look" \notin work
      BY DEF CheckTyped, Areas
    <2>3. QED BY <2>1, <2>2, OnwardSettled
  <1>12. CASE Unlock(p)
    <2>1. hpc'[p] = "after"
      BY <1>12 DEF Unlock, Goto, CheckTyped
    <2>2. QED BY <2>1 DEF SettledFor, PlannedBy, Behind, Areas
  <1>13. QED
    BY <1>1, <1>2, <1>3, <1>4, <1>5, <1>6, <1>8, <1>9, <1>10, <1>11, <1>12 DEF HRun

LEMMA NextSettled ==
    ASSUME CheckTyped, Settled, [HNext]_hvars
    PROVE  Settled'
  <1> SUFFICES ASSUME NEW q \in Checks
               PROVE  SettledFor(q)'
    BY DEF Settled
  <1>0. SettledFor(q)
    BY DEF Settled
  <1>1. CASE UNCHANGED hvars
    BY <1>0, <1>1 DEF hvars, SettledFor, PlannedBy, NoData
  <1>2. CASE Arrive
    <2>1. hpc' = hpc /\ (calm'[q] => hpc[q] \in {"off", "gone"})
      BY <1>2 DEF Arrive
    <2>2. QED BY <2>1 DEF SettledFor, PlannedBy, Behind, Areas
  <1>3. ASSUME NEW p \in Checks, dry' = dry,
               HRun(p) \/ Inspect(p) \/ StepFails(p) \/ StepAborts(p) \/ KillCheck(p)
        PROVE  SettledFor(q)'
    <2>1. CASE p = q
      BY <1>0, <1>3, <2>1, OwnSettled
    <2>2. CASE p # q
      BY <1>0, <1>3, <2>2, OthersUndisturbed, UndisturbedSettled
    <2>3. QED BY <2>1, <2>2
  <1>4. QED BY <1>1, <1>2, <1>3 DEF HNext

-----------------------------------------------------------------------------
LEMMA CheckInvariance == HSpec => [](CheckTyped /\ LockHeld /\ Settled)
  <1>1. HInit => CheckTyped /\ LockHeld /\ Settled
    BY InitCheck, InitSettled
  <1>2. CheckTyped /\ LockHeld /\ Settled /\ [HNext]_hvars => (CheckTyped /\ LockHeld /\ Settled)'
    BY NextCheck, NextSettled
  <1>3. QED BY <1>1, <1>2, PTL DEF HSpec

(* Every variable of the health check (tools/health_check.py:main) stays in  *)
(* its range, whatever is pending in the beginning and whoever runs it.      *)
THEOREM CheckTypeTheorem == HSpec => []HTypeOK
  <1>1. CheckTyped => HTypeOK
    BY DEF CheckTyped, HTypeOK, CheckPlaces
  <1>2. QED BY <1>1, CheckInvariance, PTL

(* "one repair run at a time" (tools/health_check.py:55) for any number of   *)
(* health checks: whoever repairs holds the lock, aborted transactions,      *)
(* failing unlocks and dying sessions included.                              *)
THEOREM LockTheorem == HSpec => []OneRepairAtATime
  <1>1. LockHeld => OneRepairAtATime
    BY DEF LockHeld, OneRepairAtATime, Repairing
  <1>2. QED BY <1>1, CheckInvariance, PTL

(* "Repairs, in dependency order" (tools/health_check.py:26) for any work in *)
(* the beginning, any faults, and steps that cannot heal what the source has *)
(* no data for: an undisturbed run that reaches its unlock leaves pending    *)
(* only what it reports as failed or skipped, and what there is no data for  *)
(* (tools/health_check.py:221-222).                                          *)
THEOREM LeftoverTheorem == HSpec => []LeftoverIsWhatFailed
  <1>1. CheckTyped /\ Settled => LeftoverIsWhatFailed
    <2> SUFFICES ASSUME CheckTyped, Settled, NEW p \in Checks, hpc[p] = "unlock", calm[p]
                 PROVE  work \ {"news", "reports"} \subseteq failed[p] \union NoData
      BY DEF LeftoverIsWhatFailed
    <2>1. work \ {"news", "reports"} \subseteq Behind("unlock")
      BY DEF CheckTyped, Areas, Behind
    <2>2. QED BY <2>1 DEF Settled, SettledFor
  <1>2. QED BY <1>1, CheckInvariance, PTL
-----------------------------------------------------------------------------
(* The API's pool. Pools are numbered in the order in which they replace    *)
(* each other. Nobody starts to make one while there is one, so the threads *)
(* that are making one bound the pools to come (PoolsToCome); connections   *)
(* are only from pools that exist, so that a new one begins with none in    *)
(* anybody's hands (Lending).                                               *)

ThreadPlaces == Free \union {"init", "making", "get", "using", "put"}

PoolTyped ==
    /\ dbUp \in BOOLEAN /\ pool \in Nat
    /\ idle \in [Pools -> 0 .. MinConn]
    /\ used \in [Pools -> SUBSET Requests]
    /\ rpc \in [Requests -> ThreadPlaces]
    /\ heldFrom \in [Requests -> Nat]
    /\ broken \in [Requests -> BOOLEAN]

Making == {r \in Requests : rpc[r] = "making"}

PoolsToCome == pool + Cardinality(Making) <= Cardinality(Requests) + 1

Lending ==
    /\ \A r \in Requests :
          /\ heldFrom[r] <= pool
          /\ rpc[r] \in {"using", "put"} <=> heldFrom[r] # 0
          /\ rpc[r] \in {"get", "using", "put"} => pool # 0
          /\ rpc[r] = "unkeyed" => pool > 1
    /\ \A p \in Pools : p > pool => used[p] = {}

Limit ==
    pool # 0 =>
        /\ used[pool] = {r \in Requests : heldFrom[r] = pool}
        /\ idle[pool] + Cardinality(used[pool]) <= MaxConn

PoolInv == PoolTyped /\ PoolsToCome /\ Lending /\ Limit

\* The numbers of the pools, and that the pool in use has one of them.
LEMMA PoolsFacts ==
    /\ Cardinality(Requests) \in Nat
    /\ Pools = 1 .. Cardinality(Requests) + 1
    /\ \A S \in SUBSET Requests : IsFiniteSet(S) /\ Cardinality(S) \in Nat
    /\ \A S \in SUBSET Requests : Cardinality(S) <= Cardinality(Requests)
  BY ApiPoolAssumption, FS_Subset, FS_CardinalityType DEF Pools

LEMMA PoolInUse ==
    ASSUME PoolTyped, PoolsToCome, pool # 0
    PROVE  pool \in Pools
  <1>1. Cardinality(Making) \in Nat
    BY PoolsFacts DEF Making
  <1>2. QED BY <1>1, PoolsFacts DEF PoolTyped, PoolsToCome

LEMMA InitPool == ASSUME AInit PROVE PoolInv
  <1>1. Making = {} /\ Cardinality(Making) = 0
    BY FS_EmptySet DEF AInit, Making
  <1>2. pool \in {0, 1} /\ 1 \in Pools /\ MinConn \in 0 .. MinConn /\ 0 \in 0 .. MinConn
    BY PoolsFacts, ApiPoolAssumption DEF AInit
  <1>3. PoolTyped
    BY <1>2 DEF AInit, PoolTyped, ThreadPlaces, Free
  <1>4. PoolsToCome
    BY <1>1, <1>2, PoolsFacts DEF PoolsToCome
  <1>5. Lending
    BY <1>2, PoolsFacts DEF AInit, Lending
  <1>6. Limit
    <2> SUFFICES ASSUME pool # 0
                 PROVE  /\ used[pool] = {r \in Requests : heldFrom[r] = pool}
                        /\ idle[pool] + Cardinality(used[pool]) <= MaxConn
      BY DEF Limit
    <2>1. used[pool] = {} /\ idle[pool] = MinConn /\ {r \in Requests : heldFrom[r] = pool} = {}
      BY <1>2 DEF AInit
    <2>2. QED BY <2>1, FS_EmptySet, ApiPoolAssumption
  <1>7. QED BY <1>3, <1>4, <1>5, <1>6 DEF PoolInv

\* A request moves on, and no pool or connection does.
LEMMA OnlyMoves ==
    ASSUME PoolInv, NEW r \in Requests, NEW to \in ThreadPlaces, Move(r, to),
           UNCHANGED <<pool, idle, used, heldFrom>>, broken' \in [Requests -> BOOLEAN],
           dbUp' \in BOOLEAN,
           to = "making" => pool = 0,
           to \in {"using", "put"} <=> heldFrom[r] # 0,
           to \in {"get", "using", "put"} => pool # 0,
           to = "unkeyed" => pool > 1
    PROVE  PoolInv'
  <1>1. rpc' \in [Requests -> ThreadPlaces] /\ rpc'[r] = to /\ \A q \in Requests : q # r => rpc'[q] = rpc[q]
    BY DEF PoolInv, PoolTyped, Move
  <1>2. PoolTyped'
    BY <1>1 DEF PoolInv, PoolTyped
  <1>3. Lending'
    BY <1>1 DEF PoolInv, Lending
  <1>4. Limit'
    BY DEF PoolInv, Limit
  <1>5. PoolsToCome'
    <2>1. CASE to = "making"
      <3>1. Making' \in SUBSET Requests
        BY DEF Making
      <3>2. Cardinality(Making') <= Cardinality(Requests) /\ Cardinality(Making') \in Nat
        BY <3>1, PoolsFacts
      <3>3. QED BY <2>1, <3>2, PoolsFacts DEF PoolsToCome
    <2>2. CASE to # "making"
      <3>1. Making' \in SUBSET Making /\ Making \in SUBSET Requests
        BY <1>1, <2>2 DEF Making
      <3>2. IsFiniteSet(Making) /\ Cardinality(Making) \in Nat /\ Cardinality(Making') \in Nat
        BY <3>1, PoolsFacts
      <3>3. Cardinality(Making') <= Cardinality(Making)
        BY <3>1, <3>2, FS_Subset
      <3>4. QED BY <3>2, <3>3, PoolsFacts DEF PoolInv, PoolsToCome, PoolTyped
    <2>3. QED BY <2>1, <2>2
  <1>6. QED BY <1>2, <1>3, <1>4, <1>5 DEF PoolInv

LEMMA MakeInv ==
    ASSUME PoolInv, NEW r \in Requests, MakePool(r), dbUp
    PROVE  PoolInv'
  <1>1. rpc[r] = "making" /\ pool' = pool + 1 /\ rpc' = [rpc EXCEPT ![r] = "get"]
        /\ idle' = [idle EXCEPT ![pool + 1] = MinConn]
        /\ UNCHANGED <<dbUp, used, heldFrom, broken>>
    BY DEF MakePool, Move
  <1>2. Making' = Making \ {r} /\ r \in Making /\ Making \in SUBSET Requests
    BY <1>1 DEF PoolInv, PoolTyped, Making
  <1>3. Cardinality(Making') = Cardinality(Making) - 1 /\ Cardinality(Making) \in Nat
        /\ Cardinality(Making) # 0
    <2>1. IsFiniteSet(Making) /\ Cardinality(Making) \in Nat
      BY <1>2, PoolsFacts
    <2>2. Cardinality(Making) # 0
      BY <1>2, <2>1, FS_EmptySet
    <2>3. Cardinality(Making') = Cardinality(Making) - 1
      BY <1>2, <2>1, FS_RemoveElement
    <2>4. QED BY <2>1, <2>2, <2>3
  <1>4. PoolsToCome' /\ pool + 1 \in Pools
    BY <1>1, <1>3, PoolsFacts DEF PoolInv, PoolsToCome, PoolTyped
  <1>5. PoolTyped'
    BY <1>1, <1>4, ApiPoolAssumption DEF PoolInv, PoolTyped, ThreadPlaces
  <1>6. rpc'[r] = "get" /\ \A q \in Requests : q # r => rpc'[q] = rpc[q]
    BY <1>1 DEF PoolInv, PoolTyped
  <1>7. pool \in Nat /\ \A q \in Requests : heldFrom[q] \in Nat /\ heldFrom[q] <= pool
    BY DEF PoolInv, PoolTyped, Lending
  <1>8. Lending'
    <2>1. \A q \in Requests : /\ heldFrom'[q] <= pool'
                              /\ rpc'[q] \in {"using", "put"} <=> heldFrom'[q] # 0
                              /\ rpc'[q] \in {"get", "using", "put"} => pool' # 0
                              /\ rpc'[q] = "unkeyed" => pool' > 1
      BY <1>1, <1>6, <1>7 DEF PoolInv, Lending
    <2>2. \A p \in Pools : p > pool' => used'[p] = {}
      BY <1>1, <1>7, PoolsFacts DEF PoolInv, Lending
    <2>3. QED BY <2>1, <2>2 DEF Lending
  <1>9. Limit'
    <2>1. used'[pool'] = {}
      BY <1>1, <1>4, <1>7, PoolsFacts DEF PoolInv, Lending
    <2>2. {q \in Requests : heldFrom'[q] = pool'} = {}
      BY <1>1, <1>7
    <2>3. idle'[pool'] = MinConn
      BY <1>1, <1>4 DEF PoolInv, PoolTyped
    <2>4. idle'[pool'] + Cardinality(used'[pool']) <= MaxConn
      BY <2>1, <2>3, FS_EmptySet, ApiPoolAssumption
    <2>5. QED BY <2>1, <2>2, <2>4 DEF Limit
  <1>10. QED BY <1>4, <1>5, <1>8, <1>9 DEF PoolInv

\* A connection comes out of the pool: a kept one, or a new one within the limit.
LEMMA LendInv ==
    ASSUME PoolInv, NEW r \in Requests, rpc[r] = "get", Lend(r), UNCHANGED <<dbUp, pool>>,
           \/ idle[pool] > 0 /\ idle' = [idle EXCEPT ![pool] = @ - 1]
           \/ idle' = idle /\ idle[pool] + Cardinality(used[pool]) < MaxConn
    PROVE  PoolInv'
  <1>1. pool \in Pools /\ pool \in Nat /\ pool # 0 /\ heldFrom[r] = 0
    BY PoolInUse DEF PoolInv, Lending, PoolTyped
  <1>2. /\ used' = [used EXCEPT ![pool] = @ \union {r}]
        /\ heldFrom' = [heldFrom EXCEPT ![r] = pool]
        /\ broken' = [broken EXCEPT ![r] = FALSE]
        /\ rpc' = [rpc EXCEPT ![r] = "using"]
    BY DEF Lend, Move
  <1>3. idle' \in [Pools -> 0 .. MinConn]
    BY <1>1, ApiPoolAssumption DEF PoolInv, PoolTyped
  <1>4. PoolTyped'
    BY <1>1, <1>2, <1>3 DEF PoolInv, PoolTyped, ThreadPlaces
  <1>5. /\ rpc'[r] = "using" /\ heldFrom'[r] = pool
        /\ \A q \in Requests : q # r => rpc'[q] = rpc[q] /\ heldFrom'[q] = heldFrom[q]
        /\ used'[pool] = used[pool] \union {r}
        /\ \A p \in Pools : p # pool => used'[p] = used[p]
    BY <1>1, <1>2 DEF PoolInv, PoolTyped
  <1>6. PoolsToCome'
    <2>1. Making' = Making
      BY <1>5 DEF Making
    <2>2. QED BY <2>1 DEF PoolInv, PoolsToCome
  <1>7. Lending'
    BY <1>1, <1>5, PoolsFacts DEF PoolInv, Lending
  <1>8. Limit'
    <2>1. used[pool] = {q \in Requests : heldFrom[q] = pool} /\ r \notin used[pool]
          /\ idle[pool] + Cardinality(used[pool]) <= MaxConn
      BY <1>1 DEF PoolInv, Limit
    <2>2. used'[pool] = {q \in Requests : heldFrom'[q] = pool}
      BY <1>5, <2>1
    <2>3. IsFiniteSet(used[pool]) /\ Cardinality(used[pool]) \in Nat
      BY <2>1, PoolsFacts
    <2>4. Cardinality(used'[pool]) = Cardinality(used[pool]) + 1
      BY <1>5, <2>1, <2>3, FS_AddElement
    <2>5. idle[pool] \in Nat /\ idle'[pool] \in {idle[pool], idle[pool] - 1}
          /\ (idle'[pool] = idle[pool] - 1 \/ idle[pool] + Cardinality(used[pool]) < MaxConn)
      BY <1>1, ApiPoolAssumption DEF PoolInv, PoolTyped
    <2>6. idle'[pool] + Cardinality(used'[pool]) <= MaxConn
      BY <2>1, <2>3, <2>4, <2>5, ApiPoolAssumption
    <2>7. QED BY <2>2, <2>6 DEF Limit
  <1>9. QED BY <1>4, <1>6, <1>7, <1>8 DEF PoolInv

\* A connection goes back, to the pool it is from or to none.
LEMMA PutInv ==
    ASSUME PoolInv, NEW r \in Requests, PutConn(r)
    PROVE  PoolInv'
  <1>1. /\ rpc[r] = "put" /\ heldFrom' = [heldFrom EXCEPT ![r] = 0]
        /\ UNCHANGED <<dbUp, pool, broken>>
    BY DEF PutConn
  <1>2. pool \in Pools /\ pool \in Nat /\ pool # 0 /\ heldFrom[r] # 0 /\ heldFrom[r] <= pool
        /\ heldFrom[r] \in Nat
    BY <1>1, PoolInUse DEF PoolInv, Lending, PoolTyped
  <1>3. PICK to \in {"unkeyed", "503", "200"} :
          rpc' = [rpc EXCEPT ![r] = to] /\ (to = "unkeyed" => heldFrom[r] # pool)
    BY DEF PutConn, Move
  <1>4. /\ rpc'[r] = to /\ heldFrom'[r] = 0
        /\ \A q \in Requests : q # r => rpc'[q] = rpc[q] /\ heldFrom'[q] = heldFrom[q]
        /\ rpc' \in [Requests -> ThreadPlaces] /\ heldFrom' \in [Requests -> Nat]
    BY <1>1, <1>3 DEF PoolInv, PoolTyped, ThreadPlaces, Free, Replies
  <1>5. PoolsToCome'
    <2>1. Making' = Making
      BY <1>1, <1>4 DEF Making
    <2>2. QED BY <1>1, <2>1 DEF PoolInv, PoolsToCome
  <1>6. \A q \in Requests :
          /\ heldFrom'[q] <= pool'
          /\ rpc'[q] \in {"using", "put"} <=> heldFrom'[q] # 0
          /\ rpc'[q] \in {"get", "using", "put"} => pool' # 0
          /\ rpc'[q] = "unkeyed" => pool' > 1
    BY <1>1, <1>2, <1>3, <1>4 DEF PoolInv, Lending
  <1>7. used[pool] = {q \in Requests : heldFrom[q] = pool}
        /\ idle[pool] + Cardinality(used[pool]) <= MaxConn
    BY <1>2 DEF PoolInv, Limit
  <1>8. CASE heldFrom[r] # pool
    <2>1. UNCHANGED <<used, idle>>
      BY <1>8 DEF PutConn
    <2>2. PoolTyped' /\ Lending'
      BY <1>1, <1>4, <1>6, <2>1 DEF PoolInv, PoolTyped, Lending
    <2>3. {q \in Requests : heldFrom'[q] = pool} = {q \in Requests : heldFrom[q] = pool}
      BY <1>2, <1>4, <1>8
    <2>4. Limit'
      BY <1>1, <1>7, <2>1, <2>3 DEF Limit
    <2>5. QED BY <1>5, <2>2, <2>4 DEF PoolInv
  <1>9. CASE heldFrom[r] = pool
    <2>1. /\ used' = [used EXCEPT ![pool] = @ \ {r}]
          /\ idle' = [idle EXCEPT ![pool] = IF @ < MinConn /\ ~ broken[r] THEN @ + 1 ELSE @]
      BY <1>9 DEF PutConn
    <2>2. used'[pool] = used[pool] \ {r} /\ (\A p \in Pools : p # pool => used'[p] = used[p])
          /\ used' \in [Pools -> SUBSET Requests]
      BY <1>2, <2>1 DEF PoolInv, PoolTyped
    <2>3. idle[pool] \in 0 .. MinConn /\ idle'[pool] \in {idle[pool], idle[pool] + 1}
          /\ idle' \in [Pools -> 0 .. MinConn]
      BY <1>2, <2>1, ApiPoolAssumption DEF PoolInv, PoolTyped
    <2>4. PoolTyped'
      BY <1>1, <1>4, <2>2, <2>3 DEF PoolInv, PoolTyped
    <2>5. Lending'
      BY <1>1, <1>2, <1>6, <2>2, PoolsFacts DEF PoolInv, Lending
    <2>6. used'[pool] = {q \in Requests : heldFrom'[q] = pool}
      BY <1>2, <1>4, <1>7, <2>2
    <2>7. IsFiniteSet(used[pool]) /\ Cardinality(used[pool]) \in Nat /\ r \in used[pool]
      BY <1>7, <1>9, PoolsFacts
    <2>8. Cardinality(used'[pool]) = Cardinality(used[pool]) - 1
      BY <2>2, <2>7, FS_RemoveElement
    <2>9. idle'[pool] + Cardinality(used'[pool]) <= MaxConn
      BY <1>7, <2>3, <2>7, <2>8, ApiPoolAssumption
    <2>10. Limit'
      BY <1>1, <2>6, <2>9 DEF Limit
    <2>11. QED BY <1>5, <2>4, <2>5, <2>10 DEF PoolInv
  <1>10. QED BY <1>8, <1>9

LEMMA NextPool == ASSUME PoolInv, [ANext]_avars PROVE PoolInv'
  <1>1. CASE UNCHANGED avars
    BY <1>1 DEF avars, PoolInv, PoolTyped, PoolsToCome, Making, Lending, Limit
  <1>2. CASE DbChanges
    BY <1>2 DEF DbChanges, PoolInv, PoolTyped, PoolsToCome, Making, Lending, Limit
  <1> SUFFICES ASSUME NEW r \in Requests,
                      BeginRequest(r) \/ PassInit(r) \/ MakePool(r) \/ GetConn(r) \/ Query(r) \/ PutConn(r)
               PROVE  PoolInv'
    BY <1>1, <1>2 DEF ANext
  <1>3. broken \in [Requests -> BOOLEAN] /\ dbUp \in BOOLEAN /\ pool \in Nat
        /\ (rpc[r] \in {"using", "put"} <=> heldFrom[r] # 0)
        /\ (rpc[r] \in {"get", "using", "put"} => pool # 0)
    BY DEF PoolInv, PoolTyped, Lending
  <1>4. CASE BeginRequest(r) \/ PassInit(r)
    <2>1. PICK to \in {"init", "making", "get"} :
            /\ Move(r, to) /\ UNCHANGED <<dbUp, pool, idle, used, heldFrom, broken>>
            /\ (to = "making" => pool = 0) /\ (to = "get" => pool # 0)
      BY <1>4 DEF BeginRequest, PassInit
    <2>2. heldFrom[r] = 0
      BY <1>3, <1>4 DEF BeginRequest, PassInit, Free, Replies
    <2>3. to \in ThreadPlaces
      BY DEF ThreadPlaces
    <2>4. QED BY <1>3, <2>1, <2>2, <2>3, OnlyMoves
  <1>5. CASE MakePool(r)
    <2>1. CASE dbUp
      BY <1>5, <2>1, MakeInv
    <2>2. CASE ~ dbUp
      <3>1. Move(r, "503") /\ UNCHANGED <<dbUp, pool, idle, used, heldFrom, broken>>
        BY <1>5, <2>2 DEF MakePool
      <3>2. heldFrom[r] = 0 /\ "503" \in ThreadPlaces
        BY <1>3, <1>5 DEF MakePool, ThreadPlaces, Free, Replies
      <3>3. QED BY <1>3, <3>1, <3>2, OnlyMoves
    <2>3. QED BY <2>1, <2>2
  <1>6. CASE GetConn(r)
    <2>1. rpc[r] = "get" /\ UNCHANGED <<dbUp, pool>> /\ heldFrom[r] = 0
      BY <1>3, <1>6 DEF GetConn
    <2>2. CASE idle[pool] > 0
      BY <1>6, <2>1, <2>2, LendInv DEF GetConn
    <2>3. CASE ~ (idle[pool] > 0)
      <3>1. idle[pool] = 0 /\ idle' = idle
        <4>1. pool \in Pools
          BY <1>3, <2>1, PoolInUse DEF PoolInv
        <4>2. idle[pool] \in 0 .. MinConn
          BY <4>1 DEF PoolInv, PoolTyped
        <4>3. QED BY <1>6, <2>3, <4>2, ApiPoolAssumption DEF GetConn
      <3>2. CASE Lend(r) /\ Cardinality(used[pool]) < MaxConn
        <4>1. Cardinality(used[pool]) \in Nat
          <5>1. used[pool] \in SUBSET Requests
            BY <1>3, <2>1, PoolInUse DEF PoolInv, PoolTyped
          <5>2. QED BY <5>1, PoolsFacts
        <4>2. idle[pool] + Cardinality(used[pool]) < MaxConn
          BY <3>1, <3>2, <4>1
        <4>3. QED BY <2>1, <3>1, <3>2, <4>2, LendInv
      <3>3. CASE \E to \in {"exhausted", "503"} : Move(r, to) /\ UNCHANGED <<used, heldFrom, broken>>
        <4>1. PICK to \in {"exhausted", "503"} : Move(r, to) /\ UNCHANGED <<used, heldFrom, broken>>
          BY <3>3
        <4>2. to \in ThreadPlaces
          BY DEF ThreadPlaces, Free, Replies
        <4>3. QED BY <1>3, <2>1, <3>1, <4>1, <4>2, OnlyMoves
      <3>4. QED BY <1>6, <2>3, <3>2, <3>3 DEF GetConn
    <2>4. QED BY <2>2, <2>3
  <1>7. CASE Query(r)
    <2>1. Move(r, "put") /\ UNCHANGED <<dbUp, pool, idle, used, heldFrom>> /\ rpc[r] = "using"
          /\ broken' \in [Requests -> BOOLEAN]
      BY <1>3, <1>7 DEF Query
    <2>2. "put" \in ThreadPlaces
      BY DEF ThreadPlaces
    <2>3. QED BY <1>3, <2>1, <2>2, OnlyMoves
  <1>8. CASE PutConn(r)
    BY <1>8, PutInv
  <1>9. QED BY <1>4, <1>5, <1>6, <1>7, <1>8

LEMMA PoolInvariance == ASpec => []PoolInv
  BY InitPool, NextPool, PTL DEF ASpec

(* Every variable of the pool (api/db.py) stays in its range: there are      *)
(* never more pools than threads, and one, however the threads interleave.   *)
THEOREM PoolTypeTheorem == ASpec => []ATypeOK
  <1>1. PoolInv => ATypeOK
    <2> SUFFICES ASSUME PoolInv
                 PROVE  ATypeOK
      OBVIOUS
    <2>1. pool \in Pools \union {0}
      BY PoolInUse DEF PoolInv
    <2>2. \A r \in Requests : heldFrom[r] \in Pools \union {0}
      BY <2>1, PoolsFacts DEF PoolInv, PoolTyped, Lending
    <2>3. QED BY <2>1, <2>2 DEF PoolInv, PoolTyped, ATypeOK, ThreadPlaces
  <1>2. QED BY <1>1, PoolInvariance, PTL

(* api/db.py:48 for any number of threads and any limits: the pool in use    *)
(* counts as lent exactly what is in the hands of a request, keeps to its    *)
(* limit, and refuses a connection only behind a second pool.                *)
THEOREM PoolTheorem == ASpec => []PoolIsConsistent
  <1>1. PoolInv => PoolIsConsistent
    BY DEF PoolInv, Lending, Limit, PoolIsConsistent
  <1>2. QED BY <1>1, PoolInvariance, PTL
-----------------------------------------------------------------------------
(* The pollers. Who remembers a URL need not run for the invariant: a       *)
(* process that ends takes its memory with it.                              *)

Remembered ==
    /\ running \subseteq PollerNames
    /\ seen \in [PollerNames -> SUBSET Urls]
    /\ \A p \in PollerNames : \A u \in seen[p] :
          \E msg \in sent \union news \union gone : msg.url = u

LEMMA MessageUrl == \A u, feed : Message(u, feed).url = u
  BY DEF Message

LEMMA EndRemembers ==
    ASSUME Remembered, NEW accepted, ProcessEnds(accepted)
    PROVE  Remembered'
  <1>1. running' = {} /\ seen' = [p \in PollerNames |-> {}]
    BY DEF ProcessEnds
  <1>2. QED BY <1>1 DEF Remembered

LEMMA NextRemembers == ASSUME Remembered, [PNext]_pvars PROVE Remembered'
  <1>1. CASE UNCHANGED pvars
    BY <1>1 DEF Remembered, pvars
  <1>2. CASE TimeGoesOn
    BY <1>2 DEF TimeGoesOn, Remembered
  <1>3. CASE StartPollers
    <2>1. running' \subseteq PollerNames
      BY <1>3 DEF StartPollers, ResolveSources, PollerNames
    <2>2. UNCHANGED <<seen, sent, news, gone>>
      BY <1>3 DEF StartPollers
    <2>3. QED BY <2>1, <2>2 DEF Remembered
  <1>4. CASE KillPollers
    BY <1>4, EndRemembers DEF KillPollers
  <1>5. CASE StoreNews \/ LoseNews
    <2>1. UNCHANGED <<running, seen>>
      BY <1>5 DEF StoreNews, LoseNews
    <2>2. sent' \union news' \union gone' = sent \union news \union gone
      BY <1>5 DEF StoreNews, LoseNews
    <2>3. QED BY <2>1, <2>2 DEF Remembered
  <1>6. CASE \E p \in running : FetchFeedFails(p)
    BY <1>6 DEF FetchFeedFails, Remembered
  <1>7. ASSUME NEW p \in running, NEW entries \in SUBSET Urls, PollFeed(p, entries)
        PROVE  Remembered'
    <2> DEFINE feed == FeedsOf(p)[feedAt[p]]
               fresh == entries \ seen[p]
    <2>1. /\ seen' = [seen EXCEPT ![p] = @ \union fresh]
          /\ sent' = sent \union {Message(u, feed) : u \in fresh}
          /\ UNCHANGED <<running, news, gone>>
      BY <1>7 DEF PollFeed
    <2> HIDE DEF feed
    <2>2. seen' \in [PollerNames -> SUBSET Urls]
      BY <2>1 DEF Remembered
    <2>3. ASSUME NEW q \in PollerNames, NEW u \in seen'[q]
          PROVE  \E msg \in sent' \union news' \union gone' : msg.url = u
      <3>1. CASE u \in seen[q]
        BY <2>1, <3>1 DEF Remembered
      <3>2. CASE u \notin seen[q]
        <4>1. u \in fresh
          BY <2>1, <3>2 DEF Remembered
        <4>2. Message(u, feed) \in sent'
          BY <2>1, <4>1
        <4>3. QED BY <4>2, MessageUrl
      <3>3. QED BY <3>1, <3>2
    <2>4. QED BY <2>1, <2>2, <2>3 DEF Remembered
  <1>8. ASSUME NEW p \in running, NEW early \in SUBSET Urls, NEW u \in Urls, SendRaises(p, early, u)
        PROVE  Remembered'
    BY <1>8, EndRemembers DEF SendRaises
  <1>9. QED BY <1>1, <1>2, <1>3, <1>4, <1>5, <1>6, <1>7, <1>8 DEF PNext

(* ingestion/sentiment/news_rss_poller.py:73 and gdelt_poller.py:178, for    *)
(* any articles and feeds: of what a running process will not look at again, *)
(* each article is stored, on its way, or was lost after it was accepted.    *)
THEOREM SeenTheorem == PSpec => []SeenMeansSent
  <1>1. PInit => Remembered
    BY DEF PInit, Remembered
  <1>2. Remembered => SeenMeansSent
    BY DEF Remembered, SeenMeansSent
  <1>3. QED BY <1>1, <1>2, NextRemembers, PTL DEF PSpec

PollersTyped ==
    /\ PTypeOK /\ DOMAIN feedAt = PollerNames
    /\ seen \in [PollerNames -> SUBSET Urls]

LEMMA FeedsOfPoller ==
    ASSUME NEW p \in PollerNames
    PROVE  Len(FeedsOf(p)) \in Nat \ {0} /\ DOMAIN FeedsOf(p) = 1 .. Len(FeedsOf(p))
  <1>1. CASE p = "rss"
    <2>1. RssFeeds \in Seq({RssFeeds[i] : i \in DOMAIN RssFeeds}) /\ RssFeeds # << >>
      BY PollersAssumption
    <2>2. QED BY <1>1, <2>1 DEF FeedsOf
  <1>2. CASE p # "rss"
    <2>1. FeedsOf(p) = <<GdeltFeed>>
      BY <1>2 DEF FeedsOf
    <2>2. QED BY <2>1
  <1>3. QED BY <1>1, <1>2

LEMMA NextFeedTyped ==
    ASSUME PollersTyped, NEW p \in PollerNames, NextFeed(p)
    PROVE  DOMAIN feedAt' = PollerNames /\ \A q \in PollerNames : feedAt'[q] \in DOMAIN FeedsOf(q)
  <1>1. feedAt[p] \in 1 .. Len(FeedsOf(p)) /\ Len(FeedsOf(p)) \in Nat \ {0}
    BY FeedsOfPoller DEF PollersTyped, PTypeOK
  <1>2. (feedAt[p] % Len(FeedsOf(p))) + 1 \in 1 .. Len(FeedsOf(p))
    BY <1>1
  <1>3. feedAt' = [feedAt EXCEPT ![p] = (feedAt[p] % Len(FeedsOf(p))) + 1]
    BY DEF NextFeed
  <1>4. QED BY <1>2, <1>3, FeedsOfPoller DEF PollersTyped, PTypeOK

LEMMA FirstFeedTyped ==
    ASSUME feedAt' = [p \in PollerNames |-> 1]
    PROVE  DOMAIN feedAt' = PollerNames /\ \A q \in PollerNames : feedAt'[q] \in DOMAIN FeedsOf(q)
  BY FeedsOfPoller

LEMMA FaultCounted ==
    ASSUME PTypeOK, PFault
    PROVE  pfaults' \in 0 .. MaxPFaults
  BY PollersAssumption DEF PTypeOK, PFault

LEMMA EndTyped ==
    ASSUME PollersTyped, NEW accepted, ProcessEnds(accepted), PFault, pclock' = pclock, news' = news,
           \A msg \in accepted : msg.url \in Urls
    PROVE  PollersTyped'
  <1>1. /\ running' = {} /\ seen' = [q \in PollerNames |-> {}] /\ gone' = {}
        /\ \A msg \in sent' : msg \in accepted
    BY DEF ProcessEnds
  <1>2. DOMAIN feedAt' = PollerNames /\ \A q \in PollerNames : feedAt'[q] \in DOMAIN FeedsOf(q)
    BY FirstFeedTyped DEF ProcessEnds
  <1>3. QED BY <1>1, <1>2, FaultCounted DEF PollersTyped, PTypeOK

LEMMA NextPollersTyped == ASSUME PollersTyped, [PNext]_pvars PROVE PollersTyped'
  <1>1. CASE UNCHANGED pvars
    BY <1>1 DEF PollersTyped, PTypeOK, pvars
  <1>2. CASE TimeGoesOn
    BY <1>2, PollersAssumption DEF TimeGoesOn, PollersTyped, PTypeOK
  <1>3. CASE StartPollers
    <2>1. running' \subseteq PollerNames
      BY <1>3 DEF StartPollers, ResolveSources, PollerNames
    <2>2. DOMAIN feedAt' = PollerNames /\ \A q \in PollerNames : feedAt'[q] \in DOMAIN FeedsOf(q)
      BY <1>3, FirstFeedTyped DEF StartPollers
    <2>3. QED BY <1>3, <2>1, <2>2 DEF StartPollers, PollersTyped, PTypeOK
  <1>4. CASE KillPollers
    BY <1>4, EndTyped DEF KillPollers, PollersTyped, PTypeOK
  <1>5. CASE StoreNews
    BY <1>5 DEF StoreNews, PollersTyped, PTypeOK
  <1>6. CASE LoseNews
    BY <1>6, FaultCounted DEF LoseNews, PollersTyped, PTypeOK
  <1>7. ASSUME NEW p \in running, FetchFeedFails(p)
        PROVE  PollersTyped'
    BY <1>7, NextFeedTyped, FaultCounted DEF FetchFeedFails, PollersTyped, PTypeOK
  <1>8. ASSUME NEW p \in running, NEW entries \in SUBSET Urls, PollFeed(p, entries)
        PROVE  PollersTyped'
    <2>1. p \in PollerNames
      BY DEF PollersTyped, PTypeOK
    <2>2. DOMAIN feedAt' = PollerNames /\ \A q \in PollerNames : feedAt'[q] \in DOMAIN FeedsOf(q)
      BY <1>8, <2>1, NextFeedTyped DEF PollFeed
    <2>3. seen' \in [PollerNames -> SUBSET Urls]
      BY <1>8 DEF PollFeed, PollersTyped
    <2>4. \A msg \in sent' : msg \in sent \/ \E u \in Urls, feed \in {FeedsOf(p)[feedAt[p]]} : msg = Message(u, feed)
      BY <1>8 DEF PollFeed
    <2>5. \A msg \in sent' : msg.url \in Urls
      BY <2>4, MessageUrl DEF PollersTyped, PTypeOK
    <2>6. QED BY <1>8, <2>2, <2>3, <2>5 DEF PollFeed, PollersTyped, PTypeOK
  <1>9. ASSUME NEW p \in running, NEW early \in SUBSET Urls, NEW u \in Urls, SendRaises(p, early, u)
        PROVE  PollersTyped'
    <2> DEFINE accepted == sent \union {Message(v, FeedsOf(p)[feedAt[p]]) : v \in early \ seen[p]}
    <2>1. \A msg \in accepted : msg.url \in Urls
      BY MessageUrl DEF PollersTyped, PTypeOK
    <2>2. PFault /\ ProcessEnds(accepted) /\ news' = news /\ pclock' = pclock
      BY <1>9 DEF SendRaises
    <2> HIDE DEF accepted
    <2>3. QED BY <2>1, <2>2, EndTyped
  <1>10. QED BY <1>1, <1>2, <1>3, <1>4, <1>5, <1>6, <1>7, <1>8, <1>9 DEF PNext

(* The pollers keep the types of their state.                                *)
THEOREM PollersTypeTheorem == PSpec => []PTypeOK
  <1>1. PInit => PollersTyped
    BY FeedsOfPoller, PollersAssumption DEF PInit, PollersTyped, PTypeOK
  <1>2. PollersTyped => PTypeOK
    BY DEF PollersTyped
  <1>3. QED BY <1>1, <1>2, NextPollersTyped, PTL DEF PSpec
-----------------------------------------------------------------------------
(* A GDELT cycle.                                                           *)

LEMMA BackoffTyped == ASSUME NEW k \in 1 .. MaxTries PROVE ComputeBackoff(k) \subseteq Nat
  <1>1. 2 ^ (k - 1) \in Nat
    BY PowerOfTwo, PollersAssumption
  <1> DEFINE power == 2 ^ (k - 1)
  <1> HIDE DEF power
  <1>2. FirstBackoff * power \in Nat
    BY <1>1, PollersAssumption DEF power
  <1>3. Lesser(FirstBackoff * power, MaxBackoff) \in Nat
    BY <1>2, PollersAssumption DEF Lesser
  <1>4. \A j \in Jitters : Lesser(FirstBackoff * power, MaxBackoff) + j \in Nat
    BY <1>3, PollersAssumption
  <1>5. QED BY <1>4 DEF ComputeBackoff, power

LEMMA LongestIsLongest ==
    /\ Longest(RequestTimes) \in Nat /\ \A r \in RequestTimes : r <= Longest(RequestTimes)
    /\ Longest(RssBlocks) \in Nat /\ \A b \in RssBlocks : b <= Longest(RssBlocks)
  <1>1. \E t \in RequestTimes : \A r \in RequestTimes : r <= t
    BY LargestMember, PollersAssumption
  <1>2. \E t \in RssBlocks : \A b \in RssBlocks : b <= t
    BY LargestMember, PollersAssumption
  <1>3. QED BY <1>1, <1>2, PollersAssumption DEF Longest

InBudget ==
    /\ tries \in 1 .. MaxTries
    /\ spent \in Nat
    /\ spent <= RetryBudget + Longest(RequestTimes) + 2 * Longest(RssBlocks)

\* The wait ends with the budget; the request before it and what blocks the
\* event loop on both sides of it do not.
LEMMA WaitInBudget ==
    ASSUME InBudget, NEW r \in Request, NEW b \in RssBlocks, NEW w \in Nat,
           NEW left \in {RetryBudget - spent, RetryBudget - spent - r}, left > 0, spent < RetryBudget
    PROVE  LET then == spent + r + Wait(w, left) + b
           IN  then \in Nat /\ then <= RetryBudget + Longest(RequestTimes) + 2 * Longest(RssBlocks)
  <1>1. PICK q \in RequestTimes, a \in RssBlocks : r = q + a
    BY DEF Request
  <1>2. q \in Nat /\ a \in Nat /\ b \in Nat /\ spent \in Nat /\ RetryBudget \in Nat
    BY PollersAssumption DEF InBudget
  <1>3. Wait(w, left) \in Nat /\ Wait(w, left) <= RetryBudget - spent
    BY <1>1, <1>2 DEF Wait, Lesser
  <1>4. q <= Longest(RequestTimes) /\ a <= Longest(RssBlocks) /\ b <= Longest(RssBlocks)
    BY LongestIsLongest
  <1> DEFINE wait == Wait(w, left)
             longRequest == Longest(RequestTimes)
             longBlock == Longest(RssBlocks)
  <1>5. wait \in Nat /\ longRequest \in Nat /\ longBlock \in Nat
    BY <1>3, LongestIsLongest
  <1> HIDE DEF wait, longRequest, longBlock
  <1>6. spent + r + wait + b \in Nat /\ spent + r + wait + b <= RetryBudget + longRequest + 2 * longBlock
    BY <1>1, <1>2, <1>3, <1>4, <1>5 DEF wait, longRequest, longBlock
  <1>7. QED BY <1>6 DEF wait, longRequest, longBlock

LEMMA RequestInBudget ==
    ASSUME InBudget, NEW r \in Request, spent < RetryBudget
    PROVE  /\ r \in Nat /\ spent + r \in Nat
           /\ spent + r <= RetryBudget + Longest(RequestTimes) + 2 * Longest(RssBlocks)
  <1>1. PICK q \in RequestTimes, a \in RssBlocks : r = q + a
    BY DEF Request
  <1>2. q \in Nat /\ a \in Nat /\ spent \in Nat /\ RetryBudget \in Nat
    BY PollersAssumption DEF InBudget
  <1>3. q <= Longest(RequestTimes) /\ a <= Longest(RssBlocks)
    BY LongestIsLongest
  <1>4. QED BY <1>1, <1>2, <1>3, LongestIsLongest

LEMMA NextInBudget == ASSUME InBudget, [GNext]_gvars PROVE InBudget'
  <1>1. CASE UNCHANGED gvars \/ BudgetExhausted
    BY <1>1 DEF gvars, BudgetExhausted, Return, InBudget
  <1>2. CASE Answered
    <2>1. PICK r \in Request : spent' = spent + r /\ spent < RetryBudget /\ tries' = tries
      BY <1>2 DEF Answered, Return
    <2>2. QED BY <2>1, RequestInBudget DEF InBudget
  <1>3. CASE RequestFails
    <2>1. PICK r \in Request, b \in RssBlocks, w \in ComputeBackoff(tries) :
             IF tries = MaxTries
               THEN Return /\ spent' = spent + r
               ELSE /\ tries' = tries + 1 /\ UNCHANGED cycleOver
                    /\ spent' = spent + r + Wait(w, RetryBudget - spent) + b
      BY <1>3 DEF RequestFails
    <2>2. spent < RetryBudget /\ w \in Nat
      BY <1>3, BackoffTyped DEF RequestFails, InBudget
    <2>3. CASE tries = MaxTries
      BY <2>1, <2>2, <2>3, RequestInBudget DEF InBudget, Return
    <2>4. CASE tries # MaxTries
      <3>1. RetryBudget - spent > 0
        BY <2>2, PollersAssumption DEF InBudget
      <3>2. tries' \in 1 .. MaxTries
        BY <2>1, <2>4, PollersAssumption DEF InBudget
      <3>3. spent' \in Nat /\ spent' <= RetryBudget + Longest(RequestTimes) + 2 * Longest(RssBlocks)
        BY <2>1, <2>2, <2>4, <3>1, WaitInBudget
      <3>4. QED BY <3>2, <3>3 DEF InBudget
    <2>5. QED BY <2>3, <2>4
  <1>4. CASE RateLimited
    <2>1. PICK r \in Request, b \in RssBlocks, w \in ComputeBackoff(tries) :
             IF tries = MaxTries \/ spent + r >= RetryBudget
               THEN Return /\ spent' = spent + r
               ELSE /\ tries' = tries + 1 /\ UNCHANGED cycleOver
                    /\ spent' = spent + r + Wait(w, RetryBudget - spent - r) + b
      BY <1>4 DEF RateLimited
    <2>2. spent < RetryBudget /\ w \in Nat
      BY <1>4, BackoffTyped DEF RateLimited, InBudget
    <2>3. CASE tries = MaxTries \/ spent + r >= RetryBudget
      BY <2>1, <2>2, <2>3, RequestInBudget DEF InBudget, Return
    <2>4. CASE ~ (tries = MaxTries \/ spent + r >= RetryBudget)
      <3>1. RetryBudget - spent - r > 0
        BY <2>2, <2>4, RequestInBudget, PollersAssumption DEF InBudget
      <3>2. tries' \in 1 .. MaxTries
        BY <2>1, <2>4, PollersAssumption DEF InBudget
      <3>3. spent' \in Nat /\ spent' <= RetryBudget + Longest(RequestTimes) + 2 * Longest(RssBlocks)
        BY <2>1, <2>2, <2>4, <3>1, WaitInBudget
      <3>4. QED BY <3>2, <3>3 DEF InBudget
    <2>5. QED BY <2>3, <2>4
  <1>5. QED BY <1>1, <1>2, <1>3, <1>4 DEF GNext

LEMMA InitInBudget == ASSUME GInit PROVE InBudget
  <1>1. 0 <= RetryBudget + Longest(RequestTimes) + 2 * Longest(RssBlocks)
    BY LongestIsLongest, PollersAssumption
  <1>2. QED BY <1>1, PollersAssumption DEF GInit, InBudget

(* RETRY_BUDGET_SECONDS (ingestion/sentiment/gdelt_poller.py:61) is no hard  *)
(* ceiling, but for any budget, backoffs and durations a cycle exceeds it by *)
(* no more than one request and two fetches of the RSS poller.               *)
THEOREM BudgetTheorem == GSpec => []OverrunBounded
  <1>1. GInit => InBudget
    BY InitInBudget
  <1>2. InBudget => OverrunBounded
    BY DEF InBudget, OverrunBounded
  <1>3. QED BY <1>1, <1>2, NextInBudget, PTL DEF GSpec

CycleTyped == InBudget /\ cycleOver \in BOOLEAN

LEMMA NextCycleTyped == ASSUME CycleTyped, [GNext]_gvars PROVE CycleTyped'
  <1>1. cycleOver' \in BOOLEAN
    BY DEF CycleTyped, GNext, gvars, BudgetExhausted, Answered, RequestFails, RateLimited, Return
  <1>2. QED BY <1>1, NextInBudget DEF CycleTyped

(* A GDELT cycle keeps the types of its state.                               *)
THEOREM CycleTypeTheorem == GSpec => []GTypeOK
  <1>1. GInit => CycleTyped
    BY InitInBudget DEF GInit, CycleTyped
  <1>2. CycleTyped => GTypeOK
    BY DEF CycleTyped, InBudget, GTypeOK
  <1>3. QED BY <1>1, <1>2, NextCycleTyped, PTL DEF GSpec
-----------------------------------------------------------------------------
(* The keys of CryptoCompare.                                               *)

KeySet == {keys[i] : i \in DOMAIN keys}

\* A refused key is the current one only when all are refused.
KeysInUse ==
    /\ keys \in KeyLists
    /\ keyIndex \in DOMAIN keys
    /\ exhausted \subseteq KeySet
    /\ CurrentKey \in exhausted => exhausted = KeySet
    /\ ccState = "out of keys" => AllExhausted

\* A list has as many keys as places, unless one is listed twice.
LEMMA KeySetSize ==
    ASSUME keys \in KeyLists
    PROVE  /\ Len(keys) \in Nat \ {0} /\ DOMAIN keys = 1 .. Len(keys)
           /\ IsFiniteSet(KeySet)
           /\ Cardinality(KeySet) \in Nat /\ Cardinality(KeySet) <= Len(keys)
           /\ (\A i, j \in DOMAIN keys : keys[i] = keys[j] => i = j)
                 => Cardinality(KeySet) = Len(keys)
  <1>1. keys \in Seq(KeySet) /\ keys # << >>
    BY NewsBackfillAssumption DEF KeySet
  <1>2. Len(keys) \in Nat \ {0} /\ DOMAIN keys = 1 .. Len(keys)
    BY <1>1
  <1>3. IsFiniteSet(1 .. Len(keys)) /\ Cardinality(1 .. Len(keys)) = Len(keys)
    BY <1>2, FS_Interval
  <1> DEFINE f == [i \in 1 .. Len(keys) |-> keys[i]]
  <1>4. f \in Surjection(1 .. Len(keys), KeySet)
    BY <1>2 DEF Surjection, KeySet
  <1>5. /\ IsFiniteSet(KeySet) /\ Cardinality(KeySet) <= Len(keys)
        /\ Cardinality(KeySet) = Len(keys) <=> f \in Injection(1 .. Len(keys), KeySet)
    BY <1>3, <1>4, FS_Surjection
  <1>6. (\A i, j \in DOMAIN keys : keys[i] = keys[j] => i = j)
           => f \in Injection(1 .. Len(keys), KeySet)
    BY <1>2 DEF Injection, IsInjective, KeySet
  <1>7. QED BY <1>2, <1>5, <1>6, FS_CardinalityType

LEMMA AllExhaustedMeansAll ==
    ASSUME KeysInUse, AllExhausted
    PROVE  exhausted = KeySet
  <1>1. /\ IsFiniteSet(KeySet) /\ Len(keys) \in Nat
        /\ Cardinality(KeySet) \in Nat /\ Cardinality(KeySet) <= Len(keys)
    BY KeySetSize DEF KeysInUse
  <1>2. /\ IsFiniteSet(exhausted) /\ Cardinality(exhausted) <= Cardinality(KeySet)
        /\ Cardinality(KeySet) = Cardinality(exhausted) => KeySet = exhausted
    BY <1>1, FS_Subset DEF KeysInUse
  <1>3. Cardinality(exhausted) \in Nat
    BY <1>2, FS_CardinalityType
  <1>4. QED BY <1>1, <1>2, <1>3 DEF AllExhausted

\* Every place of the list is some places further on.
LEMMA FurtherReaches ==
    ASSUME KeysInUse
    PROVE  /\ \A k \in 1 .. Len(keys) : Further(k) \in DOMAIN keys
           /\ \A i \in DOMAIN keys : \E k \in 1 .. Len(keys) : Further(k) = i
  <1> DEFINE n == Len(keys)
  <1>1. n \in Nat \ {0} /\ DOMAIN keys = 1 .. n /\ keyIndex \in 1 .. n
    BY KeySetSize DEF KeysInUse
  <1> HIDE DEF n
  <1>2. ASSUME NEW k \in 1 .. n
        PROVE  ((keyIndex + k - 1) % n) + 1 \in 1 .. n
    <2>1. keyIndex + k - 1 \in Nat
      BY <1>1
    <2>2. (keyIndex + k - 1) % n \in 0 .. n - 1
      BY <1>1, <2>1
    <2>3. QED BY <1>1, <2>2
  <1>3. ASSUME NEW i \in 1 .. n
        PROVE  \E k \in 1 .. n : ((keyIndex + k - 1) % n) + 1 = i
    <2>1. CASE i > keyIndex
      <3>1. i - keyIndex \in 1 .. n /\ keyIndex + (i - keyIndex) - 1 = i - 1 /\ i - 1 \in 0 .. n - 1
        BY <1>1, <2>1
      <3>2. (i - 1) % n = i - 1
        BY <1>1, <3>1
      <3> DEFINE k == i - keyIndex
      <3>3. k \in 1 .. n /\ ((keyIndex + k - 1) % n) + 1 = i
        BY <1>1, <3>1, <3>2
      <3> HIDE DEF k
      <3>4. QED BY <3>3
    <2>2. CASE ~ (i > keyIndex)
      <3>1. /\ i - keyIndex + n \in 1 .. n /\ i - 1 \in 0 .. n - 1
            /\ keyIndex + (i - keyIndex + n) - 1 = (i - 1) + n
        BY <1>1, <2>2
      <3>2. ((i - 1) + n) % n = i - 1
        BY <1>1, <3>1
      <3> DEFINE k == i - keyIndex + n
      <3>3. k \in 1 .. n /\ ((keyIndex + k - 1) % n) + 1 = i
        BY <1>1, <3>1, <3>2
      <3> HIDE DEF k
      <3>4. QED BY <3>3
    <2>3. QED BY <2>1, <2>2
  <1>4. QED BY <1>1, <1>2, <1>3 DEF n, Further

LEMMA RefusalKeeps ==
    ASSUME KeysInUse, KeyRefused
    PROVE  KeysInUse'
  <1>1. /\ exhausted' = exhausted \union {CurrentKey}
        /\ keyIndex' = AdvanceKey(exhausted')
        /\ UNCHANGED <<keys, ccState>> /\ ccState = "asking"
    BY DEF KeyRefused
  <1>2. exhausted' \subseteq KeySet /\ CurrentKey \in exhausted' /\ KeySet' = KeySet
    BY <1>1 DEF KeysInUse, CurrentKey, KeySet
  <1> DEFINE usable == {k \in 1 .. Len(keys) : keys[Further(k)] \notin exhausted'}
  <1>3. CASE usable = {}
    <2>1. keyIndex' = keyIndex
      BY <1>1, <1>3 DEF AdvanceKey
    <2>2. KeySet \subseteq exhausted'
      BY <1>3, FurtherReaches DEF KeySet
    <2>3. QED BY <1>1, <1>2, <2>1, <2>2 DEF KeysInUse
  <1>4. CASE usable # {}
    <2>1. \E k \in usable : \A l \in usable : k <= l
      <3>1. Len(keys) \in Nat
        BY KeySetSize DEF KeysInUse
      <3>2. usable \in SUBSET Nat
        BY <3>1
      <3>3. QED BY <1>4, <3>2, LeastNumber
    <2>2. PICK k \in usable : keyIndex' = Further(k)
      BY <1>1, <1>4, <2>1 DEF AdvanceKey
    <2>3. keyIndex' \in DOMAIN keys /\ keys[keyIndex'] \notin exhausted'
      BY <2>2, FurtherReaches
    <2>4. QED BY <1>1, <1>2, <2>3 DEF KeysInUse, CurrentKey
  <1>5. QED BY <1>3, <1>4

LEMMA NextKeysInUse ==
    ASSUME KeysInUse, NNext \/ UNCHANGED nvars
    PROVE  KeysInUse'
  <1>1. CASE KeyRefused
    BY <1>1, RefusalKeeps
  <1>2. CASE ~ KeyRefused
    <2>1. /\ UNCHANGED <<keys, keyIndex, exhausted>>
          /\ ccState' = "out of keys" => ccState = "out of keys" \/ AllExhausted
      BY <1>2 DEF NNext, nvars, OutOfKeys, RetryRequest, HttpRejected, CcFails, ReadPage, LeaveRange
    <2>2. QED BY <2>1 DEF KeysInUse, KeySet, CurrentKey, AllExhausted
  <1>3. QED BY <1>1, <1>2

LEMMA InUseMeansSpent == ASSUME KeysInUse PROVE KeysSpent
  <1>1. ccState = "out of keys" => KeysRefused
    BY AllExhaustedMeansAll DEF KeysInUse, KeySet, KeysRefused
  <1>2. CurrentKey \in exhausted => KeysRefused
    BY DEF KeysInUse, KeySet, KeysRefused
  <1>3. QED BY <1>1, <1>2 DEF KeysSpent

LEMMA InitKeysInUse == ASSUME NInit PROVE KeysInUse
  BY KeySetSize DEF NInit, KeysInUse, CurrentKey, KeySet

(* "skipping any that come back rate-limited" (tools/                        *)
(* backfill_cryptocompare.py:97) for any list of keys, one listed twice      *)
(* included: a refused key is asked again only when all are refused, and a   *)
(* run that is out of keys has had each of them refused.                     *)
THEOREM KeysTheorem == NewsSpec => []KeysSpent
  <1>1. KeysInUse /\ [(NNext /\ UNCHANGED wvars) \/ (WNext /\ UNCHANGED nvars)]_<<nvars, wvars>>
           => KeysInUse'
    BY NextKeysInUse
  <1>2. QED BY <1>1, InitKeysInUse, InUseMeansSpent, PTL DEF NewsSpec
-----------------------------------------------------------------------------
(* Paging backwards through CryptoCompare.                                  *)

\* What is due to be stored of the articles of range r behind the second b.
StoredBehind(r, b) ==
    \A a \in archive :
        b < a.at /\ r[1] <= a.at /\ a.at <= r[2] /\ a.id \notin Linkless
           => a \in stored \/ a.at \in cut

WholeRange(r) ==
    \A a \in archive :
        r[1] <= a.at /\ a.at <= r[2] /\ a.id \notin Linkless => a \in stored \/ a.at \in cut

Paging ==
    /\ archive \in Archives
    /\ runs \in Seq(Int \X Int) /\ before \in Int
    /\ ccState = "asking" => runs # << >> /\ StoredBehind(Head(runs), before)
    /\ \A r \in complete : WholeRange(r)

LEMMA InitPaging == ASSUME NInit PROVE Paging
  <1>1. /\ archive \in Archives /\ runs \in DayRuns /\ before = Head(runs)[2] /\ complete = {}
    BY DEF NInit
  <1>2. runs \in Seq(Int \X Int) /\ runs # << >>
    BY <1>1, NewsBackfillAssumption
  <1>3. Head(runs) \in Int \X Int
    BY <1>2
  <1>4. \A a \in archive : a.at \in Int
    BY <1>1, NewsBackfillAssumption
  <1>5. StoredBehind(Head(runs), before)
    BY <1>1, <1>3, <1>4 DEF StoredBehind
  <1>6. QED BY <1>1, <1>2, <1>3, <1>5 DEF Paging

\* The articles up to the second `before` are in the page, or not later than
\* its oldest; one of the same second is left out by a full page only.
LEMMA PageFacts ==
    ASSUME Paging, NEW page \in PagesAt(before)
    PROVE  /\ page = {} => \A a \in archive : before < a.at
           /\ page # {} =>
                 /\ Oldest(page) \in Int
                 /\ \A a \in archive \ page :
                       \/ before < a.at \/ a.at < Oldest(page)
                       \/ a.at = Oldest(page) /\ Cardinality(page) = CcPageSize
  <1> DEFINE upTo == {a \in archive : a.at <= before}
  <1>1. /\ page \subseteq upTo
        /\ Cardinality(page) = IF Cardinality(upTo) < CcPageSize
                                 THEN Cardinality(upTo) ELSE CcPageSize
        /\ \A a \in page, b \in upTo \ page : b.at <= a.at
    BY DEF PagesAt
  <1>2. IsFiniteSet(archive) /\ \A a \in archive : a.at \in Int
    BY NewsBackfillAssumption DEF Paging
  <1>3. before \in Int /\ CcPageSize \in Nat \ {0}
    BY NewsBackfillAssumption DEF Paging
  <1>4. IsFiniteSet(upTo) /\ IsFiniteSet(page) /\ Cardinality(upTo) \in Nat
    BY <1>1, <1>2, FS_Subset, FS_CardinalityType
  <1>5. \A a \in archive : a \in upTo \/ before < a.at
    BY <1>2, <1>3
  <1> HIDE DEF upTo
  <1>6. upTo = page \/ Cardinality(page) = CcPageSize
    BY <1>1, <1>4, FS_Subset
  <1>7. ASSUME page = {}
        PROVE  \A a \in archive : before < a.at
    <2>1. Cardinality(page) = 0
      BY <1>7, FS_EmptySet
    <2>2. upTo = {}
      BY <1>3, <1>6, <1>7, <2>1
    <2>3. QED BY <1>5, <2>2
  <1>8. ASSUME page # {}
        PROVE  /\ Oldest(page) \in Int
               /\ \A a \in archive \ page :
                     \/ before < a.at \/ a.at < Oldest(page)
                     \/ a.at = Oldest(page) /\ Cardinality(page) = CcPageSize
    <2> DEFINE times == {a.at : a \in page}
    <2>1. PICK o \in page : \A a \in page : o.at <= a.at
      <3>1. page \subseteq archive /\ \A a \in page : a.at \in Int
        BY <1>1, <1>2 DEF upTo
      <3>2. times \in SUBSET Int /\ times # {}
        BY <1>8, <3>1
      <3>3. IsFiniteSet(times)
        <4> DEFINE f == [a \in page |-> a.at]
        <4>1. f \in Surjection(page, times)
          BY DEF Surjection
        <4>2. QED BY <1>4, <4>1, FS_Surjection
      <3> HIDE DEF times
      <3>4. PICK t \in times : \A u \in times : t <= u
        BY <3>2, <3>3, LeastMember
      <3>5. QED BY <3>4 DEF times
    <2>2. Oldest(page) \in times /\ \A a \in page : Oldest(page) <= a.at
      BY <2>1 DEF Oldest
    <2>3. PICK p \in page : Oldest(page) = p.at
      BY <2>2
    <2>4. Oldest(page) \in Int
      BY <1>1, <1>2, <2>3 DEF upTo
    <2>5. ASSUME NEW a \in archive \ page, ~ (before < a.at)
          PROVE  \/ a.at < Oldest(page)
                 \/ a.at = Oldest(page) /\ Cardinality(page) = CcPageSize
      <3>1. a \in upTo \ page
        BY <1>5, <2>5
      <3>2. a.at <= p.at /\ a.at \in Int
        BY <1>1, <1>2, <3>1
      <3>3. Cardinality(page) = CcPageSize
        BY <1>6, <3>1
      <3>4. QED BY <2>3, <2>4, <3>2, <3>3
    <2>6. QED BY <2>4, <2>5
  <1>9. QED BY <1>7, <1>8

\* The articles of a page, and those it leaves out, behind its oldest second.
LEMMA PageStored ==
    ASSUME Paging, ccState = "asking", NEW page \in PagesAt(before), page # {},
           stored' = stored \union RowsOf(page), UNCHANGED archive,
           cut' = IF Cardinality(page) = CcPageSize THEN cut \union {Oldest(page)} ELSE cut
    PROVE  \A a \in archive :
              /\ Oldest(page) <= a.at /\ Head(runs)[1] <= a.at /\ a.at <= Head(runs)[2]
              /\ a.id \notin Linkless
              => a \in stored' \/ a.at \in cut'
  <1> SUFFICES ASSUME NEW a \in archive, Oldest(page) <= a.at, Head(runs)[1] <= a.at,
                      a.at <= Head(runs)[2], a.id \notin Linkless
               PROVE  a \in stored' \/ a.at \in cut'
    OBVIOUS
  <1>1. a.at \in Int /\ before \in Int
    BY NewsBackfillAssumption DEF Paging
  <1>2. CASE before < a.at
    BY <1>2 DEF Paging, StoredBehind
  <1>3. CASE ~ (before < a.at) /\ a \in page
    <2>1. a.at <= before
      BY <1>1, <1>3
    <2>2. a \in RowsOf(page)
      BY <1>3, <2>1 DEF RowsOf
    <2>3. QED BY <2>2
  <1>4. CASE ~ (before < a.at) /\ a \notin page
    <2>1. Oldest(page) \in Int
      BY PageFacts
    <2>2. a.at = Oldest(page) /\ Cardinality(page) = CcPageSize
      BY <1>1, <1>4, <2>1, PageFacts
    <2>3. QED BY <2>2
  <1>5. QED BY <1>2, <1>3, <1>4

LEMMA MoreIsStored ==
    ASSUME Paging, UNCHANGED archive, stored \subseteq stored', cut \subseteq cut'
    PROVE  \A r \in complete : WholeRange(r)'
  BY DEF Paging, WholeRange

\* On to the next range, of which nothing is behind its last second.
LEMMA LeavePaging ==
    ASSUME Paging, ccState = "asking", UNCHANGED archive, NEW how, LeaveRange(how),
           stored \subseteq stored', cut \subseteq cut',
           NEW r, r = Head(runs), how # "capped" => WholeRange(r)'
    PROVE  Paging'
  <1>1. /\ runs' = Tail(runs)
        /\ complete' = IF how = "capped" THEN complete ELSE complete \union {Head(runs)}
        /\ IF Tail(runs) = << >>
             THEN ccState' = "done" /\ UNCHANGED before
             ELSE before' = Head(Tail(runs))[2] /\ UNCHANGED ccState
    BY DEF LeaveRange
  <1>2. runs \in Seq(Int \X Int) /\ runs # << >> /\ before \in Int
    BY DEF Paging
  <1>3. runs' \in Seq(Int \X Int)
    BY <1>1, <1>2
  <1>4. runs' # << >> => Head(runs') \in Int \X Int
    BY <1>3
  <1>5. before' \in Int
    BY <1>1, <1>2, <1>4
  <1>6. \A q \in complete' : WholeRange(q)'
    <2>1. complete' \subseteq complete \union {r} /\ (r \in complete' \ complete => how # "capped")
      BY <1>1
    <2>2. \A q \in complete : WholeRange(q)'
      BY MoreIsStored
    <2>3. QED BY <2>1, <2>2
  <1>7. ccState' = "asking" => runs' # << >> /\ StoredBehind(Head(runs), before)'
    <2> SUFFICES ASSUME ccState' = "asking"
                 PROVE  runs' # << >> /\ StoredBehind(Head(runs), before)'
      OBVIOUS
    <2>1. runs' # << >> /\ before' = Head(runs')[2]
      BY <1>1
    <2>2. \A a \in archive' : a.at \in Int
      BY NewsBackfillAssumption DEF Paging
    <2>3. Head(runs')[2] \in Int
      BY <1>4, <2>1
    <2>4. \A a \in archive' : ~ (before' < a.at /\ a.at <= Head(runs')[2])
      BY <2>1, <2>2, <2>3
    <2>5. QED BY <2>1, <2>4 DEF StoredBehind
  <1>8. QED BY <1>3, <1>5, <1>6, <1>7 DEF Paging

LEMMA ReadPaging ==
    ASSUME Paging, ReadPage
    PROVE  Paging'
  <1>1. PICK page \in PagesAt(before) :
          IF page = {}
            THEN LeaveRange("no more articles") /\ UNCHANGED <<stored, cut>>
            ELSE /\ stored' = stored \union RowsOf(page)
                 /\ cut' = IF Cardinality(page) = CcPageSize
                             THEN cut \union {Oldest(page)} ELSE cut
                 /\ IF Oldest(page) <= Head(runs)[1]
                      THEN LeaveRange("reached start")
                      ELSE IF pagesRead + 1 = MaxPages
                      THEN LeaveRange("capped")
                      ELSE /\ before' = NextBefore(page)
                           /\ pagesRead' = pagesRead + 1
                           /\ UNCHANGED <<runs, complete, ccState>>
    BY DEF ReadPage
  <1>2. ccState = "asking" /\ UNCHANGED archive
    BY DEF ReadPage
  <1>3. runs \in Seq(Int \X Int) /\ runs # << >> /\ StoredBehind(Head(runs), before)
    BY <1>2 DEF Paging
  <1>4. Head(runs) \in Int \X Int
    BY <1>3
  <1>5. \A a \in archive : a.at \in Int
    BY NewsBackfillAssumption DEF Paging
  <1> PICK range : range = Head(runs)
    OBVIOUS
  <1>6. CASE page = {}
    <2>1. LeaveRange("no more articles") /\ UNCHANGED <<stored, cut>>
      BY <1>1, <1>6
    <2>2. \A a \in archive : before < a.at
      BY <1>6, PageFacts
    <2>3. WholeRange(range)
      BY <1>3, <2>2 DEF WholeRange, StoredBehind
    <2>4. WholeRange(range)'
      BY <1>2, <2>1, <2>3 DEF WholeRange
    <2>5. QED BY <1>2, <2>1, <2>4, LeavePaging
  <1>7. CASE page # {}
    <2>1. /\ stored' = stored \union RowsOf(page) /\ stored \subseteq stored'
          /\ cut' = IF Cardinality(page) = CcPageSize THEN cut \union {Oldest(page)} ELSE cut
          /\ cut \subseteq cut'
      BY <1>1, <1>7
    <2>2. \A a \in archive :
              /\ Oldest(page) <= a.at /\ Head(runs)[1] <= a.at /\ a.at <= Head(runs)[2]
              /\ a.id \notin Linkless
              => a \in stored' \/ a.at \in cut'
      BY <1>2, <1>7, <2>1, PageStored
    <2>3. Oldest(page) \in Int
      BY <1>7, PageFacts
    <2>4. CASE Oldest(page) <= Head(runs)[1]
      <3>1. \A a \in archive : Head(runs)[1] <= a.at => Oldest(page) <= a.at
        BY <1>4, <1>5, <2>3, <2>4
      <3>2. LeaveRange("reached start")
        BY <1>1, <1>7, <2>4
      <3>3. WholeRange(range)'
        BY <1>2, <2>2, <3>1 DEF WholeRange
      <3>4. QED BY <1>2, <2>1, <3>2, <3>3, LeavePaging
    <2>5. CASE ~ (Oldest(page) <= Head(runs)[1]) /\ pagesRead + 1 = MaxPages
      <3>1. LeaveRange("capped")
        BY <1>1, <1>7, <2>5
      <3>2. QED BY <1>2, <2>1, <3>1, LeavePaging
    <2>6. CASE ~ (Oldest(page) <= Head(runs)[1]) /\ pagesRead + 1 # MaxPages
      <3>1. before' = Oldest(page) - 1 /\ UNCHANGED <<runs, complete, ccState>>
        BY <1>1, <1>7, <2>6 DEF NextBefore
      <3>2. \A a \in archive : before' < a.at => Oldest(page) <= a.at
        BY <1>5, <2>3, <3>1
      <3>3. StoredBehind(Head(runs), before)'
        BY <1>2, <2>2, <3>1, <3>2 DEF StoredBehind
      <3>4. \A r \in complete' : WholeRange(r)'
        BY <1>2, <2>1, <3>1, MoreIsStored
      <3>5. QED BY <1>2, <1>3, <2>3, <3>1, <3>3, <3>4 DEF Paging
    <2>7. QED BY <2>4, <2>5, <2>6
  <1>8. QED BY <1>6, <1>7

LEMMA NextPaging ==
    ASSUME Paging, NNext \/ UNCHANGED nvars
    PROVE  Paging'
  <1>1. CASE ReadPage
    BY <1>1, ReadPaging
  <1>2. CASE ~ ReadPage
    <2>1. /\ UNCHANGED <<archive, runs, before, stored, complete, cut>>
          /\ ccState' = "asking" => ccState = "asking"
      BY <1>2 DEF NNext, nvars, OutOfKeys, RetryRequest, HttpRejected, CcFails, KeyRefused
    <2>2. QED BY <2>1 DEF Paging, StoredBehind, WholeRange
  <1>3. QED BY <1>1, <1>2
-----------------------------------------------------------------------------
(* The windows of GDELT.                                                    *)

Counted == window \in 0 .. Windows /\ blocks \in 0 .. MaxBlocks /\ blocks <= window

\* The windows dealt with, the last `blocks` of them blocked.
Blocked ==
    /\ outcome \in [1 .. Windows -> {"open", "fetched", "blocked"}]
    /\ \A w \in 1 .. Windows : w <= window => outcome[w] # "open"
    /\ \A w \in 1 .. Windows : window - blocks < w /\ w <= window => outcome[w] = "blocked"

Stopped ==
    /\ gdState = "asking" => window < Windows /\ blocks < MaxBlocks
    /\ gdState = "done" => window = Windows
    /\ gdState = "stopped early" => blocks = MaxBlocks

LEMMA WindowBounds == Windows \in Nat /\ MaxBlocks \in Nat \ {0}
  BY NewsBackfillAssumption, Zenon

\* One more window is dealt with.
LEMMA WindowDealtWith ==
    ASSUME Counted, Blocked, window < Windows, NEW how \in {"fetched", "blocked"},
           window' = window + 1, outcome' = [outcome EXCEPT ![window + 1] = how],
           blocks' = IF how = "blocked" THEN blocks + 1 ELSE 0, blocks < MaxBlocks
    PROVE  Counted' /\ Blocked'
  <1>1. /\ window \in Nat /\ Windows \in Nat /\ window <= Windows
        /\ blocks \in Nat /\ MaxBlocks \in Nat /\ blocks <= window
    BY WindowBounds DEF Counted
  <1>2. Counted'
    BY <1>1 DEF Counted
  <1>3. outcome' \in [1 .. Windows -> {"open", "fetched", "blocked"}]
    BY DEF Blocked
  <1>4. ASSUME NEW w \in 1 .. Windows
        PROVE  outcome'[w] = IF w = window + 1 THEN how ELSE outcome[w]
    BY DEF Blocked
  <1>5. ASSUME NEW w \in 1 .. Windows, w <= window'
        PROVE  outcome'[w] # "open"
    <2>1. w = window + 1 \/ w <= window
      BY <1>1, <1>5
    <2>2. QED BY <1>4, <2>1 DEF Blocked
  <1>6. ASSUME NEW w \in 1 .. Windows, window' - blocks' < w, w <= window'
        PROVE  outcome'[w] = "blocked"
    <2>1. how = "blocked" /\ (w = window + 1 \/ (window - blocks < w /\ w <= window /\ w # window + 1))
      BY <1>1, <1>6
    <2>2. QED BY <1>4, <2>1 DEF Blocked
  <1>7. QED BY <1>2, <1>3, <1>5, <1>6 DEF Blocked

LEMMA NextWindows ==
    ASSUME Counted, Blocked, Stopped, WNext \/ UNCHANGED wvars
    PROVE  Counted' /\ Blocked' /\ Stopped'
  <1>1. CASE UNCHANGED wvars \/ WindowFails \/ (WindowBlocked /\ calls < MaxCalls)
    <2>1. /\ UNCHANGED <<window, blocks, outcome>>
          /\ gdState' \in {gdState, "failed"}
      BY <1>1 DEF wvars, WindowFails, WindowBlocked
    <2>2. QED BY <2>1 DEF Counted, Blocked, Stopped
  <1>0. /\ window \in Nat /\ Windows \in Nat /\ window <= Windows
        /\ blocks \in Nat /\ MaxBlocks \in Nat /\ MaxBlocks > 0
    BY WindowBounds DEF Counted
  <1>2. CASE WindowFetched
    <2>1. /\ window' = window + 1 /\ blocks' = 0 /\ window < Windows /\ blocks < MaxBlocks
          /\ outcome' = [outcome EXCEPT ![window + 1] = "fetched"]
          /\ gdState' = IF window' = Windows THEN "done" ELSE "asking"
      BY <1>2 DEF WindowFetched, NextWindow, Stopped
    <2>2. Counted' /\ Blocked'
      BY <2>1, WindowDealtWith
    <2>3. Stopped'
      <3>1. CASE window' = Windows
        BY <2>1, <3>1 DEF Stopped
      <3>2. CASE window' # Windows
        <4>1. window' < Windows /\ blocks' < MaxBlocks
          BY <1>0, <2>1, <3>2
        <4>2. gdState' = "asking"
          BY <2>1, <3>2
        <4>3. QED BY <4>1, <4>2 DEF Stopped
      <3>3. QED BY <3>1, <3>2
    <2>4. QED BY <2>2, <2>3
  <1>3. CASE WindowBlocked /\ ~ (calls < MaxCalls)
    <2>1. /\ window' = window + 1 /\ blocks' = blocks + 1
          /\ window < Windows /\ blocks < MaxBlocks
          /\ outcome' = [outcome EXCEPT ![window + 1] = "blocked"]
      BY <1>3 DEF WindowBlocked, NextWindow, Stopped
    <2> DEFINE limit == blocks' >= MaxBlocks
               last == blocks' < MaxBlocks /\ window' = Windows
    <2>5. gdState' = CASE limit -> "stopped early" [] last -> "done" [] OTHER -> "asking"
      BY <1>3 DEF WindowBlocked
    <2>6. ~ (limit /\ last)
      BY <1>0, <2>1
    <2>7. /\ limit => gdState' = "stopped early"
          /\ last => gdState' = "done"
          /\ ~ limit /\ ~ last => gdState' = "asking"
      <3> HIDE DEF limit, last
      <3> QED BY <2>5, <2>6
    <2>2. Counted' /\ Blocked'
      BY <2>1, WindowDealtWith
    <2>3. Stopped'
      <3>1. CASE blocks + 1 >= MaxBlocks
        <4>1. blocks' >= MaxBlocks /\ blocks' = MaxBlocks
          BY <1>0, <2>1, <3>1
        <4>2. gdState' = "stopped early"
          BY <2>7, <4>1
        <4>3. QED BY <4>1, <4>2 DEF Stopped
      <3>2. CASE ~ (blocks + 1 >= MaxBlocks) /\ window' = Windows
        <4>1. ~ (blocks' >= MaxBlocks) /\ blocks' < MaxBlocks
          BY <1>0, <2>1, <3>2
        <4>2. gdState' = "done"
          BY <2>7, <3>2, <4>1
        <4>3. QED BY <3>2, <4>2 DEF Stopped
      <3>3. CASE ~ (blocks + 1 >= MaxBlocks) /\ window' # Windows
        <4>1. ~ (blocks' >= MaxBlocks) /\ blocks' < MaxBlocks /\ window' < Windows
          BY <1>0, <2>1, <3>3
        <4>2. gdState' = "asking"
          BY <2>7, <3>3, <4>1
        <4>3. QED BY <4>1, <4>2 DEF Stopped
      <3>4. QED BY <3>1, <3>2, <3>3
    <2>4. QED BY <2>2, <2>3
  <1>4. QED BY <1>1, <1>2, <1>3 DEF WNext

LEMMA WindowsAccounted ==
    ASSUME Counted, Blocked, Stopped
    PROVE  /\ gdState = "done" => \A w \in 1 .. Windows : outcome[w] # "open"
           /\ gdState = "stopped early"
                 => \A w \in window - MaxBlocks + 1 .. window : outcome[w] = "blocked"
  <1>1. ASSUME gdState = "done", NEW w \in 1 .. Windows
        PROVE  outcome[w] # "open"
    BY <1>1, WindowBounds DEF Blocked, Stopped
  <1>2. ASSUME gdState = "stopped early", NEW w \in window - MaxBlocks + 1 .. window
        PROVE  outcome[w] = "blocked"
    <2>1. blocks = MaxBlocks
      BY <1>2 DEF Stopped
    <2>2. w \in 1 .. Windows /\ window - blocks < w /\ w <= window
      BY <2>1, WindowBounds DEF Counted
    <2>3. QED BY <2>2 DEF Blocked
  <1>3. QED BY <1>1, <1>2

(* tools/backfill_cryptocompare.py:253 and tools/backfill_gdelt.py:134 for   *)
(* any archive, ranges, keys, page size and windows: a range that was paged  *)
(* to its end is stored but for articles of a second at which a full page    *)
(* was cut; no window is left out but a blocked one, and a coin is given up  *)
(* only behind MAX_CONSECUTIVE_BLOCKS blocked windows.                       *)
THEOREM SkippedTheorem == NewsSpec => []NothingSilentlySkipped
  <1> DEFINE I == Paging /\ Counted /\ Blocked /\ Stopped
  <1>1. NInit /\ WInit => I
    <2>1. WInit => Counted /\ Blocked /\ Stopped
      BY WindowBounds DEF WInit, Counted, Blocked, Stopped
    <2>2. QED BY <2>1, InitPaging
  <1>2. I /\ [(NNext /\ UNCHANGED wvars) \/ (WNext /\ UNCHANGED nvars)]_<<nvars, wvars>> => I'
    BY NextPaging, NextWindows
  <1>3. I => NothingSilentlySkipped
    BY WindowsAccounted DEF Paging, WholeRange, NothingSilentlySkipped
  <1>4. QED BY <1>1, <1>2, <1>3, PTL DEF NewsSpec

\* What the types of the backfill tools need besides.
CcTyped ==
    /\ pagesRead \in 0 .. MaxPages - 1 /\ netTry \in 1 .. NetRetries
    /\ stored \subseteq archive
    /\ ccState \in {"asking", "done", "out of keys", "rejected", "failed"}

LEMMA NextCcTyped == ASSUME CcTyped, NNext \/ UNCHANGED nvars PROVE CcTyped'
  <1>0. MaxPages \in Nat \ {0} /\ NetRetries \in Nat \ {0}
    BY NewsBackfillAssumption, Zenon
  <1>1. CASE UNCHANGED nvars
    BY <1>1 DEF CcTyped, nvars
  <1>2. CASE KeyRefused \/ OutOfKeys \/ HttpRejected \/ CcFails
    <2>1. /\ UNCHANGED <<archive, stored, pagesRead>>
          /\ ccState' \in {ccState, "out of keys", "rejected", "failed"}
          /\ netTry' = netTry \/ netTry' = 1
      BY <1>2 DEF KeyRefused, OutOfKeys, HttpRejected, CcFails
    <2>2. netTry' \in 1 .. NetRetries
      <3>1. netTry \in 1 .. NetRetries
        BY DEF CcTyped
      <3>2. CASE netTry' = netTry
        BY <3>1, <3>2
      <3>3. CASE netTry' = 1
        BY <1>0, <3>3
      <3>4. QED BY <2>1, <3>2, <3>3
    <2>3. QED BY <2>1, <2>2 DEF CcTyped
  <1>3. CASE RetryRequest
    BY <1>0, <1>3 DEF CcTyped, RetryRequest
  <1>4. CASE ReadPage
    <2>1. PICK page \in PagesAt(before) :
          IF page = {}
            THEN LeaveRange("no more articles") /\ UNCHANGED <<stored, cut>>
            ELSE /\ stored' = stored \union RowsOf(page)
                 /\ IF Oldest(page) <= Head(runs)[1]
                      THEN LeaveRange("reached start")
                      ELSE IF pagesRead + 1 = MaxPages
                      THEN LeaveRange("capped")
                      ELSE pagesRead' = pagesRead + 1 /\ UNCHANGED ccState
      BY <1>4 DEF ReadPage
    <2>2. netTry' = 1 /\ archive' = archive
      BY <1>4 DEF ReadPage
    <2>3. stored' \subseteq archive'
      BY <2>1, <2>2 DEF CcTyped, RowsOf, PagesAt
    <2>4. \A how : LeaveRange(how) =>
             pagesRead' = 0 /\ ccState' \in {"asking", "done", "out of keys", "rejected", "failed"}
      BY DEF LeaveRange, CcTyped
    <2>5. pagesRead' = 0 \/ (pagesRead' = pagesRead + 1 /\ pagesRead + 1 # MaxPages)
      BY <2>1, <2>4
    <2>6. ccState' \in {"asking", "done", "out of keys", "rejected", "failed"}
      BY <2>1, <2>4 DEF CcTyped
    <2>7. pagesRead' \in 0 .. MaxPages - 1
      <3>1. pagesRead \in 0 .. MaxPages - 1
        BY DEF CcTyped
      <3>2. CASE pagesRead' = 0
        BY <1>0, <3>2
      <3>3. CASE pagesRead' = pagesRead + 1 /\ pagesRead + 1 # MaxPages
        BY <1>0, <3>1, <3>3
      <3>4. QED BY <2>5, <3>2, <3>3
    <2>8. netTry' \in 1 .. NetRetries
      BY <1>0, <2>2
    <2>9. QED BY <2>3, <2>6, <2>7, <2>8 DEF CcTyped
  <1>5. QED BY <1>1, <1>2, <1>3, <1>4 DEF NNext

GdTyped ==
    /\ calls \in 1 .. MaxCalls
    /\ gdState \in {"asking", "done", "stopped early", "failed"}

LEMMA NextGdTyped == ASSUME GdTyped, WNext \/ UNCHANGED wvars PROVE GdTyped'
  <1>0. MaxCalls \in Nat \ {0}
    BY NewsBackfillAssumption, Zenon
  <1>1. CASE UNCHANGED wvars \/ WindowFails
    BY <1>1 DEF GdTyped, wvars, WindowFails
  <1>2. CASE WindowFetched
    BY <1>0, <1>2 DEF GdTyped, WindowFetched, NextWindow
  <1>3. CASE WindowBlocked
    <2>1. CASE calls < MaxCalls
      BY <1>0, <1>3, <2>1 DEF GdTyped, WindowBlocked
    <2>2. CASE ~ (calls < MaxCalls)
      <3> DEFINE limit == blocks' >= MaxBlocks
                 last == blocks' < MaxBlocks /\ window' = Windows
      <3>1. gdState' = CASE limit -> "stopped early" [] last -> "done" [] OTHER -> "asking"
        BY <1>3, <2>2 DEF WindowBlocked
      <3>2. gdState' \in {"asking", "done", "stopped early", "failed"}
        <4> HIDE DEF limit, last
        <4>1. QED BY <3>1
      <3>3. calls' = 1
        BY <1>3, <2>2 DEF WindowBlocked, NextWindow
      <3>4. calls' \in 1 .. MaxCalls
        BY <1>0, <3>3
      <3>5. QED BY <3>2, <3>4 DEF GdTyped
    <2>3. QED BY <2>1, <2>2
  <1>4. QED BY <1>1, <1>2, <1>3 DEF WNext

(* The two backfill tools keep the types of their state.                     *)
THEOREM ToolsTypeTheorem == NewsSpec => [](NTypeOK /\ WTypeOK)
  <1> DEFINE I == KeysInUse /\ Paging /\ CcTyped /\ Counted /\ Blocked /\ Stopped /\ GdTyped
  <1>1. NInit /\ WInit => I
    <2>1. WInit => Counted /\ Blocked /\ Stopped /\ GdTyped
      <3>1. MaxCalls \in Nat \ {0}
        BY NewsBackfillAssumption, Zenon
      <3>2. QED BY <3>1, WindowBounds DEF WInit, Counted, Blocked, Stopped, GdTyped
    <2>2. NInit => CcTyped
      <3>1. MaxPages \in Nat \ {0} /\ NetRetries \in Nat \ {0}
        BY NewsBackfillAssumption, Zenon
      <3>2. QED BY <3>1 DEF NInit, CcTyped
    <2>3. QED BY <2>1, <2>2, InitPaging, InitKeysInUse
  <1>2. I /\ [(NNext /\ UNCHANGED wvars) \/ (WNext /\ UNCHANGED nvars)]_<<nvars, wvars>> => I'
    BY NextKeysInUse, NextPaging, NextCcTyped, NextWindows, NextGdTyped
  <1>3. I => NTypeOK /\ WTypeOK
    BY DEF KeysInUse, Paging, CcTyped, Counted, Blocked, GdTyped, NTypeOK, WTypeOK, KeySet
  <1>4. QED BY <1>1, <1>2, <1>3, PTL DEF NewsSpec
-----------------------------------------------------------------------------
(* All services side by side. A step of one leaves the others alone, so each *)
(* behaves as its own specification says.                                    *)

LEMMA EachByItself ==
    Spec => HSpec /\ PSpec /\ GSpec /\ NewsSpec /\ ASpec /\ SuperSpec
  <1> DEFINE toolsNext == (NNext /\ UNCHANGED wvars) \/ (WNext /\ UNCHANGED nvars)
  <1>1. Init => HInit /\ PInit /\ GInit /\ NInit /\ WInit /\ AInit /\ SuperInit
    BY DEF Init
  <1>2. [Next]_allVars => [HNext]_hvars /\ [PNext]_pvars /\ [GNext]_gvars
                       /\ [ANext]_avars /\ [SuperNext]_superVars
    BY DEF Next, OnlyHealth, OnlyPollers, OnlyGdelt, OnlyCryptoCompare, OnlyWindows,
           OnlyApi, OnlySupervisor, allVars
  <1>3. [Next]_allVars => [toolsNext]_<<nvars, wvars>>
    BY DEF Next, OnlyHealth, OnlyPollers, OnlyGdelt, OnlyCryptoCompare, OnlyWindows,
           OnlyApi, OnlySupervisor, allVars
  <1>4. QED BY <1>1, <1>2, <1>3, PTL DEF Spec, HSpec, PSpec, GSpec, NewsSpec, ASpec, SuperSpec

\* Nothing changes the inputs of the modules without actions.
LEMMA InputsStay == ASSUME [Next]_allVars PROVE UNCHANGED <<rvars, svars, tvars>>
  BY DEF Next, OnlyHealth, OnlyPollers, OnlyGdelt, OnlyCryptoCompare, OnlyWindows,
         OnlyApi, OnlySupervisor, allVars, Fixed

(* Side by side the services keep the types of their state.                  *)
THEOREM TypeTheorem == Spec => []TypeOK
  <1>1. HTypeOK /\ PTypeOK /\ GTypeOK /\ (NTypeOK /\ WTypeOK) /\ ATypeOK /\ SuperTypeOK
           => TypeOK
    BY DEF TypeOK
  <1>2. QED BY <1>1, EachByItself, CheckTypeTheorem, PollersTypeTheorem, CycleTypeTheorem,
               ToolsTypeTheorem, PoolTypeTheorem, SuperTypeTheorem, PTL

(* The backtest and the live signals, for any coins, prices, windows and     *)
(* calls (signals/backtest.py:10): no prediction rests on a later price.     *)
THEOREM BacktestTheorem == Spec => []NoLookahead
  <1>1. Init => BacktestTyped
    BY InitBacktestTyped DEF Init
  <1>2. BacktestTyped /\ [Next]_allVars => BacktestTyped'
    BY InputsStay DEF tvars, BacktestTyped
  <1>3. QED BY <1>1, <1>2, NoLookaheadTheorem, PTL DEF Spec

(* The lag analysis, for any bars, flags and articles (series_builder.py:167,*)
(* event_study.py:263): lags, gaps and events keep the hours they come from, *)
(* and an onset, computed from `significant`, lies within a window of the    *)
(* chart, computed from `significant_fdr`. The event curves are not part.    *)
THEOREM SeriesTheorem == Spec => []SeriesFaithful
  <1>1. Init => AnalysisTyped
    BY InitAnalysisTyped DEF Init
  <1>2. AnalysisTyped /\ [Next]_allVars => AnalysisTyped'
    BY InputsStay DEF svars, AnalysisTyped
  <1>3. QED BY <1>1, <1>2, SeriesFaithfulTheorem, PTL DEF Spec

(* The plans of the repairs, for any candles, days and coins                 *)
(* (maintenance/repair.py:64, ranges.py:38): they ask for what is missing,   *)
(* and besides only for stored minutes between two gaps that are joined.     *)
THEOREM RepairTheorem == Spec => []RepairPlansAreExact
  <1>1. Init => RepairPlansTyped
    BY InitRepairPlansTyped DEF Init
  <1>2. RepairPlansTyped /\ [Next]_allVars => RepairPlansTyped'
    BY InputsStay DEF rvars, RepairPlansTyped
  <1>3. QED BY <1>1, <1>2, RepairPlansTheorem, PTL DEF Spec
=============================================================================
