------------------------------- MODULE Scoring -------------------------------
(***************************************************************************)
(* Sentiment scoring: raw_sentiment and sentiment_scores under their four  *)
(* writers, all of them separate processes on the same two tables.         *)
(*                                                                         *)
(*   consumer   streaming/sentiment_consumer.py inserts tagged articles    *)
(*   merger     tools/backfill_cryptocompare.py adds a coin to an article  *)
(*   live       sentiment/run_sentiment_scoring.py, autocommit per row     *)
(*   repair     maintenance/repair.py: retag, then score, a transaction    *)
(*              per batch                                                  *)
(*                                                                         *)
(* A row of sentiment_scores is an (article, coin) pair; the numbers in it *)
(* are a function of the article's text and are left out.                  *)
(***************************************************************************)
EXTENDS Naturals, Sequences, FiniteSets

CONSTANTS NArticles,  \* articles by (time, url); a larger number is newer
          Coins,
          Tagger,     \* the coins the current tagger finds in each text
          Found,     \* what the producers' taggers, old or new, may find in it
          BatchSize,  \* BATCH_SIZE of the scorers
          Spare,      \* batches score() allows beyond todo // BATCH_SIZE
          RetagSize,  \* articles per transaction of retag()
          MaxPage,    \* bounds: articles on a page, pages merged, crashes
          MaxMerges,
          MaxCrashes

Articles == 1 .. NArticles

ASSUME ScoringAssumption ==
    /\ NArticles \in Nat
    /\ Tagger \in [Articles -> SUBSET Coins]
    /\ Found \in [Articles -> SUBSET SUBSET Coins]
    /\ BatchSize \in Nat \ {0} /\ RetagSize \in Nat \ {0} /\ Spare \in Nat \ {0}
    /\ MaxPage \in Nat /\ MaxMerges \in Nat /\ MaxCrashes \in Nat

VARIABLES
    source,   \* raw_sentiment.source_type: "none" (no row), "keyword", "api"
    tags,     \* raw_sentiment.coin_tags
    scores,   \* the coins an article has a committed row for
    alive,    \* the live scorer runs
    work,     \* what it still has to insert: [art, coins, left] records
    step,     \* repair: "idle", "retag", "count", "score", "commit" or "done"
    retag,    \* State.retag: the articles tagged differently at the check
    batch,    \* the articles of the open transaction: [art, coins] records
    budget,   \* batches score() may still do
    merges, crashes,  \* so far, up to their bounds
    hurt,     \* history: what happened to an article's scores since they were
              \* last deleted: "torn", "merged", "raced" or "halved"
    undisturbed  \* history: no other writer of tags since the repair's check

vars == <<source, tags, scores, alive, work, step, retag, batch, budget,
          merges, crashes, hurt, undisturbed>>

liveVars == <<alive, work>>
repairVars == <<step, retag, batch, budget>>

Init ==
    /\ source = [a \in Articles |-> "none"]
    /\ tags = [a \in Articles |-> {}]
    /\ scores = [a \in Articles |-> {}]
    /\ alive = TRUE /\ work = << >>
    /\ step = "idle" /\ retag = {} /\ batch = {} /\ budget = 0
    /\ merges = 0 /\ crashes = 0
    /\ hurt = [a \in Articles |-> {}]
    /\ undisturbed = FALSE

\* Articles of which a scorer has read the tags and not stored every row.
InWork == {work[n].art : n \in 1 .. Len(work)}
InHands == InWork \union {b.art : b \in batch}
-----------------------------------------------------------------------------
(* Writers of raw_sentiment.                                                *)

\* ON CONFLICT DO NOTHING. The tags come from the producer's tagger, which may
\* be an older one.
Arrive(a) ==
    /\ source[a] = "none"
    /\ source' = [source EXCEPT ![a] = "keyword"]
    /\ \E T \in Found[a] : tags' = [tags EXCEPT ![a] = T]
    /\ undisturbed' = FALSE
    /\ UNCHANGED <<scores, liveVars, repairVars, merges, crashes, hurt>>

\* Articles never stop arriving: one that is stored and that nobody holds gives
\* its place to another of about its age.
Forget(a) ==
    /\ source[a] # "none" /\ a \notin InHands \union retag
    /\ tags[a] = {} \/ scores[a] # {}
    /\ source' = [source EXCEPT ![a] = "none"]
    /\ tags' = [tags EXCEPT ![a] = {}]
    /\ scores' = [scores EXCEPT ![a] = {}]
    /\ hurt' = [hurt EXCEPT ![a] = {}]
    /\ UNCHANGED <<liveVars, repairVars, merges, crashes, undisturbed>>

\* A page of articles about one coin: new rows, or the coin joins the tags of
\* the rows that are there.
Merge(page, coin) ==
    /\ merges < MaxMerges
    /\ page # {} /\ Cardinality(page) <= MaxPage
    /\ merges' = merges + 1
    /\ source' = [a \in Articles |->
                     IF a \in page /\ source[a] = "none" THEN "api" ELSE source[a]]
    /\ tags' = [a \in Articles |->
                   IF a \in page THEN tags[a] \union {coin} ELSE tags[a]]
    /\ hurt' = [a \in Articles |->
                   IF /\ a \in page /\ coin \notin tags[a]
                      /\ scores[a] # {} \/ a \in InHands
                     THEN hurt[a] \union {"merged"} ELSE hurt[a]]
    /\ undisturbed' = FALSE
    /\ UNCHANGED <<scores, liveVars, repairVars, crashes>>
-----------------------------------------------------------------------------
(* The query of both scorers and its result.                                *)

\* Only looks behind the newest article that has a score.
Unscored_Watermark ==
    {a \in Articles : tags[a] # {} /\ scores[a] = {}
                        /\ \A b \in Articles : scores[b] # {} => a > b}

\* FETCH_UNSCORED_SQL: tagged, and no row of any coin.
Unscored == {a \in Articles : tags[a] # {} /\ scores[a] = {}}

\* ORDER BY time DESC LIMIT BATCH_SIZE
Newest(S) == {a \in S : Cardinality({b \in S : b > a}) < BatchSize}

\* A set of articles as a sequence, newest first.
NewestFirst(S) ==
    [n \in 1 .. Cardinality(S) |->
        CHOOSE a \in S : Cardinality({b \in S : b > a}) = n - 1]
-----------------------------------------------------------------------------
(* The live scorer.                                                         *)

Fetch ==
    /\ alive /\ work = << >>
    /\ Unscored # {}
    /\ LET found == NewestFirst(Newest(Unscored))
       IN  work' = [n \in 1 .. Len(found) |->
                      [art |-> found[n], coins |-> tags[found[n]], left |-> tags[found[n]]]]
    /\ UNCHANGED <<source, tags, scores, alive, repairVars, merges, crashes,
                   hurt, undisturbed>>

\* One INSERT ... ON CONFLICT DO NOTHING, committed at once.
StoreScore ==
    /\ alive /\ work # << >>
    /\ \E c \in Head(work).left :
          /\ scores' = [scores EXCEPT ![Head(work).art] = @ \union {c}]
          /\ work' = IF Head(work).left = {c}
                       THEN Tail(work)
                       ELSE [work EXCEPT ![1].left = @ \ {c}]
    /\ UNCHANGED <<source, tags, alive, repairVars, merges, crashes, hurt, undisturbed>>

\* The article whose rows are stored in part.
Torn ==
    IF work # << >> /\ Head(work).left # Head(work).coins
      THEN {Head(work).art} ELSE {}

\* An exception (nothing in run() catches it), Ctrl+C or a kill.
Crash ==
    /\ alive
    /\ crashes < MaxCrashes
    /\ crashes' = crashes + 1
    /\ alive' = FALSE /\ work' = << >>
    /\ hurt' = [a \in Articles |->
                   IF a \in Torn THEN hurt[a] \union {"torn"} ELSE hurt[a]]
    /\ UNCHANGED <<source, tags, scores, repairVars, merges, undisturbed>>

\* Somebody starts the pipeline again.
Restart ==
    /\ ~ alive
    /\ alive' = TRUE
    /\ UNCHANGED <<source, tags, scores, work, repairVars, merges, crashes,
                   hurt, undisturbed>>
-----------------------------------------------------------------------------
(* The repair: one process at a time, by its advisory lock.                 *)

\* check_tagging: tags_changed over the keyword-tagged rows.
Check ==
    /\ step = "idle"
    /\ retag' = {a \in Articles : source[a] = "keyword" /\ tags[a] # Tagger[a]}
    /\ step' = "retag"
    /\ undisturbed' = TRUE
    /\ UNCHANGED <<source, tags, scores, liveVars, batch, budget, merges, crashes, hurt>>

\* Leaves the old scores in place.
Rescored_KeepsOld(some) == scores

\* DELETE FROM sentiment_scores for the articles of the transaction.
Rescored(some) == [a \in Articles |-> IF a \in some THEN {} ELSE scores[a]]

\* One transaction of retag(): new tags, old scores gone. What the live scorer
\* holds of these articles carries the old tags.
Retag(some) ==
    /\ step = "retag"
    /\ some # {} /\ Cardinality(some) <= RetagSize
    /\ retag' = retag \ some
    /\ tags' = [a \in Articles |-> IF a \in some THEN Tagger[a] ELSE tags[a]]
    /\ scores' = Rescored(some)
    /\ hurt' = [a \in Articles |->
                   IF a \notin some THEN hurt[a]
                   ELSE IF a \in InWork THEN {"raced"} ELSE {}]
    /\ UNCHANGED <<source, liveVars, step, batch, budget, merges,
                   crashes, undisturbed>>

RetagDone ==
    /\ step = "retag" /\ retag = {}
    /\ step' = "count"
    /\ UNCHANGED <<source, tags, scores, liveVars, retag, batch, budget, merges,
                   crashes, hurt, undisturbed>>

\* Counts whole batches only.
MaxBatches_NoSpare(todo) == todo \div BatchSize

\* Multiplies where it should divide.
MaxBatches_Articles(todo) == todo * BatchSize + Spare

\* todo // BATCH_SIZE + 5, the guard against a queue that does not drain.
MaxBatches(todo) == todo \div BatchSize + Spare

Count ==
    /\ step = "count"
    /\ budget' = MaxBatches(Cardinality(Unscored))
    /\ step' = IF Unscored = {} THEN "done" ELSE "score"
    /\ UNCHANGED <<source, tags, scores, liveVars, retag, batch, merges,
                   crashes, hurt, undisturbed>>

FetchBatch ==
    /\ step = "score"
    /\ budget > 0 /\ Unscored # {}
    /\ batch' = {[art |-> a, coins |-> tags[a]] : a \in Newest(Unscored)}
    /\ budget' = budget - 1
    /\ step' = "commit"
    /\ UNCHANGED <<source, tags, scores, liveVars, retag, merges,
                   crashes, hurt, undisturbed>>

\* Commits after each coin.
CommitBatch_OneCoin ==
    /\ step = "commit"
    /\ \E b \in batch : \E c \in b.coins :
          scores' = [scores EXCEPT ![b.art] = @ \union {c}]
    /\ batch' = {}
    /\ step' = "score"
    /\ UNCHANGED <<source, tags, liveVars, retag, budget, merges,
                   crashes, hurt, undisturbed>>

\* Every row of the batch becomes visible at once.
CommitBatch ==
    /\ step = "commit"
    /\ scores' = [a \in Articles |->
                     scores[a] \union UNION {b.coins : b \in {x \in batch : x.art = a}}]
    /\ batch' = {}
    /\ step' = "score"
    /\ UNCHANGED <<source, tags, liveVars, retag, budget, merges,
                   crashes, hurt, undisturbed>>

ScoreDone ==
    /\ step = "score"
    /\ budget = 0 \/ Unscored = {}
    /\ step' = "done"
    /\ UNCHANGED <<source, tags, scores, liveVars, retag, batch, budget, merges,
                   crashes, hurt, undisturbed>>

Close ==
    /\ step = "done"
    /\ step' = "idle"
    /\ UNCHANGED <<source, tags, scores, liveVars, retag, batch, budget, merges,
                   crashes, hurt, undisturbed>>

\* The repair gives up what it had planned.
Broken(next) ==
    /\ crashes < MaxCrashes
    /\ crashes' = crashes + 1
    /\ step' = next
    /\ retag' = {} /\ batch' = {} /\ budget' = 0
    /\ UNCHANGED <<source, liveVars, merges>>

\* A kill, a lost connection or an error of the database rolls the open
\* transaction back.
Abort ==
    /\ step \notin {"idle", "done"}
    /\ Broken("idle")
    /\ UNCHANGED <<tags, scores, hurt, undisturbed>>

\* Ctrl+C or another exception between two statements of a transaction of
\* retag(), which updates the tags first and deletes the scores after that.
\* What was done is committed: by main()'s finally, which ends the run, or by
\* the next query when _step() caught the exception and score() goes on.
InterruptRetag(some, updated, deleted) ==
    /\ step = "retag"
    /\ Cardinality(some) <= RetagSize
    /\ updated \subseteq some /\ deleted \subseteq updated
    /\ deleted # {} => updated = some
    /\ \E next \in {"idle", "count"} : Broken(next)
    /\ tags' = [a \in Articles |-> IF a \in updated THEN Tagger[a] ELSE tags[a]]
    /\ scores' = Rescored(deleted)
    /\ hurt' = [a \in Articles |->
                   IF a \notin updated THEN hurt[a]
                   ELSE (IF a \in deleted THEN {} ELSE hurt[a])
                          \union (IF a \in InWork THEN {"raced"} ELSE {})
                          \union (IF scores'[a] # {} THEN {"halved"} ELSE {})]
    /\ undisturbed' = FALSE

\* The same in _score_and_store(), which goes through the articles newest
\* first and through the coins of each: b got the rows in stored.
InterruptScore(b, stored) ==
    /\ step = "commit"
    /\ Broken("idle")
    /\ scores' = [a \in Articles |->
                     IF a = b.art THEN scores[a] \union stored
                     ELSE scores[a] \union
                            UNION {r.coins : r \in {x \in batch : x.art = a /\ a > b.art}}]
    /\ hurt' = [a \in Articles |->
                   IF a = b.art /\ stored \notin {{}, b.coins}
                     THEN hurt[a] \union {"torn"} ELSE hurt[a]]
    /\ UNCHANGED <<tags, undisturbed>>
-----------------------------------------------------------------------------
Live == Fetch \/ StoreScore \/ Restart

Repair ==
    \/ \E some \in SUBSET retag : Retag(some)
    \/ RetagDone \/ Count \/ FetchBatch \/ CommitBatch \/ ScoreDone \/ Close

Next ==
    \/ \E a \in Articles : Arrive(a) \/ Forget(a)
    \/ \E page \in SUBSET Articles, coin \in Coins : Merge(page, coin)
    \/ Live \/ Crash
    \/ Check \/ Repair \/ Abort
    \/ \E some \in SUBSET retag : \E updated, deleted \in SUBSET some :
          InterruptRetag(some, updated, deleted)
    \/ \E b \in batch : \E stored \in SUBSET b.coins : InterruptScore(b, stored)

Spec == Init /\ [][Next]_vars

(* The live scorer polls for ever and is started again after a crash (by     *)
(* hand: nothing supervises it); a repair that has begun goes on.            *)
FairSpec == Spec /\ WF_vars(Live) /\ WF_vars(Repair)
-----------------------------------------------------------------------------
TypeOK ==
    /\ source \in [Articles -> {"none", "keyword", "api"}]
    /\ tags \in [Articles -> SUBSET Coins]
    /\ scores \in [Articles -> SUBSET Coins]
    /\ alive \in BOOLEAN
    /\ work \in Seq([art : Articles, coins : SUBSET Coins, left : (SUBSET Coins) \ {{}}])
    /\ Len(work) <= BatchSize
    /\ step \in {"idle", "retag", "count", "score", "commit", "done"}
    /\ retag \subseteq Articles
    /\ batch \subseteq [art : Articles, coins : SUBSET Coins]
    /\ Cardinality(batch) <= BatchSize
    /\ budget \in 0 .. NArticles + Spare
    /\ merges \in 0 .. MaxMerges
    /\ crashes \in 0 .. MaxCrashes
    /\ hurt \in [Articles -> SUBSET {"torn", "merged", "raced", "halved"}]
    /\ undisturbed \in BOOLEAN

(* Two scorers that work on the same article, a repair that is killed and a *)
(* merge in between never leave a score for a coin the article does not     *)
(* have. Two things do: re-tagging it while the live scorer holds it with   *)
(* the old tags (retag() and _score_and_store()), and Ctrl+C or an          *)
(* exception between the UPDATE and the DELETE of retag(), which            *)
(* tools/health_check.py:203-207 commits.                                   *)
RightCoinsOnly ==
    \A a \in Articles : hurt[a] \intersect {"raced", "halved"} = {}
                            => scores[a] \subseteq tags[a]

(* An article that has any score has one for each of its coins, or the live *)
(* scorer is about to store the others. Only four things break this, and,   *)
(* since NOT EXISTS asks for any row, for good: either scorer stops between *)
(* two coins of an article and what it stored stays (autocommit, or the     *)
(* commit in main()'s finally), a coin is merged into an article that was   *)
(* read by a scorer already, and the two cases of RightCoinsOnly. A repair  *)
(* that is killed is not among them.                                        *)
WholeArticles ==
    \A a \in Articles :
        \/ hurt[a] # {}
        \/ scores[a] \in {{}, tags[a]}
        \/ \E n \in 1 .. Len(work) :
              work[n].art = a /\ scores[a] \union work[n].left = tags[a]

(* A repair that comes to its end while no tag is written by others leaves  *)
(* every keyword-tagged article with the tags of the current tagger and     *)
(* nothing for the scorers to do, whatever the live scorer did meanwhile    *)
(* (maintenance/repair.py, retag() and score() in this order).              *)
RepairHeals ==
    step = "done" /\ undisturbed =>
        /\ \A a \in Articles : source[a] = "keyword" => tags[a] = Tagger[a]
        /\ Unscored = {}

\* A full batch of newer articles is in front of it.
Crowded(a) == Cardinality({b \in Unscored : b > a}) >= BatchSize

(* Every tagged article is scored in the end, whatever crashes and repairs  *)
(* delete its scores, unless newer articles keep a full batch in front of   *)
(* it again and again: FETCH_UNSCORED_SQL takes the newest BATCH_SIZE, and  *)
(* arrivals that the scorer does not outrun starve the older ones.          *)
EventuallyScored ==
    \A a \in Articles :
        <>[] ~ Crowded(a) => (tags[a] # {} ~> scores[a] # {} \/ tags[a] = {})

(* maintenance/repair.py:95-96, "Update + delete commit together, so the     *)
(* live scorer never sees new tags with old scores".                         *)
NoOldScores == \A a \in Articles : scores[a] \subseteq tags[a]

(* sentiment/run_sentiment_scoring.py:3, "One row per (article, coin) pair": *)
(* an article the scorers are done with has all its rows.                    *)
RowPerPair ==
    \A a \in Articles \ InHands : scores[a] # {} => tags[a] \subseteq scores[a]
=============================================================================
