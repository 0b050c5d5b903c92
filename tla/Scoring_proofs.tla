--------------------------- MODULE Scoring_proofs ---------------------------
(***************************************************************************)
(* Two scorers, a merger and a repair on the same tables, for any articles,*)
(* coins, tagger, batch sizes and any number of crashes and repairs.       *)
(*                                                                         *)
(* What a scorer holds of an article was read from tags that another may   *)
(* have changed since: Held says how far its coins can still be trusted.   *)
(***************************************************************************)
EXTENDS Scoring, Integers, FiniteSetTheorems, SequenceTheorems, TLAPS

-----------------------------------------------------------------------------
(* The newest articles of a set.                                            *)

Newer(S, a) == {b \in S : b > a}

LEMMA ArticlesFinite ==
    ASSUME NEW S \in SUBSET Articles
    PROVE  /\ IsFiniteSet(S) /\ Cardinality(S) \in 0 .. NArticles
  <1>1. IsFiniteSet(Articles) /\ Cardinality(Articles) = NArticles
    BY ScoringAssumption, FS_Interval DEF Articles
  <1>2. IsFiniteSet(S) /\ Cardinality(S) <= NArticles
    BY <1>1, FS_Subset
  <1>3. QED BY <1>2, FS_CardinalityType, ScoringAssumption

\* No two articles of a set have the same number of newer ones.
LEMMA RankFacts ==
    ASSUME NEW S \in SUBSET Articles
    PROVE  /\ \A a \in S : /\ Cardinality(Newer(S, a)) \in Nat
                           /\ Cardinality(Newer(S, a)) < Cardinality(S)
           /\ \A a, b \in S : a # b => Cardinality(Newer(S, a)) # Cardinality(Newer(S, b))
  <1>1. IsFiniteSet(S) /\ Cardinality(S) \in Nat
    BY ArticlesFinite
  <1>2. \A a \in S : a \in Int
    BY DEF Articles
  <1>3. ASSUME NEW a \in S
        PROVE  /\ IsFiniteSet(Newer(S, a)) /\ Cardinality(Newer(S, a)) \in Nat
               /\ Cardinality(Newer(S, a)) < Cardinality(S)
    <2>1. Newer(S, a) \in SUBSET S /\ a \notin Newer(S, a)
      BY <1>2 DEF Newer
    <2>2. IsFiniteSet(Newer(S, a)) /\ Cardinality(Newer(S, a)) \in Nat
      BY <1>1, <2>1, FS_Subset, FS_CardinalityType
    <2>3. QED BY <1>1, <2>1, <2>2, FS_Subset
  <1>4. ASSUME NEW a \in S, NEW b \in S, a > b
        PROVE  Cardinality(Newer(S, a)) < Cardinality(Newer(S, b))
    <2>1. Newer(S, a) \in SUBSET Newer(S, b) /\ a \in Newer(S, b) \ Newer(S, a)
      BY <1>2, <1>4 DEF Newer
    <2>2. QED BY <1>3, <2>1, FS_Subset
  <1>5. ASSUME NEW a \in S, NEW b \in S, a # b
        PROVE  Cardinality(Newer(S, a)) # Cardinality(Newer(S, b))
    <2>1. a > b \/ b > a
      BY <1>2, <1>5
    <2>2. /\ Cardinality(Newer(S, a)) \in Nat /\ Cardinality(Newer(S, b)) \in Nat
          /\ \/ Cardinality(Newer(S, a)) < Cardinality(Newer(S, b))
             \/ Cardinality(Newer(S, b)) < Cardinality(Newer(S, a))
      BY <1>3, <1>4, <2>1
    <2>3. QED BY <2>2
  <1>6. QED BY <1>3, <1>5

\* There are not more articles than ranks for them.
LEMMA RankBound ==
    ASSUME NEW S \in SUBSET Articles, NEW T \in SUBSET S, NEW K, IsFiniteSet(K),
           \A a \in T : Cardinality(Newer(S, a)) \in K
    PROVE  Cardinality(T) <= Cardinality(K)
  <1> DEFINE rank == [a \in T |-> Cardinality(Newer(S, a))]
  <1>1. rank \in [T -> K] /\ \A a, b \in T : rank[a] = rank[b] => a = b
    BY RankFacts
  <1> HIDE DEF rank
  <1>2. rank \in Injection(T, K)
    BY <1>1 DEF Injection, IsInjective
  <1>3. QED BY <1>2, FS_Injection

\* A batch is not larger than BATCH_SIZE, and leaves nothing of less than that.
LEMMA NewestFacts ==
    ASSUME NEW S \in SUBSET Articles
    PROVE  /\ Newest(S) \in SUBSET S
           /\ IsFiniteSet(Newest(S)) /\ Cardinality(Newest(S)) \in 0 .. BatchSize
           /\ Cardinality(S \ Newest(S))
                 <= IF Cardinality(S) <= BatchSize THEN 0 ELSE Cardinality(S) - BatchSize
  <1>1. Newest(S) \in SUBSET S /\ Newest(S) = {a \in S : Cardinality(Newer(S, a)) < BatchSize}
    BY DEF Newest, Newer
  <1>2. BatchSize \in Nat \ {0} /\ Cardinality(S) \in Nat
    BY ScoringAssumption, ArticlesFinite
  <1>3. IsFiniteSet(Newest(S)) /\ Cardinality(Newest(S)) \in Nat
    BY <1>1, ArticlesFinite
  <1>4. Cardinality(Newest(S)) <= BatchSize
    <2>1. \A a \in Newest(S) : Cardinality(Newer(S, a)) \in 0 .. BatchSize - 1
      BY <1>1, <1>2, RankFacts
    <2>2. IsFiniteSet(0 .. BatchSize - 1) /\ Cardinality(0 .. BatchSize - 1) = BatchSize
      BY <1>2, FS_Interval
    <2>3. QED BY <1>1, <2>1, <2>2, RankBound
  <1>5. Cardinality(S \ Newest(S))
            <= IF Cardinality(S) <= BatchSize THEN 0 ELSE Cardinality(S) - BatchSize
    <2> DEFINE n == Cardinality(S)
               rest == S \ Newest(S)
    <2>1. \A a \in rest : Cardinality(Newer(S, a)) \in BatchSize .. n - 1
      BY <1>1, <1>2, RankFacts
    <2>2. /\ IsFiniteSet(BatchSize .. n - 1)
          /\ Cardinality(BatchSize .. n - 1) = IF BatchSize > n - 1 THEN 0 ELSE n - 1 - BatchSize + 1
      <3>1. BatchSize \in Int /\ n - 1 \in Int
        BY <1>2
      <3> HIDE DEF n
      <3>2. QED BY <3>1, FS_Interval
    <2>3. Cardinality(rest) <= Cardinality(BatchSize .. n - 1)
      <3>1. rest \in SUBSET S
        OBVIOUS
      <3> HIDE DEF rest, n
      <3>2. QED BY <2>1, <2>2, <3>1, RankBound
    <2> HIDE DEF rest
    <2>4. QED BY <1>2, <2>2, <2>3 DEF rest
  <1>6. QED BY <1>1, <1>2, <1>3, <1>4, <1>5

\* NewestFirst lists the articles of the set, and nothing else.
LEMMA NewestFirstFacts ==
    ASSUME NEW S \in SUBSET Articles
    PROVE  /\ NewestFirst(S) \in Seq(S)
           /\ Len(NewestFirst(S)) = Cardinality(S)
  <1>1. IsFiniteSet(S) /\ Cardinality(S) \in Nat
    BY ArticlesFinite
  <1> DEFINE n == Cardinality(S)
             rank == [a \in S |-> Cardinality(Newer(S, a))]
  <1>2. rank \in [S -> 0 .. n - 1]
    BY <1>1, RankFacts
  <1>3. \A a, b \in S : rank[a] = rank[b] => a = b
    BY RankFacts
  <1>4. rank \in Surjection(S, 0 .. n - 1)
    <2> HIDE DEF rank
    <2>1. rank \in Injection(S, 0 .. n - 1)
      BY <1>2, <1>3 DEF Injection, IsInjective
    <2>2. IsFiniteSet(0 .. n - 1) /\ Cardinality(0 .. n - 1) = n
      BY <1>1, FS_Interval
    <2>3. QED BY <2>1, <2>2, FS_Injection
  <1>5. ASSUME NEW i \in 1 .. n
        PROVE  (CHOOSE a \in S : Cardinality({b \in S : b > a}) = i - 1) \in S
    <2>1. i - 1 \in 0 .. n - 1
      BY <1>1
    <2>2. \E a \in S : rank[a] = i - 1
      BY <1>4, <2>1 DEF Surjection
    <2>3. QED BY <2>2 DEF Newer
  <1>6. NewestFirst(S) = [i \in 1 .. n |-> CHOOSE a \in S : Cardinality({b \in S : b > a}) = i - 1]
    BY DEF NewestFirst
  <1> DEFINE at(i) == CHOOSE a \in S : Cardinality({b \in S : b > a}) = i - 1
  <1>7. \A i \in 1 .. n : at(i) \in S
    BY <1>5
  <1> HIDE DEF at
  <1>8. NewestFirst(S) = [i \in 1 .. n |-> at(i)]
    BY <1>6 DEF at
  <1>9. QED BY <1>1, <1>7, <1>8
-----------------------------------------------------------------------------
(* Types.                                                                   *)

Job == [art : Articles, coins : SUBSET Coins, left : (SUBSET Coins) \ {{}}]

TablesTyped ==
    /\ source \in [Articles -> {"none", "keyword", "api"}]
    /\ tags \in [Articles -> SUBSET Coins]
    /\ scores \in [Articles -> SUBSET Coins]
    /\ hurt \in [Articles -> SUBSET {"torn", "merged", "raced", "halved"}]

LiveTyped == alive \in BOOLEAN /\ work \in Seq(Job) /\ Len(work) <= BatchSize

RepairTyped ==
    /\ step \in {"idle", "retag", "count", "score", "commit", "done"}
    /\ retag \subseteq Articles
    /\ batch \subseteq [art : Articles, coins : SUBSET Coins]
    /\ Cardinality(batch) <= BatchSize
    /\ budget \in 0 .. NArticles + Spare

BoundsTyped ==
    /\ merges \in 0 .. MaxMerges /\ crashes \in 0 .. MaxCrashes
    /\ undisturbed \in BOOLEAN

Typed == TablesTyped /\ LiveTyped /\ RepairTyped /\ BoundsTyped

LEMMA UnscoredArticles == Unscored \in SUBSET Articles
  BY DEF Unscored

LEMMA TablesNext == ASSUME Typed, [Next]_vars PROVE TablesTyped'
  <1> USE DEF TablesTyped
  <1>1. CASE UNCHANGED <<source, tags, scores, hurt>>
    BY <1>1 DEF Typed
  <1>2. ASSUME NEW a \in Articles, Arrive(a) \/ Forget(a)
        PROVE  TablesTyped'
    <2>1. CASE Arrive(a)
      <3>1. \A T \in Found[a] : T \in SUBSET Coins
        BY ScoringAssumption
      <3>2. QED BY <2>1, <3>1 DEF Arrive, Typed
    <2>2. CASE Forget(a)
      BY <2>2 DEF Forget, Typed
    <2>3. QED BY <1>2, <2>1, <2>2
  <1>3. CASE \E page \in SUBSET Articles, coin \in Coins : Merge(page, coin)
    BY <1>3 DEF Merge, Typed
  <1>4. CASE StoreScore
    <2>1. work \in Seq(Job) /\ work # << >>
      BY <1>4 DEF StoreScore, Typed, LiveTyped
    <2>2. Head(work) \in Job
      BY <2>1
    <2>3. PICK c \in Head(work).left : scores' = [scores EXCEPT ![Head(work).art] = @ \union {c}]
      BY <1>4 DEF StoreScore
    <2>4. c \in Coins /\ Head(work).art \in Articles
      BY <2>2, <2>3 DEF Job
    <2>5. scores' \in [Articles -> SUBSET Coins]
      BY <2>3, <2>4 DEF Typed
    <2>6. QED BY <1>4, <2>5 DEF StoreScore, Typed
  <1>5. CASE Crash
    BY <1>5 DEF Crash, Typed
  <1>6. ASSUME NEW some \in SUBSET retag, Retag(some)
        PROVE  TablesTyped'
    <2>1. tags' \in [Articles -> SUBSET Coins]
      BY <1>6, ScoringAssumption DEF Retag, Typed
    <2>2. scores' \in [Articles -> SUBSET Coins]
      BY <1>6 DEF Retag, Rescored, Typed
    <2>3. hurt' \in [Articles -> SUBSET {"torn", "merged", "raced", "halved"}]
      BY <1>6 DEF Retag, Typed
    <2>4. QED BY <1>6, <2>1, <2>2, <2>3 DEF Retag, Typed
  <1>7. CASE CommitBatch
    <2>1. \A b \in batch : b.coins \subseteq Coins
      BY DEF Typed, RepairTyped
    <2>2. scores' \in [Articles -> SUBSET Coins]
      BY <1>7, <2>1 DEF CommitBatch, Typed
    <2>3. QED BY <1>7, <2>2 DEF CommitBatch, Typed
  <1>8. CASE Fetch \/ Restart \/ Check \/ RetagDone \/ Count \/ FetchBatch \/ ScoreDone \/ Close \/ Abort
    BY <1>1, <1>8 DEF Fetch, Restart, Check, RetagDone, Count, FetchBatch, ScoreDone, Close, Abort, Broken
  <1>9. ASSUME NEW some \in SUBSET retag, NEW updated \in SUBSET some, NEW deleted \in SUBSET some,
               InterruptRetag(some, updated, deleted)
        PROVE  TablesTyped'
    <2>1. tags' \in [Articles -> SUBSET Coins]
      BY <1>9, ScoringAssumption DEF InterruptRetag, Typed
    <2>2. scores' \in [Articles -> SUBSET Coins]
      BY <1>9 DEF InterruptRetag, Rescored, Typed
    <2>3. hurt' \in [Articles -> SUBSET {"torn", "merged", "raced", "halved"}]
      BY <1>9 DEF InterruptRetag, Typed
    <2>4. QED BY <1>9, <2>1, <2>2, <2>3 DEF InterruptRetag, Broken, Typed
  <1>10. ASSUME NEW b \in batch, NEW stored \in SUBSET b.coins, InterruptScore(b, stored)
         PROVE  TablesTyped'
    <2>1. \A r \in batch : r.coins \subseteq Coins
      BY DEF Typed, RepairTyped
    <2>2. scores' \in [Articles -> SUBSET Coins]
      BY <1>10, <2>1 DEF InterruptScore, Typed
    <2>3. QED BY <1>10, <2>2 DEF InterruptScore, Broken, Typed
  <1>11. QED BY <1>1, <1>2, <1>3, <1>4, <1>5, <1>6, <1>7, <1>8, <1>9, <1>10
         DEF Next, Live, Repair, vars

\* The work of the live scorer is one batch of unscored articles.
LEMMA FetchFacts ==
    ASSUME Typed, Fetch
    PROVE  /\ work' \in Seq(Job) /\ Len(work') <= BatchSize
           /\ \A n \in 1 .. Len(work') :
                 /\ work'[n].art \in Unscored
                 /\ work'[n].coins = tags[work'[n].art] /\ work'[n].left = tags[work'[n].art]
  <1> DEFINE found == NewestFirst(Newest(Unscored))
  <1>1. found \in Seq(Newest(Unscored)) /\ Len(found) = Cardinality(Newest(Unscored))
    BY UnscoredArticles, NewestFacts, NewestFirstFacts
  <1>2. Cardinality(Newest(Unscored)) \in 0 .. BatchSize /\ Newest(Unscored) \in SUBSET Unscored
    BY UnscoredArticles, NewestFacts
  <1>3. work' = [n \in 1 .. Len(found) |->
                   [art |-> found[n], coins |-> tags[found[n]], left |-> tags[found[n]]]]
    BY DEF Fetch
  <1> HIDE DEF found
  <1>4. \A n \in 1 .. Len(found) : found[n] \in Unscored
    BY <1>1, <1>2
  <1>5. \A a \in Unscored : a \in Articles /\ tags[a] \in (SUBSET Coins) \ {{}}
    BY DEF Unscored, Typed, TablesTyped
  <1>6. \A n \in 1 .. Len(found) :
           [art |-> found[n], coins |-> tags[found[n]], left |-> tags[found[n]]] \in Job
    BY <1>4, <1>5 DEF Job
  <1>7. Len(found) \in Nat
    BY <1>1, <1>2
  <1>8. work' \in Seq(Job) /\ Len(work') = Len(found)
    BY <1>3, <1>6, <1>7
  <1>9. QED BY <1>1, <1>2, <1>3, <1>4, <1>8

\* What one insert leaves to do.
LEMMA StoreFacts ==
    ASSUME Typed, StoreScore
    PROVE  /\ work \in Seq(Job) /\ work # << >> /\ Len(work) \in Nat \ {0} /\ work[1] \in Job
           /\ UNCHANGED <<source, tags, hurt, batch, step, retag>>
           /\ \E c \in work[1].left :
                 /\ scores' = [scores EXCEPT ![work[1].art] = @ \union {c}]
                 /\ \/ /\ work[1].left = {c}
                       /\ Len(work') = Len(work) - 1
                       /\ \A n \in 1 .. Len(work') : work'[n] = work[n + 1]
                       /\ work' \in Seq(Job)
                    \/ /\ work[1].left # {c}
                       /\ Len(work') = Len(work)
                       /\ work'[1] = [work[1] EXCEPT !.left = @ \ {c}]
                       /\ \A n \in 2 .. Len(work) : work'[n] = work[n]
                       /\ work' \in Seq(Job)
  <1>1. work \in Seq(Job) /\ work # << >>
    BY DEF StoreScore, Typed, LiveTyped
  <1>2. Len(work) \in Nat \ {0} /\ work[1] \in Job /\ Head(work) = work[1]
    BY <1>1
  <1>3. PICK c \in work[1].left :
          /\ scores' = [scores EXCEPT ![work[1].art] = @ \union {c}]
          /\ work' = IF work[1].left = {c} THEN Tail(work) ELSE [work EXCEPT ![1].left = @ \ {c}]
    BY <1>2 DEF StoreScore
  <1>4. CASE work[1].left = {c}
    <2>1. work' = Tail(work)
      BY <1>3, <1>4
    <2>2. work' \in Seq(Job) /\ Len(work') = Len(work) - 1 /\ \A n \in 1 .. Len(work') : work'[n] = work[n + 1]
      BY <1>1, <1>2, <2>1
    <2>3. QED BY <1>1, <1>2, <1>3, <1>4, <2>2 DEF StoreScore, repairVars
  <1>5. CASE work[1].left # {c}
    <2>1. work' = [work EXCEPT ![1] = [work[1] EXCEPT !.left = @ \ {c}]]
      BY <1>1, <1>2, <1>3, <1>5
    <2>2. work[1].left \ {c} # {}
      BY <1>3, <1>5
    <2>3. [work[1] EXCEPT !.left = @ \ {c}] \in Job
      BY <1>2, <2>2 DEF Job
    <2>4. work' \in Seq(Job) /\ Len(work') = Len(work) /\ DOMAIN work = 1 .. Len(work)
      BY <1>1, <1>2, <2>1, <2>3
    <2>5. work'[1] = [work[1] EXCEPT !.left = @ \ {c}] /\ \A n \in 2 .. Len(work) : work'[n] = work[n]
      BY <1>1, <1>2, <2>1, <2>4
    <2>6. QED BY <1>1, <1>2, <1>3, <1>5, <2>4, <2>5 DEF StoreScore, repairVars
  <1>6. QED BY <1>4, <1>5

LEMMA LiveNext == ASSUME Typed, [Next]_vars PROVE LiveTyped'
  <1>1. CASE UNCHANGED liveVars
    BY <1>1 DEF Typed, LiveTyped, liveVars
  <1>2. CASE Fetch
    BY <1>2, FetchFacts DEF Fetch, Typed, LiveTyped
  <1>3. CASE StoreScore
    <2>1. work' \in Seq(Job) /\ Len(work') \in {Len(work), Len(work) - 1} /\ Len(work) \in Nat
      BY <1>3, StoreFacts
    <2>2. QED BY <1>3, <2>1, ScoringAssumption DEF StoreScore, Typed, LiveTyped
  <1>4. CASE Crash \/ Restart
    <2>1. alive' \in BOOLEAN
      BY <1>4 DEF Crash, Restart
    <2>2. work' \in {work, << >>}
      BY <1>4 DEF Crash, Restart
    <2>3. << >> \in Seq(Job) /\ Len(<< >>) <= BatchSize
      BY ScoringAssumption
    <2>4. QED BY <2>1, <2>2, <2>3 DEF Typed, LiveTyped
  <1>5. QED BY <1>1, <1>2, <1>3, <1>4
        DEF Next, Live, Repair, vars, liveVars, Arrive, Forget, Merge, Check, Retag, RetagDone,
            Count, FetchBatch, CommitBatch, ScoreDone, Close, Abort, Broken, InterruptRetag,
            InterruptScore

\* The batch of the repair.
LEMMA BatchFacts ==
    ASSUME Typed, FetchBatch
    PROVE  /\ batch' \subseteq [art : Articles, coins : SUBSET Coins]
           /\ Cardinality(batch') <= BatchSize
  <1> DEFINE N == Newest(Unscored)
             row == [a \in N |-> [art |-> a, coins |-> tags[a]]]
  <1>1. N \in SUBSET Unscored /\ IsFiniteSet(N) /\ Cardinality(N) \in 0 .. BatchSize
    BY UnscoredArticles, NewestFacts
  <1>2. batch' = {[art |-> a, coins |-> tags[a]] : a \in N}
    BY DEF FetchBatch
  <1> HIDE DEF N
  <1>3. row \in Surjection(N, batch')
    BY <1>2 DEF Surjection
  <1>4. IsFiniteSet(batch') /\ Cardinality(batch') <= Cardinality(N)
    BY <1>1, <1>3, FS_Surjection
  <1>5. Cardinality(batch') \in Nat
    BY <1>4, FS_CardinalityType
  <1>6. \A a \in N : a \in Articles /\ tags[a] \in SUBSET Coins
    BY <1>1, UnscoredArticles DEF Typed, TablesTyped
  <1>7. QED BY <1>1, <1>2, <1>4, <1>5, <1>6, ScoringAssumption

LEMMA BatchesBounded ==
    ASSUME NEW n \in 0 .. NArticles
    PROVE  /\ MaxBatches(n) \in 0 .. NArticles + Spare
           /\ n <= MaxBatches(n) * BatchSize
  <1>1. n \in Nat /\ NArticles \in Nat /\ BatchSize \in Nat \ {0} /\ Spare \in Nat \ {0}
    BY ScoringAssumption
  <1>2. n \div BatchSize \in 0 .. n
    BY <1>1
  <1>3. n <= (n \div BatchSize + Spare) * BatchSize
    BY <1>1
  <1>4. QED BY <1>1, <1>2, <1>3 DEF MaxBatches

LEMMA RepairNext == ASSUME Typed, [Next]_vars PROVE RepairTyped'
  <1>0. /\ 0 \in 0 .. NArticles + Spare
        /\ Cardinality({}) <= BatchSize
    BY ScoringAssumption, FS_EmptySet
  <1>1. CASE UNCHANGED repairVars
    BY <1>1 DEF Typed, RepairTyped, repairVars
  <1>2. CASE Check \/ RetagDone \/ CommitBatch \/ ScoreDone \/ Close \/ Abort
    BY <1>0, <1>2 DEF Check, RetagDone, CommitBatch, ScoreDone, Close, Abort, Broken,
                  Typed, RepairTyped
  <1>3. CASE \E some \in SUBSET retag : Retag(some)
    BY <1>3 DEF Retag, Typed, RepairTyped
  <1>4. CASE Count
    <2>1. budget' \in 0 .. NArticles + Spare
      BY <1>4, UnscoredArticles, ArticlesFinite, BatchesBounded DEF Count
    <2>2. QED BY <1>4, <2>1 DEF Count, Typed, RepairTyped
  <1>5. CASE FetchBatch
    <2>1. budget' \in 0 .. NArticles + Spare
      BY <1>5, ScoringAssumption DEF FetchBatch, Typed, RepairTyped
    <2>2. QED BY <1>5, <2>1, BatchFacts DEF FetchBatch, Typed, RepairTyped
  <1>6. CASE \/ \E some \in SUBSET retag : \E updated, deleted \in SUBSET some :
                   InterruptRetag(some, updated, deleted)
             \/ \E b \in batch : \E stored \in SUBSET b.coins : InterruptScore(b, stored)
    BY <1>0, <1>6 DEF InterruptRetag, InterruptScore, Broken, Typed, RepairTyped
  <1>7. QED BY <1>1, <1>2, <1>3, <1>4, <1>5, <1>6
        DEF Next, Live, Repair, vars, repairVars, Arrive, Forget, Merge, Fetch, StoreScore,
            Restart, Crash

LEMMA BoundsNext == ASSUME Typed, [Next]_vars PROVE BoundsTyped'
  <1>1. undisturbed' \in BOOLEAN
    <2>1. undisturbed \in BOOLEAN
      BY DEF Typed, BoundsTyped
    <2>2. undisturbed' \in {undisturbed, TRUE, FALSE}
      BY DEF Next, Live, Repair, vars, Arrive, Forget, Merge, Fetch, StoreScore, Restart, Crash,
             Check, Retag, RetagDone, Count, FetchBatch, CommitBatch, ScoreDone, Close, Abort,
             InterruptRetag, InterruptScore
    <2>3. QED BY <2>1, <2>2
  <1>2. /\ merges' = merges \/ (merges < MaxMerges /\ merges' = merges + 1)
        /\ crashes' = crashes \/ (crashes < MaxCrashes /\ crashes' = crashes + 1)
    BY DEF Next, Live, Repair, vars, repairVars, Arrive, Forget, Merge, Fetch, StoreScore, Restart,
           Crash, Check, Retag, RetagDone, Count, FetchBatch, CommitBatch, ScoreDone, Close, Abort,
           Broken, InterruptRetag, InterruptScore
  <1>3. merges' \in 0 .. MaxMerges /\ crashes' \in 0 .. MaxCrashes
    BY <1>2, ScoringAssumption DEF Typed, BoundsTyped
  <1>4. QED BY <1>1, <1>3 DEF BoundsTyped

LEMMA InitTyped == ASSUME Init PROVE Typed
  <1>1. TablesTyped
    BY DEF Init, TablesTyped
  <1>2. LiveTyped
    BY ScoringAssumption DEF Init, LiveTyped
  <1>3. RepairTyped
    BY ScoringAssumption, FS_EmptySet DEF Init, RepairTyped
  <1>4. BoundsTyped
    <2>1. merges \in 0 .. MaxMerges /\ crashes \in 0 .. MaxCrashes
      BY ScoringAssumption DEF Init
    <2>2. QED BY <2>1 DEF Init, BoundsTyped
  <1>5. QED BY <1>1, <1>2, <1>3, <1>4 DEF Typed

LEMMA NextTyped == ASSUME Typed, [Next]_vars PROVE Typed'
  BY TablesNext, LiveNext, RepairNext, BoundsNext DEF Typed

(* Every variable of the four writers (sentiment/run_sentiment_scoring.py,   *)
(* maintenance/repair.py) stays in its range; no scorer takes more than      *)
(* BATCH_SIZE articles, and the repair's count of batches is bounded.        *)
THEOREM TypeTheorem == Spec => []TypeOK
  <1>1. Typed => TypeOK
    BY DEF Typed, TablesTyped, LiveTyped, RepairTyped, BoundsTyped, TypeOK, Job
  <1>2. QED BY <1>1, InitTyped, NextTyped, PTL DEF Spec
-----------------------------------------------------------------------------
(* What is held of an article, and its scores.                              *)

\* No tags and no history without a row.
Fresh == \A a \in Articles : source[a] = "none" => tags[a] = {} /\ hurt[a] = {}

\* The coins of a job are tags of its article, unless retag() came between;
\* those that are not left have been stored.
WorkHeld ==
    \A n \in 1 .. Len(work) :
        /\ work[n].left \subseteq work[n].coins
        /\ n > 1 => work[n].left = work[n].coins
        /\ "raced" \notin hurt[work[n].art] =>
              /\ work[n].coins \subseteq tags[work[n].art]
              /\ work[n].coins \ work[n].left \subseteq scores[work[n].art]
        /\ hurt[work[n].art] = {} => work[n].coins = tags[work[n].art]

BatchHeld ==
    \A b \in batch :
        /\ step = "commit" /\ b.coins # {}
        /\ b.coins \subseteq tags[b.art]
        /\ hurt[b.art] = {} => b.coins = tags[b.art]

\* An article whose rows are there in part is the one at the head of the work.
InPart(a) == Len(work) > 0 /\ work[1].art = a /\ work[1].left # work[1].coins

Whole ==
    \A a \in Articles :
        hurt[a] = {} => scores[a] = {} \/ scores[a] = tags[a] \/ InPart(a)

RetagKeyword == \A a \in retag : source[a] = "keyword"

Held == Fresh /\ WorkHeld /\ BatchHeld /\ RightCoinsOnly /\ Whole /\ RetagKeyword

LEMMA TornInPart == ASSUME Typed PROVE Torn = {a \in Articles : InPart(a)}
  <1>1. work \in Seq(Job)
    BY DEF Typed, LiveTyped
  <1>2. CASE work = << >>
    BY <1>2 DEF Torn, InPart
  <1>3. CASE work # << >>
    <2>1. Len(work) > 0 /\ Head(work) = work[1] /\ work[1] \in Job
      BY <1>1, <1>3
    <2>2. QED BY <1>3, <2>1 DEF Torn, InPart, Job
  <1>4. QED BY <1>2, <1>3

LEMMA InitHeld == ASSUME Init PROVE Held
  <1>1. Len(work) = 0 /\ retag = {} /\ batch = {}
    BY DEF Init
  <1>2. Fresh /\ RightCoinsOnly /\ Whole
    BY DEF Init, Fresh, RightCoinsOnly, Whole
  <1>3. WorkHeld /\ BatchHeld /\ RetagKeyword
    BY <1>1 DEF WorkHeld, BatchHeld, RetagKeyword
  <1>4. QED BY <1>2, <1>3 DEF Held

\* Steps that change neither the tables nor the work.
LEMMA FrameHeld ==
    ASSUME Held, UNCHANGED <<source, tags, scores, work, hurt>>,
           \A a \in retag' : source[a] = "keyword",
           batch' \subseteq batch, batch' # {} => step' = "commit"
    PROVE  Held'
  <1>1. Fresh' /\ RightCoinsOnly' /\ Whole' /\ RetagKeyword'
    BY DEF Held, Fresh, RightCoinsOnly, Whole, InPart, RetagKeyword
  <1>2. WorkHeld'
    BY DEF Held, WorkHeld
  <1>3. BatchHeld'
    BY DEF Held, BatchHeld
  <1>4. QED BY <1>1, <1>2, <1>3 DEF Held

LEMMA WorkJobs ==
    ASSUME Typed
    PROVE  \A n \in 1 .. Len(work) : work[n] \in Job
  BY DEF Typed, LiveTyped

\* Nobody holds an article that has no row yet.
LEMMA ArriveHeld ==
    ASSUME Typed, Held, NEW a \in Articles, Arrive(a)
    PROVE  Held'
  <1>1. /\ source[a] = "none" /\ source' = [source EXCEPT ![a] = "keyword"]
        /\ UNCHANGED <<scores, work, hurt, batch, step, retag>>
    BY DEF Arrive, liveVars, repairVars
  <1>2. PICK T \in SUBSET Coins : tags' = [tags EXCEPT ![a] = T]
    <2>1. \A T \in Found[a] : T \in SUBSET Coins
      BY ScoringAssumption
    <2>2. QED BY <2>1 DEF Arrive
  <1>3. tags[a] = {} /\ hurt[a] = {} /\ scores[a] = {}
    BY <1>1 DEF Held, Fresh, RightCoinsOnly
  <1>4. \A n \in 1 .. Len(work) : work[n].art # a
    <2>1. \A n \in 1 .. Len(work) : work[n].left # {} /\ work[n].left \subseteq work[n].coins
      BY WorkJobs DEF Held, WorkHeld, Job
    <2>2. QED BY <1>3, <2>1 DEF Held, WorkHeld
  <1>5. \A b \in batch : b.art # a
    BY <1>3 DEF Held, BatchHeld
  <1>6. \A c \in Articles : c # a => tags'[c] = tags[c] /\ source'[c] = source[c]
    BY <1>1, <1>2 DEF Typed, TablesTyped
  <1>7. source'[a] = "keyword"
    BY <1>1 DEF Typed, TablesTyped
  <1>8. Fresh' /\ RightCoinsOnly' /\ RetagKeyword'
    <2>1. Fresh'
      BY <1>1, <1>6, <1>7 DEF Held, Fresh
    <2>2. RightCoinsOnly'
      BY <1>1, <1>3, <1>6 DEF Held, RightCoinsOnly
    <2>3. retag \subseteq Articles
      BY DEF Typed, RepairTyped
    <2>4. RetagKeyword'
      BY <1>1, <1>6, <1>7, <2>3 DEF Held, RetagKeyword
    <2>5. QED BY <2>1, <2>2, <2>4
  <1>9. Whole'
    BY <1>1, <1>3, <1>6 DEF Held, Whole, InPart
  <1>10. WorkHeld'
    <2>1. \A n \in 1 .. Len(work) : work[n].art \in Articles
      BY WorkJobs DEF Job
    <2>2. QED BY <1>1, <1>4, <1>6, <2>1 DEF Held, WorkHeld
  <1>11. BatchHeld'
    <2>1. \A b \in batch : b.art \in Articles
      BY DEF Typed, RepairTyped
    <2>2. QED BY <1>1, <1>5, <1>6, <2>1 DEF Held, BatchHeld
  <1>12. QED BY <1>8, <1>9, <1>10, <1>11 DEF Held

\* What is forgotten is in nobody's hands and in no plan.
LEMMA ForgetHeld ==
    ASSUME Typed, Held, NEW a \in Articles, Forget(a)
    PROVE  Held'
  <1>1. /\ UNCHANGED <<work, batch, step, retag>>
        /\ a \notin InHands /\ a \notin retag
        /\ source' = [source EXCEPT ![a] = "none"] /\ tags' = [tags EXCEPT ![a] = {}]
        /\ scores' = [scores EXCEPT ![a] = {}] /\ hurt' = [hurt EXCEPT ![a] = {}]
    BY DEF Forget, liveVars, repairVars
  <1>2. \A n \in 1 .. Len(work) : work[n].art \in Articles /\ work[n].art # a
    BY <1>1, WorkJobs DEF Job, InHands, InWork
  <1>3. \A b \in batch : b.art \in Articles /\ b.art # a
    BY <1>1 DEF Typed, RepairTyped, InHands
  <1>4. /\ tags'[a] = {} /\ scores'[a] = {} /\ hurt'[a] = {}
        /\ \A c \in Articles : c # a => /\ tags'[c] = tags[c] /\ source'[c] = source[c]
                                       /\ scores'[c] = scores[c] /\ hurt'[c] = hurt[c]
    BY <1>1 DEF Typed, TablesTyped
  <1>5. Fresh'
    BY <1>4 DEF Held, Fresh
  <1>6. RightCoinsOnly'
    <2> SUFFICES ASSUME NEW c \in Articles, hurt'[c] \intersect {"raced", "halved"} = {}
                 PROVE  scores'[c] \subseteq tags'[c]
      BY DEF RightCoinsOnly
    <2>1. CASE c = a
      BY <1>4, <2>1
    <2>2. CASE c # a
      BY <1>4, <2>2 DEF Held, RightCoinsOnly
    <2>3. QED BY <2>1, <2>2
  <1>7. Whole'
    BY <1>1, <1>4 DEF Held, Whole, InPart
  <1>8. WorkHeld'
    BY <1>1, <1>2, <1>4 DEF Held, WorkHeld
  <1>9. BatchHeld'
    BY <1>1, <1>3, <1>4 DEF Held, BatchHeld
  <1>10. RetagKeyword'
    BY <1>1, <1>4 DEF Held, RetagKeyword, Typed, RepairTyped
  <1>11. QED BY <1>5, <1>6, <1>7, <1>8, <1>9, <1>10 DEF Held

\* A coin only joins the tags; whoever holds the article or has scored it is hurt.
LEMMA MergeHeld ==
    ASSUME Typed, Held, NEW page \in SUBSET Articles, NEW coin \in Coins, Merge(page, coin)
    PROVE  Held'
  <1>1. /\ UNCHANGED <<scores, work, batch, step, retag>>
        /\ source' = [a \in Articles |->
                         IF a \in page /\ source[a] = "none" THEN "api" ELSE source[a]]
        /\ tags' = [a \in Articles |->
                       IF a \in page THEN tags[a] \union {coin} ELSE tags[a]]
        /\ hurt' = [a \in Articles |->
                       IF /\ a \in page /\ coin \notin tags[a]
                          /\ scores[a] # {} \/ a \in InHands
                         THEN hurt[a] \union {"merged"} ELSE hurt[a]]
    BY DEF Merge, liveVars, repairVars
  <1>2. ASSUME NEW a \in Articles
        PROVE  /\ tags[a] \subseteq tags'[a]
               /\ source'[a] = "none" => source[a] = "none" /\ a \notin page
               /\ source[a] = "keyword" => source'[a] = "keyword"
               /\ "raced" \in hurt'[a] <=> "raced" \in hurt[a]
               /\ hurt'[a] \intersect {"raced", "halved"} = hurt[a] \intersect {"raced", "halved"}
               /\ hurt'[a] = {} => hurt[a] = {}
               /\ hurt'[a] = {} /\ (scores[a] # {} \/ a \in InHands) => tags'[a] = tags[a]
               /\ a \notin page => tags'[a] = tags[a] /\ hurt'[a] = hurt[a]
    BY <1>1
  <1>3. \A n \in 1 .. Len(work) : work[n].art \in Articles /\ work[n].art \in InHands
    BY WorkJobs DEF Job, InHands, InWork
  <1>4. \A b \in batch : b.art \in Articles /\ b.art \in InHands
    BY DEF Typed, RepairTyped, InHands
  <1> HIDE DEF InHands
  <1>5. Fresh'
    BY <1>2 DEF Held, Fresh
  <1>6. RightCoinsOnly'
    BY <1>1, <1>2 DEF Held, RightCoinsOnly
  <1>7. RetagKeyword'
    BY <1>1, <1>2 DEF Held, RetagKeyword, Typed, RepairTyped
  <1>8. Whole'
    BY <1>1, <1>2 DEF Held, Whole, InPart
  <1>9. WorkHeld'
    <2> SUFFICES ASSUME NEW n \in 1 .. Len(work)
                 PROVE  /\ work[n].left \subseteq work[n].coins
                        /\ n > 1 => work[n].left = work[n].coins
                        /\ "raced" \notin hurt'[work[n].art] =>
                              /\ work[n].coins \subseteq tags'[work[n].art]
                              /\ work[n].coins \ work[n].left \subseteq scores[work[n].art]
                        /\ hurt'[work[n].art] = {} => work[n].coins = tags'[work[n].art]
      BY <1>1 DEF WorkHeld
    <2> DEFINE a == work[n].art
    <2>1. a \in Articles /\ a \in InHands
      BY <1>3
    <2>2. /\ "raced" \in hurt'[a] <=> "raced" \in hurt[a]
          /\ tags[a] \subseteq tags'[a]
          /\ hurt'[a] = {} => hurt[a] = {} /\ tags'[a] = tags[a]
      BY <1>2, <2>1
    <2>3. QED BY <2>2 DEF Held, WorkHeld
  <1>10. BatchHeld'
    <2> SUFFICES ASSUME NEW b \in batch
                 PROVE  /\ step = "commit" /\ b.coins # {}
                        /\ b.coins \subseteq tags'[b.art]
                        /\ hurt'[b.art] = {} => b.coins = tags'[b.art]
      BY <1>1 DEF BatchHeld
    <2> DEFINE a == b.art
    <2>1. a \in Articles /\ a \in InHands
      BY <1>4
    <2>2. /\ tags[a] \subseteq tags'[a]
          /\ hurt'[a] = {} => hurt[a] = {} /\ tags'[a] = tags[a]
      BY <1>2, <2>1
    <2>3. QED BY <2>2 DEF Held, BatchHeld
  <1>11. QED BY <1>5, <1>6, <1>7, <1>8, <1>9, <1>10 DEF Held

LEMMA FetchHeld == ASSUME Typed, Held, Fetch PROVE Held'
  <1>1. /\ UNCHANGED <<source, tags, scores, hurt, step, retag, batch>>
        /\ work = << >>
    BY DEF Fetch, repairVars
  <1>2. \A n \in 1 .. Len(work') :
           /\ work'[n].art \in Unscored
           /\ work'[n].coins = tags[work'[n].art] /\ work'[n].left = tags[work'[n].art]
    BY FetchFacts
  <1>3. WorkHeld'
    BY <1>1, <1>2 DEF WorkHeld
  <1>4. \A a \in Articles : ~ InPart(a)
    BY <1>1 DEF InPart
  <1>5. Fresh' /\ RightCoinsOnly' /\ Whole' /\ BatchHeld' /\ RetagKeyword'
    BY <1>1, <1>4 DEF Held, Fresh, RightCoinsOnly, Whole, BatchHeld, RetagKeyword
  <1>6. QED BY <1>3, <1>5 DEF Held

\* The last row of an article that nobody hurt completes it.
LEMMA StoreHeld == ASSUME Typed, Held, StoreScore PROVE Held'
  <1> DEFINE a == work[1].art
  <1>1. /\ Len(work) \in Nat \ {0} /\ work[1] \in Job /\ a \in Articles
        /\ UNCHANGED <<source, tags, hurt, batch, step, retag>>
    BY StoreFacts DEF Job
  <1>2. PICK c \in work[1].left :
          /\ scores' = [scores EXCEPT ![a] = @ \union {c}]
          /\ \/ /\ work[1].left = {c}
                /\ Len(work') = Len(work) - 1
                /\ \A n \in 1 .. Len(work') : work'[n] = work[n + 1]
             \/ /\ work[1].left # {c}
                /\ Len(work') = Len(work)
                /\ work'[1] = [work[1] EXCEPT !.left = @ \ {c}]
                /\ \A n \in 2 .. Len(work) : work'[n] = work[n]
    BY StoreFacts
  <1>3. /\ scores'[a] = scores[a] \union {c}
        /\ \A b \in Articles : b # a => scores'[b] = scores[b]
        /\ \A b \in Articles : scores[b] \subseteq scores'[b]
    BY <1>1, <1>2 DEF Typed, TablesTyped
  <1>4. /\ c \in work[1].coins /\ work[1].left \subseteq work[1].coins
        /\ "raced" \notin hurt[a] =>
              /\ work[1].coins \subseteq tags[a]
              /\ work[1].coins \ work[1].left \subseteq scores[a]
        /\ hurt[a] = {} => work[1].coins = tags[a]
    BY <1>1, <1>2 DEF Held, WorkHeld
  <1>5. \A n \in 1 .. Len(work) : work[n].art \in Articles
    BY WorkJobs DEF Job
  <1>6. Fresh' /\ BatchHeld' /\ RetagKeyword'
    BY <1>1 DEF Held, Fresh, BatchHeld, RetagKeyword
  <1>7. RightCoinsOnly'
    BY <1>1, <1>3, <1>4 DEF Held, RightCoinsOnly
  <1>8. \A b \in Articles : b # a => ~ InPart(b)
    BY <1>1 DEF InPart
  <1>9. CASE work[1].left = {c}
    <2>1. Len(work') = Len(work) - 1 /\ \A n \in 1 .. Len(work') : work'[n] = work[n + 1]
      BY <1>2, <1>9
    <2>2. WorkHeld'
      <3> SUFFICES ASSUME NEW n \in 1 .. Len(work')
                   PROVE  /\ work[n + 1].left = work[n + 1].coins
                          /\ "raced" \notin hurt[work[n + 1].art] =>
                                work[n + 1].coins \subseteq tags[work[n + 1].art]
                          /\ hurt[work[n + 1].art] = {} =>
                                work[n + 1].coins = tags[work[n + 1].art]
        BY <1>1, <2>1 DEF WorkHeld
      <3>1. n + 1 \in 1 .. Len(work) /\ n + 1 > 1
        BY <1>1, <2>1
      <3>2. QED BY <3>1 DEF Held, WorkHeld
    <2>3. hurt[a] = {} => scores'[a] = tags[a]
      BY <1>1, <1>3, <1>4, <1>9 DEF Held, RightCoinsOnly
    <2>4. Whole'
      BY <1>1, <1>3, <1>8, <2>3 DEF Held, Whole
    <2>5. QED BY <1>6, <1>7, <2>2, <2>4 DEF Held
  <1>10. CASE work[1].left # {c}
    <2>1. /\ Len(work') = Len(work) /\ work'[1] = [work[1] EXCEPT !.left = @ \ {c}]
          /\ \A n \in 2 .. Len(work) : work'[n] = work[n]
      BY <1>2, <1>10
    <2>2. work'[1].art = a /\ work'[1].coins = work[1].coins /\ work'[1].left = work[1].left \ {c}
      BY <1>1, <2>1 DEF Job
    <2>3. /\ work'[1].left \subseteq work'[1].coins
          /\ "raced" \notin hurt[a] =>
                /\ work'[1].coins \subseteq tags[a]
                /\ work'[1].coins \ work'[1].left \subseteq scores'[a]
          /\ hurt[a] = {} => work'[1].coins = tags[a]
      BY <1>3, <1>4, <2>2
    <2>4. WorkHeld'
      <3> SUFFICES ASSUME NEW n \in 1 .. Len(work')
                   PROVE  /\ work'[n].left \subseteq work'[n].coins
                          /\ n > 1 => work'[n].left = work'[n].coins
                          /\ "raced" \notin hurt[work'[n].art] =>
                                /\ work'[n].coins \subseteq tags[work'[n].art]
                                /\ work'[n].coins \ work'[n].left \subseteq scores'[work'[n].art]
                          /\ hurt[work'[n].art] = {} => work'[n].coins = tags[work'[n].art]
        BY <1>1 DEF WorkHeld
      <3>1. CASE n = 1
        BY <2>2, <2>3, <3>1
      <3>2. CASE n # 1
        <4>1. n \in 2 .. Len(work) /\ work'[n] = work[n] /\ n > 1 /\ n \in 1 .. Len(work)
          BY <1>1, <2>1, <3>2
        <4>2. scores[work[n].art] \subseteq scores'[work[n].art]
          BY <1>3, <1>5, <4>1
        <4>3. QED BY <4>1, <4>2 DEF Held, WorkHeld
      <3>3. QED BY <3>1, <3>2
    <2>5. InPart(a)'
      BY <1>1, <1>4, <2>1, <2>2 DEF InPart
    <2>6. Whole'
      <3> SUFFICES ASSUME NEW b \in Articles, hurt'[b] = {}
                   PROVE  scores'[b] = {} \/ scores'[b] = tags'[b] \/ InPart(b)'
        BY DEF Whole
      <3>1. CASE b = a
        BY <2>2, <2>5, <3>1 DEF InPart
      <3>2. CASE b # a
        BY <1>1, <1>3, <1>8, <3>2 DEF Held, Whole
      <3>3. QED BY <3>1, <3>2
    <2>7. QED BY <1>6, <1>7, <2>4, <2>6 DEF Held
  <1>11. QED BY <1>9, <1>10

\* A crash between two coins of an article leaves it torn.
LEMMA CrashHeld == ASSUME Typed, Held, Crash PROVE Held'
  <1>1. /\ UNCHANGED <<source, tags, scores, step, retag, batch>>
        /\ work' = << >>
        /\ hurt' = [a \in Articles |->
                       IF InPart(a) THEN hurt[a] \union {"torn"} ELSE hurt[a]]
    BY TornInPart DEF Crash, repairVars
  <1> HIDE DEF InPart
  <1>2. ASSUME NEW a \in Articles
        PROVE  /\ "raced" \in hurt'[a] <=> "raced" \in hurt[a]
               /\ hurt'[a] \intersect {"raced", "halved"} = hurt[a] \intersect {"raced", "halved"}
               /\ hurt'[a] = {} => hurt[a] = {} /\ ~ InPart(a)
               /\ ~ InPart(a) => hurt'[a] = hurt[a]
    BY <1>1
  <1>3. Len(work') = 0
    BY <1>1
  <1>4. Fresh'
    <2>1. ASSUME NEW a \in Articles, source[a] = "none"
          PROVE  ~ InPart(a)
      <3>1. tags[a] = {} /\ hurt[a] = {}
        BY <2>1 DEF Held, Fresh
      <3>2. ASSUME InPart(a) PROVE FALSE
        <4>1. 1 \in 1 .. Len(work) /\ work[1].art = a
          BY <3>2 DEF InPart, Typed, LiveTyped
        <4>2. work[1].coins = {} /\ work[1].left \subseteq work[1].coins
          BY <3>1, <4>1 DEF Held, WorkHeld
        <4>3. work[1].left # {}
          BY <4>1, WorkJobs DEF Job
        <4>4. QED BY <4>2, <4>3
      <3>3. QED BY <3>2
    <2>2. QED BY <1>1, <1>2, <2>1 DEF Held, Fresh
  <1>5. RightCoinsOnly'
    BY <1>1, <1>2 DEF Held, RightCoinsOnly
  <1>6. Whole'
    BY <1>1, <1>2 DEF Held, Whole
  <1>7. WorkHeld'
    BY <1>3 DEF WorkHeld
  <1>8. BatchHeld' /\ RetagKeyword'
    <2>1. \A b \in batch : b.art \in Articles
      BY DEF Typed, RepairTyped
    <2>2. BatchHeld'
      BY <1>1, <1>2, <2>1 DEF Held, BatchHeld
    <2>3. QED BY <1>1, <2>2 DEF Held, RetagKeyword
  <1>9. QED BY <1>4, <1>5, <1>6, <1>7, <1>8 DEF Held

\* New tags and no scores; what the live scorer holds of these articles is raced.
LEMMA RetagHeld ==
    ASSUME Typed, Held, NEW some \in SUBSET retag, Retag(some)
    PROVE  Held'
  <1>1. /\ UNCHANGED <<source, work, step, batch>>
        /\ step = "retag"
        /\ retag' = retag \ some
        /\ tags' = [a \in Articles |-> IF a \in some THEN Tagger[a] ELSE tags[a]]
        /\ scores' = [a \in Articles |-> IF a \in some THEN {} ELSE scores[a]]
        /\ hurt' = [a \in Articles |->
                       IF a \notin some THEN hurt[a]
                       ELSE IF a \in InWork THEN {"raced"} ELSE {}]
    BY DEF Retag, Rescored, liveVars
  <1>2. \A n \in 1 .. Len(work) : work[n].art \in Articles /\ work[n].art \in InWork
    BY WorkJobs DEF Job, InWork
  <1> HIDE DEF InWork
  <1>3. /\ \A a \in Articles \ some :
              tags'[a] = tags[a] /\ scores'[a] = scores[a] /\ hurt'[a] = hurt[a]
        /\ \A a \in Articles \intersect some :
              scores'[a] = {} /\ (a \in InWork => hurt'[a] = {"raced"})
    BY <1>1
  <1>4. batch = {}
    BY <1>1 DEF Held, BatchHeld
  <1>5. Fresh'
    BY <1>1, <1>3 DEF Held, Fresh, RetagKeyword
  <1>6. RightCoinsOnly'
    <2> SUFFICES ASSUME NEW a \in Articles, hurt'[a] \intersect {"raced", "halved"} = {}
                 PROVE  scores'[a] \subseteq tags'[a]
      BY DEF RightCoinsOnly
    <2>1. CASE a \in some
      BY <1>3, <2>1
    <2>2. CASE a \notin some
      BY <1>3, <2>2 DEF Held, RightCoinsOnly
    <2>3. QED BY <2>1, <2>2
  <1>7. Whole'
    <2> SUFFICES ASSUME NEW a \in Articles, hurt'[a] = {}
                 PROVE  scores'[a] = {} \/ scores'[a] = tags'[a] \/ InPart(a)'
      BY DEF Whole
    <2>1. CASE a \in some
      BY <1>3, <2>1
    <2>2. CASE a \notin some
      BY <1>1, <1>3, <2>2 DEF Held, Whole, InPart
    <2>3. QED BY <2>1, <2>2
  <1>8. WorkHeld'
    <2> SUFFICES ASSUME NEW n \in 1 .. Len(work)
                 PROVE  /\ work[n].left \subseteq work[n].coins
                        /\ n > 1 => work[n].left = work[n].coins
                        /\ "raced" \notin hurt'[work[n].art] =>
                              /\ work[n].coins \subseteq tags'[work[n].art]
                              /\ work[n].coins \ work[n].left \subseteq scores'[work[n].art]
                        /\ hurt'[work[n].art] = {} => work[n].coins = tags'[work[n].art]
      BY <1>1 DEF WorkHeld
    <2>1. CASE work[n].art \in some
      <3>1. hurt'[work[n].art] = {"raced"}
        BY <1>2, <1>3, <2>1
      <3>2. QED BY <3>1 DEF Held, WorkHeld
    <2>2. CASE work[n].art \notin some
      BY <1>2, <1>3, <2>2 DEF Held, WorkHeld
    <2>3. QED BY <2>1, <2>2
  <1>9. BatchHeld' /\ RetagKeyword'
    BY <1>1, <1>4 DEF Held, BatchHeld, RetagKeyword
  <1>10. QED BY <1>5, <1>6, <1>7, <1>8, <1>9 DEF Held

\* Half a transaction: what has new tags and old scores is halved.
LEMMA InterruptRetagHeld ==
    ASSUME Typed, Held, NEW some \in SUBSET retag, NEW updated \in SUBSET some,
           NEW deleted \in SUBSET some, InterruptRetag(some, updated, deleted)
    PROVE  Held'
  <1>1. /\ UNCHANGED <<source, work>>
        /\ retag' = {} /\ batch' = {} /\ deleted \subseteq updated
        /\ tags' = [a \in Articles |-> IF a \in updated THEN Tagger[a] ELSE tags[a]]
        /\ scores' = [a \in Articles |-> IF a \in deleted THEN {} ELSE scores[a]]
        /\ hurt' = [a \in Articles |->
                       IF a \notin updated THEN hurt[a]
                       ELSE (IF a \in deleted THEN {} ELSE hurt[a])
                              \union (IF a \in InWork THEN {"raced"} ELSE {})
                              \union (IF scores'[a] # {} THEN {"halved"} ELSE {})]
    BY DEF InterruptRetag, Broken, Rescored, liveVars
  <1>2. \A n \in 1 .. Len(work) : work[n].art \in Articles /\ work[n].art \in InWork
    BY WorkJobs DEF Job, InWork
  <1> HIDE DEF InWork
  <1>3. /\ \A a \in Articles \ updated :
              tags'[a] = tags[a] /\ scores'[a] = scores[a] /\ hurt'[a] = hurt[a]
        /\ \A a \in Articles \intersect updated :
              /\ scores'[a] # {} => "halved" \in hurt'[a]
              /\ a \in InWork => "raced" \in hurt'[a]
    BY <1>1
  <1>4. \A a \in updated : a \in retag
    OBVIOUS
  <1>5. Fresh'
    BY <1>1, <1>3, <1>4 DEF Held, Fresh, RetagKeyword
  <1>6. RightCoinsOnly'
    <2> SUFFICES ASSUME NEW a \in Articles, hurt'[a] \intersect {"raced", "halved"} = {}
                 PROVE  scores'[a] \subseteq tags'[a]
      BY DEF RightCoinsOnly
    <2>1. CASE a \in updated
      <3>1. "halved" \notin hurt'[a]
        OBVIOUS
      <3>2. QED BY <1>3, <2>1, <3>1
    <2>2. CASE a \notin updated
      BY <1>3, <2>2 DEF Held, RightCoinsOnly
    <2>3. QED BY <2>1, <2>2
  <1>7. Whole'
    <2> SUFFICES ASSUME NEW a \in Articles, hurt'[a] = {}
                 PROVE  scores'[a] = {} \/ scores'[a] = tags'[a] \/ InPart(a)'
      BY DEF Whole
    <2>1. CASE a \in updated
      BY <1>3, <2>1
    <2>2. CASE a \notin updated
      BY <1>1, <1>3, <2>2 DEF Held, Whole, InPart
    <2>3. QED BY <2>1, <2>2
  <1>8. WorkHeld'
    <2> SUFFICES ASSUME NEW n \in 1 .. Len(work)
                 PROVE  /\ work[n].left \subseteq work[n].coins
                        /\ n > 1 => work[n].left = work[n].coins
                        /\ "raced" \notin hurt'[work[n].art] =>
                              /\ work[n].coins \subseteq tags'[work[n].art]
                              /\ work[n].coins \ work[n].left \subseteq scores'[work[n].art]
                        /\ hurt'[work[n].art] = {} => work[n].coins = tags'[work[n].art]
      BY <1>1 DEF WorkHeld
    <2>1. CASE work[n].art \in updated
      <3>1. "raced" \in hurt'[work[n].art]
        BY <1>2, <1>3, <2>1
      <3>2. QED BY <3>1 DEF Held, WorkHeld
    <2>2. CASE work[n].art \notin updated
      BY <1>2, <1>3, <2>2 DEF Held, WorkHeld
    <2>3. QED BY <2>1, <2>2
  <1>9. BatchHeld' /\ RetagKeyword'
    BY <1>1 DEF BatchHeld, RetagKeyword
  <1>10. QED BY <1>5, <1>6, <1>7, <1>8, <1>9 DEF Held

LEMMA FetchBatchHeld == ASSUME Typed, Held, FetchBatch PROVE Held'
  <1>1. /\ UNCHANGED <<source, tags, scores, work, hurt, retag>>
        /\ step' = "commit"
        /\ batch' = {[art |-> a, coins |-> tags[a]] : a \in Newest(Unscored)}
    BY DEF FetchBatch, liveVars
  <1>2. \A a \in Newest(Unscored) : tags[a] # {}
    BY DEF Newest, Unscored
  <1>3. BatchHeld'
    BY <1>1, <1>2 DEF BatchHeld
  <1>4. WorkHeld'
    BY <1>1 DEF Held, WorkHeld
  <1>5. Fresh' /\ RightCoinsOnly' /\ Whole' /\ RetagKeyword'
    BY <1>1 DEF Held, Fresh, RightCoinsOnly, Whole, InPart, RetagKeyword
  <1>6. QED BY <1>3, <1>4, <1>5 DEF Held

\* What a batch holds of an article is right, and all of it unless it is hurt.
LEMMA BatchRows ==
    ASSUME Typed, Held, NEW a \in Articles, NEW mine,
           mine = {} \/ mine = {x \in batch : x.art = a}
    PROVE  LET new == UNION {r.coins : r \in mine} IN
           /\ new \subseteq tags[a]
           /\ hurt[a] = {} => new = {} \/ new = tags[a]
  <1> DEFINE new == UNION {r.coins : r \in mine}
  <1>1. \A b \in batch :
           b.art = a => b.coins \subseteq tags[a] /\ (hurt[a] = {} => b.coins = tags[a])
    BY DEF Held, BatchHeld
  <1>2. \A b \in mine : b \in batch /\ b.art = a
    OBVIOUS
  <1>3. \A c : c \in new <=> \E b \in mine : c \in b.coins
    OBVIOUS
  <1> HIDE DEF new
  <1>4. new \subseteq tags[a]
    BY <1>1, <1>2, <1>3
  <1>5. hurt[a] = {} => new = {} \/ new = tags[a]
    <2>1. CASE mine = {}
      BY <1>3, <2>1
    <2>2. CASE mine # {}
      BY <1>1, <1>2, <1>3, <2>2
    <2>3. QED BY <2>1, <2>2
  <1>6. QED BY <1>4, <1>5 DEF new

\* All rows of an article that nobody hurt since it was read.
LEMMA CommitHeld == ASSUME Typed, Held, CommitBatch PROVE Held'
  <1>1. /\ UNCHANGED <<source, tags, work, hurt, retag>>
        /\ batch' = {}
        /\ scores' = [a \in Articles |->
                         scores[a] \union UNION {b.coins : b \in {x \in batch : x.art = a}}]
    BY DEF CommitBatch, liveVars
  <1>2. ASSUME NEW a \in Articles
        PROVE  /\ scores[a] \subseteq scores'[a]
               /\ scores[a] \subseteq tags[a] => scores'[a] \subseteq tags[a]
               /\ hurt[a] = {} /\ scores[a] \subseteq tags[a] =>
                     scores'[a] = scores[a] \/ scores'[a] = tags[a]
    <2> DEFINE new == UNION {b.coins : b \in {x \in batch : x.art = a}}
    <2>1. scores'[a] = scores[a] \union new
      BY <1>1
    <2>2. new \subseteq tags[a] /\ (hurt[a] = {} => new = {} \/ new = tags[a])
      BY BatchRows
    <2> HIDE DEF new
    <2>3. QED BY <2>1, <2>2
  <1>3. Fresh' /\ BatchHeld' /\ RetagKeyword'
    BY <1>1 DEF Held, Fresh, BatchHeld, RetagKeyword
  <1>4. RightCoinsOnly'
    BY <1>1, <1>2 DEF Held, RightCoinsOnly
  <1>5. Whole'
    <2> SUFFICES ASSUME NEW a \in Articles, hurt[a] = {}
                 PROVE  scores'[a] = {} \/ scores'[a] = tags[a] \/ InPart(a)'
      BY <1>1 DEF Whole
    <2>1. InPart(a)' <=> InPart(a)
      BY <1>1 DEF InPart
    <2>2. scores[a] \subseteq tags[a]
      BY DEF Held, RightCoinsOnly
    <2>3. scores[a] = {} \/ scores[a] = tags[a] \/ InPart(a)
      BY DEF Held, Whole
    <2>4. QED BY <1>2, <2>1, <2>2, <2>3
  <1>6. WorkHeld'
    <2>1. \A n \in 1 .. Len(work) : work[n].art \in Articles
      BY WorkJobs DEF Job
    <2>2. QED BY <1>1, <1>2, <2>1 DEF Held, WorkHeld
  <1>7. QED BY <1>3, <1>4, <1>5, <1>6 DEF Held

\* The newer articles of the batch whole, one of them perhaps in part.
LEMMA InterruptScoreHeld ==
    ASSUME Typed, Held, NEW b \in batch, NEW stored \in SUBSET b.coins, InterruptScore(b, stored)
    PROVE  Held'
  <1>1. /\ UNCHANGED <<source, tags, work>>
        /\ batch' = {} /\ retag' = {}
        /\ scores' = [a \in Articles |->
                         IF a = b.art THEN scores[a] \union stored
                         ELSE scores[a] \union
                                UNION {r.coins : r \in {x \in batch : x.art = a /\ a > b.art}}]
        /\ hurt' = [a \in Articles |->
                       IF a = b.art /\ stored \notin {{}, b.coins}
                         THEN hurt[a] \union {"torn"} ELSE hurt[a]]
    BY DEF InterruptScore, Broken, liveVars
  <1>2. b.art \in Articles
    BY DEF Typed, RepairTyped
  <1>3. b.coins # {} /\ b.coins \subseteq tags[b.art] /\ (hurt[b.art] = {} => b.coins = tags[b.art])
    BY DEF Held, BatchHeld
  <1>4. ASSUME NEW a \in Articles
        PROVE  /\ "raced" \in hurt'[a] <=> "raced" \in hurt[a]
               /\ hurt'[a] \intersect {"raced", "halved"} = hurt[a] \intersect {"raced", "halved"}
               /\ hurt'[a] = {} => hurt[a] = {} /\ (a = b.art => stored \in {{}, b.coins})
               /\ source[a] = "none" => a # b.art
               /\ a # b.art => hurt'[a] = hurt[a]
    <2>1. source[a] = "none" => tags[a] = {}
      BY DEF Held, Fresh
    <2>2. QED BY <1>1, <1>3, <2>1
  <1>5. ASSUME NEW a \in Articles
        PROVE  /\ scores[a] \subseteq scores'[a]
               /\ scores[a] \subseteq tags[a] => scores'[a] \subseteq tags[a]
               /\ hurt'[a] = {} /\ scores[a] \subseteq tags[a] =>
                     scores'[a] = scores[a] \/ scores'[a] = tags[a]
    <2> DEFINE newer == {x \in batch : x.art = a /\ a > b.art}
               new == UNION {r.coins : r \in newer}
    <2>1. scores'[a] = IF a = b.art THEN scores[a] \union stored ELSE scores[a] \union new
      BY <1>1
    <2>2. newer = {} \/ newer = {x \in batch : x.art = a}
      <3>1. CASE a > b.art
        BY <3>1
      <3>2. CASE ~ (a > b.art)
        BY <3>2
      <3>3. QED BY <3>1, <3>2
    <2> HIDE DEF newer
    <2>3. new \subseteq tags[a] /\ (hurt[a] = {} => new = {} \/ new = tags[a])
      BY <2>2, BatchRows
    <2> HIDE DEF new
    <2>4. CASE a = b.art
      BY <1>3, <1>4, <2>1, <2>3, <2>4
    <2>5. CASE a # b.art
      BY <1>4, <2>1, <2>3, <2>5
    <2>6. QED BY <2>4, <2>5
  <1>6. Fresh'
    BY <1>1, <1>4 DEF Held, Fresh
  <1>7. RightCoinsOnly'
    BY <1>1, <1>4, <1>5 DEF Held, RightCoinsOnly
  <1>8. Whole'
    <2> SUFFICES ASSUME NEW a \in Articles, hurt'[a] = {}
                 PROVE  scores'[a] = {} \/ scores'[a] = tags'[a] \/ InPart(a)'
      BY DEF Whole
    <2>1. InPart(a)' <=> InPart(a)
      BY <1>1 DEF InPart
    <2>2. hurt[a] = {}
      BY <1>4
    <2>3. scores[a] \subseteq tags[a]
      BY <2>2 DEF Held, RightCoinsOnly
    <2>4. scores[a] = {} \/ scores[a] = tags[a] \/ InPart(a)
      BY <2>2 DEF Held, Whole
    <2>5. QED BY <1>1, <1>5, <2>1, <2>3, <2>4
  <1>9. WorkHeld'
    <2> SUFFICES ASSUME NEW n \in 1 .. Len(work)
                 PROVE  /\ work[n].left \subseteq work[n].coins
                        /\ n > 1 => work[n].left = work[n].coins
                        /\ "raced" \notin hurt'[work[n].art] =>
                              /\ work[n].coins \subseteq tags[work[n].art]
                              /\ work[n].coins \ work[n].left \subseteq scores'[work[n].art]
                        /\ hurt'[work[n].art] = {} => work[n].coins = tags[work[n].art]
      BY <1>1 DEF WorkHeld
    <2> DEFINE a == work[n].art
    <2>1. a \in Articles
      BY WorkJobs DEF Job
    <2>2. /\ "raced" \in hurt'[a] <=> "raced" \in hurt[a]
          /\ hurt'[a] = {} => hurt[a] = {}
          /\ scores[a] \subseteq scores'[a]
      BY <1>4, <1>5, <2>1
    <2>3. QED BY <2>2 DEF Held, WorkHeld
  <1>10. BatchHeld' /\ RetagKeyword'
    BY <1>1 DEF BatchHeld, RetagKeyword
  <1>11. QED BY <1>6, <1>7, <1>8, <1>9, <1>10 DEF Held

LEMMA NextHeld == ASSUME Typed, Held, [Next]_vars PROVE Held'
  <1>1. \A a \in retag : source[a] = "keyword"
    BY DEF Held, RetagKeyword
  <1>2. batch # {} => step = "commit"
    BY DEF Held, BatchHeld
  <1>3. CASE \E a \in Articles : Arrive(a) \/ Forget(a)
    BY <1>3, ArriveHeld, ForgetHeld
  <1>4. CASE \E page \in SUBSET Articles, coin \in Coins : Merge(page, coin)
    BY <1>4, MergeHeld
  <1>5. CASE Fetch
    BY <1>5, FetchHeld
  <1>6. CASE StoreScore
    BY <1>6, StoreHeld
  <1>7. CASE Crash
    BY <1>7, CrashHeld
  <1>8. CASE \E some \in SUBSET retag : Retag(some)
    BY <1>8, RetagHeld
  <1>9. CASE FetchBatch
    BY <1>9, FetchBatchHeld
  <1>10. CASE CommitBatch
    BY <1>10, CommitHeld
  <1>11. CASE Restart \/ Check \/ RetagDone \/ Count \/ ScoreDone \/ Close \/ Abort \/ UNCHANGED vars
    <2>1. UNCHANGED <<source, tags, scores, hurt>>
      BY <1>11 DEF Restart, Check, RetagDone, Count, ScoreDone, Close, Abort, Broken, vars
    <2>2. work' = work
      BY <1>11 DEF Restart, Check, RetagDone, Count, ScoreDone, Close, Abort, Broken, vars, liveVars
    <2>3. \A a \in retag' : source[a] = "keyword"
      BY <1>1, <1>11 DEF Restart, Check, RetagDone, Count, ScoreDone, Close, Abort, Broken, vars, repairVars
    <2>4. batch' = {} \/ (batch' = batch /\ step' = step) \/ (batch' = batch /\ step # "commit")
      BY <1>11 DEF Restart, Check, RetagDone, Count, ScoreDone, Close, Abort, Broken, vars, repairVars
    <2>5. batch' \subseteq batch /\ (batch' # {} => step' = "commit")
      BY <1>2, <2>4
    <2>6. QED BY <2>1, <2>2, <2>3, <2>5, FrameHeld
  <1>12. CASE \E some \in SUBSET retag : \E updated, deleted \in SUBSET some :
                 InterruptRetag(some, updated, deleted)
    BY <1>12, InterruptRetagHeld
  <1>13. CASE \E b \in batch : \E stored \in SUBSET b.coins : InterruptScore(b, stored)
    BY <1>13, InterruptScoreHeld
  <1>14. QED BY <1>3, <1>4, <1>5, <1>6, <1>7, <1>8, <1>9, <1>10, <1>11, <1>12, <1>13
         DEF Next, Live, Repair

THEOREM HeldTheorem == Spec => [](Typed /\ Held)
  <1>1. Init => Typed /\ Held
    BY InitTyped, InitHeld
  <1>2. Typed /\ Held /\ [Next]_vars => (Typed /\ Held)'
    BY NextTyped, NextHeld
  <1>3. QED BY <1>1, <1>2, PTL DEF Spec

(* Two scorers on the same article, a repair that is killed anywhere and a   *)
(* merge in between leave no score for a coin the article does not have      *)
(* (sentiment/run_sentiment_scoring.py _score_and_store(),                   *)
(* maintenance/repair.py retag() and score()); only re-tagging what the live *)
(* scorer holds does, and a retag() that is interrupted between its UPDATEs  *)
(* and its DELETEs and then committed (tools/health_check.py:203-207).       *)
THEOREM RightCoinsTheorem == Spec => []RightCoinsOnly
  <1>1. Held => RightCoinsOnly
    BY DEF Held
  <1>2. QED BY <1>1, HeldTheorem, PTL

(* An article that has a score has a score for each of its coins, or the     *)
(* live scorer is about to store the others, unless a scorer stopped between *)
(* two of its coins and what it stored was committed, it was merged while a  *)
(* scorer had read it, or one of the two cases of RightCoinsTheorem.         *)
THEOREM WholeArticlesTheorem == Spec => []WholeArticles
  <1>1. ASSUME Typed, Held PROVE WholeArticles
    <2> SUFFICES ASSUME NEW a \in Articles, hurt[a] = {}, scores[a] # {}, scores[a] # tags[a]
                 PROVE  \E n \in 1 .. Len(work) :
                           work[n].art = a /\ scores[a] \union work[n].left = tags[a]
      BY DEF WholeArticles
    <2>1. Len(work) > 0 /\ work[1].art = a
      BY <1>1 DEF Held, Whole, InPart
    <2>2. 1 \in 1 .. Len(work)
      BY <1>1, <2>1 DEF Typed, LiveTyped
    <2>3. scores[a] \subseteq tags[a]
      <3>1. hurt[a] \intersect {"raced", "halved"} = {}
        OBVIOUS
      <3>2. QED BY <1>1, <3>1 DEF Held, RightCoinsOnly
    <2>4. /\ work[1].coins = tags[a] /\ work[1].left \subseteq work[1].coins
          /\ work[1].coins \ work[1].left \subseteq scores[a]
      BY <1>1, <2>1, <2>2 DEF Held, WorkHeld
    <2>5. scores[a] \union work[1].left = tags[a]
      BY <2>3, <2>4
    <2>6. QED BY <2>1, <2>2, <2>5
  <1>2. QED BY <1>1, HeldTheorem, PTL
-----------------------------------------------------------------------------
(* The repair. While nobody else writes tags, what it has to do shrinks.    *)

Batched == {b.art : b \in batch}

\* Every keyword article has the current tags or is still to be re-tagged.
Tagged ==
    step # "idle" =>
        \A a \in Articles : source[a] = "keyword" => a \in retag \/ tags[a] = Tagger[a]

\* The batches that are left are enough for the articles that are.
Enough ==
    /\ step = "score" => Cardinality(Unscored) <= budget * BatchSize
    /\ step = "commit" => Cardinality(Unscored \ Batched) <= budget * BatchSize
    /\ step = "done" => Unscored = {}

Healing ==
    undisturbed =>
        /\ Tagged
        /\ step \in {"count", "score", "commit", "done"} => retag = {}
        /\ Enough

LEMMA Shrinks ==
    ASSUME NEW S \in SUBSET Articles, NEW T \in SUBSET S,
           NEW n \in Nat, Cardinality(S) <= n * BatchSize
    PROVE  Cardinality(T) <= n * BatchSize
  <1>1. IsFiniteSet(S) /\ Cardinality(S) \in Nat
    BY ArticlesFinite
  <1>2. Cardinality(T) \in Nat /\ Cardinality(T) <= Cardinality(S)
    BY <1>1, FS_Subset, FS_CardinalityType
  <1>3. n * BatchSize \in Nat
    BY ScoringAssumption
  <1>4. QED BY <1>1, <1>2, <1>3

\* Steps of the live scorer, and what is forgotten: some article may not be unscored any more.
LEMMA LiveHealing ==
    ASSUME Typed, Healing, UNCHANGED <<repairVars, undisturbed>>,
           Unscored' \subseteq Unscored, Tagged => Tagged'
    PROVE  Healing'
  <1>1. UNCHANGED <<step, retag, batch, budget>> /\ Batched' = Batched
    BY DEF repairVars, Batched
  <1>2. budget \in Nat
    BY ScoringAssumption DEF Typed, RepairTyped
  <1>4. Enough => Enough'
    <2> SUFFICES ASSUME Enough PROVE Enough'
      OBVIOUS
    <2>1. CASE step = "score"
      <3>1. Cardinality(Unscored') <= budget * BatchSize
        BY <1>2, <2>1, UnscoredArticles, Shrinks DEF Enough
      <3>2. QED BY <1>1, <2>1, <3>1 DEF Enough
    <2>2. CASE step = "commit"
      <3>1. Unscored \ Batched \in SUBSET Articles /\ Unscored' \ Batched \subseteq Unscored \ Batched
        BY UnscoredArticles
      <3>2. Cardinality(Unscored' \ Batched) <= budget * BatchSize
        BY <1>2, <2>2, <3>1, Shrinks DEF Enough
      <3>3. QED BY <1>1, <2>2, <3>2 DEF Enough
    <2>3. CASE step \notin {"score", "commit"}
      BY <1>1, <2>3 DEF Enough
    <2>4. QED BY <2>1, <2>2, <2>3
  <1>5. QED BY <1>1, <1>4 DEF Healing

LEMMA CountHealing == ASSUME Typed, Healing, Count PROVE Healing'
  <1>1. /\ UNCHANGED <<source, tags, scores, retag, batch, undisturbed>> /\ Unscored' = Unscored
        /\ step = "count" /\ budget' = MaxBatches(Cardinality(Unscored))
        /\ step' = IF Unscored = {} THEN "done" ELSE "score"
    BY DEF Count, Unscored
  <1>2. Cardinality(Unscored) <= budget' * BatchSize
    BY <1>1, UnscoredArticles, ArticlesFinite, BatchesBounded
  <1>3. Enough'
    BY <1>1, <1>2 DEF Enough
  <1>4. undisturbed => Tagged' /\ retag' = {}
    BY <1>1 DEF Healing, Tagged
  <1>5. QED BY <1>1, <1>3, <1>4 DEF Healing

\* A batch of the newest leaves one batch less.
LEMMA FetchBatchHealing == ASSUME Typed, Healing, FetchBatch PROVE Healing'
  <1>1. /\ UNCHANGED <<source, tags, scores, retag, undisturbed>>
        /\ Unscored' = Unscored
        /\ step = "score" /\ step' = "commit"
        /\ budget > 0 /\ budget' = budget - 1
        /\ batch' = {[art |-> a, coins |-> tags[a]] : a \in Newest(Unscored)}
    BY DEF FetchBatch, Unscored
  <1>2. Batched' = Newest(Unscored)
    <2> DEFINE row(a) == [art |-> a, coins |-> tags[a]]
               N == Newest(Unscored)
    <2>1. batch' = {row(a) : a \in N} /\ \A a : row(a).art = a
      BY <1>1
    <2> HIDE DEF row, N
    <2>2. \A b : b \in batch' <=> \E a \in N : b = row(a)
      BY <2>1
    <2>3. \A a : a \in Batched' <=> \E b \in batch' : a = b.art
      BY DEF Batched
    <2>4. \A a : a \in Batched' <=> a \in N
      BY <2>1, <2>2, <2>3
    <2>5. QED BY <2>4 DEF N
  <1>3. ASSUME undisturbed
        PROVE  Cardinality(Unscored \ Newest(Unscored)) <= (budget - 1) * BatchSize
    <2> DEFINE u == Cardinality(Unscored)
               rest == Cardinality(Unscored \ Newest(Unscored))
    <2>1. u <= budget * BatchSize
      BY <1>1, <1>3 DEF Healing, Enough
    <2>2. rest <= IF u <= BatchSize THEN 0 ELSE u - BatchSize
      BY UnscoredArticles, NewestFacts
    <2>3. u \in Nat /\ rest \in Nat
      <3>1. Unscored \ Newest(Unscored) \in SUBSET Articles
        BY UnscoredArticles
      <3>2. QED BY <3>1, UnscoredArticles, ArticlesFinite
    <2>4. budget \in Nat \ {0} /\ BatchSize \in Nat
      BY <1>1, ScoringAssumption DEF Typed, RepairTyped
    <2>5. (budget - 1) * BatchSize = budget * BatchSize - BatchSize /\ (budget - 1) * BatchSize \in Nat
      BY <2>4
    <2> HIDE DEF u, rest
    <2>6. rest <= (budget - 1) * BatchSize
      BY <2>1, <2>2, <2>3, <2>4, <2>5
    <2>7. QED BY <2>6 DEF rest
  <1>4. undisturbed => Enough'
    BY <1>1, <1>2, <1>3 DEF Enough
  <1>5. undisturbed => Tagged' /\ retag' = {}
    BY <1>1 DEF Healing, Tagged
  <1>6. QED BY <1>1, <1>4, <1>5 DEF Healing

\* An article of the batch has a coin, so it is not unscored any more.
LEMMA CommitHealing == ASSUME Typed, Held, Healing, CommitBatch PROVE Healing'
  <1>1. /\ UNCHANGED <<source, tags, retag, budget, undisturbed>>
        /\ step = "commit" /\ step' = "score"
        /\ scores' = [a \in Articles |->
                         scores[a] \union UNION {b.coins : b \in {x \in batch : x.art = a}}]
    BY DEF CommitBatch
  <1>2. Unscored' \subseteq Unscored \ Batched
    <2>1. ASSUME NEW a \in Articles, scores'[a] = {}
          PROVE  scores[a] = {} /\ a \notin Batched
      <3> DEFINE new == UNION {b.coins : b \in {x \in batch : x.art = a}}
      <3>1. scores[a] = {} /\ new = {}
        BY <1>1, <2>1
      <3>2. ASSUME NEW b \in batch, b.art = a
            PROVE  FALSE
        <4>1. b.coins # {} /\ b \in {x \in batch : x.art = a}
          BY <3>2 DEF Held, BatchHeld
        <4>2. b.coins \subseteq new
          BY <4>1
        <4> HIDE DEF new
        <4>3. QED BY <3>1, <4>1, <4>2
      <3>3. QED BY <3>1, <3>2 DEF Batched
    <2>2. QED BY <1>1, <2>1 DEF Unscored
  <1>3. undisturbed => Enough'
    <2>1. budget \in Nat
      BY ScoringAssumption DEF Typed, RepairTyped
    <2>2. Unscored \ Batched \in SUBSET Articles
      BY UnscoredArticles
    <2>3. undisturbed => Cardinality(Unscored') <= budget * BatchSize
      BY <1>1, <1>2, <2>1, <2>2, Shrinks DEF Healing, Enough
    <2>4. QED BY <1>1, <2>3 DEF Enough
  <1>4. undisturbed => Tagged' /\ retag' = {}
    BY <1>1 DEF Healing, Tagged
  <1>5. QED BY <1>1, <1>3, <1>4 DEF Healing

LEMMA RetagHealing ==
    ASSUME Typed, Healing, NEW some \in SUBSET retag, Retag(some)
    PROVE  Healing'
  <1>1. /\ UNCHANGED <<source, step, undisturbed>>
        /\ step = "retag" /\ retag' = retag \ some
        /\ tags' = [a \in Articles |-> IF a \in some THEN Tagger[a] ELSE tags[a]]
    BY DEF Retag
  <1>2. Tagged => Tagged'
    BY <1>1 DEF Tagged
  <1>3. QED BY <1>1, <1>2 DEF Healing, Enough

\* The last budgeted batch is only refused when there is nothing for it.
LEMMA DoneHealing == ASSUME Typed, Healing, ScoreDone PROVE Healing'
  <1>1. /\ UNCHANGED <<source, tags, scores, retag, undisturbed>> /\ Unscored' = Unscored
        /\ step = "score" /\ step' = "done"
        /\ budget = 0 \/ Unscored = {}
    BY DEF ScoreDone, Unscored
  <1>2. ASSUME undisturbed PROVE Unscored = {}
    <2>1. CASE budget = 0
      <3>1. Cardinality(Unscored) <= 0
        BY <1>1, <1>2, <2>1, ScoringAssumption DEF Healing, Enough
      <3>2. IsFiniteSet(Unscored) /\ Cardinality(Unscored) = 0
        BY <3>1, UnscoredArticles, ArticlesFinite, ScoringAssumption
      <3>3. QED BY <3>2, FS_EmptySet
    <2>2. QED BY <1>1, <2>1
  <1>3. QED BY <1>1, <1>2 DEF Healing, Tagged, Enough

LEMMA NextHealing == ASSUME Typed, Held, Healing, [Next]_vars PROVE Healing'
  <1>1. CASE \/ \E a \in Articles : Arrive(a)
             \/ \E page \in SUBSET Articles, coin \in Coins : Merge(page, coin)
             \/ \E some \in SUBSET retag : \E updated, deleted \in SUBSET some :
                   InterruptRetag(some, updated, deleted)
    <2>1. undisturbed' = FALSE
      BY <1>1 DEF Arrive, Merge, InterruptRetag
    <2>2. QED BY <2>1 DEF Healing
  <1>2. CASE Fetch \/ Restart \/ Crash \/ UNCHANGED vars
    <2>1. UNCHANGED <<source, tags, scores, repairVars, undisturbed>>
      BY <1>2 DEF Fetch, Restart, Crash, vars, repairVars
    <2>2. Unscored' = Unscored /\ (Tagged => Tagged')
      BY <2>1 DEF Unscored, Tagged, repairVars
    <2>3. QED BY <2>1, <2>2, LiveHealing
  <1>3. CASE StoreScore
    <2>1. UNCHANGED <<source, tags, repairVars, undisturbed>>
      BY <1>3 DEF StoreScore
    <2>2. PICK c : scores' = [scores EXCEPT ![work[1].art] = @ \union {c}]
      BY <1>3, StoreFacts
    <2>3. \A a \in Articles : scores[a] \subseteq scores'[a]
      BY <2>2 DEF Typed, TablesTyped
    <2>4. Unscored' \subseteq Unscored
      BY <2>1, <2>3 DEF Unscored
    <2>5. Tagged => Tagged'
      BY <2>1 DEF Tagged, repairVars
    <2>6. QED BY <2>1, <2>4, <2>5, LiveHealing
  <1>4. CASE Check
    <2>1. /\ UNCHANGED <<source, tags>>
          /\ step' = "retag"
          /\ retag' = {a \in Articles : source[a] = "keyword" /\ tags[a] # Tagger[a]}
      BY <1>4 DEF Check
    <2>2. QED BY <2>1 DEF Healing, Tagged, Enough
  <1>5. CASE \E some \in SUBSET retag : Retag(some)
    BY <1>5, RetagHealing
  <1>6. CASE RetagDone
    <2>1. /\ UNCHANGED <<source, tags, retag, undisturbed>>
          /\ step = "retag" /\ retag = {} /\ step' = "count"
      BY <1>6 DEF RetagDone
    <2>2. QED BY <2>1 DEF Healing, Tagged, Enough
  <1>7. CASE Count
    BY <1>7, CountHealing
  <1>8. CASE FetchBatch
    BY <1>8, FetchBatchHealing
  <1>9. CASE CommitBatch
    BY <1>9, CommitHealing
  <1>10. CASE ScoreDone
    BY <1>10, DoneHealing
  <1>11. CASE Close \/ Abort
              \/ \E b \in batch : \E stored \in SUBSET b.coins : InterruptScore(b, stored)
    <2>1. step' = "idle"
      BY <1>11 DEF Close, Abort, Broken, InterruptScore
    <2>2. QED BY <2>1 DEF Healing, Tagged, Enough
  <1>12. ASSUME NEW a \in Articles, Forget(a)
         PROVE  Healing'
    <2>1. /\ UNCHANGED <<repairVars, undisturbed>>
          /\ source' = [source EXCEPT ![a] = "none"] /\ tags' = [tags EXCEPT ![a] = {}]
          /\ scores' = [scores EXCEPT ![a] = {}]
      BY <1>12 DEF Forget
    <2>2. /\ source'[a] = "none" /\ tags'[a] = {}
          /\ \A c \in Articles : c # a =>
                /\ source'[c] = source[c] /\ tags'[c] = tags[c] /\ scores'[c] = scores[c]
      BY <2>1 DEF Typed, TablesTyped
    <2>3. Unscored' \subseteq Unscored
      BY <2>2 DEF Unscored
    <2>4. Tagged => Tagged'
      BY <2>1, <2>2 DEF Tagged, repairVars
    <2>5. QED BY <2>1, <2>3, <2>4, LiveHealing
  <1>13. QED BY <1>1, <1>2, <1>3, <1>4, <1>5, <1>6, <1>7, <1>8, <1>9, <1>10, <1>11, <1>12
         DEF Next, Live, Repair

(* A repair that comes to its end while no tag is written by others leaves   *)
(* every keyword-tagged article with the current tags and nothing unscored,  *)
(* although score() only does todo // BATCH_SIZE + 5 batches and the live    *)
(* scorer works on the same articles (maintenance/repair.py).                *)
THEOREM RepairTheorem == Spec => []RepairHeals
  <1>1. Init => Healing
    BY DEF Init, Healing
  <1>2. Typed /\ Held /\ Healing /\ [Next]_vars => Healing'
    BY NextHealing
  <1>3. Healing => RepairHeals
    BY DEF Healing, Tagged, Enough, RepairHeals
  <1>4. QED BY <1>1, <1>2, <1>3, HeldTheorem, PTL DEF Spec
=============================================================================
