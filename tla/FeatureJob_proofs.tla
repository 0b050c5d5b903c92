-------------------------- MODULE FeatureJob_proofs --------------------------
(***************************************************************************)
(* Proofs about the feature job, for any frequencies, lookback and window, *)
(* and any number of late arrivals, passes, failures and kills.            *)
(*                                                                         *)
(* A pass works for a long time with what it read when it began. ReadingOf *)
(* relates what a pass in flight knows to the table and to the facts that  *)
(* arrived meanwhile; it holds because the advisory lock keeps the table   *)
(* as it was.                                                              *)
(***************************************************************************)
EXTENDS FeatureJob, NumberFacts, FiniteSetTheorems, SequenceTheorems, TLAPS

-----------------------------------------------------------------------------
(* Finite sets of integers have a least and a largest member.               *)

LEMMA SmallestFacts ==
    ASSUME NEW S \in SUBSET Int, IsFiniteSet(S), S # {}
    PROVE  SmallestOf(S) \in S /\ \A n \in S : SmallestOf(S) <= n
  <1>1. \E m \in S : \A n \in S : m <= n
    BY LeastMember
  <1>2. QED BY <1>1 DEF SmallestOf

LEMMA LargestFacts ==
    ASSUME NEW S \in SUBSET Int, IsFiniteSet(S), S # {}
    PROVE  LargestOf(S) \in S /\ \A n \in S : n <= LargestOf(S)
  <1>1. PICK m \in S : \A n \in S : n <= m
    BY LargestMember
  <1>2. \A n \in S : m >= n
    BY <1>1
  <1>3. LargestOf(S) \in S /\ \A n \in S : LargestOf(S) >= n
    BY <1>2 DEF LargestOf
  <1>4. QED BY <1>3
-----------------------------------------------------------------------------
(* Bars and watermarks.                                                     *)

LEMMA MaxFreqFacts == MaxFreq \in Freqs /\ MaxFreq \in Nat \ {0} /\ \A f \in Freqs : f <= MaxFreq
  <1>1. Freqs \in SUBSET Int /\ IsFiniteSet(Freqs) /\ Freqs # {} /\ \A f \in Freqs : f \in Nat \ {0}
    BY FeatureAssumption
  <1>2. LargestOf(Freqs) \in Freqs /\ \A f \in Freqs : f <= LargestOf(Freqs)
    BY <1>1, LargestFacts
  <1>3. QED BY <1>1, <1>2 DEF MaxFreq

LEMMA BarFacts ==
    ASSUME NEW k \in Bars
    PROVE  /\ k[1] \in Freqs /\ k[1] \in Nat \ {0} /\ k[1] <= MaxFreq
           /\ k[2] \in Nat /\ k[2] < MaxNow
  <1>1. k[1] \in Freqs /\ k[2] \in Slots
    BY DEF Bars
  <1>2. \A f \in Freqs : f \in Nat \ {0}
    BY FeatureAssumption
  <1>3. k[2] \in Nat /\ k[2] < MaxNow
    BY <1>1, FeatureAssumption DEF Slots
  <1>4. QED BY <1>1, <1>2, <1>3, MaxFreqFacts

\* Stored and NextFrom for a table with the bars D.
StoredIn(D, f) == {k[2] : k \in {b \in D : b[1] = f}}

FromOf(D) ==
    IF \E f \in Freqs : StoredIn(D, f) = {} THEN 0
    ELSE SmallestOf({LargestOf(StoredIn(D, f)) - Lookback * f : f \in Freqs})

LEMMA NextFromIs == NextFrom = FromOf(DOMAIN rows)
  BY DEF NextFrom, WriteFrom, Stored, FromOf, StoredIn

\* The longest frequency keeps the watermark behind what is complete.
LEMMA FromFacts ==
    ASSUME NEW n \in Nat, NEW D \in SUBSET CompleteBars(n)
    PROVE  /\ FromOf(D) \in Int
           /\ FromOf(D) = 0 \/ FromOf(D) <= n - MaxFreq - MaxFreq * Lookback
  <1>1. CASE \E f \in Freqs : StoredIn(D, f) = {}
    BY <1>1 DEF FromOf
  <1>2. CASE \A f \in Freqs : StoredIn(D, f) # {}
    <2>1. ASSUME NEW f \in Freqs
          PROVE  /\ LargestOf(StoredIn(D, f)) \in Int
                 /\ LargestOf(StoredIn(D, f)) + f <= n
      <3>1. \A k \in D : k \in Bars /\ k[2] + k[1] <= n
        BY DEF CompleteBars
      <3>2. StoredIn(D, f) \in SUBSET Slots /\ \A s \in StoredIn(D, f) : s + f <= n
        <4>1. \A k \in D : k[2] \in Slots
          BY <3>1 DEF Bars
        <4>2. QED BY <3>1, <4>1 DEF StoredIn
      <3>3. IsFiniteSet(StoredIn(D, f)) /\ StoredIn(D, f) \in SUBSET Int
        <4>1. IsFiniteSet(Slots) /\ Slots \in SUBSET Int
          BY FeatureAssumption, FS_Interval DEF Slots
        <4>2. QED BY <3>2, <4>1, FS_Subset
      <3>4. LargestOf(StoredIn(D, f)) \in StoredIn(D, f)
        BY <1>2, <3>3, LargestFacts
      <3>5. QED BY <3>2, <3>3, <3>4
    <2> DEFINE mark == [f \in Freqs |-> LargestOf(StoredIn(D, f)) - Lookback * f]
               W == {LargestOf(StoredIn(D, f)) - Lookback * f : f \in Freqs}
    <2>2. \A f \in Freqs : f \in Nat /\ Lookback * f \in Nat
      BY FeatureAssumption
    <2>3. W \in SUBSET Int /\ W # {}
      BY <2>1, <2>2, FeatureAssumption
    <2>4. IsFiniteSet(W)
      <3>1. mark \in Surjection(Freqs, W)
        BY DEF Surjection
      <3> HIDE DEF mark, W
      <3>2. QED BY <3>1, FeatureAssumption, FS_Surjection
    <2>5. LargestOf(StoredIn(D, MaxFreq)) - Lookback * MaxFreq \in W
      BY MaxFreqFacts
    <2>6. SmallestOf(W) \in Int /\ SmallestOf(W) <= LargestOf(StoredIn(D, MaxFreq)) - Lookback * MaxFreq
      <3> HIDE DEF W
      <3>1. QED BY <2>3, <2>4, <2>5, SmallestFacts
    <2>7. FromOf(D) = SmallestOf(W)
      BY <1>2 DEF FromOf
    <2> DEFINE newest == LargestOf(StoredIn(D, MaxFreq))
               back == Lookback * MaxFreq
    <2>8. newest \in Int /\ newest + MaxFreq <= n /\ back \in Int /\ back = MaxFreq * Lookback
          /\ MaxFreq \in Int
      BY <2>1, <2>2, MaxFreqFacts, FeatureAssumption
    <2> HIDE DEF W, newest, back
    <2>9. QED BY <2>6, <2>7, <2>8 DEF newest, back
  <1>3. QED BY <1>1, <1>2

\* Whoever covers a slot that is not older than the lookback starts behind the
\* watermark of the longest frequency.
LEMMA RecentBar ==
    ASSUME NEW k \in Bars, NEW n \in Nat, NEW s \in Nat, s \in Deps(k), s >= Until(n)
    PROVE  k[2] >= n - MaxFreq - MaxFreq * Lookback
  <1> DEFINE back == MaxFreq * Lookback
  <1>1. k[1] \in Nat /\ k[2] \in Nat /\ k[1] <= MaxFreq /\ MaxFreq \in Nat /\ back \in Int
    BY BarFacts, MaxFreqFacts, FeatureAssumption
  <1>2. s <= k[2] + k[1] - 1
    BY DEF Deps
  <1>3. s >= n - back
    BY DEF Until
  <1> HIDE DEF back
  <1>4. k[2] >= n - MaxFreq - back
    BY <1>1, <1>2, <1>3
  <1>5. QED BY <1>4 DEF back
-----------------------------------------------------------------------------
(* Types.                                                                   *)

FactIn(n, c) == [kind : {"candle", "score"}, slot : 0 .. n - 1, stamp : 0 .. c, onTime : BOOLEAN]

Row == [seen : SUBSET Nat, at : Nat, from : Int, filled : BOOLEAN]

Pass == [from : Int, wf : Int, top : Nat, candles : Nat, scores : Nat, at : Nat]

InputsTyped ==
    /\ now \in FirstNow .. MaxNow
    /\ facts \in Seq(FactIn(now, clock))
    /\ clock \in Nat /\ open \subseteq 1 .. clock
    /\ clock <= Len(facts) + Cardinality(open)
    /\ Len(facts) + Cardinality(open) <= MaxFacts

TableTyped ==
    /\ migrated \in BOOLEAN
    /\ rows \in [DOMAIN rows -> Row]
    /\ DOMAIN rows \subseteq CompleteBars(now)
    /\ \A k \in DOMAIN rows : rows[k].seen \subseteq DOMAIN facts /\ rows[k].at <= clock
    /\ passed \subseteq DOMAIN rows

JobsTyped ==
    /\ holder \in Jobs \union {"nobody"}
    /\ pc \in [Jobs -> {"off", "idle", "waiting", "checked", "alter", "lock",
                        "candles", "scores", "build", "write", "unlock"}]
    /\ full \in [Jobs -> BOOLEAN] /\ added \in [Jobs -> BOOLEAN]
    /\ every \in [Jobs -> BOOLEAN] /\ start \in [Jobs -> {None} \union Slots]
    /\ lost \in BOOLEAN
    /\ pass \in [Jobs -> Pass]

PassTyped ==
    \A p \in Jobs :
        /\ InPass(p) <=> holder = p
        /\ pass[p].top <= now /\ pass[p].at <= clock
        /\ pass[p].candles <= Len(facts) /\ pass[p].scores <= Len(facts)

Typed == InputsTyped /\ TableTyped /\ JobsTyped /\ PassTyped

LEMMA TypedMeansTypeOK == ASSUME Typed PROVE TypeOK
  <1>1. Len(facts) \in Nat /\ clock \in Nat /\ now \in Nat
    BY FeatureAssumption DEF Typed, InputsTyped
  <1>2. IsFiniteSet(open)
    <2>1. IsFiniteSet(1 .. clock)
      BY <1>1, FS_Interval
    <2>2. QED BY <2>1, FS_Subset DEF Typed, InputsTyped
  <1>3. clock \in 0 .. MaxFacts
    BY <1>1, <1>2, FS_CardinalityType, FeatureAssumption DEF Typed, InputsTyped
  <1>4. facts \in Seq([kind : {"candle", "score"}, slot : 0 .. now - 1,
                      stamp : 0 .. clock, onTime : BOOLEAN])
    BY DEF Typed, InputsTyped, FactIn
  <1>5. \A k \in DOMAIN rows :
          /\ rows[k].seen \subseteq DOMAIN facts /\ rows[k].at \in 0 .. clock
          /\ rows[k].filled \in BOOLEAN
    <2> TAKE k \in DOMAIN rows
    <2>1. rows[k] \in Row
      BY DEF Typed, TableTyped
    <2>2. QED BY <1>1, <2>1 DEF Typed, TableTyped, Row
  <1>6. QED BY <1>3, <1>4, <1>5 DEF Typed, InputsTyped, TableTyped, JobsTyped, PassTyped, TypeOK

LEMMA InitTyped == ASSUME Init PROVE Typed
  <1>1. /\ now = FirstNow /\ facts = << >> /\ clock = 0 /\ open = {}
        /\ now \in FirstNow .. MaxNow /\ Cardinality(open) = 0 /\ Len(facts) = 0
    BY FeatureAssumption, FS_EmptySet DEF Init
  <1>2. InputsTyped
    <2>1. facts \in Seq(FactIn(now, clock))
      BY <1>1
    <2>2. QED BY <1>1, <2>1, FeatureAssumption DEF InputsTyped
  <1>3. TableTyped
    <2>1. migrated \in BOOLEAN /\ passed = {}
      BY FeatureAssumption DEF Init
    <2>2. PICK F \in Builts :
             rows = [k \in {b \in CompleteBars(FirstNow) : b[1] \in F} |->
                        [seen |-> {}, at |-> 0, from |-> 0, filled |-> migrated]]
      BY DEF Init
    <2> DEFINE D == {b \in CompleteBars(FirstNow) : b[1] \in F}
               row == [seen |-> {}, at |-> 0, from |-> 0, filled |-> migrated]
    <2>3. row \in Row /\ row.seen = {} /\ row.at = 0
      BY <2>1 DEF Row
    <2>4. D \subseteq CompleteBars(now)
      BY <1>1
    <2> HIDE DEF row, D
    <2>5. rows = [k \in D |-> row]
      BY <2>2 DEF row, D
    <2>6. QED BY <1>1, <2>1, <2>3, <2>4, <2>5 DEF TableTyped
  <1>4. JobsTyped
    <2>1. NoPass \in Pass
      BY DEF NoPass, Pass
    <2>2. QED BY <2>1 DEF Init, JobsTyped, Jobs, None
  <1>5. PassTyped
    <2>1. /\ NoPass.top = 0 /\ NoPass.at = 0 /\ NoPass.candles = 0 /\ NoPass.scores = 0
          /\ now \in Nat
      BY <1>1, FeatureAssumption DEF NoPass
    <2>2. \A p \in Jobs : pass[p] = NoPass /\ ~ InPass(p) /\ holder # p
      BY DEF Init, Jobs, InPass
    <2>3. QED BY <1>1, <2>1, <2>2 DEF PassTyped
  <1>6. QED BY <1>2, <1>3, <1>4, <1>5 DEF Typed
-----------------------------------------------------------------------------
(* What may change.                                                         *)

\* A step of the process p.
Step(p) ==
    \/ p = "signals" /\ Wake
    \/ p = "manual" /\ (Launch \/ Again)
    \/ p = "health" /\ (Check \/ Rebuild \/ GiveUp)
    \/ Enter(p) \/ Work(p) \/ Fail(p) \/ Kill(p)

LEMMA NextCases ==
    ASSUME [Next]_vars
    PROVE  UNCHANGED vars \/ Inputs \/ \E p \in Jobs : Step(p)
  BY DEF Next, Step, Jobs

\* A step of one process is of no consequence to the options and the pass of
\* another; only Write touches the table and only EnsureAlter its columns.
LEMMA StepFrame ==
    ASSUME Typed, NEW p \in Jobs, Step(p)
    PROVE  /\ UNCHANGED inputVars
           /\ Write(p) \/ UNCHANGED <<rows, passed>>
           /\ EnsureAlter(p) \/ UNCHANGED migrated
           /\ \A q \in Jobs \ {p} :
                 /\ pc'[q] = pc[q] /\ pass'[q] = pass[q] /\ start'[q] = start[q]
                 /\ full'[q] = full[q] /\ added'[q] = added[q]
  <1> USE DEF Typed, JobsTyped
  <1>1. CASE p = "signals" /\ Wake
    BY <1>1 DEF Wake, EnsureRead, historyVars
  <1>2. CASE p = "manual" /\ (Launch \/ Again)
    BY <1>2 DEF Launch, Again, EnsureRead, historyVars, optionVars
  <1>3. CASE p = "health" /\ (Check \/ Rebuild \/ GiveUp)
    BY <1>3 DEF Check, Rebuild, GiveUp, EnsureRead, Forget, Leave, historyVars, optionVars
  <1>4. CASE Enter(p)
    BY <1>4 DEF Enter, EnsureAlter, Skip, TryLock, BeginPass, Forget, Leave, historyVars, optionVars
  <1>5. CASE Work(p)
    BY <1>5 DEF Work, ReadCandles, ReadScores, BeginWrite, Write, Finish, Forget, Leave,
                historyVars, optionVars
  <1>6. CASE Fail(p)
    BY <1>6 DEF Fail, Forget, Leave, historyVars, optionVars
  <1>7. CASE Kill(p)
    BY <1>7 DEF Kill, Forget, historyVars, optionVars
  <1>8. QED BY <1>1, <1>2, <1>3, <1>4, <1>5, <1>6, <1>7 DEF Step
-----------------------------------------------------------------------------
(* Arrivals.                                                                *)

\* The facts there were keep what the passes look at; one that comes is on time
\* when its slot is.
Grown ==
    /\ now <= now' /\ clock <= clock' /\ Len(facts) <= Len(facts')
    /\ DOMAIN facts \subseteq DOMAIN facts'
    /\ \A i \in DOMAIN facts :
          /\ facts'[i].kind = facts[i].kind /\ facts'[i].slot = facts[i].slot
          /\ facts'[i].onTime = facts[i].onTime
    /\ \A i \in DOMAIN facts' \ DOMAIN facts :
          i > Len(facts) /\ (facts'[i].onTime => facts'[i].slot >= Until(now))

LEMMA FactTyped ==
    ASSUME NEW kind \in {"candle", "score"}, NEW slot \in Nat, slot < now, now \in Nat,
           NEW c \in Nat, NEW stamp \in 0 .. c
    PROVE  /\ Fact(kind, slot, stamp) \in FactIn(now, c)
           /\ Fact(kind, slot, stamp).onTime => Fact(kind, slot, stamp).slot >= Until(now)
  <1> DEFINE onTime == slot >= Until(now)
  <1>1. onTime \in BOOLEAN /\ slot \in 0 .. now - 1
    OBVIOUS
  <1>2. Fact(kind, slot, stamp) = [kind |-> kind, slot |-> slot, stamp |-> stamp, onTime |-> onTime]
    BY DEF Fact
  <1>3. onTime => slot >= Until(now)
    OBVIOUS
  <1> HIDE DEF onTime
  <1>4. QED BY <1>1, <1>2, <1>3 DEF FactIn

LEMMA FactInGrows ==
    ASSUME NEW m \in Nat, NEW n \in Nat, m <= n, NEW c \in Nat, NEW d \in Nat, c <= d,
           NEW s \in Seq(FactIn(m, c))
    PROVE  s \in Seq(FactIn(n, d))
  <1>1. FactIn(m, c) \subseteq FactIn(n, d)
    BY DEF FactIn
  <1> HIDE DEF FactIn
  <1>2. QED BY <1>1

\* One fact more, the others but for their stamps as they were.
LEMMA OneMore ==
    ASSUME Typed, NEW c \in Nat, clock <= c, NEW g \in Seq(FactIn(now, c)), NEW f \in FactIn(now, c),
           Len(g) = Len(facts),
           \A i \in DOMAIN facts :
              g[i].kind = facts[i].kind /\ g[i].slot = facts[i].slot /\ g[i].onTime = facts[i].onTime,
           f.onTime => f.slot >= Until(now),
           now' = now, clock' = c, facts' = Append(g, f)
    PROVE  /\ facts' \in Seq(FactIn(now, c)) /\ Len(facts') = Len(facts) + 1
           /\ Grown
  <1>1. /\ Len(facts) \in Nat /\ DOMAIN facts = 1 .. Len(facts) /\ DOMAIN g = 1 .. Len(facts)
        /\ now \in Nat
    BY FeatureAssumption DEF Typed, InputsTyped
  <1> HIDE DEF FactIn
  <1>2. /\ facts' \in Seq(FactIn(now, c)) /\ Len(facts') = Len(facts) + 1
        /\ \A i \in 1 .. Len(facts) : facts'[i] = g[i]
        /\ facts'[Len(facts) + 1] = f
        /\ DOMAIN facts' = 1 .. Len(facts) + 1
    BY <1>1
  <1>3. \A i \in DOMAIN facts' \ DOMAIN facts : i = Len(facts) + 1
    BY <1>1, <1>2
  <1>4. DOMAIN facts \subseteq DOMAIN facts' /\ Len(facts) <= Len(facts')
    BY <1>1, <1>2
  <1>5. now <= now' /\ clock <= clock'
    BY <1>1
  <1>6. \A i \in DOMAIN facts' \ DOMAIN facts :
          i > Len(facts) /\ (facts'[i].onTime => facts'[i].slot >= Until(now))
    BY <1>1, <1>2, <1>3
  <1>7. QED BY <1>1, <1>2, <1>4, <1>5, <1>6 DEF Grown

LEMMA InputFacts ==
    ASSUME Typed, Inputs
    PROVE  /\ UNCHANGED <<migrated, rows, holder, pc, optionVars, pass, historyVars>>
           /\ InputsTyped' /\ Grown
  <1>1. /\ now \in Nat /\ now \in FirstNow .. MaxNow /\ clock \in Nat /\ Len(facts) \in Nat
        /\ facts \in Seq(FactIn(now, clock)) /\ open \subseteq 1 .. clock
        /\ clock <= Len(facts) + Cardinality(open)
        /\ Len(facts) + Cardinality(open) <= MaxFacts
        /\ MaxFacts \in Nat /\ MaxNow \in Nat /\ FirstNow \in Nat
    BY FeatureAssumption DEF Typed, InputsTyped
  <1>2. IsFiniteSet(open) /\ Cardinality(open) \in Nat
    <2>1. IsFiniteSet(1 .. clock)
      BY <1>1, FS_Interval
    <2>2. QED BY <1>1, <2>1, FS_Subset, FS_CardinalityType
  <1>3. CASE Advance
    <2>1. /\ now < MaxNow /\ now' = now + 1 /\ UNCHANGED <<facts, clock, open>>
          /\ UNCHANGED <<migrated, rows, holder, pc, optionVars, pass, historyVars>>
      BY <1>3 DEF Advance
    <2>2. facts' \in Seq(FactIn(now', clock'))
      BY <1>1, <2>1, FactInGrows
    <2>3. now' \in FirstNow .. MaxNow
      BY <1>1, <2>1
    <2>4. InputsTyped'
      BY <1>1, <2>1, <2>2, <2>3 DEF InputsTyped
    <2>5. Grown
      BY <1>1, <2>1 DEF Grown
    <2>6. QED BY <2>1, <2>4, <2>5
  <1>4. CASE TakeStamp
    <2>1. /\ Len(facts) + Cardinality(open) < MaxFacts
          /\ UNCHANGED <<now, facts>> /\ clock' = clock + 1 /\ open' = open \union {clock + 1}
          /\ UNCHANGED <<migrated, rows, holder, pc, optionVars, pass, historyVars>>
      BY <1>4 DEF TakeStamp
    <2>2. clock + 1 \notin open
      BY <1>1
    <2>3. Cardinality(open') = Cardinality(open) + 1
      BY <1>2, <2>1, <2>2, FS_AddElement
    <2>4. facts' \in Seq(FactIn(now', clock'))
      BY <1>1, <2>1, FactInGrows
    <2>5. open' \subseteq 1 .. clock' /\ clock' \in Nat
      BY <1>1, <2>1
    <2>6. InputsTyped'
      BY <1>1, <1>2, <2>1, <2>3, <2>4, <2>5 DEF InputsTyped
    <2>7. Grown
      BY <1>1, <2>1 DEF Grown
    <2>8. QED BY <2>1, <2>6, <2>7
  <1>5. ASSUME NEW x \in Late, ArriveNow(x[1], x[2])
        PROVE  /\ UNCHANGED <<migrated, rows, holder, pc, optionVars, pass, historyVars>>
               /\ InputsTyped' /\ Grown
    <2>1. /\ Len(facts) + Cardinality(open) < MaxFacts
          /\ x[2] < now /\ x[1] \in {"candle", "score"} /\ x[2] \in Nat
          /\ clock' = clock + 1 /\ now' = now /\ open' = open
          /\ facts' = Append(facts, Fact(x[1], x[2], clock + 1))
          /\ UNCHANGED <<migrated, rows, holder, pc, optionVars, pass, historyVars>>
      BY <1>5, FeatureAssumption DEF ArriveNow
    <2>2. clock + 1 \in Nat /\ clock <= clock + 1 /\ clock + 1 \in 0 .. clock + 1
      BY <1>1
    <2>3. /\ Fact(x[1], x[2], clock + 1) \in FactIn(now, clock + 1)
          /\ Fact(x[1], x[2], clock + 1).onTime => Fact(x[1], x[2], clock + 1).slot >= Until(now)
      BY <1>1, <2>1, <2>2, FactTyped
    <2>4. facts \in Seq(FactIn(now, clock + 1))
      BY <1>1, <2>2, FactInGrows
    <2>5. facts' \in Seq(FactIn(now, clock + 1)) /\ Len(facts') = Len(facts) + 1 /\ Grown
      BY <2>1, <2>2, <2>3, <2>4, OneMore
    <2>6. open' \subseteq 1 .. clock'
      BY <1>1, <2>1
    <2>7. InputsTyped'
      BY <1>1, <1>2, <2>1, <2>2, <2>5, <2>6 DEF InputsTyped
    <2>8. QED BY <2>1, <2>5, <2>7
  <1>6. ASSUME NEW x \in Late, ArriveLater(x[1], x[2])
        PROVE  /\ UNCHANGED <<migrated, rows, holder, pc, optionVars, pass, historyVars>>
               /\ InputsTyped' /\ Grown
    <2>1. PICK stamp \in open : /\ facts' = Append(facts, Fact(x[1], x[2], stamp))
                                /\ open' = open \ {stamp}
      BY <1>6 DEF ArriveLater
    <2>2. /\ x[2] < now /\ x[1] \in {"candle", "score"} /\ x[2] \in Nat
          /\ clock' = clock /\ now' = now
          /\ UNCHANGED <<migrated, rows, holder, pc, optionVars, pass, historyVars>>
      BY <1>6, FeatureAssumption DEF ArriveLater
    <2>3. stamp \in 0 .. clock
      BY <1>1
    <2>4. /\ Fact(x[1], x[2], stamp) \in FactIn(now, clock)
          /\ Fact(x[1], x[2], stamp).onTime => Fact(x[1], x[2], stamp).slot >= Until(now)
      BY <1>1, <2>2, <2>3, FactTyped
    <2>5. facts' \in Seq(FactIn(now, clock)) /\ Len(facts') = Len(facts) + 1 /\ Grown
      BY <1>1, <2>1, <2>2, <2>4, OneMore
    <2>6. open' \subseteq 1 .. clock' /\ Cardinality(open') = Cardinality(open) - 1
      BY <1>1, <1>2, <2>1, <2>2, FS_RemoveElement
    <2>7. InputsTyped'
      BY <1>1, <1>2, <2>2, <2>5, <2>6 DEF InputsTyped
    <2>8. QED BY <2>2, <2>5, <2>7
  <1>7. ASSUME NEW x \in Late, DeleteScores(x[2])
        PROVE  /\ UNCHANGED <<migrated, rows, holder, pc, optionVars, pass, historyVars>>
               /\ InputsTyped' /\ Grown
    <2> DEFINE g == [i \in DOMAIN facts |->
                        IF facts[i].kind = "score" /\ facts[i].slot = x[2]
                          THEN [facts[i] EXCEPT !.stamp = 0] ELSE facts[i]]
    <2>1. /\ Len(facts) + Cardinality(open) < MaxFacts
          /\ x[2] < now /\ x[2] \in Nat
          /\ UNCHANGED <<now, clock, open>>
          /\ facts' = Append(g, Fact("score", x[2], 0))
          /\ UNCHANGED <<migrated, rows, holder, pc, optionVars, pass, historyVars>>
      BY <1>7, FeatureAssumption DEF DeleteScores
    <2>2. /\ Fact("score", x[2], 0) \in FactIn(now, clock)
          /\ Fact("score", x[2], 0).onTime => Fact("score", x[2], 0).slot >= Until(now)
      BY <1>1, <2>1, FactTyped
    <2>3. \A i \in DOMAIN facts :
             /\ g[i] \in FactIn(now, clock)
             /\ g[i].kind = facts[i].kind /\ g[i].slot = facts[i].slot /\ g[i].onTime = facts[i].onTime
      <3> TAKE i \in DOMAIN facts
      <3>1. facts[i] \in FactIn(now, clock)
        BY <1>1
      <3>2. /\ [facts[i] EXCEPT !.stamp = 0] \in FactIn(now, clock)
            /\ [facts[i] EXCEPT !.stamp = 0].kind = facts[i].kind
            /\ [facts[i] EXCEPT !.stamp = 0].slot = facts[i].slot
            /\ [facts[i] EXCEPT !.stamp = 0].onTime = facts[i].onTime
        <4>1. PICK kind \in {"candle", "score"}, slot \in 0 .. now - 1, stamp \in 0 .. clock,
                   onTime \in BOOLEAN :
                 facts[i] = [kind |-> kind, slot |-> slot, stamp |-> stamp, onTime |-> onTime]
          BY <3>1 DEF FactIn
        <4>2. [facts[i] EXCEPT !.stamp = 0]
                 = [kind |-> kind, slot |-> slot, stamp |-> 0, onTime |-> onTime]
          BY <4>1
        <4>3. 0 \in 0 .. clock
          BY <1>1
        <4>4. QED BY <4>1, <4>2, <4>3 DEF FactIn
      <3>3. QED BY <3>1, <3>2
    <2>4. DOMAIN facts = 1 .. Len(facts) /\ DOMAIN g = DOMAIN facts
      BY <1>1
    <2>5. g = [i \in 1 .. Len(facts) |-> g[i]]
      BY <2>4
    <2> HIDE DEF g
    <2>6. g \in Seq(FactIn(now, clock)) /\ Len(g) = Len(facts)
      BY <1>1, <2>3, <2>4, <2>5
    <2>7. facts' \in Seq(FactIn(now, clock)) /\ Len(facts') = Len(facts) + 1 /\ Grown
      BY <1>1, <2>1, <2>2, <2>3, <2>6, OneMore
    <2>8. InputsTyped'
      BY <1>1, <1>2, <2>1, <2>7 DEF InputsTyped
    <2>9. QED BY <2>1, <2>7, <2>8
  <1>8. QED BY <1>3, <1>4, <1>5, <1>6, <1>7 DEF Inputs
-----------------------------------------------------------------------------
(* Types are kept.                                                          *)

LEMMA NeededFacts ==
    /\ HistoryNeeded \in Int
    /\ \A f \in Freqs : Rolling * f \in Int /\ f \in Nat /\ f <= MaxFreq
    /\ \A f \in Freqs : HistoryNeeded >= Rolling * f
  <1>1. /\ MaxFreq \in Nat /\ Rolling \in Nat
        /\ \A f \in Freqs : f \in Nat /\ f <= MaxFreq
    BY MaxFreqFacts, FeatureAssumption
  <1>2. HistoryNeeded \in Int /\ HistoryNeeded >= Rolling * MaxFreq
    BY <1>1 DEF HistoryNeeded
  <1>3. ASSUME NEW f \in Freqs
        PROVE  Rolling * f \in Int /\ Rolling * f <= Rolling * MaxFreq
    <2>1. f \in Nat /\ f <= MaxFreq
      BY <1>1
    <2>2. PICK d \in Nat : MaxFreq = f + d
      <3>1. MaxFreq - f \in Nat /\ MaxFreq = f + (MaxFreq - f)
        BY <1>1, <2>1
      <3>2. QED BY <3>1
    <2>3. Rolling * MaxFreq = Rolling * f + Rolling * d
      BY <1>1, <2>1, <2>2
    <2>4. Rolling * d \in Nat /\ Rolling * f \in Nat
      BY <1>1, <2>1, <2>2
    <2>5. QED BY <2>3, <2>4
  <1>4. Rolling * MaxFreq \in Int
    BY <1>1
  <1>5. QED BY <1>1, <1>2, <1>3, <1>4

LEMMA TableFrom ==
    ASSUME Typed
    PROVE  /\ NextFrom \in Int /\ Until(now) \in Int /\ now \in Nat
           /\ NextFrom = 0 \/ NextFrom <= now - MaxFreq - MaxFreq * Lookback
  <1>1. now \in Nat /\ DOMAIN rows \in SUBSET CompleteBars(now)
    BY FeatureAssumption DEF Typed, InputsTyped, TableTyped
  <1>2. Until(now) \in Int
    BY <1>1, MaxFreqFacts, FeatureAssumption DEF Until
  <1>3. QED BY <1>1, <1>2, FromFacts, NextFromIs

\* Where a pass begins to write and to read.
LEMMA PlanFacts ==
    ASSUME Typed, NEW p \in Jobs
    PROVE  /\ Plan(p).wf \in Int /\ Plan(p).from \in Int
           /\ start[p] # None => Plan(p).wf = start[p]
           /\ start[p] = None => Plan(p).wf = 0 \/ Plan(p).wf = NextFrom
           /\ full[p] /\ start[p] = None => Plan(p).wf = 0
           /\ Plan(p).from = 0 \/ Plan(p).from = Plan(p).wf - HistoryNeeded
  <1>1. NextFrom \in Int /\ HistoryNeeded \in Int
    BY TableFrom, NeededFacts
  <1>2. CASE start[p] # None
    <2>1. start[p] \in Slots /\ start[p] \in Int
      BY <1>2, FeatureAssumption DEF Typed, JobsTyped, Slots
    <2>2. QED BY <1>1, <1>2, <2>1 DEF Plan
  <1>3. CASE start[p] = None /\ (full[p] \/ \E f \in Freqs : Stored(f) = {})
    BY <1>3 DEF Plan
  <1>4. CASE start[p] = None /\ ~ (full[p] \/ \E f \in Freqs : Stored(f) = {})
    <2>1. NextFrom = WriteFrom
      BY <1>4 DEF NextFrom
    <2>2. QED BY <1>1, <1>4, <2>1 DEF Plan
  <1>5. QED BY <1>2, <1>3, <1>4

\* What check_features reports is a slot there is.
LEMMA FlaggedFacts == ASSUME Typed, Flagged # {} PROVE SmallestOf(Flagged) \in Slots
  <1>1. now \in Nat /\ now <= MaxNow /\ MaxNow \in Nat /\ Until(now) \in Int
    BY TableFrom, FeatureAssumption DEF Typed, InputsTyped
  <1>2. Until(now) <= now
    <2>1. MaxFreq * Lookback \in Nat
      BY MaxFreqFacts, FeatureAssumption
    <2>2. QED BY <1>1, <2>1 DEF Until
  <1>3. 0 .. Until(now) - 1 \subseteq Slots /\ Slots \in SUBSET Int
    BY <1>1, <1>2 DEF Slots
  <1>4. Flagged \subseteq Slots
    BY <1>3 DEF Flagged
  <1>5. IsFiniteSet(Slots)
    BY <1>1, FS_Interval DEF Slots
  <1>6. Flagged \in SUBSET Int /\ IsFiniteSet(Flagged)
    BY <1>3, <1>4, <1>5, FS_Subset
  <1>7. QED BY <1>4, <1>6, SmallestFacts

LEMMA InputsKeepTypes ==
    ASSUME Typed, Inputs
    PROVE  Typed'
  <1>1. /\ UNCHANGED <<migrated, rows, holder, pc, optionVars, pass, historyVars>>
        /\ InputsTyped' /\ Grown
    BY InputFacts
  <1>2. UNCHANGED <<migrated, rows, holder, pc, full, start, every, added, pass, lost, passed>>
    BY <1>1 DEF optionVars, historyVars
  <1>3. now \in Nat /\ now' \in Nat /\ clock \in Nat /\ clock' \in Nat /\ Len(facts) \in Nat
        /\ Len(facts') \in Nat
    BY <1>1, FeatureAssumption DEF Typed, InputsTyped
  <1>4. CompleteBars(now) \subseteq CompleteBars(now')
    <2> SUFFICES ASSUME NEW k \in CompleteBars(now)
                 PROVE  k \in CompleteBars(now')
      OBVIOUS
    <2>1. k \in Bars /\ k[2] + k[1] <= now
      BY DEF CompleteBars
    <2>2. k[1] \in Nat /\ k[2] \in Nat
      BY <2>1, BarFacts
    <2>3. k[2] + k[1] <= now'
      BY <1>1, <1>3, <2>1, <2>2 DEF Grown
    <2>4. QED BY <2>1, <2>3 DEF CompleteBars
  <1>5. TableTyped'
    <2>1. \A k \in DOMAIN rows : rows[k].at \in Nat
      BY DEF Typed, TableTyped, Row
    <2>2. QED BY <1>1, <1>2, <1>3, <1>4, <2>1 DEF Typed, TableTyped, Grown
  <1>6. JobsTyped'
    BY <1>2 DEF Typed, JobsTyped
  <1>7. PassTyped'
    <2>1. \A p \in Jobs : pass[p].top \in Nat /\ pass[p].at \in Nat /\ pass[p].candles \in Nat
                          /\ pass[p].scores \in Nat
      BY DEF Typed, JobsTyped, Pass
    <2>2. QED BY <1>1, <1>2, <1>3, <2>1 DEF Typed, PassTyped, Grown, InPass
  <1>8. QED BY <1>1, <1>5, <1>6, <1>7 DEF Typed

LEMMA NoPassFacts ==
    /\ NoPass \in Pass /\ NoPass.top = 0 /\ NoPass.at = 0 /\ NoPass.candles = 0 /\ NoPass.scores = 0
  BY DEF NoPass, Pass

PassBounds(p) ==
    /\ pass[p].top <= now /\ pass[p].at <= clock
    /\ pass[p].candles <= Len(facts) /\ pass[p].scores <= Len(facts)

LEMMA BoundsOf ==
    ASSUME Typed, NEW r \in Pass, r.top = 0 \/ r.top <= now, r.at = 0 \/ r.at <= clock,
           r.candles = 0 \/ r.candles <= Len(facts), r.scores = 0 \/ r.scores <= Len(facts),
           NEW p \in Jobs, pass' = [pass EXCEPT ![p] = r], UNCHANGED inputVars
    PROVE  pass' \in [Jobs -> Pass] /\ \A q \in Jobs : PassBounds(q)'
  <1>1. now \in Nat /\ clock \in Nat /\ Len(facts) \in Nat
    BY FeatureAssumption DEF Typed, InputsTyped
  <1>2. /\ r.top \in Nat /\ r.top <= now /\ r.at <= clock
        /\ r.candles <= Len(facts) /\ r.scores <= Len(facts)
    BY <1>1 DEF Pass
  <1>3. UNCHANGED <<now, clock, facts>> /\ pass \in [Jobs -> Pass] /\ \A q \in Jobs : PassBounds(q)
    BY DEF Typed, JobsTyped, PassTyped, PassBounds, inputVars
  <1>4. pass' \in [Jobs -> Pass] /\ \A q \in Jobs : pass'[q] = IF q = p THEN r ELSE pass[q]
    BY <1>3
  <1>5. QED BY <1>2, <1>3, <1>4 DEF PassBounds
-----------------------------------------------------------------------------
LEMMA WriteKeepsTable ==
    ASSUME Typed, NEW p \in Jobs, Write(p)
    PROVE  TableTyped'
  <1>1. /\ DOMAIN rows' = DOMAIN rows \union Targets(p)
        /\ \A k \in DOMAIN rows' : rows'[k] =
              IF k \in Targets(p) THEN [seen |-> Seen(p, k), at |-> pass[p].at,
                                        from |-> pass[p].from, filled |-> TRUE]
              ELSE rows[k]
        /\ rows' = [k \in DOMAIN rows' |-> rows'[k]]
        /\ passed' \subseteq passed \union DOMAIN rows
        /\ UNCHANGED inputVars /\ UNCHANGED migrated
    BY DEF Write
  <1>2. /\ pass[p].at \in Nat /\ pass[p].at <= clock /\ pass[p].from \in Int
        /\ pass[p].top \in Nat /\ pass[p].top <= now
    BY DEF Typed, JobsTyped, PassTyped, Pass
  <1>3. now \in Nat
    BY FeatureAssumption DEF Typed, InputsTyped
  <1>4. Targets(p) \subseteq CompleteBars(now)
    <2> SUFFICES ASSUME NEW k \in Targets(p)
                 PROVE  k \in CompleteBars(now)
      OBVIOUS
    <2>1. k \in Bars /\ k[2] + k[1] <= pass[p].top
      BY DEF Targets, CompleteBars
    <2>2. k[1] \in Nat /\ k[2] \in Nat
      BY <2>1, BarFacts
    <2>3. k[2] + k[1] <= now
      BY <1>2, <1>3, <2>1, <2>2
    <2>4. QED BY <2>1, <2>3 DEF CompleteBars
  <1>5. ASSUME NEW k \in DOMAIN rows'
        PROVE  rows'[k] \in Row /\ rows'[k].seen \subseteq DOMAIN facts /\ rows'[k].at <= clock
    <2>1. CASE k \in Targets(p)
      <3>1. Seen(p, k) \subseteq DOMAIN facts /\ DOMAIN facts \subseteq Nat
        BY DEF Seen, Typed, InputsTyped
      <3> DEFINE seen == Seen(p, k)
      <3>2. rows'[k] = [seen |-> seen, at |-> pass[p].at, from |-> pass[p].from, filled |-> TRUE]
        BY <1>1, <2>1
      <3>3. seen \in SUBSET Nat /\ seen \subseteq DOMAIN facts
        BY <3>1
      <3> HIDE DEF seen
      <3>4. QED BY <1>2, <3>2, <3>3 DEF Row
    <2>2. CASE k \notin Targets(p)
      BY <1>1, <2>2 DEF Typed, TableTyped
    <2>3. QED BY <2>1, <2>2
  <1>6. DOMAIN rows' \subseteq CompleteBars(now) /\ passed' \subseteq DOMAIN rows'
    BY <1>1, <1>4 DEF Typed, TableTyped
  <1>7. rows' \in [DOMAIN rows' -> Row]
    BY <1>1, <1>5
  <1>8. UNCHANGED <<now, facts, clock>>
    BY <1>1 DEF inputVars
  <1>9. CompleteBars(now)' = CompleteBars(now)
    BY <1>8 DEF CompleteBars, Bars
  <1>10. QED BY <1>1, <1>5, <1>6, <1>7, <1>8, <1>9 DEF Typed, TableTyped

LEMMA StepKeepsTable ==
    ASSUME Typed, NEW p \in Jobs, Step(p)
    PROVE  InputsTyped' /\ TableTyped'
  <1>1. UNCHANGED inputVars /\ (Write(p) \/ UNCHANGED <<rows, passed>>)
        /\ (EnsureAlter(p) \/ UNCHANGED migrated)
    BY StepFrame
  <1>2. InputsTyped'
    BY <1>1 DEF Typed, InputsTyped, inputVars
  <1>3. CASE UNCHANGED <<rows, passed>>
    <2>1. migrated' \in BOOLEAN
      BY <1>1 DEF EnsureAlter, Typed, TableTyped
    <2>2. UNCHANGED <<now, facts, clock, rows, passed>>
      BY <1>1, <1>3 DEF inputVars
    <2>3. CompleteBars(now)' = CompleteBars(now)
      BY <2>2 DEF CompleteBars, Bars
    <2>4. QED BY <1>2, <2>1, <2>2, <2>3 DEF Typed, TableTyped
  <1>4. QED BY <1>1, <1>2, <1>3, WriteKeepsTable

LEMMA StepKeepsJobs ==
    ASSUME Typed, NEW p \in Jobs, Step(p)
    PROVE  JobsTyped' /\ PassTyped'
  <1> DEFINE Places == {"off", "idle", "waiting", "checked", "alter", "lock",
                        "candles", "scores", "build", "write", "unlock"}
             During == {"candles", "scores", "build", "write", "unlock"}
             Places0 == Places \ During
  <1>1. /\ UNCHANGED inputVars
        /\ holder \in Jobs \union {"nobody"} /\ "nobody" \notin Jobs
        /\ pc \in [Jobs -> Places]
        /\ full \in [Jobs -> BOOLEAN] /\ added \in [Jobs -> BOOLEAN]
        /\ every \in [Jobs -> BOOLEAN] /\ start \in [Jobs -> {None} \union Slots]
        /\ lost \in BOOLEAN /\ pass \in [Jobs -> Pass]
        /\ \A q \in Jobs : InPass(q) <=> holder = q
        /\ migrated \in BOOLEAN
    BY StepFrame DEF Typed, JobsTyped, PassTyped, TableTyped, Jobs
  <1>2. \A q \in Jobs : pc[q] \in During <=> holder = q
    BY <1>1 DEF InPass
  \* It is enough to give the new place of p, its options and its pass.
  <1>3. ASSUME NEW s \in Places, NEW r \in Pass,
               pc' = [pc EXCEPT ![p] = s],
               full' \in [Jobs -> BOOLEAN], added' \in [Jobs -> BOOLEAN],
               every' \in [Jobs -> BOOLEAN], start' \in [Jobs -> {None} \union Slots],
               lost' \in BOOLEAN,
               pass' = [pass EXCEPT ![p] = r] \/ pass' = pass,
               r.top = 0 \/ r.top <= now, r.at = 0 \/ r.at <= clock,
               r.candles = 0 \/ r.candles <= Len(facts), r.scores = 0 \/ r.scores <= Len(facts),
               holder' \in Jobs \union {"nobody"},
               \A q \in Jobs : (IF q = p THEN s \in During ELSE holder = q) <=> holder' = q
        PROVE  JobsTyped' /\ PassTyped'
    <2>1. pc' \in [Jobs -> Places] /\ \A q \in Jobs : pc'[q] \in During <=> holder' = q
      <3>1. pc' \in [Jobs -> Places] /\ \A q \in Jobs : pc'[q] = IF q = p THEN s ELSE pc[q]
        BY <1>1, <1>3
      <3>2. QED BY <1>2, <1>3, <3>1
    <2>2. pass' \in [Jobs -> Pass] /\ \A q \in Jobs : PassBounds(q)'
      <3>1. CASE pass' = [pass EXCEPT ![p] = r]
        BY <1>1, <1>3, <3>1, BoundsOf
      <3>2. CASE pass' = pass
        BY <1>1, <3>2 DEF PassBounds, Typed, PassTyped, inputVars
      <3>3. QED BY <1>3, <3>1, <3>2
    <2>3. JobsTyped'
      BY <1>3, <2>1, <2>2 DEF JobsTyped
    <2>4. PassTyped'
      BY <2>1, <2>2 DEF PassTyped, PassBounds, InPass
    <2>5. QED BY <2>3, <2>4
  <1>4. /\ NoPass \in Pass /\ NoPass.top = 0 /\ NoPass.at = 0 /\ NoPass.candles = 0
        /\ NoPass.scores = 0 /\ Rest(p) \in Places0
    BY NoPassFacts DEF Rest
  \* Outside the pass, before and after.
  <1>5. ASSUME NEW s \in Places0, pc' = [pc EXCEPT ![p] = s], pc[p] \notin During,
               full' \in [Jobs -> BOOLEAN], added' \in [Jobs -> BOOLEAN],
               every' \in [Jobs -> BOOLEAN], start' \in [Jobs -> {None} \union Slots],
               lost' \in BOOLEAN, holder' = holder \/ holder' = IF holder = p THEN "nobody" ELSE holder,
               pass' = [pass EXCEPT ![p] = NoPass] \/ pass' = pass
        PROVE  JobsTyped' /\ PassTyped'
    <2>1. holder # p /\ s \in Places /\ s \notin During
      BY <1>2, <1>5
    <2>2. holder' \in Jobs \union {"nobody"}
          /\ \A q \in Jobs : (IF q = p THEN s \in During ELSE holder = q) <=> holder' = q
      BY <1>1, <1>5, <2>1
    <2> HIDE DEF Places, During
    <2>3. QED BY <1>3, <1>4, <1>5, <2>1, <2>2
  \* The end of the pass, with the lock given back.
  <1>6. ASSUME NEW s \in Places0, pc' = [pc EXCEPT ![p] = s], holder = p, holder' = "nobody",
               full' \in [Jobs -> BOOLEAN], added' \in [Jobs -> BOOLEAN],
               every' \in [Jobs -> BOOLEAN], start' \in [Jobs -> {None} \union Slots],
               lost' \in BOOLEAN, pass' = [pass EXCEPT ![p] = NoPass]
        PROVE  JobsTyped' /\ PassTyped'
    <2>1. s \in Places /\ s \notin During
      BY <1>6
    <2>2. holder' \in Jobs \union {"nobody"}
          /\ \A q \in Jobs : (IF q = p THEN s \in During ELSE holder = q) <=> holder' = q
      BY <1>1, <1>6, <2>1
    <2> HIDE DEF Places, During
    <2>3. QED BY <1>3, <1>4, <1>6, <2>1, <2>2
  \* Inside the pass, before and after.
  <1>7. ASSUME NEW s \in During, NEW r \in Pass, pc' = [pc EXCEPT ![p] = s],
               holder = p \/ holder = "nobody", holder' = p,
               UNCHANGED <<full, added, every, start, lost>>,
               pass' = [pass EXCEPT ![p] = r],
               r.top = 0 \/ r.top <= now, r.at = 0 \/ r.at <= clock,
               r.candles = 0 \/ r.candles <= Len(facts), r.scores = 0 \/ r.scores <= Len(facts)
        PROVE  JobsTyped' /\ PassTyped'
    <2>1. s \in Places
      BY <1>7
    <2>2. holder' \in Jobs \union {"nobody"}
          /\ \A q \in Jobs : (IF q = p THEN s \in During ELSE holder = q) <=> holder' = q
      BY <1>1, <1>7
    <2> HIDE DEF Places, During
    <2>3. QED BY <1>1, <1>3, <1>7, <2>1, <2>2
  <1>8. pass[p] \in Pass /\ PassBounds(p)
    BY <1>1 DEF PassBounds, Typed, PassTyped
  <1>9. CASE p = "signals" /\ Wake
    <2>1. /\ pc' = [pc EXCEPT ![p] = "alter"] /\ pc[p] \notin During
          /\ added' \in [Jobs -> BOOLEAN] /\ UNCHANGED <<full, start, every, pass, holder, lost>>
      BY <1>1, <1>9 DEF Wake, EnsureRead, historyVars
    <2>2. QED BY <1>1, <1>5, <2>1
  <1>10. CASE p = "manual" /\ Launch
    <2>1. PICK c \in Calls : /\ full' = [full EXCEPT !["manual"] = c.full]
                             /\ every' = [every EXCEPT !["manual"] = c.every]
                             /\ start' = [start EXCEPT !["manual"] = c.start]
      BY <1>10 DEF Launch
    <2>2. c.full \in BOOLEAN /\ c.every \in BOOLEAN /\ c.start \in {None} \union Slots
      BY FeatureAssumption DEF None, Slots
    <2>3. /\ pc' = [pc EXCEPT ![p] = "alter"] /\ pc[p] \notin During
          /\ added' \in [Jobs -> BOOLEAN] /\ UNCHANGED <<pass, holder, lost>>
      BY <1>1, <1>10 DEF Launch, EnsureRead, historyVars
    <2>4. QED BY <1>1, <1>5, <2>1, <2>2, <2>3
  <1>11. CASE p = "manual" /\ Again
    <2>1. /\ pc' = [pc EXCEPT ![p] = "lock"] /\ pc[p] \notin During
          /\ UNCHANGED <<full, start, every, added, pass, holder, lost>>
      BY <1>1, <1>11 DEF Again, historyVars, optionVars
    <2>2. QED BY <1>1, <1>5, <2>1
  <1>12. CASE p = "health" /\ Check
    <2>1. (IF Flagged = {} THEN None ELSE SmallestOf(Flagged)) \in {None} \union Slots
      BY FlaggedFacts
    <2>2. start' \in [Jobs -> {None} \union Slots]
      BY <1>1, <1>12, <2>1 DEF Check
    <2>3. /\ pc' = [pc EXCEPT ![p] = "checked"] /\ pc[p] \notin During
          /\ UNCHANGED <<full, every, added, pass, holder, lost>>
      BY <1>1, <1>12 DEF Check, historyVars
    <2>4. QED BY <1>1, <1>5, <2>2, <2>3
  <1>13. CASE p = "health" /\ Rebuild
    <2>1. /\ pc' = [pc EXCEPT ![p] = "alter"] /\ pc[p] \notin During
          /\ added' \in [Jobs -> BOOLEAN] /\ UNCHANGED <<full, start, every, pass, holder, lost>>
      BY <1>1, <1>13 DEF Rebuild, EnsureRead, historyVars
    <2>2. QED BY <1>1, <1>5, <2>1
  <1>14. CASE (p = "health" /\ GiveUp) \/ Skip(p)
    <2>1. /\ pc' = [pc EXCEPT ![p] = Rest(p)] /\ pc[p] \notin During
          /\ pass' = [pass EXCEPT ![p] = NoPass]
          /\ start' \in [Jobs -> {None} \union Slots]
          /\ full' \in [Jobs -> BOOLEAN] /\ lost' \in BOOLEAN
          /\ UNCHANGED <<every, added, holder>>
      BY <1>1, <1>14 DEF GiveUp, Skip, Forget, Leave
    <2>2. QED BY <1>1, <1>4, <1>5, <2>1
  <1>15. CASE EnsureAlter(p)
    <2>1. /\ pc' = [pc EXCEPT ![p] = "lock"] /\ pc[p] \notin During
          /\ UNCHANGED <<every, pass, holder, lost>>
      BY <1>1, <1>15 DEF EnsureAlter, historyVars
    <2>2. added' \in [Jobs -> BOOLEAN] /\ start' \in [Jobs -> {None} \union Slots]
      BY <1>1, <1>15 DEF EnsureAlter
    <2>3. full' \in [Jobs -> BOOLEAN]
      BY <1>1, <1>15 DEF EnsureAlter
    <2>4. QED BY <1>1, <1>5, <2>1, <2>2, <2>3
  <1>16. CASE TryLock(p)
    <2> DEFINE r == [NoPass EXCEPT !.wf = Plan(p).wf, !.from = Plan(p).from]
    <2>1. Plan(p).wf \in Int /\ Plan(p).from \in Int
      BY PlanFacts
    <2>2. r \in Pass /\ r.top = 0 /\ r.at = 0 /\ r.candles = 0 /\ r.scores = 0
      BY <2>1 DEF NoPass, Pass
    <2>3. /\ pc' = [pc EXCEPT ![p] = "candles"] /\ holder = "nobody" /\ holder' = p
          /\ pass' = [pass EXCEPT ![p] = r]
          /\ UNCHANGED <<full, added, every, start, lost>>
      BY <1>16 DEF TryLock, BeginPass, optionVars, historyVars
    <2> HIDE DEF r
    <2>4. QED BY <1>7, <2>2, <2>3
  <1>17. CASE ReadCandles(p)
    <2> DEFINE r == [pass[p] EXCEPT !.candles = Len(facts), !.top = now]
    <2>1. now \in Nat /\ Len(facts) \in Nat
      BY FeatureAssumption DEF Typed, InputsTyped
    <2>2. r \in Pass /\ r.top <= now /\ r.candles <= Len(facts) /\ r.at <= clock
          /\ r.scores <= Len(facts)
      <3>1. r \in Pass
        BY <1>8, <2>1 DEF Pass
      <3>2. /\ r.top = now /\ r.candles = Len(facts)
            /\ r.at = pass[p].at /\ r.scores = pass[p].scores
        BY <1>8, <2>1 DEF Pass
      <3>3. pass[p].at <= clock /\ pass[p].scores <= Len(facts)
        BY <1>8 DEF PassBounds
      <3> HIDE DEF r
      <3>4. QED BY <2>1, <3>1, <3>2, <3>3
    <2>3. /\ pc' = [pc EXCEPT ![p] = "scores"] /\ holder = p /\ holder' = p
          /\ pass' = [pass EXCEPT ![p] = r]
          /\ UNCHANGED <<full, added, every, start, lost>>
      BY <1>1, <1>2, <1>17 DEF ReadCandles, optionVars, historyVars
    <2> HIDE DEF r
    <2>4. QED BY <1>7, <2>2, <2>3
  <1>18. CASE ReadScores(p)
    <2> DEFINE r == [pass[p] EXCEPT !.scores = Len(facts)]
    <2>1. Len(facts) \in Nat
      BY DEF Typed, InputsTyped
    <2>2. r \in Pass /\ r.top <= now /\ r.candles <= Len(facts) /\ r.at <= clock
          /\ r.scores <= Len(facts)
      BY <1>8, <2>1 DEF Pass, PassBounds
    <2>3. /\ pc' = [pc EXCEPT ![p] = "build"] /\ holder = p /\ holder' = p
          /\ pass' = [pass EXCEPT ![p] = r]
          /\ UNCHANGED <<full, added, every, start, lost>>
      BY <1>1, <1>2, <1>18 DEF ReadScores, optionVars, historyVars
    <2> HIDE DEF r
    <2>4. QED BY <1>7, <2>2, <2>3
  <1>19. CASE BeginWrite(p)
    <2> DEFINE r == [pass[p] EXCEPT !.at = clock]
    <2>1. clock \in Nat
      BY DEF Typed, InputsTyped
    <2>2. r \in Pass /\ r.top <= now /\ r.candles <= Len(facts) /\ r.at <= clock
          /\ r.scores <= Len(facts)
      BY <1>8, <2>1 DEF Pass, PassBounds
    <2>3. /\ pc' = [pc EXCEPT ![p] = "write"] /\ holder = p /\ holder' = p
          /\ pass' = [pass EXCEPT ![p] = r]
          /\ UNCHANGED <<full, added, every, start, lost>>
      BY <1>1, <1>2, <1>19 DEF BeginWrite, optionVars, historyVars
    <2> HIDE DEF r
    <2>4. QED BY <1>7, <2>2, <2>3
  <1>20. CASE Write(p)
    <2>1. /\ pc' = [pc EXCEPT ![p] = "unlock"] /\ holder = p /\ holder' = p
          /\ pass' = [pass EXCEPT ![p] = NoPass]
          /\ UNCHANGED <<full, added, every, start, lost>>
      BY <1>1, <1>2, <1>20 DEF Write, optionVars
    <2>2. QED BY <1>4, <1>7, <2>1
  <1>21. CASE Finish(p)
    <2>1. /\ pc' = [pc EXCEPT ![p] = Rest(p)] /\ holder = p /\ holder' = "nobody"
          /\ pass' = [pass EXCEPT ![p] = NoPass]
          /\ start' \in [Jobs -> {None} \union Slots]
          /\ full' \in [Jobs -> BOOLEAN] /\ lost' \in BOOLEAN
          /\ UNCHANGED <<every, added>>
      BY <1>1, <1>2, <1>21 DEF Finish, Forget, Leave
    <2>2. QED BY <1>1, <1>4, <1>6, <2>1
  <1>22. CASE Fail(p)
    <2>1. /\ pc' = [pc EXCEPT ![p] = Rest(p)] /\ holder = p /\ holder' = "nobody"
          /\ pass' = [pass EXCEPT ![p] = NoPass]
          /\ start' \in [Jobs -> {None} \union Slots]
          /\ full' \in [Jobs -> BOOLEAN] /\ lost' \in BOOLEAN
          /\ UNCHANGED <<every, added>>
      BY <1>1, <1>2, <1>22 DEF Fail, Forget, Leave, Unlocked, InPass
    <2>2. QED BY <1>1, <1>4, <1>6, <2>1
  <1>23. CASE Kill(p)
    <2> DEFINE s == IF p = "signals" THEN "idle" ELSE "off"
    <2>1. /\ pc' = [pc EXCEPT ![p] = s] /\ s \in Places0
          /\ holder' = IF holder = p THEN "nobody" ELSE holder
          /\ pass' = [pass EXCEPT ![p] = NoPass]
          /\ start' \in [Jobs -> {None} \union Slots]
          /\ full' \in [Jobs -> BOOLEAN] /\ lost' \in BOOLEAN
          /\ every' \in [Jobs -> BOOLEAN] /\ added' \in [Jobs -> BOOLEAN]
      BY <1>1, <1>23 DEF Kill, Forget, Unlocked
    <2> HIDE DEF s
    <2>2. CASE holder = p
      BY <1>6, <2>1, <2>2
    <2>3. CASE holder # p
      BY <1>2, <1>5, <2>1, <2>3
    <2>4. QED BY <2>2, <2>3
  <1>24. QED BY <1>9, <1>10, <1>11, <1>12, <1>13, <1>14, <1>15, <1>16, <1>17, <1>18, <1>19,
                <1>20, <1>21, <1>22, <1>23 DEF Step, Enter, Work

LEMMA NextTyped == ASSUME Typed, [Next]_vars PROVE Typed'
  <1>1. CASE UNCHANGED vars
    BY <1>1 DEF vars, Typed, InputsTyped, TableTyped, JobsTyped, PassTyped, CompleteBars, Bars, InPass
  <1>2. ASSUME NEW p \in Jobs, Step(p)
        PROVE  Typed'
    BY <1>2, StepKeepsTable, StepKeepsJobs DEF Typed
  <1>3. QED BY <1>1, <1>2, NextCases, InputsKeepTypes
-----------------------------------------------------------------------------
(* What a pass in flight knows.                                             *)

\* Where it writes and where it reads from; the watermarks stay where they were
\* when it planned.
PlanKept(p) ==
    pc[p] \in {"candles", "scores", "build", "write"} =>
        /\ start[p] # None => pass[p].wf = start[p]
        /\ start[p] = None => pass[p].wf = 0 \/ pass[p].wf = NextFrom
        /\ full[p] /\ start[p] = None => pass[p].wf = 0
        /\ pass[p].from = 0 \/ pass[p].from = pass[p].wf - HistoryNeeded

\* The rows there are know no candle the pass has not read, and what came on
\* time after it read is recent.
CandlesRead(p) ==
    pc[p] \in {"scores", "build", "write"} =>
        /\ DOMAIN rows \subseteq CompleteBars(pass[p].top)
        /\ \A k \in DOMAIN rows : \A i \in rows[k].seen :
              facts[i].kind = "candle" => i <= pass[p].candles
        /\ \A i \in DOMAIN facts :
              i > pass[p].candles /\ facts[i].onTime => facts[i].slot >= Until(pass[p].top)

ScoresRead(p) ==
    pc[p] \in {"build", "write"} =>
        /\ pass[p].candles <= pass[p].scores
        /\ \A k \in DOMAIN rows : \A i \in rows[k].seen : i <= pass[p].scores

\* A full refresh that is about to be ticked off has rewritten every row.
RefreshWritten(p) ==
    pc[p] = "unlock" /\ full[p] /\ start[p] = None => \A k \in DOMAIN rows : rows[k].filled

ReadingOf(p) == PlanKept(p) /\ CandlesRead(p) /\ ScoresRead(p) /\ RefreshWritten(p)

LEMMA NextFromIsToo == NextFrom' = FromOf(DOMAIN rows')
  BY DEF NextFrom, WriteFrom, Stored, FromOf, StoredIn

LEMMA NextFromStays == ASSUME UNCHANGED rows PROVE NextFrom' = NextFrom
  BY DEF NextFrom, WriteFrom, Stored

LEMMA SeenArrived ==
    ASSUME Typed, NEW k \in DOMAIN rows, NEW i \in rows[k].seen
    PROVE  i \in DOMAIN facts /\ i \in Nat /\ i <= Len(facts)
  BY DEF Typed, TableTyped, InputsTyped

LEMMA PassFields ==
    ASSUME Typed, NEW p \in Jobs
    PROVE  /\ pass[p].from \in Int /\ pass[p].wf \in Int /\ pass[p].top \in Nat
           /\ pass[p].candles \in Nat /\ pass[p].scores \in Nat /\ pass[p].at \in Nat
           /\ pass[p].top <= now /\ pass[p].candles <= Len(facts) /\ pass[p].scores <= Len(facts)
  BY DEF Typed, JobsTyped, PassTyped, Pass

LEMMA UntilGrows ==
    ASSUME NEW m \in Nat, NEW n \in Nat, m <= n
    PROVE  Until(m) \in Int /\ Until(n) \in Int /\ Until(m) <= Until(n)
  <1>1. MaxFreq * Lookback \in Nat
    BY MaxFreqFacts, FeatureAssumption
  <1>2. QED BY <1>1 DEF Until

LEMMA ArrivalsKeepReading ==
    ASSUME Typed, Inputs, NEW q \in Jobs, ReadingOf(q)
    PROVE  ReadingOf(q)'
  <1>1. /\ UNCHANGED <<migrated, rows, holder, pc, optionVars, pass, historyVars>>
        /\ Grown
    BY InputFacts
  <1>2. UNCHANGED <<rows, pc, pass, start, full>>
    BY <1>1 DEF optionVars
  <1>3. PlanKept(q)'
    <2>1. NextFrom' = NextFrom /\ HistoryNeeded' = HistoryNeeded
      BY <1>2, NextFromStays DEF HistoryNeeded
    <2>2. QED BY <1>2, <2>1 DEF ReadingOf, PlanKept
  <1>4. CandlesRead(q)'
    <2> SUFFICES ASSUME pc[q] \in {"scores", "build", "write"}
                 PROVE  /\ DOMAIN rows \subseteq CompleteBars(pass[q].top)'
                        /\ \A k \in DOMAIN rows : \A i \in rows[k].seen :
                              facts'[i].kind = "candle" => i <= pass[q].candles
                        /\ \A i \in DOMAIN facts' :
                              i > pass[q].candles /\ facts'[i].onTime
                                 => facts'[i].slot >= Until(pass[q].top)
      BY <1>2 DEF CandlesRead, Until, MaxFreq
    <2>1. CompleteBars(pass[q].top)' = CompleteBars(pass[q].top)
      BY <1>2 DEF CompleteBars, Bars
    <2>2. \A k \in DOMAIN rows : \A i \in rows[k].seen :
             facts'[i].kind = "candle" => i <= pass[q].candles
      BY <1>1, SeenArrived DEF ReadingOf, CandlesRead, Grown
    <2>3. ASSUME NEW i \in DOMAIN facts', i > pass[q].candles, facts'[i].onTime
          PROVE  facts'[i].slot >= Until(pass[q].top)
      <3>1. CASE i \in DOMAIN facts
        BY <1>1, <2>3, <3>1 DEF ReadingOf, CandlesRead, Grown
      <3>2. CASE i \notin DOMAIN facts
        <4>1. facts'[i].slot >= Until(now)
          BY <1>1, <2>3, <3>2 DEF Grown
        <4>2. facts'[i].slot \in Int
          <5>1. InputsTyped'
            BY InputFacts
          <5>2. facts'[i] \in FactIn(now, clock)'
            BY <2>3, <5>1 DEF InputsTyped
          <5>3. now' \in Int
            BY <5>1, FeatureAssumption DEF InputsTyped
          <5>4. QED BY <5>2, <5>3 DEF FactIn
        <4>3. now \in Nat /\ pass[q].top \in Nat /\ pass[q].top <= now
          BY TableFrom, PassFields
        <4>4. QED BY <4>1, <4>2, <4>3, UntilGrows
      <3>3. QED BY <3>1, <3>2
    <2>4. QED BY <2>1, <2>2, <2>3 DEF ReadingOf, CandlesRead
  <1>5. ScoresRead(q)'
    BY <1>2 DEF ReadingOf, ScoresRead
  <1>6. RefreshWritten(q)'
    BY <1>2 DEF ReadingOf, RefreshWritten
  <1>7. QED BY <1>3, <1>4, <1>5, <1>6 DEF ReadingOf

\* The step of another job: it does not write while q is in its pass.
LEMMA OthersKeepReading ==
    ASSUME Typed, NEW p \in Jobs, Step(p), NEW q \in Jobs \ {p}, ReadingOf(q)
    PROVE  ReadingOf(q)'
  <1>1. /\ UNCHANGED inputVars /\ (Write(p) \/ UNCHANGED <<rows, passed>>)
        /\ pc'[q] = pc[q] /\ pass'[q] = pass[q] /\ start'[q] = start[q] /\ full'[q] = full[q]
    BY StepFrame
  <1>2. UNCHANGED <<now, facts>>
    BY <1>1 DEF inputVars
  <1>3. CASE ~ InPass(q)
    BY <1>1, <1>3 DEF InPass, ReadingOf, PlanKept, CandlesRead, ScoresRead, RefreshWritten
  <1>4. CASE InPass(q)
    <2>1. ~ Write(p)
      BY <1>4 DEF Write, InPass, Typed, PassTyped
    <2>2. UNCHANGED rows
      BY <1>1, <2>1
    <2>3. NextFrom' = NextFrom /\ HistoryNeeded' = HistoryNeeded
      BY <2>2, NextFromStays DEF HistoryNeeded
    <2>4. CompleteBars(pass[q].top)' = CompleteBars(pass[q].top)
          /\ Until(pass[q].top)' = Until(pass[q].top)
      BY <1>1 DEF CompleteBars, Bars, Until, MaxFreq
    <2>5. PlanKept(q)'
      BY <1>1, <2>3 DEF ReadingOf, PlanKept
    <2>6. CandlesRead(q)'
      BY <1>1, <1>2, <2>2, <2>4 DEF ReadingOf, CandlesRead
    <2>7. ScoresRead(q)' /\ RefreshWritten(q)'
      BY <1>1, <2>2 DEF ReadingOf, ScoresRead, RefreshWritten
    <2>8. QED BY <2>5, <2>6, <2>7 DEF ReadingOf
  <1>5. QED BY <1>3, <1>4

\* A step of the pass itself.
LEMMA OwnReading ==
    ASSUME Typed, NEW p \in Jobs, Step(p), ReadingOf(p)
    PROVE  ReadingOf(p)'
  <1> DEFINE During == {"candles", "scores", "build", "write", "unlock"}
  <1>1. /\ UNCHANGED inputVars
        /\ pc \in [Jobs -> {"off", "idle", "waiting", "checked", "alter", "lock",
                        "candles", "scores", "build", "write", "unlock"}]
        /\ pass \in [Jobs -> Pass] /\ DOMAIN rows \subseteq CompleteBars(now)
        /\ now \in Nat /\ Len(facts) \in Nat
    BY StepFrame, FeatureAssumption DEF Typed, JobsTyped, TableTyped, InputsTyped
  <1>2. CASE pc'[p] \notin During
    BY <1>2 DEF ReadingOf, PlanKept, CandlesRead, ScoresRead, RefreshWritten
  <1>3. CASE TryLock(p)
    <2>1. /\ pc'[p] = "candles" /\ UNCHANGED <<rows, start, full>>
          /\ pass'[p] = [NoPass EXCEPT !.wf = Plan(p).wf, !.from = Plan(p).from]
      BY <1>1, <1>3 DEF TryLock, BeginPass, optionVars
    <2>2. pass'[p].wf = Plan(p).wf /\ pass'[p].from = Plan(p).from
      BY <2>1 DEF NoPass
    <2>3. NextFrom' = NextFrom /\ HistoryNeeded' = HistoryNeeded
      BY <2>1, NextFromStays DEF HistoryNeeded
    <2>4. PlanKept(p)'
      BY <2>1, <2>2, <2>3, PlanFacts DEF PlanKept
    <2>5. QED BY <2>1, <2>4 DEF ReadingOf, CandlesRead, ScoresRead, RefreshWritten
  <1>4. CASE ReadCandles(p)
    <2>1. /\ pc[p] = "candles" /\ pc'[p] = "scores" /\ UNCHANGED <<rows, start, full, facts>>
          /\ pass'[p] = [pass[p] EXCEPT !.candles = Len(facts), !.top = now]
      BY <1>1, <1>4 DEF ReadCandles, optionVars, inputVars
    <2>2. /\ pass'[p].wf = pass[p].wf /\ pass'[p].from = pass[p].from
          /\ pass'[p].candles = Len(facts) /\ pass'[p].top = now
      BY <1>1, <2>1 DEF Pass
    <2>3. NextFrom' = NextFrom /\ HistoryNeeded' = HistoryNeeded
      BY <2>1, NextFromStays DEF HistoryNeeded
    <2>4. PlanKept(p)'
      BY <2>1, <2>2, <2>3 DEF PlanKept, ReadingOf
    <2>5. CandlesRead(p)'
      <3>1. CompleteBars(pass[p].top)' = CompleteBars(now)
        BY <2>2 DEF CompleteBars, Bars
      <3>2. \A i \in DOMAIN facts : ~ (i > Len(facts))
        BY <1>1 DEF Typed, InputsTyped
      <3>3. QED BY <1>1, <2>1, <2>2, <3>1, <3>2, SeenArrived DEF CandlesRead
    <2>6. QED BY <2>1, <2>4, <2>5 DEF ReadingOf, ScoresRead, RefreshWritten
  <1>5. CASE ReadScores(p)
    <2>1. /\ pc[p] = "scores" /\ pc'[p] = "build" /\ UNCHANGED <<rows, start, full, facts>>
          /\ pass'[p] = [pass[p] EXCEPT !.scores = Len(facts)]
      BY <1>1, <1>5 DEF ReadScores, optionVars, inputVars
    <2>2. /\ pass'[p].wf = pass[p].wf /\ pass'[p].from = pass[p].from
          /\ pass'[p].candles = pass[p].candles /\ pass'[p].top = pass[p].top
          /\ pass'[p].scores = Len(facts)
      BY <1>1, <2>1 DEF Pass
    <2>3. NextFrom' = NextFrom /\ HistoryNeeded' = HistoryNeeded
      BY <2>1, NextFromStays DEF HistoryNeeded
    <2>4. PlanKept(p)'
      BY <2>1, <2>2, <2>3 DEF PlanKept, ReadingOf
    <2>5. CandlesRead(p)'
      <3>1. CompleteBars(pass[p].top)' = CompleteBars(pass[p].top)
            /\ Until(pass[p].top)' = Until(pass[p].top)
        BY <2>2 DEF CompleteBars, Bars, Until, MaxFreq
      <3>2. QED BY <2>1, <2>2, <3>1 DEF CandlesRead, ReadingOf
    <2>6. ScoresRead(p)'
      BY <2>1, <2>2, PassFields, SeenArrived DEF ScoresRead
    <2>7. QED BY <2>1, <2>4, <2>5, <2>6 DEF ReadingOf, RefreshWritten
  <1>6. CASE BeginWrite(p)
    <2>1. /\ pc[p] = "build" /\ pc'[p] = "write" /\ UNCHANGED <<rows, start, full, facts>>
          /\ pass'[p] = [pass[p] EXCEPT !.at = clock]
      BY <1>1, <1>6 DEF BeginWrite, optionVars, inputVars
    <2>2. /\ pass'[p].wf = pass[p].wf /\ pass'[p].from = pass[p].from
          /\ pass'[p].candles = pass[p].candles /\ pass'[p].top = pass[p].top
          /\ pass'[p].scores = pass[p].scores
      BY <1>1, <2>1 DEF Pass
    <2>3. NextFrom' = NextFrom /\ HistoryNeeded' = HistoryNeeded
      BY <2>1, NextFromStays DEF HistoryNeeded
    <2>4. PlanKept(p)'
      BY <2>1, <2>2, <2>3 DEF PlanKept, ReadingOf
    <2>5. CandlesRead(p)'
      <3>1. CompleteBars(pass[p].top)' = CompleteBars(pass[p].top)
            /\ Until(pass[p].top)' = Until(pass[p].top)
        BY <2>2 DEF CompleteBars, Bars, Until, MaxFreq
      <3>2. QED BY <2>1, <2>2, <3>1 DEF CandlesRead, ReadingOf
    <2>6. ScoresRead(p)'
      BY <2>1, <2>2 DEF ScoresRead, ReadingOf
    <2>7. QED BY <2>1, <2>4, <2>5, <2>6 DEF ReadingOf, RefreshWritten
  <1>7. CASE Write(p)
    <2>1. /\ pc[p] = "write" /\ pc'[p] = "unlock" /\ UNCHANGED <<start, full>>
          /\ DOMAIN rows' = DOMAIN rows \union Targets(p)
          /\ \A k \in Targets(p) : rows'[k] = [seen |-> Seen(p, k), at |-> pass[p].at,
                                               from |-> pass[p].from, filled |-> TRUE]
      BY <1>1, <1>7 DEF Write, optionVars
    <2>2. ASSUME full[p], start[p] = None, NEW k \in DOMAIN rows'
          PROVE  rows'[k].filled
      <3>1. pass[p].wf = 0 /\ DOMAIN rows \subseteq CompleteBars(pass[p].top)
        BY <2>1, <2>2 DEF ReadingOf, PlanKept, CandlesRead
      <3>2. \A b \in CompleteBars(pass[p].top) : b[2] >= 0
        BY BarFacts DEF CompleteBars
      <3>3. k \in Targets(p)
        BY <2>1, <2>2, <3>1, <3>2 DEF Targets
      <3>4. QED BY <2>1, <3>3
    <2>3. RefreshWritten(p)'
      BY <2>1, <2>2 DEF RefreshWritten
    <2>4. QED BY <2>1, <2>3 DEF ReadingOf, PlanKept, CandlesRead, ScoresRead
  \* Every other step is outside the pass or ends it.
  <1>8. CASE ~ (TryLock(p) \/ ReadCandles(p) \/ ReadScores(p) \/ BeginWrite(p) \/ Write(p))
    <2>1. Rest(p) \notin During
      BY DEF Rest
    <2>2. CASE p = "signals" /\ Wake
      BY <1>1, <1>2, <2>2 DEF Wake, EnsureRead
    <2>3. CASE p = "manual" /\ (Launch \/ Again)
      BY <1>1, <1>2, <2>3 DEF Launch, Again, EnsureRead
    <2>4. CASE p = "health" /\ (Check \/ Rebuild \/ GiveUp)
      BY <1>1, <1>2, <2>1, <2>4 DEF Check, Rebuild, GiveUp, EnsureRead, Leave
    <2>5. CASE EnsureAlter(p)
      BY <1>1, <1>2, <2>5 DEF EnsureAlter
    <2>6. CASE Skip(p) \/ Finish(p) \/ Fail(p)
      BY <1>1, <1>2, <2>1, <2>6 DEF Skip, Finish, Fail, Leave
    <2>7. CASE Kill(p)
      <3>1. (IF p = "signals" THEN "idle" ELSE "off") \notin During
        OBVIOUS
      <3>2. QED BY <1>1, <1>2, <2>7, <3>1 DEF Kill
    <2>8. CASE Enter(p) \/ Work(p)
      BY <1>8, <2>5, <2>6, <2>8 DEF Enter, Work
    <2>9. QED BY <2>2, <2>3, <2>4, <2>6, <2>7, <2>8 DEF Step
  <1>9. QED BY <1>3, <1>4, <1>5, <1>6, <1>7, <1>8
-----------------------------------------------------------------------------
(* What the rows know.                                                      *)

SeenBelongs ==
    \A k \in DOMAIN rows : \A i \in rows[k].seen : facts[i].slot \in Deps(k)

Missed(i, k) == facts[i].onTime /\ facts[i].slot \in Deps(k) /\ i \notin rows[k].seen

Covered ==
    \A i \in DOMAIN facts, k \in DOMAIN rows :
        Missed(i, k) => k[2] >= NextFrom \/ k \in passed

RowsSound == WholeHistory /\ SeenBelongs /\ Covered

LEMMA FactFields ==
    ASSUME Typed, NEW i \in DOMAIN facts
    PROVE  facts[i].kind \in {"candle", "score"} /\ facts[i].slot \in Nat
           /\ facts[i].onTime \in BOOLEAN /\ i \in Nat
  <1>1. facts[i] \in FactIn(now, clock) /\ i \in Nat
    BY DEF Typed, InputsTyped
  <1>2. now \in Nat
    BY TableFrom
  <1>3. QED BY <1>1, <1>2 DEF FactIn

\* A pass reads from before the rolling window of every bar it writes.
LEMMA FromReaches ==
    ASSUME Typed, NEW p \in Jobs, pc[p] = "write", ReadingOf(p), NEW k \in Targets(p)
    PROVE  /\ pass[p].from <= 0 \/ pass[p].from <= k[2] - Rolling * k[1]
           /\ \A s \in Deps(k) : s \in Nat => s >= pass[p].from
  <1>1. k \in Bars /\ k[2] >= pass[p].wf
    BY DEF Targets, CompleteBars
  <1>2. k[1] \in Freqs /\ k[1] \in Nat /\ k[2] \in Nat
    BY <1>1, BarFacts
  <1>3. pass[p].from = 0 \/ pass[p].from = pass[p].wf - HistoryNeeded
    BY DEF ReadingOf, PlanKept
  <1>4. pass[p].from \in Int /\ pass[p].wf \in Int
    BY PassFields
  <1> DEFINE back == Rolling * k[1]
  <1>5. back \in Int /\ HistoryNeeded \in Int /\ HistoryNeeded >= back
    BY <1>2, NeededFacts
  <1>6. Deps(k) = k[2] - back .. k[2] + k[1] - 1
    BY DEF Deps
  <1> HIDE DEF back
  <1>7. pass[p].from = 0 \/ pass[p].from <= k[2] - back
    BY <1>1, <1>2, <1>3, <1>4, <1>5
  <1>8. \A s \in Deps(k) : s \in Nat => s >= pass[p].from
    BY <1>2, <1>4, <1>5, <1>6, <1>7
  <1>9. QED BY <1>7, <1>8 DEF back

\* What a row misses arrived after the pass has read, and is recent.
LEMMA MissedIsRecent ==
    ASSUME Typed, NEW p \in Jobs, pc[p] = "write", ReadingOf(p), NEW k \in Targets(p),
           NEW i \in DOMAIN facts, facts[i].onTime, facts[i].slot \in Deps(k), i \notin Seen(p, k)
    PROVE  k[2] >= pass[p].top - MaxFreq - MaxFreq * Lookback
  <1>1. facts[i].slot \in Nat /\ i \in Nat /\ facts[i].kind \in {"candle", "score"}
    BY FactFields
  <1>2. facts[i].slot >= pass[p].from
    BY <1>1, FromReaches
  <1>3. ~ (i <= IF facts[i].kind = "candle" THEN pass[p].candles ELSE pass[p].scores)
    BY <1>2 DEF Seen
  <1>4. pass[p].candles <= pass[p].scores /\ pass[p].candles \in Nat /\ pass[p].scores \in Nat
        /\ pass[p].top \in Nat
    BY PassFields DEF ReadingOf, ScoresRead
  <1>5. i > pass[p].candles
    BY <1>1, <1>3, <1>4
  <1>6. facts[i].slot >= Until(pass[p].top)
    BY <1>5 DEF ReadingOf, CandlesRead
  <1>7. k \in Bars
    BY DEF Targets, CompleteBars
  <1>8. QED BY <1>1, <1>4, <1>6, <1>7, RecentBar

LEMMA WriteKeepsRows ==
    ASSUME Typed, NEW p \in Jobs, Write(p), ReadingOf(p), RowsSound
    PROVE  /\ RowsSound'
           /\ \A k \in DOMAIN rows : k \in DOMAIN rows' /\ rows[k].seen \subseteq rows'[k].seen
  <1>1. /\ pc[p] = "write" /\ UNCHANGED facts
        /\ DOMAIN rows' = DOMAIN rows \union Targets(p)
        /\ \A k \in Targets(p) : rows'[k] = [seen |-> Seen(p, k), at |-> pass[p].at,
                                             from |-> pass[p].from, filled |-> TRUE]
        /\ \A k \in DOMAIN rows \ Targets(p) : rows'[k] = rows[k]
        /\ passed' = (passed \ Targets(p)) \union
                       {k \in DOMAIN rows \ Targets(p) :
                           start[p] # None /\ NextFrom <= k[2] /\ k[2] < NextFrom'}
    BY DEF Write, inputVars
  <1>2. DOMAIN rows \subseteq CompleteBars(pass[p].top) /\ Targets(p) \subseteq CompleteBars(pass[p].top)
    BY <1>1 DEF ReadingOf, CandlesRead, Targets
  <1>3. WholeHistory'
    <2> SUFFICES ASSUME NEW k \in DOMAIN rows'
                 PROVE  rows'[k].from <= 0 \/ rows'[k].from <= k[2] - Rolling * k[1]
      BY DEF WholeHistory
    <2>1. CASE k \in Targets(p)
      BY <1>1, <2>1, FromReaches
    <2>2. CASE k \notin Targets(p)
      BY <1>1, <2>2 DEF RowsSound, WholeHistory
    <2>3. QED BY <2>1, <2>2
  <1>4. SeenBelongs'
    <2> SUFFICES ASSUME NEW k \in DOMAIN rows', NEW i \in rows'[k].seen
                 PROVE  facts[i].slot \in Deps(k)
      BY <1>1 DEF SeenBelongs, Deps
    <2>1. CASE k \in Targets(p)
      BY <1>1, <2>1 DEF Seen
    <2>2. CASE k \notin Targets(p)
      BY <1>1, <2>2 DEF RowsSound, SeenBelongs
    <2>3. QED BY <2>1, <2>2
  <1>5. /\ NextFrom' \in Int /\ NextFrom \in Int /\ pass[p].top \in Nat
        /\ NextFrom' = 0 \/ NextFrom' <= pass[p].top - MaxFreq - MaxFreq * Lookback
    <2>1. DOMAIN rows' \in SUBSET CompleteBars(pass[p].top)
      BY <1>1, <1>2
    <2>2. QED BY <2>1, NextFromIsToo, FromFacts, TableFrom, PassFields
  <1>6. \A k \in DOMAIN rows' : k \in Bars /\ k[2] \in Nat
    BY <1>1, <1>2, BarFacts DEF CompleteBars
  <1>7. ASSUME NEW i \in DOMAIN facts, NEW k \in DOMAIN rows',
               facts[i].onTime, facts[i].slot \in Deps(k), i \notin rows'[k].seen
        PROVE  k[2] >= NextFrom' \/ k \in passed'
    <2>1. CASE k \in Targets(p)
      <3>1. k[2] >= pass[p].top - MaxFreq - MaxFreq * Lookback
        BY <1>1, <1>7, <2>1, MissedIsRecent
      <3>2. k[2] \in Nat
        BY <1>6
      <3> DEFINE recent == pass[p].top - MaxFreq - MaxFreq * Lookback
      <3>3. recent \in Int
        BY <1>5, MaxFreqFacts, FeatureAssumption
      <3> HIDE DEF recent
      <3>4. k[2] >= recent /\ (NextFrom' = 0 \/ NextFrom' <= recent)
        BY <1>5, <3>1 DEF recent
      <3>5. QED BY <1>5, <3>2, <3>3, <3>4
    <2>2. CASE k \notin Targets(p)
      <3>1. k \in DOMAIN rows /\ rows'[k] = rows[k]
        BY <1>1, <2>2
      <3>2. k[2] >= NextFrom \/ k \in passed
        BY <1>7, <3>1 DEF RowsSound, Covered, Missed
      <3>3. CASE k \in passed
        BY <1>1, <2>2, <3>3
      <3>4. CASE k[2] >= NextFrom
        <4>1. ~ (k[2] >= pass[p].wf)
          BY <1>2, <2>2, <3>1 DEF Targets
        <4>2. start[p] # None
          BY <1>1, <1>6, <3>4, <4>1 DEF ReadingOf, PlanKept
        <4>3. k[2] >= NextFrom' \/ k[2] < NextFrom'
          BY <1>5, <1>6
        <4>4. NextFrom <= k[2]
          BY <1>5, <1>6, <3>4
        <4>5. QED BY <1>1, <2>2, <3>1, <4>2, <4>3, <4>4
      <3>5. QED BY <3>2, <3>3, <3>4
    <2>3. QED BY <2>1, <2>2
  <1>8. Covered'
    BY <1>1, <1>7 DEF Covered, Missed, Deps
  <1>9. ASSUME NEW k \in DOMAIN rows, NEW i \in rows[k].seen
        PROVE  k \in DOMAIN rows' /\ i \in rows'[k].seen
    <2>1. CASE k \notin Targets(p)
      BY <1>1, <2>1
    <2>2. CASE k \in Targets(p)
      <3>1. i \in DOMAIN facts /\ i \in Nat /\ facts[i].slot \in Nat /\ facts[i].kind \in {"candle", "score"}
        BY <1>9, SeenArrived, FactFields
      <3>2. facts[i].slot \in Deps(k)
        BY <1>9 DEF RowsSound, SeenBelongs
      <3>3. facts[i].slot >= pass[p].from
        BY <1>1, <2>2, <3>1, <3>2, FromReaches
      <3>4. i <= IF facts[i].kind = "candle" THEN pass[p].candles ELSE pass[p].scores
        BY <1>1, <1>9 DEF ReadingOf, CandlesRead, ScoresRead
      <3>5. i \in Seen(p, k)
        BY <3>1, <3>2, <3>3, <3>4 DEF Seen
      <3>6. QED BY <1>1, <2>2, <3>5
    <2>3. QED BY <2>1, <2>2
  <1>10. QED
    <2>1. \A k \in DOMAIN rows : k \in DOMAIN rows' /\ rows[k].seen \subseteq rows'[k].seen
      BY <1>1, <1>9
    <2>2. QED BY <1>3, <1>4, <1>8, <2>1 DEF RowsSound

LEMMA ArrivalsKeepRows ==
    ASSUME Typed, Inputs, RowsSound
    PROVE  RowsSound'
  <1>1. /\ UNCHANGED <<migrated, rows, holder, pc, optionVars, pass, historyVars>> /\ Grown
        /\ InputsTyped'
    BY InputFacts
  <1>2. UNCHANGED <<rows, passed>>
    BY <1>1 DEF historyVars
  <1>3. NextFrom' = NextFrom
    BY <1>2, NextFromStays
  <1>4. WholeHistory'
    BY <1>2 DEF RowsSound, WholeHistory
  <1>5. SeenBelongs'
    <2>1. \A k \in DOMAIN rows : \A i \in rows[k].seen : facts'[i].slot = facts[i].slot
      BY <1>1, SeenArrived DEF Grown
    <2>2. QED BY <1>2, <2>1 DEF RowsSound, SeenBelongs, Deps
  <1>6. ASSUME NEW i \in DOMAIN facts', NEW k \in DOMAIN rows,
               facts'[i].onTime, facts'[i].slot \in Deps(k), i \notin rows[k].seen
        PROVE  k[2] >= NextFrom \/ k \in passed
    <2>1. CASE i \in DOMAIN facts
      <3>1. Missed(i, k)
        BY <1>1, <1>6, <2>1 DEF Missed, Grown
      <3>2. QED BY <2>1, <3>1 DEF RowsSound, Covered
    <2>2. CASE i \notin DOMAIN facts
      <3>1. facts'[i].slot >= Until(now)
        BY <1>1, <1>6, <2>2 DEF Grown
      <3>2. facts'[i].slot \in Nat
        <4>1. facts'[i] \in FactIn(now, clock)'
          BY <1>1 DEF InputsTyped
        <4>2. now' \in Int
          BY <1>1, FeatureAssumption DEF InputsTyped
        <4>3. QED BY <4>1, <4>2 DEF FactIn
      <3>3. k \in Bars /\ k[2] \in Nat
        BY BarFacts DEF Typed, TableTyped, CompleteBars
      <3>4. now \in Nat /\ NextFrom \in Int
            /\ (NextFrom = 0 \/ NextFrom <= now - MaxFreq - MaxFreq * Lookback)
        BY TableFrom
      <3> DEFINE recent == now - MaxFreq - MaxFreq * Lookback
      <3>5. k[2] >= recent
        BY <1>6, <3>1, <3>2, <3>3, <3>4, RecentBar
      <3>6. recent \in Int
        BY <3>4, MaxFreqFacts, FeatureAssumption
      <3>7. NextFrom = 0 \/ NextFrom <= recent
        BY <3>4
      <3> HIDE DEF recent
      <3>8. QED BY <3>3, <3>4, <3>5, <3>6, <3>7
    <2>3. QED BY <2>1, <2>2
  <1>7. Covered'
    BY <1>2, <1>3, <1>6 DEF Covered, Missed, Deps
  <1>8. QED BY <1>4, <1>5, <1>7 DEF RowsSound

LEMMA StepKeepsRows ==
    ASSUME Typed, NEW p \in Jobs, Step(p), ReadingOf(p), RowsSound
    PROVE  /\ RowsSound'
           /\ \A k \in DOMAIN rows : k \in DOMAIN rows' /\ rows[k].seen \subseteq rows'[k].seen
  <1>1. UNCHANGED inputVars /\ (Write(p) \/ UNCHANGED <<rows, passed>>)
    BY StepFrame
  <1>2. CASE UNCHANGED <<rows, passed>>
    <2>1. UNCHANGED <<facts, rows, passed>> /\ NextFrom' = NextFrom
      BY <1>1, <1>2, NextFromStays DEF inputVars
    <2>2. QED BY <2>1 DEF RowsSound, WholeHistory, SeenBelongs, Covered, Missed, Deps
  <1>3. QED BY <1>1, <1>2, WriteKeepsRows
-----------------------------------------------------------------------------
(* Who owes a full refresh.                                                 *)

NotYet(p) == pc[p] \in {"off", "idle", "checked"} => ~ full[p]

Noticed(p) == pc[p] = "alter" /\ ~ migrated => added[p]

Unfilled == \E k \in DOMAIN rows : ~ rows[k].filled

Owed == migrated /\ Unfilled => (\E p \in Jobs : full[p]) \/ lost

Debts == (\A p \in Jobs : NotYet(p) /\ Noticed(p)) /\ Owed

LEMMA StepKeepsDebts ==
    ASSUME Typed, NEW p \in Jobs, Step(p), ReadingOf(p), Debts
    PROVE  Debts'
  <1>1. /\ UNCHANGED inputVars
        /\ Write(p) \/ UNCHANGED <<rows, passed>>
        /\ EnsureAlter(p) \/ UNCHANGED migrated
        /\ \A q \in Jobs \ {p} : pc'[q] = pc[q] /\ full'[q] = full[q] /\ added'[q] = added[q]
    BY StepFrame
  <1>2. /\ pc \in [Jobs -> {"off", "idle", "waiting", "checked", "alter", "lock",
                        "candles", "scores", "build", "write", "unlock"}]
        /\ full \in [Jobs -> BOOLEAN] /\ added \in [Jobs -> BOOLEAN] /\ migrated \in BOOLEAN
        /\ every \in [Jobs -> BOOLEAN] /\ lost \in BOOLEAN
    BY DEF Typed, JobsTyped, TableTyped
  <1>3. NotYet(p) /\ Noticed(p) /\ Owed
    BY DEF Debts
  <1>4. ASSUME NEW q \in Jobs \ {p}
        PROVE  NotYet(q)' /\ Noticed(q)'
    <2>1. NotYet(q) /\ Noticed(q)
      BY DEF Debts
    <2>2. migrated => migrated'
      BY <1>1 DEF EnsureAlter
    <2>3. QED BY <1>1, <2>1, <2>2 DEF NotYet, Noticed
  \* A step that leaves the table alone and no debt behind.
  <1>5. ASSUME UNCHANGED <<rows, migrated>>, lost' = lost \/ lost' = (lost \/ full[p]),
               full[p] => full'[p] \/ lost' \/ ~ Unfilled
        PROVE  Owed'
    <2>1. Unfilled' = Unfilled
      BY <1>5 DEF Unfilled
    <2>2. lost => lost'
      BY <1>2, <1>5
    <2>3. (\E q \in Jobs : full[q]) => (\E q \in Jobs : full'[q]) \/ lost' \/ ~ Unfilled
      BY <1>1, <1>5
    <2>4. QED BY <1>3, <1>5, <2>1, <2>2, <2>3 DEF Owed
  \* The steps that forget a refresh say so.
  <1>6. ASSUME Forget(p), UNCHANGED <<rows, migrated>>
        PROVE  ~ full'[p] /\ Owed'
    <2>1. ~ full'[p] /\ lost' = (lost \/ full[p])
      BY <1>2, <1>6 DEF Forget
    <2>2. QED BY <1>2, <1>5, <1>6, <2>1
  <1>7. Rest(p) \in {"idle", "waiting", "off"}
    BY DEF Rest
  <1>8. CASE (p = "signals" /\ Wake) \/ (p = "health" /\ Rebuild)
    <2>1. /\ pc'[p] = "alter" /\ added'[p] = ~ migrated
          /\ UNCHANGED <<rows, migrated, full, lost>>
      BY <1>2, <1>8 DEF Wake, Rebuild, EnsureRead, historyVars
    <2>2. Owed'
      BY <1>5, <2>1
    <2>3. NotYet(p)' /\ Noticed(p)'
      BY <2>1 DEF NotYet, Noticed
    <2>4. QED BY <1>4, <2>2, <2>3 DEF Debts
  <1>9. CASE p = "manual" /\ Launch
    <2>1. /\ pc[p] = "off" /\ pc'[p] = "alter" /\ added'[p] = ~ migrated
          /\ UNCHANGED <<rows, migrated, lost>>
      BY <1>2, <1>9 DEF Launch, EnsureRead, historyVars
    <2>2. ~ full[p]
      BY <1>3, <2>1 DEF NotYet
    <2>3. Owed'
      BY <1>5, <2>1, <2>2
    <2>4. NotYet(p)' /\ Noticed(p)'
      BY <2>1 DEF NotYet, Noticed
    <2>5. QED BY <1>4, <2>3, <2>4 DEF Debts
  <1>10. CASE p = "manual" /\ Again
    <2>1. pc'[p] = "lock" /\ UNCHANGED <<rows, migrated, full, lost>>
      BY <1>2, <1>10 DEF Again, historyVars, optionVars
    <2>2. Owed'
      BY <1>5, <2>1
    <2>3. NotYet(p)' /\ Noticed(p)'
      BY <2>1 DEF NotYet, Noticed
    <2>4. QED BY <1>4, <2>2, <2>3 DEF Debts
  <1>11. CASE p = "health" /\ Check
    <2>1. pc[p] = "off" /\ pc'[p] = "checked" /\ UNCHANGED <<rows, migrated, full, lost>>
      BY <1>2, <1>11 DEF Check, historyVars
    <2>2. Owed'
      BY <1>5, <2>1
    <2>3. NotYet(p)' /\ Noticed(p)'
      BY <1>3, <2>1 DEF NotYet, Noticed
    <2>4. QED BY <1>4, <2>2, <2>3 DEF Debts
  <1>12. CASE (p = "health" /\ GiveUp) \/ Skip(p)
    <2>1. Forget(p) /\ pc'[p] = Rest(p) /\ UNCHANGED <<rows, migrated>>
      BY <1>2, <1>12 DEF GiveUp, Skip, Leave
    <2>2. ~ full'[p] /\ Owed'
      BY <1>6, <2>1
    <2>3. NotYet(p)' /\ Noticed(p)'
      BY <1>7, <2>1, <2>2 DEF NotYet, Noticed
    <2>4. QED BY <1>4, <2>2, <2>3 DEF Debts
  <1>13. CASE EnsureAlter(p)
    <2>1. /\ pc[p] = "alter" /\ pc'[p] = "lock" /\ migrated'
          /\ full'[p] = (full[p] \/ added[p]) /\ UNCHANGED <<rows, lost>>
      BY <1>2, <1>13 DEF EnsureAlter, historyVars
    <2>2. Owed'
      <3>1. CASE migrated
        BY <1>1, <1>3, <2>1, <3>1 DEF Owed, Unfilled
      <3>2. CASE ~ migrated
        BY <1>3, <2>1, <3>2 DEF Owed, Noticed
      <3>3. QED BY <3>1, <3>2
    <2>3. NotYet(p)' /\ Noticed(p)'
      BY <2>1 DEF NotYet, Noticed
    <2>4. QED BY <1>4, <2>2, <2>3 DEF Debts
  <1>14. CASE TryLock(p) \/ ReadCandles(p) \/ ReadScores(p) \/ BeginWrite(p)
    <2>1. /\ pc'[p] \in {"candles", "scores", "build", "write"}
          /\ UNCHANGED <<rows, migrated, full, lost>>
      BY <1>2, <1>14 DEF TryLock, BeginPass, ReadCandles, ReadScores, BeginWrite, historyVars, optionVars
    <2>2. Owed'
      BY <1>5, <2>1
    <2>3. NotYet(p)' /\ Noticed(p)'
      BY <2>1 DEF NotYet, Noticed
    <2>4. QED BY <1>4, <2>2, <2>3 DEF Debts
  <1>15. CASE Write(p)
    <2>1. /\ pc'[p] = "unlock" /\ UNCHANGED <<migrated, full, lost>>
          /\ DOMAIN rows' = DOMAIN rows \union Targets(p)
          /\ \A k \in DOMAIN rows' : rows'[k].filled \/ (k \in DOMAIN rows /\ rows'[k] = rows[k])
      BY <1>2, <1>15 DEF Write, optionVars
    <2>2. Unfilled' => Unfilled
      BY <2>1 DEF Unfilled
    <2>3. Owed'
      BY <1>3, <2>1, <2>2 DEF Owed
    <2>4. NotYet(p)' /\ Noticed(p)'
      BY <2>1 DEF NotYet, Noticed
    <2>5. QED BY <1>4, <2>3, <2>4 DEF Debts
  <1>16. CASE Finish(p)
    <2>1. pc[p] = "unlock" /\ pc'[p] = Rest(p) /\ UNCHANGED <<rows, migrated>>
      BY <1>2, <1>16 DEF Finish, Leave
    <2>2. ~ full'[p] /\ Owed'
      <3>1. CASE start[p] = None
        <4>1. ~ full'[p] /\ UNCHANGED lost
          BY <1>2, <1>16, <3>1 DEF Finish
        <4>2. full[p] => ~ Unfilled
          BY <2>1, <3>1 DEF ReadingOf, RefreshWritten, Unfilled
        <4>3. QED BY <1>5, <2>1, <4>1, <4>2
      <3>2. CASE start[p] # None
        BY <1>6, <1>16, <2>1, <3>2 DEF Finish
      <3>3. QED BY <3>1, <3>2
    <2>3. NotYet(p)' /\ Noticed(p)'
      BY <1>7, <2>1, <2>2 DEF NotYet, Noticed
    <2>4. QED BY <1>4, <2>2, <2>3 DEF Debts
  <1>17. CASE Fail(p)
    <2>1. pc'[p] = Rest(p) /\ UNCHANGED <<rows, migrated>>
      BY <1>2, <1>17 DEF Fail, Leave
    <2>2. CASE p = "manual" /\ every[p]
      <3>1. UNCHANGED <<full, lost>> /\ Rest(p) = "waiting"
        BY <1>17, <2>2 DEF Fail, Rest
      <3>2. Owed'
        BY <1>5, <2>1, <3>1
      <3>3. NotYet(p)' /\ Noticed(p)'
        BY <2>1, <3>1 DEF NotYet, Noticed
      <3>4. QED BY <1>4, <3>2, <3>3 DEF Debts
    <2>3. CASE ~ (p = "manual" /\ every[p])
      <3>1. ~ full'[p] /\ Owed'
        BY <1>6, <1>17, <2>1, <2>3 DEF Fail
      <3>2. NotYet(p)' /\ Noticed(p)'
        BY <1>7, <2>1, <3>1 DEF NotYet, Noticed
      <3>3. QED BY <1>4, <3>1, <3>2 DEF Debts
    <2>4. QED BY <2>2, <2>3
  <1>18. CASE Kill(p)
    <2>1. pc'[p] \in {"idle", "off"} /\ UNCHANGED <<rows, migrated>> /\ Forget(p)
      BY <1>2, <1>18 DEF Kill
    <2>2. ~ full'[p] /\ Owed'
      BY <1>6, <2>1
    <2>3. NotYet(p)' /\ Noticed(p)'
      BY <2>1, <2>2 DEF NotYet, Noticed
    <2>4. QED BY <1>4, <2>2, <2>3 DEF Debts
  <1>19. QED BY <1>8, <1>9, <1>10, <1>11, <1>12, <1>13, <1>14, <1>15, <1>16, <1>17, <1>18
             DEF Step, Enter, Work
-----------------------------------------------------------------------------
(* The inductive invariant.                                                 *)

IInv == Typed /\ (\A p \in Jobs : ReadingOf(p)) /\ RowsSound /\ Debts

LEMMA InitInv == ASSUME Init PROVE IInv
  <1>1. Typed
    BY InitTyped
  <1>2. \A p \in Jobs : pc[p] \in {"idle", "off"} /\ full[p] = FALSE
    BY DEF Init
  <1>3. \A p \in Jobs : ReadingOf(p)
    BY <1>2 DEF ReadingOf, PlanKept, CandlesRead, ScoresRead, RefreshWritten
  <1>4. /\ DOMAIN facts = {}
        /\ \A k \in DOMAIN rows : rows[k].seen = {} /\ rows[k].from = 0 /\ rows[k].filled = migrated
    BY DEF Init
  <1>5. RowsSound
    BY <1>4 DEF RowsSound, WholeHistory, SeenBelongs, Covered
  <1>6. Debts
    BY <1>2, <1>4 DEF Debts, NotYet, Noticed, Owed, Unfilled
  <1>7. QED BY <1>1, <1>3, <1>5, <1>6 DEF IInv

LEMMA NextInv == ASSUME IInv, [Next]_vars PROVE IInv'
  <1> USE DEF IInv
  <1>1. Typed'
    BY NextTyped
  <1>2. CASE UNCHANGED vars
    <2>1. UNCHANGED <<now, facts, migrated, rows, pc, full, start, added, pass, lost, passed>>
      BY <1>2 DEF vars
    <2>2. NextFrom' = NextFrom /\ HistoryNeeded' = HistoryNeeded
      BY <2>1, NextFromStays DEF HistoryNeeded
    <2>3. \A p \in Jobs : ReadingOf(p)'
      BY <2>1, <2>2 DEF ReadingOf, PlanKept, CandlesRead, ScoresRead, RefreshWritten,
                        CompleteBars, Bars, Until, MaxFreq
    <2>4. RowsSound'
      BY <2>1, <2>2 DEF RowsSound, WholeHistory, SeenBelongs, Covered, Missed, Deps
    <2>5. Debts'
      BY <2>1 DEF Debts, NotYet, Noticed, Owed, Unfilled
    <2>6. QED BY <1>1, <2>3, <2>4, <2>5
  <1>3. CASE Inputs
    <2>1. \A p \in Jobs : ReadingOf(p)'
      BY <1>3, ArrivalsKeepReading
    <2>2. RowsSound'
      BY <1>3, ArrivalsKeepRows
    <2>3. UNCHANGED <<migrated, rows, pc, full, added, lost>>
      BY <1>3, InputFacts DEF optionVars, historyVars
    <2>4. Debts'
      BY <2>3 DEF Debts, NotYet, Noticed, Owed, Unfilled
    <2>5. QED BY <1>1, <2>1, <2>2, <2>4
  <1>4. ASSUME NEW p \in Jobs, Step(p)
        PROVE  IInv'
    <2>1. \A q \in Jobs : ReadingOf(q)'
      BY <1>4, OwnReading, OthersKeepReading
    <2>2. RowsSound' /\ Debts'
      BY <1>4, StepKeepsRows, StepKeepsDebts
    <2>3. QED BY <1>1, <2>1, <2>2
  <1>5. QED BY <1>2, <1>3, <1>4, NextCases

LEMMA Invariance == Spec => []IInv
  <1>1. Init => IInv
    BY InitInv
  <1>2. IInv /\ [Next]_vars => IInv'
    BY NextInv
  <1>3. QED BY <1>1, <1>2, PTL DEF Spec

(* The variables of the feature job have their types; the table has no bar  *)
(* that is not complete, and exactly the job that is in its pass holds the   *)
(* advisory lock (features/store.py, try_lock).                              *)
THEOREM TypeTheorem == Spec => []TypeOK
  <1>1. IInv => TypeOK
    BY TypedMeansTypeOK DEF IInv
  <1>2. QED BY <1>1, Invariance, PTL

(* Whatever the frequencies and the rolling window, each row is computed    *)
(* from the whole window before it (FeatureConfig.history_needed).          *)
THEOREM HistoryTheorem == Spec => []WholeHistory
  <1>1. IInv => WholeHistory
    BY DEF IInv, RowsSound
  <1>2. QED BY <1>1, Invariance, PTL

(* Nothing that arrives on time falls between two passes, for any lookback, *)
(* any frequencies and any interleaving of arrivals and passes, but behind  *)
(* the watermarks that a pinned pass moved (run_feature_job.py, plan_run).    *)
THEOREM CoverTheorem == Spec => []NextPassCovers
  <1>1. ASSUME IInv
        PROVE  NextPassCovers
    <2>1. (\A f \in Freqs : Stored(f) # {}) => WriteFrom = NextFrom
      BY DEF NextFrom
    <2>2. QED BY <1>1, <2>1 DEF NextPassCovers, IInv, RowsSound, Covered, Missed
  <1>2. QED BY <1>1, Invariance, PTL

(* A full refresh that a migration made necessary is owed until it is done, *)
(* or lost in one of the four ways the code has (run_feature_job.main,      *)
(* run_signals.main, rebuild_features).                                     *)
THEOREM OwedTheorem == Spec => []MigrationOwed
  <1>1. IInv => MigrationOwed
    BY DEF IInv, Debts, Owed, Unfilled, MigrationOwed
  <1>2. QED BY <1>1, Invariance, PTL

(* No row is ever replaced by one that knows less, however long a pass      *)
(* takes between its reads and its upsert (features/store.py, try_lock and  *)
(* upsert_features).                                                        *)
THEOREM OlderTheorem == Spec => NeverOlder
  <1> DEFINE Kept == \A k \in DOMAIN rows : k \in DOMAIN rows' /\ rows[k].seen \subseteq rows'[k].seen
  <1>1. ASSUME IInv, [Next]_vars
        PROVE  [Kept]_vars
    <2>1. CASE UNCHANGED rows
      BY <2>1
    <2>2. ASSUME NEW p \in Jobs, Step(p)
          PROVE  Kept
      BY <1>1, <2>2, StepKeepsRows DEF IInv
    <2>3. CASE UNCHANGED vars
      BY <2>3
    <2>4. CASE Inputs
      BY <1>1, <2>4, InputFacts DEF IInv
    <2>5. QED BY <1>1, <2>2, <2>3, <2>4, NextCases
  <1>2. QED BY <1>1, Invariance, PTL DEF Spec, NeverOlder
=============================================================================
