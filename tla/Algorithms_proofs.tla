------------------------- MODULE Algorithms_proofs -------------------------
(***************************************************************************)
(* What the modules without actions compute, for every input of theirs:    *)
(* no prediction of the backtest sees the future, the series of the lag    *)
(* analysis are true to the bars and articles they are made of, and the    *)
(* repairs ask for what is missing. A fold over a sequence or a set is     *)
(* unfolded into its steps (the lemmas ...Unfold) and an invariant of the  *)
(* steps is carried through them (the lemmas ...StepGood).                 *)
(***************************************************************************)
EXTENDS RepairPlans, Analysis, Backtest, NumberFacts, SequenceTheorems, TLAPS

LEMMA Division ==
    ASSUME NEW n \in Nat, NEW d \in Nat \ {0}
    PROVE  /\ n \div d \in Nat /\ n % d \in 0 .. d - 1
           /\ n = d * (n \div d) + (n % d)
  OBVIOUS

LEMMA OneMultiple ==
    ASSUME NEW d \in Nat \ {0}, NEW p \in Nat, NEW q \in Nat, NEW n \in Nat,
           d * p <= n, n < d * p + d, d * q <= n, n < d * q + d
    PROVE  p = q
  <1>1. ASSUME NEW i \in Nat, NEW j \in Nat, i < j
        PROVE  d * i + d <= d * j
    <2>1. j = i + 1 + (j - i - 1) /\ j - i - 1 \in Nat
      BY <1>1
    <2>2. d * (j - i - 1) >= 0
      BY <2>1
    <2>3. d * j = d * i + d + d * (j - i - 1)
      OBVIOUS
    <2>4. QED BY <2>2, <2>3
  <1>2. CASE p < q
    BY <1>1, <1>2
  <1>3. CASE q < p
    BY <1>1, <1>3
  <1>4. QED BY <1>2, <1>3
-----------------------------------------------------------------------------
BacktestTyped ==
    /\ priced \in [Coins -> SUBSET (1 .. LastBar)]
    /\ testFrom \in 1 .. LastBar /\ testTo \in 2 .. LastBar + 1 /\ testFrom < testTo
    /\ actions \in Seq({"BUY", "SELL", "HOLD"})

LEMMA InitBacktestTyped == ASSUME TInit PROVE BacktestTyped
  <1>1. LastBar \in Nat \ {0}
    BY BacktestAssumption
  <1>2. << >> \in Seq({"BUY", "SELL", "HOLD"})
    OBVIOUS
  <1>3. \A f \in [1 .. LastBar -> {"BUY", "SELL", "HOLD"}] : f \in Seq({"BUY", "SELL", "HOLD"})
    BY <1>1
  <1>4. CASE /\ priced \in [Coins -> SUBSET (1 .. LastBar)]
             /\ testFrom \in 1 .. LastBar /\ testTo \in 2 .. LastBar + 1 /\ testFrom < testTo
             /\ actions = << >>
    BY <1>2, <1>4 DEF BacktestTyped
  <1>5. CASE /\ actions \in [1 .. LastBar -> {"BUY", "SELL", "HOLD"}]
             /\ priced = [c \in Coins |-> {}] /\ testFrom = 1 /\ testTo = 2
    <2>1. actions \in Seq({"BUY", "SELL", "HOLD"})
      BY <1>3, <1>5
    <2>2. testFrom \in 1 .. LastBar /\ testTo \in 2 .. LastBar + 1 /\ testFrom < testTo
      BY <1>1, <1>5
    <2>3. QED BY <1>5, <2>1, <2>2 DEF BacktestTyped
  <1>6. QED BY <1>4, <1>5 DEF TInit

LEMMA TrainedOnThePast ==
    ASSUME BacktestTyped, NEW at \in Int, NEW c \in Coins, NEW b \in TrainingRows(at)[c]
    PROVE  b \in 1 .. LastBar /\ b + Ahead <= at
  <1> USE BacktestAssumption DEF BacktestTyped
  <1>1. b \in Labelled(c) /\ b <= at - Ahead
    BY DEF TrainingRows, Newest
  <1>2. b \in 1 .. LastBar
    BY <1>1 DEF Labelled
  <1>3. QED BY <1>1, <1>2

\* The start of the block that a bar of the test window falls into.
Block(b) == b - ((b - testFrom) % RetrainEvery)

LEMMA OneBlock ==
    ASSUME BacktestTyped, NEW b \in testFrom .. testTo - 1
    PROVE  /\ Block(b) \in BlockStarts /\ Block(b) <= b /\ b < Block(b) + RetrainEvery
           /\ \A s \in BlockStarts : s <= b /\ b < s + RetrainEvery => s = Block(b)
  <1> USE BacktestAssumption DEF BacktestTyped
  <1> DEFINE n == b - testFrom
             q == n \div RetrainEvery
             r == n % RetrainEvery
  <1>1. n \in Nat /\ RetrainEvery \in Nat \ {0} /\ testFrom \in Nat
    OBVIOUS
  <1>2. q \in Nat /\ r \in 0 .. RetrainEvery - 1 /\ n = RetrainEvery * q + r
    BY <1>1, Division
  <1>3. Block(b) = testFrom + RetrainEvery * q
    <2>1. Block(b) = b - r
      BY DEF Block
    <2>2. b = testFrom + n /\ b \in Int
      OBVIOUS
    <2> HIDE DEF n, q, r
    <2>3. RetrainEvery * q \in Nat
      BY <1>1, <1>2
    <2>4. QED BY <1>1, <1>2, <2>1, <2>2, <2>3
  <1>4. Block(b) \in testFrom .. testTo - 1 /\ Block(b) <= b /\ b < Block(b) + RetrainEvery
    <2> HIDE DEF q, r
    <2>1. RetrainEvery * q \in Nat
      BY <1>1, <1>2
    <2>2. QED BY <1>1, <1>2, <1>3, <2>1
  <1>5. ASSUME NEW s \in BlockStarts
        PROVE  /\ (s - testFrom) \div RetrainEvery \in Nat
               /\ s = testFrom + RetrainEvery * ((s - testFrom) \div RetrainEvery)
    <2>1. s \in testFrom .. testTo - 1 /\ (s - testFrom) % RetrainEvery = 0
      BY DEF BlockStarts
    <2> DEFINE m == s - testFrom
               k == m \div RetrainEvery
    <2>2. m \in Nat /\ s = testFrom + m
      BY <2>1
    <2>3. k \in Nat /\ m = RetrainEvery * k + (m % RetrainEvery)
      BY <1>1, <2>2, Division
    <2>4. m = RetrainEvery * k
      <3> HIDE DEF k
      <3>1. RetrainEvery * k \in Nat
        BY <1>1, <2>3
      <3>2. QED BY <2>1, <2>3, <3>1
    <2>5. QED BY <2>2, <2>3, <2>4
  <1>6. Block(b) \in BlockStarts
    <2>1. (Block(b) - testFrom) % RetrainEvery = 0
      <3> DEFINE m == RetrainEvery * q
                 k == m \div RetrainEvery
      <3>1. m \in Nat
        BY <1>1, <1>2
      <3>2. k \in Nat /\ m % RetrainEvery \in 0 .. RetrainEvery - 1
            /\ m = RetrainEvery * k + (m % RetrainEvery)
        BY <1>1, <3>1, Division
      <3>3. k = q
        <4> HIDE DEF k, q
        <4>1. RetrainEvery * k <= m /\ m < RetrainEvery * k + RetrainEvery
          <5> HIDE DEF m
          <5>1. RetrainEvery * k \in Nat
            BY <1>1, <3>2
          <5>2. QED BY <1>1, <3>1, <3>2, <5>1
        <4>2. RetrainEvery * q <= m /\ m < RetrainEvery * q + RetrainEvery
          BY <1>1, <3>1
        <4> HIDE DEF m
        <4>3. QED BY <1>1, <1>2, <3>1, <3>2, <4>1, <4>2, OneMultiple
      <3>4. m % RetrainEvery = 0
        <4> HIDE DEF k, q
        <4>1. m = m + (m % RetrainEvery)
          BY <3>2, <3>3
        <4> HIDE DEF m
        <4>2. QED BY <3>1, <3>2, <4>1
      <3>5. Block(b) - testFrom = m
        BY <1>3, <3>1
      <3>6. QED BY <3>4, <3>5
    <2>2. QED BY <1>4, <2>1 DEF BlockStarts
  <1>7. ASSUME NEW s \in BlockStarts, s <= b, b < s + RetrainEvery
        PROVE  s = Block(b)
    <2> DEFINE k == (s - testFrom) \div RetrainEvery
    <2>1. k \in Nat /\ s = testFrom + RetrainEvery * k
      BY <1>5
    <2> HIDE DEF k, q, n
    <2>2. RetrainEvery * k \in Nat /\ RetrainEvery * q \in Nat
      BY <1>1, <1>2, <2>1
    <2>3. /\ RetrainEvery * k <= n /\ n < RetrainEvery * k + RetrainEvery
          /\ RetrainEvery * q <= n /\ n < RetrainEvery * q + RetrainEvery
      BY <1>1, <1>2, <1>3, <1>4, <1>7, <2>1, <2>2 DEF n
    <2>4. k = q
      BY <1>1, <1>2, <2>1, <2>3, OneMultiple
    <2>5. QED BY <1>3, <2>1, <2>4
  <1>8. QED BY <1>4, <1>6, <1>7

\* A row of a block is predicted by the model of its start.
LEMMA InWalkForward ==
    ASSUME BacktestTyped, NEW p
    PROVE  p \in WalkForward <=>
             \E c \in Coins, s \in BlockStarts : \E b \in TestRows(c) :
                /\ s <= b /\ b < s + RetrainEvery
                /\ p = [coin |-> c, bar |-> b, rows |-> TrainingRows(s)]
  <1> DEFINE rows(c, s) == {t \in TestRows(c) : s <= t /\ t < s + RetrainEvery}
             from(c, s) == {[coin |-> c, bar |-> b, rows |-> TrainingRows(s)] : b \in rows(c, s)}
  <1>1. WalkForward = UNION {from(c, s) : c \in Coins, s \in BlockStarts}
    BY DEF WalkForward
  <1>2. p \in WalkForward <=> \E c \in Coins, s \in BlockStarts : p \in from(c, s)
    <2> HIDE DEF from
    <2>1. QED BY <1>1
  <1>3. QED BY <1>2

LEMMA ReplayedOnThePast ==
    ASSUME BacktestTyped, NEW p \in WalkForward, NEW c \in Coins, NEW b \in p.rows[c]
    PROVE  b + Ahead <= p.bar
  <1>0. PICK d \in Coins, s \in BlockStarts : \E t \in TestRows(d) :
             s <= t /\ p = [coin |-> d, bar |-> t, rows |-> TrainingRows(s)]
    BY InWalkForward
  <1>1. PICK t \in TestRows(d) :
             s <= t /\ p = [coin |-> d, bar |-> t, rows |-> TrainingRows(s)]
    BY <1>0
  <1>2. s \in Int /\ t \in Int
    BY <1>1 DEF BacktestTyped, BlockStarts, TestRows
  <1>3. p.bar = t /\ b \in TrainingRows(s)[c]
    BY <1>1
  <1>4. b \in 1 .. LastBar /\ b + Ahead <= s
    BY <1>2, <1>3, TrainedOnThePast
  <1>5. QED BY <1>1, <1>2, <1>3, <1>4, BacktestAssumption

LEMMA PredictedOnce ==
    ASSUME BacktestTyped, NEW c \in Coins, NEW b \in TestRows(c)
    PROVE  Cardinality({p \in WalkForward : p.coin = c /\ p.bar = b}) = 1
  <1> DEFINE it == [coin |-> c, bar |-> b, rows |-> TrainingRows(Block(b))]
             found == {p \in WalkForward : p.coin = c /\ p.bar = b}
  <1>1. b \in testFrom .. testTo - 1
    BY BacktestAssumption DEF BacktestTyped, TestRows
  <1>2. it \in found
    <2>1. Block(b) \in BlockStarts /\ Block(b) <= b /\ b < Block(b) + RetrainEvery
      BY <1>1, OneBlock
    <2>2. it \in WalkForward
      BY <2>1, InWalkForward
    <2>3. QED BY <2>2
  <1>3. ASSUME NEW p \in found
        PROVE  p = it
    <2>0. PICK d \in Coins, s \in BlockStarts : \E t \in TestRows(d) :
               /\ s <= t /\ t < s + RetrainEvery
               /\ p = [coin |-> d, bar |-> t, rows |-> TrainingRows(s)]
      BY InWalkForward
    <2>1. PICK t \in TestRows(d) :
               /\ s <= t /\ t < s + RetrainEvery
               /\ p = [coin |-> d, bar |-> t, rows |-> TrainingRows(s)]
      BY <2>0
    <2>2. d = c /\ t = b
      BY <2>1
    <2>3. s = Block(b)
      BY <1>1, <2>1, <2>2, OneBlock
    <2>4. QED BY <2>1, <2>2, <2>3
  <1> HIDE DEF it
  <1>4. found = {it}
    BY <1>2, <1>3
  <1> HIDE DEF found
  <1>5. Cardinality(found) = 1
    BY <1>4, FS_Singleton
  <1>6. QED BY <1>5 DEF found

\* One model for all coins: it is trained up to the oldest of their newest bars.
LEMMA SignalsOnThePast ==
    ASSUME BacktestTyped, NEW p \in Signals
    PROVE  /\ \A c \in Coins : \A b \in p.rows[c] : b + Ahead <= p.bar
           /\ priced[p.coin] \intersect (p.bar + 1 .. LastBar) = {}
  <1> USE BacktestAssumption DEF BacktestTyped
  <1> DEFINE latest == [c \in Coins |-> IF priced[c] = {} THEN 0 ELSE Max(priced[c])]
             present == {c \in Coins : latest[c] > 0}
             oldest == Min({latest[c] : c \in present})
             rows == TrainingRows(oldest)
             eligible == {c \in present : Cardinality(rows[c]) >= MinTrain}
  <1>0. IsFiniteSet(1 .. LastBar)
    BY FS_Interval
  <1>1. PICK c \in eligible :
             p = [coin |-> c, bar |-> latest[c],
                  rows |-> [d \in Coins |-> IF d \in eligible THEN rows[d] ELSE {}]]
    BY DEF Signals
  <1>2. \A d \in Coins : priced[d] # {} =>
            latest[d] \in priced[d] /\ \A b \in priced[d] : b <= latest[d]
    <2> SUFFICES ASSUME NEW d \in Coins, priced[d] # {}
                 PROVE  Max(priced[d]) \in priced[d] /\ \A b \in priced[d] : b <= Max(priced[d])
      OBVIOUS
    <2>1. priced[d] \in SUBSET (1 .. LastBar) /\ priced[d] \in SUBSET Int
      OBVIOUS
    <2>2. IsFiniteSet(priced[d])
      BY <1>0, <2>1, FS_Subset
    <2>3. QED BY <2>1, <2>2, MaxIsLargest
  <1>3. \A d \in present : latest[d] \in 1 .. LastBar
    BY <1>2
  <1>4. oldest \in 1 .. LastBar /\ oldest <= latest[c]
    <2> DEFINE newest == {latest[d] : d \in present}
    <2>1. newest \in SUBSET (1 .. LastBar) /\ newest \in SUBSET Int /\ latest[c] \in newest
      <3> HIDE DEF latest, present
      <3>1. QED BY <1>1, <1>3
    <2>2. IsFiniteSet(newest)
      BY <1>0, <2>1, FS_Subset
    <2> HIDE DEF newest
    <2>3. Min(newest) \in newest /\ \A n \in newest : Min(newest) <= n
      BY <2>1, <2>2, MinIsLeast
    <2>4. QED BY <2>1, <2>3 DEF newest
  <1> HIDE DEF oldest, latest, present
  <1>5. ASSUME NEW d \in Coins, NEW b \in p.rows[d]
        PROVE  b + Ahead <= p.bar
    <2>1. b \in rows[d] /\ p.bar = latest[c]
      BY <1>1
    <2>2. b \in 1 .. LastBar /\ b + Ahead <= oldest
      BY <1>4, <2>1, TrainedOnThePast
    <2>3. latest[c] \in Int
      BY <1>1, <1>3
    <2>4. QED BY <1>4, <2>1, <2>2, <2>3
  <1>6. priced[p.coin] \intersect (p.bar + 1 .. LastBar) = {}
    <2>1. p.coin = c /\ p.bar = latest[c] /\ c \in Coins /\ latest[c] \in 1 .. LastBar
      BY <1>1, <1>3 DEF present
    <2>2. \A b \in priced[c] : b <= latest[c]
      BY <1>2, <2>1
    <2>3. QED BY <2>1, <2>2
  <1>7. QED BY <1>5, <1>6
-----------------------------------------------------------------------------
(* strategy_returns holds what the last call says. *)

Hold(held, action) ==
    Append(held, CASE action = "BUY" -> 1 [] action = "SELL" -> 0
                   [] action = "HOLD" -> IF held = << >> THEN 0 ELSE Last(held))

HoldOf(f, s) == IF s = {} THEN << >> ELSE Hold(f[s \ {Max(s)}], actions[Max(s)])

LEMMA HoldType ==
    ASSUME NEW held \in Seq({0, 1}), NEW action \in {"BUY", "SELL", "HOLD"}
    PROVE  Hold(held, action) \in Seq({0, 1})
  <1>1. held # << >> => Last(held) \in {0, 1}
    BY DEF Last
  <1>2. QED BY <1>1 DEF Hold

LEMMA PositionsUnfold ==
    ASSUME BacktestTyped
    PROVE  \E h : /\ Positions = h[Len(actions)] /\ h[0] = << >>
                  /\ \A b \in 1 .. Len(actions) : h[b] = Hold(h[b - 1], actions[b])
  <1> DEFINE n == Len(actions)
             D == Seq({0, 1})
             it == CHOOSE f : f = [s \in SUBSET DOMAIN actions |-> HoldOf(f, s)]
             op == [p \in D \X (1 .. n) |-> Hold(p[1], actions[p[2]])]
  <1>1. n \in Nat /\ DOMAIN actions = 1 .. n /\ \A b \in 1 .. n : actions[b] \in {"BUY", "SELL", "HOLD"}
    BY DEF BacktestTyped
  <1>2. Positions = it[DOMAIN actions]
    BY DEF Positions, FoldLeft, MapThenFoldSet, HoldOf, Hold
  <1>3. \A d \in D, b \in 1 .. n : op[<<d, b>>] = Hold(d, actions[b]) /\ op[<<d, b>>] \in D
    BY <1>1, HoldType
  <1>4. << >> \in D
    OBVIOUS
  <1> HIDE DEF D, op, n
  <1>5. PICK f \in [SUBSET (1 .. n) -> D] : IsSequenceFold(f, n, << >>, op)
    BY <1>1, <1>3, <1>4, SequenceFoldExists
  <1>6. f = [s \in SUBSET DOMAIN actions |-> HoldOf(f, s)]
    <2>1. ASSUME NEW s \in SUBSET (1 .. n)
          PROVE  f[s] = HoldOf(f, s)
      <3>1. CASE s = {}
        BY <1>5, <3>1 DEF IsSequenceFold, HoldOf
      <3>2. CASE s # {}
        <4>1. Max(s) \in 1 .. n /\ s \ {Max(s)} \in SUBSET (1 .. n)
          BY <1>1, <3>2, LastOfPrefix
        <4>2. f[s] = op[<<f[s \ {Max(s)}], Max(s)>>]
          BY <1>5, <3>2 DEF IsSequenceFold
        <4>3. QED BY <1>3, <1>5, <3>2, <4>1, <4>2 DEF HoldOf
      <3>3. QED BY <3>1, <3>2
    <2>2. QED BY <1>1, <2>1
  <1>7. it = [s \in SUBSET DOMAIN actions |-> HoldOf(it, s)]
    BY <1>6
  <1> HIDE DEF it
  <1> DEFINE h == [k \in 0 .. n |-> it[1 .. k]]
  <1>8. h[0] = << >>
    <2>1. 1 .. 0 = {} /\ 0 \in 0 .. n
      BY <1>1
    <2>2. QED BY <1>7, <2>1 DEF HoldOf
  <1>9. ASSUME NEW b \in 1 .. n
        PROVE  h[b] = Hold(h[b - 1], actions[b])
    <2>1. 1 .. b # {} /\ 1 .. b \in SUBSET DOMAIN actions
      <3>1. b \in 1 .. b /\ \A x \in 1 .. b : x \in 1 .. n
        BY <1>1
      <3>2. QED BY <1>1, <3>1
    <2>2. Max(1 .. b) = b /\ (1 .. b) \ {b} = 1 .. b - 1
      BY <1>1, LastOfPrefix
    <2>3. it[1 .. b] = Hold(it[1 .. b - 1], actions[b])
      BY <1>7, <2>1, <2>2 DEF HoldOf
    <2>4. QED BY <1>1, <2>3
  <1>10. Positions = h[n]
    BY <1>1, <1>2
  <1> HIDE DEF h
  <1>11. QED BY <1>8, <1>9, <1>10 DEF n

LEMMA PositionsStep ==
    ASSUME BacktestTyped
    PROVE  /\ DOMAIN Positions = DOMAIN actions
           /\ \A b \in DOMAIN actions :
                 Positions[b] = CASE actions[b] = "BUY" -> 1 [] actions[b] = "SELL" -> 0
                                  [] actions[b] = "HOLD" -> IF b = 1 THEN 0 ELSE Positions[b - 1]
  <1> DEFINE n == Len(actions)
  <1>1. n \in Nat /\ DOMAIN actions = 1 .. n /\ \A b \in 1 .. n : actions[b] \in {"BUY", "SELL", "HOLD"}
    BY DEF BacktestTyped
  <1>2. PICK h : /\ Positions = h[n] /\ h[0] = << >>
                 /\ \A b \in 1 .. n : h[b] = Hold(h[b - 1], actions[b])
    BY PositionsUnfold
  <1> DEFINE Good(k) == /\ h[k] \in Seq({0, 1}) /\ Len(h[k]) = k
                        /\ \A a \in 1 .. k : h[k][a] = h[a][a]
             N == {k \in Nat : k <= n => Good(k)}
  <1> HIDE DEF n
  <1>3. 0 \in N
    <2>1. << >> \in Seq({0, 1}) /\ Len(<< >>) = 0
      OBVIOUS
    <2>2. Good(0)
      BY <1>2, <2>1
    <2>3. QED BY <2>2
  <1>4. ASSUME NEW k \in Nat, k \in N
        PROVE  k + 1 \in N
    <2> SUFFICES ASSUME k + 1 <= n
                 PROVE  Good(k + 1)
      OBVIOUS
    <2>1. Good(k) /\ k + 1 \in 1 .. n /\ (k + 1) - 1 = k
      BY <1>1, <1>4
    <2>2. h[k + 1] = Hold(h[k], actions[k + 1])
      BY <1>2, <2>1
    <2>3. h[k + 1] \in Seq({0, 1})
      BY <1>1, <2>1, <2>2, HoldType
    <2>4. Len(h[k + 1]) = k + 1 /\ \A a \in 1 .. k : h[k + 1][a] = h[k][a]
      BY <2>1, <2>2 DEF Hold
    <2>5. \A a \in 1 .. k + 1 : a \in 1 .. k \/ a = k + 1
      OBVIOUS
    <2>6. QED BY <2>1, <2>3, <2>4, <2>5
  <1> HIDE DEF N
  <1>5. \A k \in 0 .. n : Good(k)
    <2>1. Nat \subseteq N
      BY <1>3, <1>4, Induction
    <2>2. QED BY <1>1, <2>1 DEF N
  <1>6. DOMAIN Positions = DOMAIN actions /\ \A b \in 1 .. n : Positions[b] = h[b][b]
    BY <1>1, <1>2, <1>5
  <1>7. ASSUME NEW b \in 1 .. n
        PROVE  h[b][b] = CASE actions[b] = "BUY" -> 1 [] actions[b] = "SELL" -> 0
                           [] actions[b] = "HOLD" -> IF b = 1 THEN 0 ELSE h[b - 1][b - 1]
    <2> DEFINE held == h[b - 1]
    <2>1. b - 1 \in 0 .. n /\ b \in Nat
      BY <1>1
    <2>2. held \in Seq({0, 1}) /\ Len(held) = b - 1
      BY <1>5, <2>1
    <2>3. h[b] = Hold(held, actions[b])
      BY <1>2
    <2> HIDE DEF held
    <2>4. h[b][b] = CASE actions[b] = "BUY" -> 1 [] actions[b] = "SELL" -> 0
                      [] actions[b] = "HOLD" -> IF held = << >> THEN 0 ELSE Last(held)
      <3>1. \A x : Append(held, x)[b] = x
        BY <2>1, <2>2
      <3>2. QED BY <2>3, <3>1 DEF Hold
    <2>5. (held = << >> <=> b = 1) /\ Last(held) = held[b - 1]
      BY <2>1, <2>2 DEF Last
    <2>6. QED BY <2>4, <2>5 DEF held
  <1>8. \A b \in 1 .. n : b # 1 => Positions[b - 1] = h[b - 1][b - 1]
    BY <1>1, <1>6
  <1>9. QED BY <1>1, <1>6, <1>7, <1>8

LEMMA PositionsFollowCalls ==
    ASSUME BacktestTyped
    PROVE  \A b \in DOMAIN actions :
              LET calls == {a \in 1 .. b : actions[a] # "HOLD"}
              IN  Positions[b] = IF calls # {} /\ actions[Max(calls)] = "BUY" THEN 1 ELSE 0
  <1> DEFINE n == Len(actions)
             calls(b) == {a \in 1 .. b : actions[a] # "HOLD"}
             Said(b) == IF calls(b) # {} /\ actions[Max(calls(b))] = "BUY" THEN 1 ELSE 0
             N == {b \in Nat : b \in 1 .. n => Positions[b] = Said(b)}
  <1>1. n \in Nat /\ DOMAIN actions = 1 .. n /\ \A b \in 1 .. n : actions[b] \in {"BUY", "SELL", "HOLD"}
    BY DEF BacktestTyped
  <1> HIDE DEF n
  <1>2. ASSUME NEW b \in 1 .. n, actions[b] # "HOLD"
        PROVE  Said(b) = IF actions[b] = "BUY" THEN 1 ELSE 0
    <2>1. b \in calls(b) /\ calls(b) \in SUBSET (1 .. b) /\ calls(b) \in SUBSET Int
      BY <1>2
    <2>2. IsFiniteSet(1 .. b)
      BY FS_Interval
    <2>3. IsFiniteSet(calls(b))
      BY <2>1, <2>2, FS_Subset
    <2> HIDE DEF calls
    <2>4. Max(calls(b)) \in calls(b) /\ b <= Max(calls(b))
      BY <2>1, <2>3, MaxIsLargest
    <2>5. Max(calls(b)) = b
      BY <2>1, <2>4
    <2>6. QED BY <2>1, <2>5
  <1>3. ASSUME NEW b \in 1 .. n, actions[b] = "HOLD", b # 1
        PROVE  Said(b) = Said(b - 1)
    <2>1. calls(b) = calls(b - 1)
      <3>1. \A a \in 1 .. b : a = b \/ a \in 1 .. b - 1
        BY <1>1
      <3>2. \A a \in 1 .. b - 1 : a \in 1 .. b
        BY <1>1
      <3>3. QED BY <1>3, <3>1, <3>2
    <2> HIDE DEF calls
    <2>2. QED BY <2>1
  <1>4. 1 \in 1 .. n /\ actions[1] = "HOLD" => Said(1) = 0
    <2>1. 1 .. 1 = {1}
      OBVIOUS
    <2>2. actions[1] = "HOLD" => calls(1) = {}
      BY <2>1
    <2>3. QED BY <2>2
  <1> HIDE DEF Said
  <1>5. 0 \in N
    OBVIOUS
  <1>6. ASSUME NEW k \in Nat, k \in N
        PROVE  k + 1 \in N
    <2> SUFFICES ASSUME k + 1 \in 1 .. n
                 PROVE  Positions[k + 1] = Said(k + 1)
      OBVIOUS
    <2>1. Positions[k + 1] = CASE actions[k + 1] = "BUY" -> 1 [] actions[k + 1] = "SELL" -> 0
                               [] actions[k + 1] = "HOLD" -> IF k + 1 = 1 THEN 0 ELSE Positions[k]
      BY <1>1, PositionsStep
    <2>2. k + 1 # 1 => Positions[k] = Said(k)
      <3>1. k + 1 # 1 => k \in 1 .. n
        BY <1>1
      <3>2. QED BY <1>6, <3>1
    <2>3. actions[k + 1] \in {"BUY", "SELL", "HOLD"}
      BY <1>1
    <2>4. actions[k + 1] # "HOLD" => Said(k + 1) = IF actions[k + 1] = "BUY" THEN 1 ELSE 0
      BY <1>2
    <2>5. actions[k + 1] = "HOLD" /\ k + 1 # 1 => Said(k + 1) = Said(k)
      BY <1>3
    <2>6. actions[k + 1] = "HOLD" /\ k + 1 = 1 => Said(k + 1) = 0
      BY <1>4
    <2>7. CASE actions[k + 1] = "BUY"
      BY <2>1, <2>4, <2>7
    <2>8. CASE actions[k + 1] = "SELL"
      BY <2>1, <2>4, <2>8
    <2>9. CASE actions[k + 1] = "HOLD" /\ k + 1 # 1
      BY <2>1, <2>2, <2>5, <2>9
    <2>10. CASE actions[k + 1] = "HOLD" /\ k + 1 = 1
      BY <2>1, <2>6, <2>10
    <2>11. QED BY <2>3, <2>7, <2>8, <2>9, <2>10
  <1> HIDE DEF N
  <1>7. Nat \subseteq N
    BY <1>5, <1>6, Induction
  <1>8. \A b \in DOMAIN actions : Positions[b] = Said(b)
    BY <1>1, <1>7 DEF N
  <1>9. QED BY <1>8 DEF Said

(* Every prediction of the backtest and of the live signals rests on labels  *)
(* that were known by then, every bar of the test window is predicted once,  *)
(* the live signals concern the newest bars, and what is held follows from   *)
(* the last call (signals/backtest.py, signals/models.py): for any coins,    *)
(* prices, windows and calls.                                                *)
THEOREM NoLookaheadTheorem == BacktestTyped => NoLookahead
  <1> SUFFICES ASSUME BacktestTyped
               PROVE  NoLookahead
    OBVIOUS
  <1>1. \A p \in WalkForward \union Signals : \A c \in Coins : \A b \in p.rows[c] :
           b + Ahead <= p.bar
    BY ReplayedOnThePast, SignalsOnThePast
  <1>2. \A c \in Coins : \A b \in TestRows(c) :
           Cardinality({p \in WalkForward : p.coin = c /\ p.bar = b}) = 1
    BY PredictedOnce
  <1>3. \A p \in Signals : priced[p.coin] \intersect (p.bar + 1 .. LastBar) = {}
    BY SignalsOnThePast
  <1>4. \A b \in Trades : actions[b] = IF Positions[b] = 1 THEN "BUY" ELSE "SELL"
    <2> TAKE b \in Trades
    <2>1. b \in DOMAIN actions /\ Positions[b] # (IF b = 1 THEN 0 ELSE Positions[b - 1])
      BY PositionsStep DEF Trades
    <2>2. actions[b] \in {"BUY", "SELL", "HOLD"}
      BY <2>1 DEF BacktestTyped
    <2>3. QED BY <2>1, <2>2, PositionsStep
  <1>5. QED BY <1>1, <1>2, <1>3, <1>4, PositionsFollowCalls DEF NoLookahead
-----------------------------------------------------------------------------
(* The maximal runs of a sequence of BOOLEANs, as a loop over it finds them:*)
(* those that are over before k, and the start of the one that is not.      *)

Over(f, k) == {r \in MaximalRuns(f) : r[2] < k}

Open(f, k, start) ==
    IF k = 0 \/ ~ f[k] THEN start = 0
    ELSE /\ start \in 1 .. k /\ \A i \in start .. k : f[i]
         /\ start = 1 \/ ~ f[start - 1]

LEMMA RunStarts ==
    ASSUME NEW f \in Seq(BOOLEAN)
    PROVE  Over(f, 0) = {} /\ Open(f, 0, 0)
  <1>1. \A r \in MaximalRuns(f) : r[2] \in 1 .. Len(f)
    BY DEF MaximalRuns
  <1>2. QED BY <1>1 DEF Over, Open

\* One position more.
LEMMA RunStep ==
    ASSUME NEW f \in Seq(BOOLEAN), NEW k \in Nat, k + 1 <= Len(f), NEW start, Open(f, k, start)
    PROVE  /\ f[k + 1] /\ start = 0 => Open(f, k + 1, k + 1) /\ Over(f, k + 1) = Over(f, k)
           /\ f[k + 1] /\ start # 0 => Open(f, k + 1, start) /\ Over(f, k + 1) = Over(f, k)
           /\ ~ f[k + 1] /\ start = 0 => Open(f, k + 1, 0) /\ Over(f, k + 1) = Over(f, k)
           /\ ~ f[k + 1] /\ start # 0 =>
                 /\ Open(f, k + 1, 0)
                 /\ Over(f, k + 1) = Over(f, k) \union {<<start, k>>}
  <1> DEFINE n == Len(f)
  <1>1. n \in Nat /\ DOMAIN f = 1 .. n /\ k + 1 \in 1 .. n /\ \A i \in 1 .. n : f[i] \in BOOLEAN
    OBVIOUS
  <1> HIDE DEF n
  <1>2. \A r : r \in MaximalRuns(f) <=>
           /\ r \in (1 .. n) \X (1 .. n)
           /\ r[1] <= r[2] /\ \A i \in r[1] .. r[2] : f[i]
           /\ r[1] = 1 \/ ~ f[r[1] - 1]
           /\ r[2] = n \/ ~ f[r[2] + 1]
    BY <1>1 DEF MaximalRuns, n
  <1>3. \A r \in MaximalRuns(f) : r[1] \in 1 .. n /\ r[2] \in 1 .. n /\ r = <<r[1], r[2]>> /\ f[r[2]]
    BY <1>1, <1>2
  <1>4. \A r \in Over(f, k + 1) : r \in Over(f, k) \/ r[2] = k
    BY <1>1, <1>3 DEF Over
  <1>5. Over(f, k) \subseteq Over(f, k + 1)
    BY <1>1, <1>3 DEF Over
  <1>6. CASE start = 0
    <2>1. k = 0 \/ ~ f[k]
      BY <1>6 DEF Open
    <2>2. \A r \in MaximalRuns(f) : r[2] # k
      BY <1>3, <2>1
    <2>3. Over(f, k + 1) = Over(f, k)
      BY <1>4, <1>5, <2>2 DEF Over
    <2>4. f[k + 1] => Open(f, k + 1, k + 1)
      <3>1. \A i \in k + 1 .. k + 1 : i = k + 1
        OBVIOUS
      <3>2. k + 1 = 1 \/ ~ f[k + 1 - 1]
        BY <2>1
      <3>3. QED BY <3>1, <3>2 DEF Open
    <2>5. ~ f[k + 1] => Open(f, k + 1, 0)
      BY DEF Open
    <2>6. QED BY <1>6, <2>3, <2>4, <2>5
  <1>7. CASE start # 0
    <2>1. /\ k # 0 /\ f[k] /\ start \in 1 .. k /\ \A i \in start .. k : f[i]
          /\ start = 1 \/ ~ f[start - 1]
      BY <1>7 DEF Open
    <2>2. CASE f[k + 1]
      <3>1. \A r \in MaximalRuns(f) : r[2] # k
        BY <1>1, <1>2, <2>2
      <3>2. Over(f, k + 1) = Over(f, k)
        BY <1>4, <1>5, <3>1 DEF Over
      <3>3. \A i \in start .. k + 1 : i \in start .. k \/ i = k + 1
        BY <2>1
      <3>4. start \in 1 .. k + 1 /\ k + 1 # 0
        BY <2>1
      <3>5. Open(f, k + 1, start)
        BY <2>1, <2>2, <3>3, <3>4 DEF Open
      <3>6. QED BY <1>7, <2>2, <3>2, <3>5
    <2>3. CASE ~ f[k + 1]
      <3>1. Open(f, k + 1, 0)
        BY <2>3 DEF Open
      <3>2. <<start, k>> \in MaximalRuns(f)
        BY <1>1, <1>2, <2>1, <2>3
      <3>3. ASSUME NEW r \in MaximalRuns(f), r[2] = k
            PROVE  r = <<start, k>>
        <4>1. /\ r[1] \in 1 .. k /\ \A i \in r[1] .. k : f[i]
              /\ r[1] = 1 \/ ~ f[r[1] - 1]
          BY <1>2, <1>3, <3>3
        <4>2. ~ (r[1] < start)
          <5> SUFFICES ASSUME r[1] < start
                       PROVE  FALSE
            OBVIOUS
          <5>1. start - 1 \in r[1] .. k /\ start # 1
            BY <2>1, <4>1
          <5>2. QED BY <2>1, <4>1, <5>1
        <4>3. ~ (start < r[1])
          <5> SUFFICES ASSUME start < r[1]
                       PROVE  FALSE
            OBVIOUS
          <5>1. r[1] - 1 \in start .. k /\ r[1] # 1
            BY <2>1, <4>1
          <5>2. QED BY <2>1, <4>1, <5>1
        <4>4. r[1] = start
          BY <2>1, <4>1, <4>2, <4>3
        <4>5. QED BY <1>3, <3>3, <4>4
      <3>4. <<start, k>> \in Over(f, k + 1)
        BY <3>2 DEF Over
      <3>5. Over(f, k + 1) = Over(f, k) \union {<<start, k>>}
        BY <1>4, <1>5, <3>3, <3>4 DEF Over
      <3>6. QED BY <1>7, <2>3, <3>1, <3>5
    <2>4. QED BY <2>2, <2>3
  <1>8. QED BY <1>6, <1>7

LEMMA RunEnds ==
    ASSUME NEW f \in Seq(BOOLEAN), NEW start, Open(f, Len(f), start)
    PROVE  MaximalRuns(f) = Over(f, Len(f)) \union (IF start = 0 THEN {} ELSE {<<start, Len(f)>>})
  <1> DEFINE n == Len(f)
  <1>1. n \in Nat /\ DOMAIN f = 1 .. n /\ \A i \in 1 .. n : f[i] \in BOOLEAN
    OBVIOUS
  <1> HIDE DEF n
  <1>2. \A r : r \in MaximalRuns(f) <=>
           /\ r \in (1 .. n) \X (1 .. n)
           /\ r[1] <= r[2] /\ \A i \in r[1] .. r[2] : f[i]
           /\ r[1] = 1 \/ ~ f[r[1] - 1]
           /\ r[2] = n \/ ~ f[r[2] + 1]
    BY <1>1 DEF MaximalRuns, n
  <1>3. \A r \in MaximalRuns(f) : r[1] \in 1 .. n /\ r[2] \in 1 .. n /\ r = <<r[1], r[2]>> /\ f[r[2]]
    BY <1>1, <1>2
  <1>4. \A r \in MaximalRuns(f) : r \in Over(f, n) \/ r[2] = n
    BY <1>1, <1>3 DEF Over
  <1>5. CASE start = 0
    <2>1. n = 0 \/ ~ f[n]
      BY <1>5 DEF Open, n
    <2>2. \A r \in MaximalRuns(f) : r[2] # n
      BY <1>1, <1>3, <2>1
    <2>3. QED BY <1>4, <1>5, <2>2 DEF Over, n
  <1>6. CASE start # 0
    <2>1. /\ n # 0 /\ start \in 1 .. n /\ \A i \in start .. n : f[i]
          /\ start = 1 \/ ~ f[start - 1]
      BY <1>6 DEF Open, n
    <2>2. <<start, n>> \in MaximalRuns(f)
      BY <1>1, <1>2, <2>1
    <2>3. ASSUME NEW r \in MaximalRuns(f), r[2] = n
          PROVE  r = <<start, n>>
      <3>1. /\ r[1] \in 1 .. n /\ \A i \in r[1] .. n : f[i]
            /\ r[1] = 1 \/ ~ f[r[1] - 1]
        BY <1>2, <1>3, <2>3
      <3>2. ~ (r[1] < start)
        <4> SUFFICES ASSUME r[1] < start
                     PROVE  FALSE
          OBVIOUS
        <4>1. start - 1 \in r[1] .. n /\ start # 1
          BY <1>1, <2>1, <3>1
        <4>2. QED BY <2>1, <3>1, <4>1
      <3>3. ~ (start < r[1])
        <4> SUFFICES ASSUME start < r[1]
                     PROVE  FALSE
          OBVIOUS
        <4>1. r[1] - 1 \in start .. n /\ r[1] # 1
          BY <1>1, <2>1, <3>1
        <4>2. QED BY <2>1, <3>1, <4>1
      <3>4. r[1] = start
        BY <1>1, <2>1, <3>1, <3>2, <3>3
      <3>5. QED BY <1>3, <2>3, <3>4
    <2>4. QED BY <1>4, <1>6, <2>2, <2>3 DEF Over, n
  <1>7. QED BY <1>5, <1>6
-----------------------------------------------------------------------------
(* The dashboard's windows of significant horizons. *)

AnalysisTyped ==
    /\ bars = << >> \/ (bars \in [1 .. Hours -> Nat] /\ \E h \in 1 .. Hours : bars[h] > 0)
    /\ significant_fdr \in Seq(BOOLEAN) /\ significant \in Seq(BOOLEAN)
    /\ Len(significant) = Len(significant_fdr)
    /\ \A h \in 1 .. Len(significant) : significant[h] => significant_fdr[h]
    /\ articles \in Seq([time : 1 .. Hours, score : {-1, 1, 2}])

SigStep(acc, h) ==
    [runs |-> IF ~ significant_fdr[h] /\ acc.start # 0
                THEN Append(acc.runs, <<acc.start, acc.prev>>) ELSE acc.runs,
     start |-> IF ~ significant_fdr[h] THEN 0 ELSE IF acc.start = 0 THEN h ELSE acc.start,
     prev |-> h]

SigBase == [runs |-> << >>, start |-> 0, prev |-> 0]

SigTyped == [runs : Seq(Nat \X Nat), start : Nat, prev : Nat]

LEMMA SigType == ASSUME NEW d \in SigTyped, NEW i \in Nat PROVE SigStep(d, i) \in SigTyped
  <1>1. d.runs \in Seq(Nat \X Nat) /\ d.start \in Nat /\ d.prev \in Nat
    BY DEF SigTyped
  <1>2. Append(d.runs, <<d.start, d.prev>>) \in Seq(Nat \X Nat)
    BY <1>1
  <1>3. QED BY <1>1, <1>2 DEF SigStep, SigTyped

LEMMA SigUnfold ==
    ASSUME AnalysisTyped
    PROVE  \E h : /\ SigWindows = IF h[Len(significant_fdr)].start # 0
                                    THEN Append(h[Len(significant_fdr)].runs,
                                                <<h[Len(significant_fdr)].start, h[Len(significant_fdr)].prev>>)
                                    ELSE h[Len(significant_fdr)].runs
                  /\ h[0] = SigBase
                  /\ \A i \in 1 .. Len(significant_fdr) : h[i] = SigStep(h[i - 1], i)
  <1> DEFINE n == Len(significant_fdr)
             D == SigTyped
             seq == [i \in DOMAIN significant_fdr |-> i]
             it == CHOOSE f : f = [s \in SUBSET DOMAIN seq |->
                                     IF s = {} THEN SigBase ELSE SigStep(f[s \ {Max(s)}], seq[Max(s)])]
             op == [p \in D \X (1 .. n) |-> SigStep(p[1], p[2])]
  <1>1. n \in Nat /\ DOMAIN significant_fdr = 1 .. n /\ DOMAIN seq = 1 .. n /\ \A i \in 1 .. n : seq[i] = i
    BY DEF AnalysisTyped
  <1>2. SigWindows = IF it[DOMAIN seq].start # 0
                       THEN Append(it[DOMAIN seq].runs, <<it[DOMAIN seq].start, it[DOMAIN seq].prev>>)
                       ELSE it[DOMAIN seq].runs
    BY DEF SigWindows, FoldLeft, MapThenFoldSet, SigStep, SigBase
  <1>3. \A d \in D, i \in 1 .. n : op[<<d, i>>] = SigStep(d, i) /\ op[<<d, i>>] \in D
    BY <1>1, SigType
  <1>4. SigBase \in D
    BY DEF SigBase, SigTyped
  <1> HIDE DEF D, op, n, seq
  <1>5. PICK f \in [SUBSET (1 .. n) -> D] : IsSequenceFold(f, n, SigBase, op)
    BY <1>1, <1>3, <1>4, SequenceFoldExists
  <1>6. f = [s \in SUBSET DOMAIN seq |->
               IF s = {} THEN SigBase ELSE SigStep(f[s \ {Max(s)}], seq[Max(s)])]
    <2>1. ASSUME NEW s \in SUBSET (1 .. n)
          PROVE  f[s] = IF s = {} THEN SigBase ELSE SigStep(f[s \ {Max(s)}], seq[Max(s)])
      <3>1. CASE s = {}
        BY <1>5, <3>1 DEF IsSequenceFold
      <3>2. CASE s # {}
        <4>1. Max(s) \in 1 .. n /\ s \ {Max(s)} \in SUBSET (1 .. n)
          BY <1>1, <3>2, LastOfPrefix
        <4>2. f[s] = op[<<f[s \ {Max(s)}], Max(s)>>]
          BY <1>5, <3>2 DEF IsSequenceFold
        <4>3. QED BY <1>1, <1>3, <1>5, <3>2, <4>1, <4>2
      <3>3. QED BY <3>1, <3>2
    <2>2. QED BY <1>1, <2>1
  <1>7. it = [s \in SUBSET DOMAIN seq |->
                IF s = {} THEN SigBase ELSE SigStep(it[s \ {Max(s)}], seq[Max(s)])]
    BY <1>6
  <1> HIDE DEF it
  <1> DEFINE h == [k \in 0 .. n |-> it[1 .. k]]
  <1>8. h[0] = SigBase
    <2>1. 1 .. 0 = {} /\ 0 \in 0 .. n
      BY <1>1
    <2>2. QED BY <1>7, <2>1
  <1>9. ASSUME NEW i \in 1 .. n
        PROVE  h[i] = SigStep(h[i - 1], i)
    <2>1. 1 .. i # {} /\ 1 .. i \in SUBSET DOMAIN seq
      <3>1. i \in 1 .. i /\ \A x \in 1 .. i : x \in 1 .. n
        BY <1>1
      <3>2. QED BY <1>1, <3>1
    <2>2. Max(1 .. i) = i /\ (1 .. i) \ {i} = 1 .. i - 1
      BY <1>1, LastOfPrefix
    <2>3. it[1 .. i] = SigStep(it[1 .. i - 1], i)
      BY <1>1, <1>7, <2>1, <2>2
    <2>4. QED BY <1>1, <2>3
  <1>10. it[DOMAIN seq] = h[n]
    BY <1>1
  <1> HIDE DEF h
  <1>11. QED BY <1>2, <1>8, <1>9, <1>10 DEF n

LEMMA ToSetAppend ==
    ASSUME NEW S, NEW s \in Seq(S), NEW x \in S
    PROVE  ToSet(Append(s, x)) = ToSet(s) \union {x}
  <1>1. /\ Append(s, x) \in Seq(S) /\ Len(Append(s, x)) = Len(s) + 1 /\ Len(s) \in Nat
        /\ \A i \in 1 .. Len(s) : Append(s, x)[i] = s[i]
        /\ Append(s, x)[Len(s) + 1] = x
    OBVIOUS
  <1>2. DOMAIN s = 1 .. Len(s) /\ DOMAIN Append(s, x) = 1 .. Len(s) + 1
    BY <1>1
  <1>3. \A i \in 1 .. Len(s) + 1 : i \in 1 .. Len(s) \/ i = Len(s) + 1
    BY <1>1
  <1>4. \A i \in 1 .. Len(s) : i \in 1 .. Len(s) + 1
    BY <1>1
  <1>5. Len(s) + 1 \in 1 .. Len(s) + 1
    BY <1>1
  <1>6. ToSet(s) = {s[i] : i \in 1 .. Len(s)}
        /\ ToSet(Append(s, x)) = {Append(s, x)[i] : i \in 1 .. Len(s) + 1}
    BY <1>2 DEF ToSet
  <1>7. \A y \in ToSet(Append(s, x)) : y \in ToSet(s) \/ y = x
    BY <1>1, <1>3, <1>6
  <1>8. \A y \in ToSet(s) : y \in ToSet(Append(s, x))
    BY <1>1, <1>4, <1>6
  <1>9. x \in ToSet(Append(s, x))
    BY <1>1, <1>5, <1>6
  <1>10. QED BY <1>7, <1>8, <1>9

LEMMA SigWindowsAreRuns == ASSUME AnalysisTyped PROVE ToSet(SigWindows) = MaximalRuns(significant_fdr)
  <1> DEFINE n == Len(significant_fdr)
  <1>1. n \in Nat /\ significant_fdr \in Seq(BOOLEAN) /\ \A i \in 1 .. n : significant_fdr[i] \in BOOLEAN
    BY DEF AnalysisTyped
  <1>2. PICK h : /\ SigWindows = IF h[n].start # 0 THEN Append(h[n].runs, <<h[n].start, h[n].prev>>)
                                 ELSE h[n].runs
                 /\ h[0] = SigBase /\ \A i \in 1 .. n : h[i] = SigStep(h[i - 1], i)
    BY SigUnfold
  <1> DEFINE Good(k) == /\ h[k] \in SigTyped /\ h[k].prev = k
                        /\ Open(significant_fdr, k, h[k].start)
                        /\ ToSet(h[k].runs) = Over(significant_fdr, k)
             N == {k \in Nat : k <= n => Good(k)}
  <1>3. 0 \in N
    <2>1. SigBase \in SigTyped /\ SigBase.prev = 0 /\ SigBase.start = 0 /\ SigBase.runs = << >>
      BY DEF SigBase, SigTyped
    <2>2. ToSet(<< >>) = {}
      BY DEF ToSet
    <2>3. Over(significant_fdr, 0) = {} /\ Open(significant_fdr, 0, 0)
      BY <1>1, RunStarts
    <2>4. Good(0)
      BY <1>2, <2>1, <2>2, <2>3
    <2>5. QED BY <2>4
  <1>4. ASSUME NEW k \in Nat, k \in N
        PROVE  k + 1 \in N
    <2> SUFFICES ASSUME k + 1 <= n
                 PROVE  Good(k + 1)
      OBVIOUS
    <2> DEFINE a == h[k]
               b == h[k + 1]
    <2>1. Good(k) /\ k + 1 \in 1 .. n
      BY <1>1, <1>4
    <2>2. b = SigStep(a, k + 1)
      <3>1. k + 1 - 1 = k
        OBVIOUS
      <3>2. QED BY <1>2, <2>1, <3>1
    <2>3. a \in SigTyped /\ a.prev = k /\ Open(significant_fdr, k, a.start) /\ ToSet(a.runs) = Over(significant_fdr, k)
      BY <2>1
    <2> HIDE DEF a, b
    <2>4. b \in SigTyped /\ b.prev = k + 1
      BY <2>2, <2>3, SigType DEF SigStep
    <2>5. /\ b.runs = IF ~ significant_fdr[k + 1] /\ a.start # 0 THEN Append(a.runs, <<a.start, k>>) ELSE a.runs
          /\ b.start = IF ~ significant_fdr[k + 1] THEN 0 ELSE IF a.start = 0 THEN k + 1 ELSE a.start
      BY <2>2, <2>3 DEF SigStep
    <2>6. ToSet(Append(a.runs, <<a.start, k>>)) = ToSet(a.runs) \union {<<a.start, k>>}
      <3>1. a.runs \in Seq(Nat \X Nat) /\ <<a.start, k>> \in Nat \X Nat
        BY <2>3 DEF SigTyped
      <3>2. QED BY <3>1, ToSetAppend
    <2>7. Open(significant_fdr, k + 1, b.start) /\ ToSet(b.runs) = Over(significant_fdr, k + 1)
      <3> DEFINE st == a.start
      <3>1. /\ significant_fdr[k + 1] /\ st = 0 => Open(significant_fdr, k + 1, k + 1) /\ Over(significant_fdr, k + 1) = Over(significant_fdr, k)
            /\ significant_fdr[k + 1] /\ st # 0 => Open(significant_fdr, k + 1, st) /\ Over(significant_fdr, k + 1) = Over(significant_fdr, k)
            /\ ~ significant_fdr[k + 1] /\ st = 0 => Open(significant_fdr, k + 1, 0) /\ Over(significant_fdr, k + 1) = Over(significant_fdr, k)
            /\ ~ significant_fdr[k + 1] /\ st # 0 =>
                  /\ Open(significant_fdr, k + 1, 0)
                  /\ Over(significant_fdr, k + 1) = Over(significant_fdr, k) \union {<<st, k>>}
        <4> HIDE DEF st, n
        <4>1. Open(significant_fdr, k, st)
          BY <2>3 DEF st
        <4>2. QED BY <1>1, <2>1, <4>1, RunStep DEF n
      <3>2. QED BY <2>3, <2>5, <2>6, <3>1
    <2>8. QED BY <2>4, <2>7 DEF b
  <1> HIDE DEF N
  <1>5. Good(n)
    <2>1. Nat \subseteq N
      BY <1>3, <1>4, Induction
    <2>2. QED BY <1>1, <2>1 DEF N
  <1> DEFINE a == h[n]
  <1>6. a \in SigTyped /\ a.prev = n /\ Open(significant_fdr, n, a.start) /\ ToSet(a.runs) = Over(significant_fdr, n)
    BY <1>5
  <1>7. SigWindows = IF a.start # 0 THEN Append(a.runs, <<a.start, n>>) ELSE a.runs
    BY <1>2, <1>6
  <1> HIDE DEF a
  <1>8. ToSet(Append(a.runs, <<a.start, n>>)) = ToSet(a.runs) \union {<<a.start, n>>}
    <2>1. a.runs \in Seq(Nat \X Nat) /\ <<a.start, n>> \in Nat \X Nat
      BY <1>1, <1>6 DEF SigTyped
    <2>2. QED BY <2>1, ToSetAppend
  <1>9. MaximalRuns(significant_fdr) = Over(significant_fdr, n) \union (IF a.start = 0 THEN {} ELSE {<<a.start, n>>})
    BY <1>1, <1>6, RunEnds
  <1>10. QED BY <1>6, <1>7, <1>8, <1>9
-----------------------------------------------------------------------------
(* The onset lag. *)

OnsetRun(acc, h) == IF significant[h] THEN acc.run + 1 ELSE 0

OnsetStep(acc, h) ==
    [run |-> OnsetRun(acc, h),
     onset |-> IF acc.onset = 0 /\ OnsetRun(acc, h) >= MinRun THEN h - MinRun + 1 ELSE acc.onset]

OnsetBase == [run |-> 0, onset |-> 0]

OnsetTyped == [run : Int, onset : Int]

LEMMA OnsetType == ASSUME NEW d \in OnsetTyped, NEW i \in Nat PROVE OnsetStep(d, i) \in OnsetTyped
  <1>1. d.run \in Int /\ d.onset \in Int /\ MinRun \in Int
    BY AnalysisAssumption DEF OnsetTyped
  <1>2. QED BY <1>1 DEF OnsetStep, OnsetRun, OnsetTyped

LEMMA OnsetUnfold ==
    ASSUME AnalysisTyped
    PROVE  \E h : /\ OnsetLag = h[Len(significant)].onset
                  /\ h[0] = OnsetBase
                  /\ \A i \in 1 .. Len(significant) : h[i] = OnsetStep(h[i - 1], i)
  <1> DEFINE n == Len(significant)
             D == OnsetTyped
             seq == [i \in DOMAIN significant |-> i]
             it == CHOOSE f : f = [s \in SUBSET DOMAIN seq |->
                                     IF s = {} THEN OnsetBase ELSE OnsetStep(f[s \ {Max(s)}], seq[Max(s)])]
             op == [p \in D \X (1 .. n) |-> OnsetStep(p[1], p[2])]
  <1>1. n \in Nat /\ DOMAIN significant = 1 .. n /\ DOMAIN seq = 1 .. n /\ \A i \in 1 .. n : seq[i] = i
    BY DEF AnalysisTyped
  <1>2. OnsetLag = it[DOMAIN seq].onset
    BY DEF OnsetLag, FoldLeft, MapThenFoldSet, OnsetStep, OnsetRun, OnsetBase
  <1>3. \A d \in D, i \in 1 .. n : op[<<d, i>>] = OnsetStep(d, i) /\ op[<<d, i>>] \in D
    BY <1>1, OnsetType
  <1>4. OnsetBase \in D
    BY DEF OnsetBase, OnsetTyped
  <1> HIDE DEF D, op, n, seq
  <1>5. PICK f \in [SUBSET (1 .. n) -> D] : IsSequenceFold(f, n, OnsetBase, op)
    BY <1>1, <1>3, <1>4, SequenceFoldExists
  <1>6. f = [s \in SUBSET DOMAIN seq |->
               IF s = {} THEN OnsetBase ELSE OnsetStep(f[s \ {Max(s)}], seq[Max(s)])]
    <2>1. ASSUME NEW s \in SUBSET (1 .. n)
          PROVE  f[s] = IF s = {} THEN OnsetBase ELSE OnsetStep(f[s \ {Max(s)}], seq[Max(s)])
      <3>1. CASE s = {}
        BY <1>5, <3>1 DEF IsSequenceFold
      <3>2. CASE s # {}
        <4>1. Max(s) \in 1 .. n /\ s \ {Max(s)} \in SUBSET (1 .. n)
          BY <1>1, <3>2, LastOfPrefix
        <4>2. f[s] = op[<<f[s \ {Max(s)}], Max(s)>>]
          BY <1>5, <3>2 DEF IsSequenceFold
        <4>3. QED BY <1>1, <1>3, <1>5, <3>2, <4>1, <4>2
      <3>3. QED BY <3>1, <3>2
    <2>2. QED BY <1>1, <2>1
  <1>7. it = [s \in SUBSET DOMAIN seq |->
                IF s = {} THEN OnsetBase ELSE OnsetStep(it[s \ {Max(s)}], seq[Max(s)])]
    BY <1>6
  <1> HIDE DEF it
  <1> DEFINE h == [k \in 0 .. n |-> it[1 .. k]]
  <1>8. h[0] = OnsetBase
    <2>1. 1 .. 0 = {} /\ 0 \in 0 .. n
      BY <1>1
    <2>2. QED BY <1>7, <2>1
  <1>9. ASSUME NEW i \in 1 .. n
        PROVE  h[i] = OnsetStep(h[i - 1], i)
    <2>1. 1 .. i # {} /\ 1 .. i \in SUBSET DOMAIN seq
      <3>1. i \in 1 .. i /\ \A x \in 1 .. i : x \in 1 .. n
        BY <1>1
      <3>2. QED BY <1>1, <3>1
    <2>2. Max(1 .. i) = i /\ (1 .. i) \ {i} = 1 .. i - 1
      BY <1>1, LastOfPrefix
    <2>3. it[1 .. i] = OnsetStep(it[1 .. i - 1], i)
      BY <1>1, <1>7, <2>1, <2>2
    <2>4. QED BY <1>1, <2>3
  <1>10. it[DOMAIN seq] = h[n]
    BY <1>1
  <1> HIDE DEF h
  <1>11. QED BY <1>2, <1>8, <1>9, <1>10 DEF n

\* The onset is that of the first run long enough, the open one included.
LongEnough(r) == r[2] - r[1] + 1 >= MinRun

OnsetGood(k, acc, st) ==
    /\ acc \in OnsetTyped /\ Open(significant, k, st)
    /\ acc.run = IF st = 0 THEN 0 ELSE k - st + 1
    /\ acc.onset = 0 => acc.run < MinRun /\ \A r \in Over(significant, k) : ~ LongEnough(r)
    /\ acc.onset # 0 =>
          /\ acc.onset \in 1 .. k
          /\ \/ acc.onset = st /\ acc.run >= MinRun
             \/ \E r \in Over(significant, k) : r[1] = acc.onset /\ LongEnough(r)
          /\ \A r \in Over(significant, k) : LongEnough(r) => acc.onset <= r[1]
          /\ st # 0 => acc.onset <= st

LEMMA OnsetStepGood ==
    ASSUME significant \in Seq(BOOLEAN), NEW k \in Nat, k + 1 <= Len(significant), NEW acc, NEW st,
           OnsetGood(k, acc, st)
    PROVE  \E ts : OnsetGood(k + 1, OnsetStep(acc, k + 1), ts)
  <1> DEFINE b == OnsetStep(acc, k + 1)
             run == OnsetRun(acc, k + 1)
  <1>0. MinRun \in Nat \ {0}
    BY AnalysisAssumption
  <1>1. /\ acc \in OnsetTyped /\ Open(significant, k, st) /\ acc.run \in Int /\ acc.onset \in Int
        /\ b \in OnsetTyped /\ b.run = run /\ run = IF significant[k + 1] THEN acc.run + 1 ELSE 0
        /\ b.onset = IF acc.onset = 0 /\ run >= MinRun THEN (k + 1) - MinRun + 1 ELSE acc.onset
    <2>1. acc \in OnsetTyped /\ Open(significant, k, st) /\ acc.run \in Int /\ acc.onset \in Int
      BY DEF OnsetGood, OnsetTyped
    <2>2. b \in OnsetTyped
      BY <2>1, OnsetType
    <2>3. /\ b.run = run
          /\ b.onset = IF acc.onset = 0 /\ run >= MinRun THEN (k + 1) - MinRun + 1 ELSE acc.onset
      <3> HIDE DEF b, run
      <3>1. \A h : /\ OnsetStep(acc, h).run = OnsetRun(acc, h)
                   /\ OnsetStep(acc, h).onset = IF acc.onset = 0 /\ OnsetRun(acc, h) >= MinRun
                                                  THEN h - MinRun + 1 ELSE acc.onset
        BY DEF OnsetStep
      <3>2. b = OnsetStep(acc, k + 1) /\ run = OnsetRun(acc, k + 1)
        BY DEF b, run
      <3>3. QED BY <3>1, <3>2
    <2>4. run = IF significant[k + 1] THEN acc.run + 1 ELSE 0
      BY DEF OnsetRun
    <2>5. QED BY <2>1, <2>2, <2>3, <2>4
  <1>2. st = 0 \/ st \in 1 .. k
    BY <1>1 DEF Open
  <1>3. /\ significant[k + 1] /\ st = 0 => Open(significant, k + 1, k + 1) /\ Over(significant, k + 1) = Over(significant, k)
        /\ significant[k + 1] /\ st # 0 => Open(significant, k + 1, st) /\ Over(significant, k + 1) = Over(significant, k)
        /\ ~ significant[k + 1] /\ st = 0 => Open(significant, k + 1, 0) /\ Over(significant, k + 1) = Over(significant, k)
        /\ ~ significant[k + 1] /\ st # 0 =>
              /\ Open(significant, k + 1, 0)
              /\ Over(significant, k + 1) = Over(significant, k) \union {<<st, k>>}
    BY <1>1, RunStep
  <1>4. acc.run = IF st = 0 THEN 0 ELSE k - st + 1
    BY DEF OnsetGood
  <1>5. \A r \in Over(significant, k) : r[1] \in Nat /\ r[2] \in Nat
    BY DEF Over, MaximalRuns
  <1> HIDE DEF b, run
  <1>6. CASE significant[k + 1]
    <2> DEFINE ts == IF st = 0 THEN k + 1 ELSE st
    <2>1. /\ Open(significant, k + 1, ts) /\ Over(significant, k + 1) = Over(significant, k)
          /\ ts # 0 /\ ts \in 1 .. k + 1 /\ b.run = k + 1 - ts + 1
      <3>1. CASE st = 0
        <4>1. ts = k + 1 /\ b.run = 1
          BY <1>1, <1>4, <1>6, <3>1
        <4>2. QED BY <1>3, <1>6, <3>1, <4>1
      <3>2. CASE st # 0
        <4>1. ts = st /\ b.run = k - st + 1 + 1 /\ st \in 1 .. k
          BY <1>1, <1>2, <1>4, <1>6, <3>2
        <4>2. QED BY <1>3, <1>6, <3>2, <4>1
      <3>3. QED BY <3>1, <3>2
    <2>2. CASE acc.onset = 0 /\ run < MinRun
      <3>1. b.onset = 0 /\ b.run < MinRun /\ \A r \in Over(significant, k + 1) : ~ LongEnough(r)
        BY <1>0, <1>1, <1>6, <2>1, <2>2 DEF OnsetGood
      <3>2. OnsetGood(k + 1, b, ts)
        BY <1>1, <2>1, <3>1 DEF OnsetGood
      <3>3. QED BY <3>2 DEF b
    <2>3. CASE acc.onset = 0 /\ ~ (run < MinRun)
      <3>1. acc.run < MinRun /\ \A r \in Over(significant, k) : ~ LongEnough(r)
        BY <2>3 DEF OnsetGood
      <3>2. run = MinRun /\ b.run = MinRun
        BY <1>0, <1>1, <1>6, <2>3, <3>1
      <3>3. b.onset = ts
        <4>1. b.onset = (k + 1) - MinRun + 1
          BY <1>0, <1>1, <2>3, <3>2
        <4>2. ts \in Int /\ MinRun = k + 1 - ts + 1
          BY <2>1, <3>2
        <4> HIDE DEF ts
        <4>3. QED BY <1>0, <4>1, <4>2
      <3> HIDE DEF ts
      <3>4. OnsetGood(k + 1, b, ts)
        BY <1>0, <1>1, <2>1, <3>1, <3>2, <3>3 DEF OnsetGood
      <3>5. QED BY <3>4 DEF b
    <2>4. CASE acc.onset # 0
      <3>1. b.onset = acc.onset
        BY <1>1, <2>4
      <3>2. /\ acc.onset \in 1 .. k
            /\ \/ acc.onset = st /\ acc.run >= MinRun
               \/ \E r \in Over(significant, k) : r[1] = acc.onset /\ LongEnough(r)
            /\ \A r \in Over(significant, k) : LongEnough(r) => acc.onset <= r[1]
            /\ st # 0 => acc.onset <= st
        BY <2>4 DEF OnsetGood
      <3>3. (b.onset = ts /\ b.run >= MinRun) \/ \E r \in Over(significant, k + 1) : r[1] = b.onset /\ LongEnough(r)
        <4>1. CASE acc.onset = st /\ acc.run >= MinRun
          BY <1>0, <1>1, <1>6, <2>4, <3>1, <4>1
        <4>2. CASE \E r \in Over(significant, k) : r[1] = acc.onset /\ LongEnough(r)
          BY <2>1, <3>1, <4>2
        <4>3. QED BY <3>2, <4>1, <4>2
      <3>4. b.onset \in 1 .. k + 1 /\ b.onset <= ts
        BY <2>1, <3>1, <3>2
      <3> HIDE DEF ts
      <3>5. OnsetGood(k + 1, b, ts)
        BY <1>1, <2>1, <2>4, <3>1, <3>2, <3>3, <3>4 DEF OnsetGood
      <3>6. QED BY <3>5 DEF b
    <2>5. QED BY <1>0, <1>1, <2>2, <2>3, <2>4
  <1>7. CASE ~ significant[k + 1]
    <2>1. b.run = 0 /\ b.onset = acc.onset /\ Open(significant, k + 1, 0) /\ 0 < MinRun
      BY <1>0, <1>1, <1>3, <1>7
    <2>2. \A r \in Over(significant, k + 1) :
             r \in Over(significant, k)
             \/ (st # 0 /\ r[1] = st /\ (LongEnough(r) <=> acc.run >= MinRun))
      <3>1. ASSUME st # 0, NEW r, r = <<st, k>>
            PROVE  r[1] = st /\ (LongEnough(r) <=> acc.run >= MinRun)
        BY <1>2, <1>4, <3>1 DEF LongEnough
      <3>2. QED BY <1>3, <1>7, <3>1
    <2>3. /\ \A r \in Over(significant, k) : r \in Over(significant, k + 1)
          /\ st # 0 => <<st, k>> \in Over(significant, k + 1)
      BY <1>3, <1>7
    <2>4. CASE acc.onset = 0
      <3>1. acc.run < MinRun /\ \A r \in Over(significant, k) : ~ LongEnough(r)
        BY <2>4 DEF OnsetGood
      <3>2. \A r \in Over(significant, k + 1) : ~ LongEnough(r)
        BY <1>0, <1>1, <2>2, <3>1
      <3>3. OnsetGood(k + 1, b, 0)
        BY <1>1, <2>1, <2>4, <3>2 DEF OnsetGood
      <3>4. QED BY <3>3 DEF b
    <2>5. CASE acc.onset # 0
      <3>2. /\ acc.onset \in 1 .. k
            /\ \/ acc.onset = st /\ acc.run >= MinRun
               \/ \E r \in Over(significant, k) : r[1] = acc.onset /\ LongEnough(r)
            /\ \A r \in Over(significant, k) : LongEnough(r) => acc.onset <= r[1]
            /\ st # 0 => acc.onset <= st
        BY <2>5 DEF OnsetGood
      <3>3. \E r \in Over(significant, k + 1) : r[1] = b.onset /\ LongEnough(r)
        <4>1. CASE acc.onset = st /\ acc.run >= MinRun
          <5>1. st # 0
            BY <2>5, <4>1
          <5>2. <<st, k>>[1] = st /\ LongEnough(<<st, k>>)
            BY <1>2, <1>4, <4>1, <5>1 DEF LongEnough
          <5>3. QED BY <2>1, <2>3, <4>1, <5>1, <5>2
        <4>2. CASE \E r \in Over(significant, k) : r[1] = acc.onset /\ LongEnough(r)
          BY <2>1, <2>3, <4>2
        <4>3. QED BY <3>2, <4>1, <4>2
      <3>4. \A r \in Over(significant, k + 1) : LongEnough(r) => b.onset <= r[1]
        BY <2>1, <2>2, <3>2
      <3>5. b.onset \in 1 .. k + 1
        BY <2>1, <3>2
      <3>6. OnsetGood(k + 1, b, 0)
        BY <1>1, <2>1, <2>5, <3>3, <3>4, <3>5 DEF OnsetGood
      <3>7. QED BY <3>6 DEF b
    <2>6. QED BY <2>4, <2>5
  <1>8. QED BY <1>6, <1>7

LEMMA OnsetIsFirst ==
    ASSUME AnalysisTyped
    PROVE  LET onsets == {r[1] : r \in {s \in MaximalRuns(significant) : s[2] - s[1] + 1 >= MinRun}}
           IN  OnsetLag = IF onsets = {} THEN 0 ELSE Min(onsets)
  <1> DEFINE n == Len(significant)
             onsets == {r[1] : r \in {s \in MaximalRuns(significant) : s[2] - s[1] + 1 >= MinRun}}
  <1>0. MinRun \in Nat \ {0}
    BY AnalysisAssumption
  <1>1. n \in Nat /\ significant \in Seq(BOOLEAN)
    BY DEF AnalysisTyped
  <1>2. PICK h : /\ OnsetLag = h[n].onset /\ h[0] = OnsetBase
                 /\ \A i \in 1 .. n : h[i] = OnsetStep(h[i - 1], i)
    BY OnsetUnfold
  <1> DEFINE N == {k \in Nat : k <= n => \E st : OnsetGood(k, h[k], st)}
  <1>3. 0 \in N
    <2>1. OnsetBase \in OnsetTyped /\ OnsetBase.run = 0 /\ OnsetBase.onset = 0
      BY DEF OnsetBase, OnsetTyped
    <2>2. Over(significant, 0) = {} /\ Open(significant, 0, 0)
      BY <1>1, RunStarts
    <2>3. OnsetGood(0, h[0], 0)
      BY <1>0, <1>2, <2>1, <2>2 DEF OnsetGood
    <2>4. QED BY <2>3
  <1>4. ASSUME NEW k \in Nat, k \in N
        PROVE  k + 1 \in N
    <2> SUFFICES ASSUME k + 1 <= n
                 PROVE  \E st : OnsetGood(k + 1, h[k + 1], st)
      OBVIOUS
    <2>1. PICK st : OnsetGood(k, h[k], st)
      BY <1>1, <1>4
    <2>2. k + 1 \in 1 .. n /\ k + 1 - 1 = k
      BY <1>1
    <2>3. h[k + 1] = OnsetStep(h[k], k + 1)
      BY <1>2, <2>2
    <2>4. QED BY <1>1, <2>1, <2>3, OnsetStepGood
  <1> HIDE DEF N
  <1>5. PICK st : OnsetGood(n, h[n], st)
    <2>1. Nat \subseteq N
      BY <1>3, <1>4, Induction
    <2>2. QED BY <1>1, <2>1 DEF N
  <1> DEFINE a == h[n]
  <1>6. OnsetGood(n, a, st) /\ OnsetLag = a.onset
    BY <1>2, <1>5
  <1> HIDE DEF a
  <1>7. MaximalRuns(significant) = Over(significant, n) \union (IF st = 0 THEN {} ELSE {<<st, n>>})
    <2>1. Open(significant, n, st)
      BY <1>6 DEF OnsetGood
    <2>2. QED BY <1>1, <2>1, RunEnds
  <1>8. \A m : m \in onsets <=> \E r \in MaximalRuns(significant) : LongEnough(r) /\ m = r[1]
    BY DEF LongEnough
  <1>9. st = 0 \/ (st \in 1 .. n /\ a.run = n - st + 1)
    BY <1>1, <1>6 DEF OnsetGood, Open
  <1>10. \A r \in MaximalRuns(significant) : r \in Over(significant, n)
            \/ (st # 0 /\ r[1] = st /\ (LongEnough(r) <=> a.run >= MinRun))
    <2>1. ASSUME st # 0, NEW r, r = <<st, n>>
          PROVE  r[1] = st /\ (LongEnough(r) <=> a.run >= MinRun)
      BY <1>1, <1>9, <2>1 DEF LongEnough
    <2>2. QED BY <1>7, <2>1
  <1>11. CASE a.onset = 0
    <2>1. a.run < MinRun /\ (\A r \in Over(significant, n) : ~ LongEnough(r)) /\ a.run \in Int
      BY <1>6, <1>11 DEF OnsetGood, OnsetTyped
    <2>2. \A r \in MaximalRuns(significant) : ~ LongEnough(r)
      BY <1>0, <1>10, <2>1
    <2> HIDE DEF onsets
    <2>3. onsets = {}
      BY <1>8, <2>2
    <2>4. QED BY <1>6, <1>11, <2>3 DEF onsets
  <1>12. CASE a.onset # 0
    <2>1. /\ a.onset \in 1 .. n
          /\ \/ a.onset = st /\ a.run >= MinRun
             \/ \E r \in Over(significant, n) : r[1] = a.onset /\ LongEnough(r)
          /\ \A r \in Over(significant, n) : LongEnough(r) => a.onset <= r[1]
          /\ st # 0 => a.onset <= st
      BY <1>6, <1>12 DEF OnsetGood
    <2>2. a.onset \in onsets
      <3> HIDE DEF onsets
      <3>1. CASE a.onset = st /\ a.run >= MinRun
        <4>1. st # 0 /\ <<st, n>> \in MaximalRuns(significant)
          BY <1>7, <1>12, <3>1
        <4>2. <<st, n>>[1] = st /\ LongEnough(<<st, n>>)
          BY <1>1, <1>9, <3>1, <4>1 DEF LongEnough
        <4>3. QED BY <1>8, <3>1, <4>1, <4>2
      <3>2. CASE \E r \in Over(significant, n) : r[1] = a.onset /\ LongEnough(r)
        BY <1>7, <1>8, <3>2
      <3>3. QED BY <2>1, <3>1, <3>2
    <2>3. \A m \in onsets : a.onset <= m
      <3> HIDE DEF onsets
      <3>1. QED BY <1>8, <1>10, <2>1
    <2>4. \A m \in onsets : m \in Int
      <3>1. \A r \in MaximalRuns(significant) : r[1] \in Int
        BY <1>1 DEF MaximalRuns
      <3> HIDE DEF onsets
      <3>2. QED BY <1>8, <3>1
    <2> HIDE DEF onsets
    <2>5. Min(onsets) = a.onset
      <3>1. Min(onsets) \in onsets /\ \A m \in onsets : Min(onsets) <= m
        BY <2>2, <2>3 DEF Min
      <3>2. QED BY <2>1, <2>2, <2>3, <2>4, <3>1
    <2>6. QED BY <1>6, <2>2, <2>5 DEF onsets
  <1>13. QED BY <1>11, <1>12

\* A range of positions that are all TRUE is part of a maximal run.
LEMMA RunAround ==
    ASSUME NEW f \in Seq(BOOLEAN), NEW a \in 1 .. Len(f), NEW b \in a .. Len(f),
           \A i \in a .. b : f[i]
    PROVE  \E r \in MaximalRuns(f) : r[1] <= a /\ b <= r[2]
  <1> DEFINE n == Len(f)
             S == {i \in 1 .. a : \A j \in i .. a : f[j]}
             T == {i \in b .. n : \A j \in b .. i : f[j]}
  <1>1. n \in Nat /\ DOMAIN f = 1 .. n /\ a \in 1 .. n /\ b \in a .. n
    OBVIOUS
  <1> HIDE DEF n
  <1>2. PICK x \in S : \A i \in S : x <= i
    <2>1. a \in S /\ S \subseteq Nat
      BY <1>1
    <2> HIDE DEF S
    <2>2. QED BY <2>1, LeastNumber
  <1>3. PICK y \in T : \A i \in T : i <= y
    <2>1. b \in T /\ T \subseteq b .. n /\ T \subseteq Int
      BY <1>1
    <2>2. IsFiniteSet(b .. n)
      BY <1>1, FS_Interval
    <2> HIDE DEF T
    <2>3. IsFiniteSet(T)
      BY <2>1, <2>2, FS_Subset
    <2>4. QED BY <2>1, <2>3, LargestMember
  <1>4. x \in 1 .. a /\ (\A j \in x .. a : f[j]) /\ y \in b .. n /\ (\A j \in b .. y : f[j])
    BY <1>2, <1>3
  <1>5. x = 1 \/ ~ f[x - 1]
    <2> SUFFICES ASSUME x # 1, f[x - 1]
                 PROVE  FALSE
      OBVIOUS
    <2>1. x - 1 \in 1 .. a /\ \A j \in x - 1 .. a : j = x - 1 \/ j \in x .. a
      BY <1>1, <1>4
    <2>2. x - 1 \in S
      BY <1>4, <2>1
    <2>3. QED BY <1>1, <1>2, <1>4, <2>2
  <1>6. y = n \/ ~ f[y + 1]
    <2> SUFFICES ASSUME y # n, f[y + 1]
                 PROVE  FALSE
      OBVIOUS
    <2>1. y + 1 \in b .. n /\ \A j \in b .. y + 1 : j = y + 1 \/ j \in b .. y
      BY <1>1, <1>4
    <2>2. y + 1 \in T
      BY <1>4, <2>1
    <2>3. QED BY <1>1, <1>3, <1>4, <2>2
  <1>7. \A i \in x .. y : f[i]
    <2>1. \A i \in x .. y : i \in x .. a \/ i \in a .. b \/ i \in b .. y
      BY <1>1, <1>4
    <2>2. QED BY <1>4, <2>1
  <1>8. x \in 1 .. n /\ y \in 1 .. n /\ x <= y /\ x <= a /\ b <= y
    BY <1>1, <1>4
  <1> HIDE DEF S, T
  <1>9. <<x, y>> \in MaximalRuns(f)
    BY <1>1, <1>5, <1>6, <1>7, <1>8 DEF MaximalRuns, n
  <1>10. QED BY <1>8, <1>9

\* An onset lies within a window of the chart: what is significant is so by
\* p_fdr, too.
LEMMA OnsetInWindow ==
    ASSUME AnalysisTyped, OnsetLag # 0
    PROVE  \E w \in ToSet(SigWindows) : w[1] <= OnsetLag /\ OnsetLag + MinRun - 1 <= w[2]
  <1> DEFINE n == Len(significant)
             onsets == {r[1] : r \in {s \in MaximalRuns(significant) : s[2] - s[1] + 1 >= MinRun}}
  <1>1. /\ n \in Nat /\ n = Len(significant_fdr) /\ significant_fdr \in Seq(BOOLEAN)
        /\ significant \in Seq(BOOLEAN) /\ \A h \in 1 .. n : significant[h] => significant_fdr[h]
    BY DEF AnalysisTyped
  <1>2. MinRun \in Nat \ {0}
    BY AnalysisAssumption
  <1>3. OnsetLag \in onsets
    <2>1. OnsetLag = IF onsets = {} THEN 0 ELSE Min(onsets)
      BY OnsetIsFirst
    <2>2. onsets \subseteq Nat
      BY <1>1 DEF MaximalRuns
    <2> HIDE DEF onsets
    <2>3. onsets # {} /\ OnsetLag = Min(onsets)
      BY <2>1
    <2>4. PICK m \in onsets : \A k \in onsets : m <= k
      BY <2>2, <2>3, LeastNumber
    <2>5. Min(onsets) \in onsets
      BY <2>4 DEF Min
    <2>6. QED BY <2>3, <2>5
  <1>4. PICK r \in MaximalRuns(significant) : r[2] - r[1] + 1 >= MinRun /\ OnsetLag = r[1]
    BY <1>3
  <1>5. /\ r[1] \in 1 .. n /\ r[2] \in 1 .. n /\ \A i \in r[1] .. r[2] : significant[i]
    BY <1>1 DEF MaximalRuns
  <1> DEFINE a == OnsetLag
             b == OnsetLag + MinRun - 1
  <1>6. a \in 1 .. n /\ b \in a .. n /\ a = r[1] /\ b <= r[2]
    BY <1>1, <1>2, <1>4, <1>5
  <1> HIDE DEF a, b, n
  <1>7. \A i \in a .. b : significant_fdr[i]
    <2>1. \A i \in a .. b : i \in r[1] .. r[2] /\ i \in 1 .. n
      BY <1>1, <1>5, <1>6
    <2>2. QED BY <1>1, <1>5, <2>1
  <1>8. PICK w \in MaximalRuns(significant_fdr) : w[1] <= a /\ b <= w[2]
    BY <1>1, <1>6, <1>7, RunAround DEF n
  <1>9. QED BY <1>8, SigWindowsAreRuns DEF a, b
-----------------------------------------------------------------------------
(* Hours in order. *)

LEMMA Ranking ==
    ASSUME NEW S \in SUBSET Int, IsFiniteSet(S)
    PROVE  /\ InOrder(S) \in [1 .. Cardinality(S) -> S]
           /\ \A h \in S : \E i \in 1 .. Cardinality(S) : InOrder(S)[i] = h
           /\ \A i, j \in 1 .. Cardinality(S) : i < j => InOrder(S)[i] < InOrder(S)[j]
  <1> DEFINE n == Cardinality(S)
             upTo(h) == {g \in S : g <= h}
             rank == [h \in S |-> Cardinality(upTo(h))]
  <1>1. n \in Nat
    BY FS_CardinalityType
  <1>2. \A h \in S : IsFiniteSet(upTo(h)) /\ rank[h] \in 1 .. n
    <2> TAKE h \in S
    <2>1. upTo(h) \in SUBSET S /\ h \in upTo(h)
      OBVIOUS
    <2>2. IsFiniteSet(upTo(h)) /\ Cardinality(upTo(h)) <= n
      BY <2>1, FS_Subset
    <2>3. Cardinality(upTo(h)) \in Nat
      BY <2>2, FS_CardinalityType
    <2>4. Cardinality(upTo(h)) # 0
      BY <2>1, <2>2, FS_EmptySet
    <2>5. QED BY <1>1, <2>2, <2>3, <2>4
  <1>3. \A g, h \in S : g < h => rank[g] < rank[h]
    <2> TAKE g, h \in S
    <2> SUFFICES ASSUME g < h
                 PROVE  rank[g] < rank[h]
      OBVIOUS
    <2>1. upTo(g) \in SUBSET upTo(h) /\ h \in upTo(h) /\ h \notin upTo(g)
      <3>1. \A x \in S : x <= g => x <= h
        OBVIOUS
      <3>2. upTo(g) \subseteq upTo(h)
        BY <3>1
      <3>5. h \in upTo(h)
        BY h \in Int, h <= h
      <3>3. ~ (h <= g)
        OBVIOUS
      <3>4. h \notin upTo(g)
        BY <3>3
      <3>6. QED BY <3>2, <3>4, <3>5
    <2>2. Cardinality(upTo(g)) <= Cardinality(upTo(h))
          /\ (Cardinality(upTo(h)) = Cardinality(upTo(g)) => upTo(h) = upTo(g))
      BY <1>2, <2>1, FS_Subset
    <2>3. rank[g] \in Int /\ rank[h] \in Int /\ rank[g] <= rank[h] /\ rank[g] # rank[h]
      BY <1>2, <2>1, <2>2
    <2> HIDE DEF rank
    <2>4. QED BY <2>3
  <1> HIDE DEF rank, n
  <1>14. \A h \in S : rank[h] \in 1 .. n
    BY <1>2
  <1>4. rank \in Injection(S, 1 .. n)
    <2>1. rank \in [S -> 1 .. n]
      BY <1>2 DEF rank
    <2>2. ASSUME NEW g \in S, NEW h \in S, rank[g] = rank[h]
          PROVE  g = h
      <3>1. rank[g] \in Int
        BY <1>1, <1>14
      <3>2. ~ (g < h) /\ ~ (h < g)
        BY <1>3, <2>2, <3>1
      <3>3. QED BY <3>2
    <2>3. QED BY <2>1, <2>2 DEF Injection, IsInjective
  <1>5. rank \in Surjection(S, 1 .. n)
    <2>1. IsFiniteSet(1 .. n) /\ Cardinality(1 .. n) = n
      BY <1>1, FS_Interval
    <2>2. QED BY <1>4, <2>1, FS_Injection DEF n
  <1>6. \A i \in 1 .. n : \E h \in S : rank[h] = i
    BY <1>5 DEF Surjection
  <1> DEFINE s == InOrder(S)
             at(i) == CHOOSE h \in S : Cardinality({g \in S : g <= h}) = i
  <1>7. s = [i \in 1 .. n |-> at(i)]
    BY DEF InOrder, n
  <1>8. \A i \in 1 .. n : s[i] \in S /\ rank[s[i]] = i
    <2> TAKE i \in 1 .. n
    <2>1. \E h \in S : Cardinality({g \in S : g <= h}) = i
      BY <1>6 DEF rank
    <2>2. at(i) \in S /\ Cardinality({g \in S : g <= at(i)}) = i
      BY <2>1
    <2> HIDE DEF at
    <2>3. QED BY <1>7, <2>2 DEF rank
  <1> HIDE DEF s, at
  <1>9. \A h \in S : s[rank[h]] = h
    <2> TAKE h \in S
    <2>1. s[rank[h]] \in S /\ rank[s[rank[h]]] = rank[h]
      BY <1>2, <1>8
    <2>2. QED BY <1>4, <2>1 DEF Injection, IsInjective
  <1>10. \A i, j \in 1 .. n : i < j => s[i] < s[j]
    <2> TAKE i, j \in 1 .. n
    <2> SUFFICES ASSUME i < j
                 PROVE  s[i] < s[j]
      OBVIOUS
    <2>1. s[i] \in S /\ s[j] \in S /\ rank[s[i]] = i /\ rank[s[j]] = j
      BY <1>8
    <2>2. s[j] < s[i] => j < i
      BY <1>3, <2>1
    <2>3. s[i] # s[j]
      BY <2>1
    <2>4. s[i] \in Int /\ s[j] \in Int
      BY <2>1
    <2>5. QED BY <2>2, <2>3, <2>4
  <1>11. s \in [1 .. n -> S]
    BY <1>7, <1>8
  <1>12. \A h \in S : \E i \in 1 .. n : s[i] = h
    BY <1>2, <1>9
  <1>13. QED BY <1>10, <1>11, <1>12 DEF n, s

\* Numbers that only grow are at least as far apart as their positions.
Growing(s, n) == \A i, j \in 1 .. n : i < j => s[i] < s[j]

LEMMA GrowsByOne ==
    ASSUME NEW n \in Nat, NEW s \in [1 .. n -> Int], Growing(s, n),
           NEW i \in 1 .. n, NEW d \in Nat, i + d <= n
    PROVE  s[i + d] >= s[i] + d
  <1> DEFINE N == {e \in Nat : i + e <= n => s[i + e] >= s[i] + e}
  <1>1. 0 \in N
    <2>1. i + 0 = i /\ s[i] \in Int
      OBVIOUS
    <2>2. QED BY <2>1
  <1>2. ASSUME NEW e \in Nat, e \in N
        PROVE  e + 1 \in N
    <2> SUFFICES ASSUME i + (e + 1) <= n
                 PROVE  s[i + (e + 1)] >= s[i] + (e + 1)
      OBVIOUS
    <2>1. i + e \in 1 .. n /\ i + (e + 1) \in 1 .. n /\ i + e < i + (e + 1)
      OBVIOUS
    <2>2. s[i + e] < s[i + (e + 1)] /\ s[i + e] \in Int /\ s[i + (e + 1)] \in Int /\ s[i] \in Int
      BY <2>1 DEF Growing
    <2>3. s[i + e] >= s[i] + e
      BY <1>2, <2>1
    <2>4. QED BY <2>2, <2>3
  <1> HIDE DEF N
  <1>3. Nat \subseteq N
    BY <1>1, <1>2, Induction
  <1>4. QED BY <1>3 DEF N
-----------------------------------------------------------------------------
(* The bars that exist and the rows of the grid. *)

IndexIs(n) ==
    /\ n \in Nat \ {0} /\ Len(Index) = n /\ Index \in [1 .. n -> 1 .. Hours]
    /\ Growing(Index, n)
    /\ \A i \in 1 .. n : bars[Index[i]] > 0
    /\ \A h \in 1 .. Hours : bars[h] > 0 => \E i \in 1 .. n : Index[i] = h

LEMMA IndexFacts ==
    ASSUME AnalysisTyped, bars # << >>
    PROVE  \E n : IndexIs(n)
  <1> DEFINE S == {h \in 1 .. Hours : bars[h] > 0}
             n == Cardinality(S)
  <1>1. bars \in [1 .. Hours -> Nat] /\ Hours \in Nat /\ \E h \in 1 .. Hours : bars[h] > 0
    BY AnalysisAssumption DEF AnalysisTyped
  <1>2. S # {} /\ S \in SUBSET (1 .. Hours) /\ S \in SUBSET Int
    BY <1>1
  <1>3. IsFiniteSet(1 .. Hours)
    BY <1>1, FS_Interval
  <1>4. IsFiniteSet(S)
    BY <1>2, <1>3, FS_Subset
  <1>5. n \in Nat \ {0}
    BY <1>2, <1>4, FS_CardinalityType, FS_EmptySet
  <1>6. Index = InOrder(S)
    BY DEF Index
  <1> HIDE DEF S
  <1>7. /\ Index \in [1 .. n -> S]
        /\ \A h \in S : \E i \in 1 .. n : Index[i] = h
        /\ \A i, j \in 1 .. n : i < j => Index[i] < Index[j]
    BY <1>2, <1>4, <1>6, Ranking
  <1> HIDE DEF n
  <1>8. Index \in [1 .. n -> 1 .. Hours]
    BY <1>2, <1>7
  <1>9. Len(Index) = n
    BY <1>5, <1>8
  <1>10. \A i \in 1 .. n : bars[Index[i]] > 0
    BY <1>7 DEF S
  <1>11. \A h \in 1 .. Hours : bars[h] > 0 => \E i \in 1 .. n : Index[i] = h
    BY <1>7 DEF S
  <1>12. QED BY <1>5, <1>7, <1>8, <1>9, <1>10, <1>11 DEF IndexIs, Growing

\* The rows of the grid are consecutive hours.
RowsAre(rows, a, n) ==
    /\ a \in Nat /\ n \in Nat /\ DOMAIN rows = 1 .. n /\ Len(rows) = n
    /\ rows \in Seq([hour : Int, valid : BOOLEAN])
    /\ \A i \in 1 .. n : rows[i].hour = a + i /\ rows[i].valid \in BOOLEAN

LEMMA AlignFacts ==
    ASSUME AnalysisTyped, bars # << >>
    PROVE  \E a, n : RowsAre(Align, a, n)
  <1>1. PICK m : IndexIs(m)
    BY IndexFacts
  <1> DEFINE first == Head(Index)
             last == IF bars[Last(Index)] < FullBar THEN Last(Index) - 1 ELSE Last(Index)
             row(i) == [hour |-> first + i,
                        valid |-> bars[first + i] > 0 /\ bars[first + i - 1] > 0]
             n == IF last - first > 0 THEN last - first ELSE 0
  <1>2. Align = IF last <= first THEN << >> ELSE [i \in 1 .. last - first |-> row(i)]
    BY DEF Align
  <1>3. first \in Nat /\ last \in Int
    <2>1. Index[1] \in Nat /\ Index[m] \in Int /\ Len(Index) = m
      BY <1>1 DEF IndexIs
    <2>2. Head(Index) = Index[1] /\ Last(Index) = Index[m]
      BY <1>1, <2>1 DEF IndexIs, Last
    <2>3. QED BY <2>1, <2>2
  <1> HIDE DEF first, last
  <1>4. n \in Nat /\ 1 .. last - first = 1 .. n
    BY <1>3
  <1>5. \A i \in 1 .. n : row(i) \in [hour : Int, valid : BOOLEAN] /\ row(i).hour = first + i
    BY <1>3, <1>4
  <1>10. (last <= first <=> n = 0) /\ (n # 0 => last - first = n)
    BY <1>3
  <1> HIDE DEF row, n
  <1>6. Align = [i \in 1 .. n |-> row(i)]
    <2>1. 1 .. 0 = {}
      OBVIOUS
    <2>2. CASE n = 0
      BY <1>2, <1>10, <2>1, <2>2
    <2>3. CASE n # 0
      BY <1>2, <1>10, <2>3
    <2>4. QED BY <2>2, <2>3
  <1>7. Align \in Seq([hour : Int, valid : BOOLEAN]) /\ Len(Align) = n /\ DOMAIN Align = 1 .. n
    BY <1>4, <1>5, <1>6
  <1>8. \A i \in 1 .. n : Align[i].hour = first + i /\ Align[i].valid \in BOOLEAN
    BY <1>5, <1>6
  <1>9. QED BY <1>3, <1>4, <1>7, <1>8 DEF RowsAre

LEMMA RowsKeepTime ==
    ASSUME AnalysisTyped, bars # << >>
    PROVE  GridKept
  <1> DEFINE rows == Align
  <1>1. PICK a, n : RowsAre(rows, a, n)
    BY AlignFacts
  <1> HIDE DEF rows
  <1>2. a \in Int /\ n \in Nat /\ DOMAIN rows = 1 .. n /\ Len(rows) = n
        /\ \A i \in 1 .. n : rows[i].hour = a + i
    BY <1>1 DEF RowsAre
  <1>3. ASSUME NEW k \in -2 .. 2, NEW p \in Pairs(rows, k)
        PROVE  p[2] - p[1] = k
    <2>1. PICK i \in 1 .. n : i - k \in 1 .. n /\ p = <<rows[i - k].hour, rows[i].hour>>
      BY <1>2, <1>3 DEF Pairs
    <2>2. p[1] = a + (i - k) /\ p[2] = a + i
      BY <1>2, <2>1
    <2>3. k \in Int /\ i \in Int
      OBVIOUS
    <2>4. QED BY <1>2, <2>2, <2>3
  <1>4. ASSUME NEW w \in ScannedWindows(rows)
        PROVE  w[2] - w[1] = ScanWindow - 1
    <2>1. ScanWindow \in Nat \ {0}
      BY AnalysisAssumption
    <2>2. PICK i \in 1 .. n - ScanWindow + 1 :
             w = <<rows[i].hour, rows[i + ScanWindow - 1].hour>>
      BY <1>2, <1>4 DEF ScannedWindows
    <2>3. i \in 1 .. n /\ i + ScanWindow - 1 \in 1 .. n
      BY <1>2, <2>1
    <2>4. w[1] = a + i /\ w[2] = a + (i + ScanWindow - 1)
      BY <1>2, <2>2, <2>3
    <2>5. QED BY <1>2, <2>1, <2>3, <2>4
  <1>5. QED BY <1>3, <1>4 DEF GridKept, rows

\* h positions on is h hours on only if every hour between has its bar.
-----------------------------------------------------------------------------
(* The gaps that are reported. *)

Row == [hour : Int, valid : BOOLEAN]

GapStep(acc, row) ==
    IF ~ row.valid
      THEN [runs |-> acc.runs, prev |-> row.hour,
            start |-> IF acc.start = 0 THEN row.hour ELSE acc.start,
            count |-> IF acc.start = 0 THEN 1 ELSE acc.count + 1]
    ELSE IF acc.start # 0
      THEN [acc EXCEPT !.runs = Append(@, <<acc.start, acc.prev, acc.count>>), !.start = 0]
    ELSE acc

GapBase == [runs |-> << >>, start |-> 0, prev |-> 0, count |-> 0]

GapTyped == [runs : Seq(Int \X Int \X Int), start : Int, prev : Int, count : Int]

LEMMA GapOver ==
    ASSUME NEW d \in GapTyped, NEW row, row.valid, d.start # 0
    PROVE  LET b == GapStep(d, row)
           IN  /\ b \in GapTyped /\ b.start = 0
               /\ b.runs = Append(d.runs, <<d.start, d.prev, d.count>>)
  <1> DEFINE runs == Append(d.runs, <<d.start, d.prev, d.count>>)
             b == [d EXCEPT !.runs = runs, !.start = 0]
  <1>1. GapStep(d, row) = b
    BY DEF GapStep
  <1>2. d.runs \in Seq(Int \X Int \X Int) /\ d.start \in Int /\ d.prev \in Int /\ d.count \in Int
    BY DEF GapTyped
  <1>3. runs \in Seq(Int \X Int \X Int)
    BY <1>2
  <1> HIDE DEF runs
  <1> DEFINE c == [d EXCEPT !.runs = runs]
  <1>4. c \in GapTyped /\ c.runs = runs
    BY <1>3 DEF GapTyped
  <1>5. b = [c EXCEPT !.start = 0]
    OBVIOUS
  <1> HIDE DEF c
  <1>6. [c EXCEPT !.start = 0] \in GapTyped /\ [c EXCEPT !.start = 0].runs = c.runs
        /\ [c EXCEPT !.start = 0].start = 0
    <2> DEFINE e == [c EXCEPT !.start = 0]
    <2>1. DOMAIN c = {"runs", "start", "prev", "count"}
      BY <1>4 DEF GapTyped
    <2>2. e.start = 0
      BY <2>1
    <2>3. e.runs = c.runs /\ e.prev = c.prev /\ e.count = c.count
      BY <2>1
    <2>4. c.runs \in Seq(Int \X Int \X Int) /\ c.prev \in Int /\ c.count \in Int
      BY <1>4 DEF GapTyped
    <2>5. e \in GapTyped
      <3>1. ASSUME NEW z \in Int
            PROVE  [c EXCEPT !.start = z] \in GapTyped
        BY <1>4 DEF GapTyped
      <3>2. QED BY <3>1
    <2>6. QED BY <2>2, <2>3, <2>5
  <1>7. QED BY <1>1, <1>4, <1>5, <1>6 DEF runs

LEMMA GapType == ASSUME NEW d \in GapTyped, NEW row \in Row PROVE GapStep(d, row) \in GapTyped
  <1>1. d.runs \in Seq(Int \X Int \X Int) /\ d.start \in Int /\ d.prev \in Int /\ d.count \in Int
    BY DEF GapTyped
  <1>2. Append(d.runs, <<d.start, d.prev, d.count>>) \in Seq(Int \X Int \X Int)
    BY <1>1
  <1>3. CASE ~ row.valid
    BY <1>1, <1>3 DEF GapStep, GapTyped, Row
  <1>4. CASE row.valid /\ d.start # 0
    BY <1>4, GapOver
  <1>5. CASE row.valid /\ d.start = 0
    BY <1>5 DEF GapStep
  <1>6. QED BY <1>3, <1>4, <1>5

LEMMA GapUnfold ==
    ASSUME NEW rows, NEW m \in Nat, rows \in Seq(Row), Len(rows) = m
    PROVE  \E h : /\ GapRuns(rows) = IF h[m].start # 0
                                         THEN Append(h[m].runs, <<h[m].start, h[m].prev, h[m].count>>)
                                         ELSE h[m].runs
                  /\ h[0] = GapBase
                  /\ \A i \in 1 .. m : h[i] = GapStep(h[i - 1], rows[i])
  <1> DEFINE n == m
             D == GapTyped
             it == CHOOSE f : f = [s \in SUBSET DOMAIN rows |->
                                     IF s = {} THEN GapBase ELSE GapStep(f[s \ {Max(s)}], rows[Max(s)])]
             op == [p \in D \X (1 .. n) |-> GapStep(p[1], rows[p[2]])]
  <1>1. n \in Nat /\ DOMAIN rows = 1 .. n /\ \A i \in 1 .. n : rows[i] \in Row
    OBVIOUS
  <1>2. GapRuns(rows) = IF it[DOMAIN rows].start # 0
                         THEN Append(it[DOMAIN rows].runs,
                                     <<it[DOMAIN rows].start, it[DOMAIN rows].prev, it[DOMAIN rows].count>>)
                         ELSE it[DOMAIN rows].runs
    BY DEF GapRuns, FoldLeft, MapThenFoldSet, GapStep, GapBase
  <1>3. \A d \in D, i \in 1 .. n : op[<<d, i>>] = GapStep(d, rows[i]) /\ op[<<d, i>>] \in D
    BY <1>1, GapType
  <1>4. GapBase \in D
    BY DEF GapBase, GapTyped
  <1> HIDE DEF D, op, n
  <1>5. PICK f \in [SUBSET (1 .. n) -> D] : IsSequenceFold(f, n, GapBase, op)
    BY <1>1, <1>3, <1>4, SequenceFoldExists
  <1>6. f = [s \in SUBSET DOMAIN rows |->
               IF s = {} THEN GapBase ELSE GapStep(f[s \ {Max(s)}], rows[Max(s)])]
    <2>1. ASSUME NEW s \in SUBSET (1 .. n)
          PROVE  f[s] = IF s = {} THEN GapBase ELSE GapStep(f[s \ {Max(s)}], rows[Max(s)])
      <3>1. CASE s = {}
        BY <1>5, <3>1 DEF IsSequenceFold
      <3>2. CASE s # {}
        <4>1. Max(s) \in 1 .. n /\ s \ {Max(s)} \in SUBSET (1 .. n)
          BY <1>1, <3>2, LastOfPrefix
        <4>2. f[s] = op[<<f[s \ {Max(s)}], Max(s)>>]
          BY <1>5, <3>2 DEF IsSequenceFold
        <4>3. QED BY <1>1, <1>3, <1>5, <3>2, <4>1, <4>2
      <3>3. QED BY <3>1, <3>2
    <2>2. QED BY <1>1, <2>1
  <1>7. it = [s \in SUBSET DOMAIN rows |->
                IF s = {} THEN GapBase ELSE GapStep(it[s \ {Max(s)}], rows[Max(s)])]
    BY <1>6
  <1> HIDE DEF it
  <1> DEFINE h == [k \in 0 .. n |-> it[1 .. k]]
  <1>8. h[0] = GapBase
    <2>1. 1 .. 0 = {} /\ 0 \in 0 .. n
      BY <1>1
    <2>2. QED BY <1>7, <2>1
  <1>9. ASSUME NEW i \in 1 .. n
        PROVE  h[i] = GapStep(h[i - 1], rows[i])
    <2>1. 1 .. i # {} /\ 1 .. i \in SUBSET DOMAIN rows
      <3>1. i \in 1 .. i /\ \A x \in 1 .. i : x \in 1 .. n
        BY <1>1
      <3>2. QED BY <1>1, <3>1
    <2>2. Max(1 .. i) = i /\ (1 .. i) \ {i} = 1 .. i - 1
      BY <1>1, LastOfPrefix
    <2>3. it[1 .. i] = GapStep(it[1 .. i - 1], rows[i])
      BY <1>1, <1>7, <2>1, <2>2
    <2>4. QED BY <1>1, <2>3
  <1>10. it[DOMAIN rows] = h[n]
    BY <1>1
  <1> HIDE DEF h
  <1>11. QED BY <1>2, <1>8, <1>9, <1>10 DEF n

\* What the loop has after k rows: the runs that are over, and the open one.
GapGood(rows, missing, a, k, acc, st) ==
    /\ acc \in GapTyped /\ Open(missing, k, st) /\ st \in Nat
    /\ acc.start = IF st = 0 THEN 0 ELSE a + st
    /\ st # 0 => acc.prev = a + k /\ acc.count = k - st + 1
    /\ ToSet(acc.runs) = {<<rows[r[1]].hour, rows[r[2]].hour, r[2] - r[1] + 1>> :
                             r \in Over(missing, k)}

LEMMA GapStepGood ==
    ASSUME NEW rows, NEW a, NEW n, RowsAre(rows, a, n),
           NEW missing, missing = [i \in 1 .. n |-> ~ rows[i].valid],
           NEW k \in Nat, k + 1 <= n, NEW acc, NEW st, GapGood(rows, missing, a, k, acc, st)
    PROVE  \E ts : GapGood(rows, missing, a, k + 1, GapStep(acc, rows[k + 1]), ts)
  <1> DEFINE row == rows[k + 1]
             b == GapStep(acc, row)
             Gap(r) == <<rows[r[1]].hour, rows[r[2]].hour, r[2] - r[1] + 1>>
  <1>1. /\ a \in Nat /\ n \in Nat /\ k + 1 \in 1 .. n
        /\ row \in Row /\ row.hour = a + (k + 1) /\ row.valid \in BOOLEAN
        /\ \A i \in 1 .. n : rows[i].hour = a + i /\ rows[i].valid \in BOOLEAN
    <2>1. /\ a \in Nat /\ n \in Nat /\ rows \in Seq(Row) /\ Len(rows) = n
          /\ \A i \in 1 .. n : rows[i].hour = a + i /\ rows[i].valid \in BOOLEAN
      BY DEF RowsAre, Row
    <2>2. k + 1 \in 1 .. n
      BY <2>1
    <2>3. rows[k + 1] \in Row
      BY <2>1, <2>2
    <2>4. QED BY <2>1, <2>2, <2>3
  <1>2. missing \in Seq(BOOLEAN) /\ Len(missing) = n /\ missing[k + 1] = ~ row.valid
    BY <1>1
  <1>3. /\ acc \in GapTyped /\ Open(missing, k, st) /\ st \in Nat
        /\ acc.start = IF st = 0 THEN 0 ELSE a + st
        /\ st # 0 => acc.prev = a + k /\ acc.count = k - st + 1
        /\ ToSet(acc.runs) = {Gap(r) : r \in Over(missing, k)}
    BY DEF GapGood
  <1>4. st = 0 \/ st \in 1 .. k
    BY <1>3 DEF Open
  <1>5. /\ missing[k + 1] /\ st = 0 => Open(missing, k + 1, k + 1) /\ Over(missing, k + 1) = Over(missing, k)
        /\ missing[k + 1] /\ st # 0 => Open(missing, k + 1, st) /\ Over(missing, k + 1) = Over(missing, k)
        /\ ~ missing[k + 1] /\ st = 0 => Open(missing, k + 1, 0) /\ Over(missing, k + 1) = Over(missing, k)
        /\ ~ missing[k + 1] /\ st # 0 =>
              /\ Open(missing, k + 1, 0)
              /\ Over(missing, k + 1) = Over(missing, k) \union {<<st, k>>}
    BY <1>2, <1>3, RunStep
  <1>6. b \in GapTyped /\ (acc.start = 0 <=> st = 0)
    BY <1>1, <1>3, GapType
  <1> HIDE DEF b, row
  <1>7. CASE missing[k + 1]
    <2> DEFINE ts == IF st = 0 THEN k + 1 ELSE st
    <2>1. b.runs = acc.runs /\ b.prev = row.hour
          /\ b.start = (IF acc.start = 0 THEN row.hour ELSE acc.start)
          /\ b.count = (IF acc.start = 0 THEN 1 ELSE acc.count + 1)
      BY <1>2, <1>7 DEF GapStep, b
    <2>2. Open(missing, k + 1, ts) /\ ts \in Nat /\ ts # 0 /\ Over(missing, k + 1) = Over(missing, k)
      BY <1>3, <1>5, <1>7
    <2>3. b.start = a + ts /\ b.prev = a + (k + 1) /\ b.count = (k + 1) - ts + 1
      <3>1. CASE st = 0
        BY <1>1, <1>3, <2>1, <3>1
      <3>2. CASE st # 0
        BY <1>1, <1>3, <1>6, <2>1, <3>2
      <3>3. QED BY <3>1, <3>2
    <2> HIDE DEF ts
    <2>4. GapGood(rows, missing, a, k + 1, b, ts)
      BY <1>3, <1>6, <2>1, <2>2, <2>3 DEF GapGood
    <2>5. QED BY <2>4 DEF b, row
  <1>8. CASE ~ missing[k + 1] /\ st # 0
    <2>1. b.start = 0 /\ b.runs = Append(acc.runs, <<acc.start, acc.prev, acc.count>>)
      BY <1>2, <1>3, <1>6, <1>8, GapOver DEF b
    <2>2. Gap(<<st, k>>) = <<acc.start, acc.prev, acc.count>>
      <3>1. st \in 1 .. n /\ k \in 1 .. n
        BY <1>1, <1>4, <1>8
      <3>2. rows[st].hour = a + st /\ rows[k].hour = a + k
        BY <1>1, <3>1
      <3>3. QED BY <1>3, <1>8, <3>2
    <2>3. ToSet(b.runs) = ToSet(acc.runs) \union {Gap(<<st, k>>)}
      <3> DEFINE x == <<acc.start, acc.prev, acc.count>>
                 T == Int \X Int \X Int
      <3>1. acc.runs \in Seq(T) /\ x \in T
        BY <1>3 DEF GapTyped
      <3> HIDE DEF Gap, x, T
      <3>2. ToSet(Append(acc.runs, x)) = ToSet(acc.runs) \union {x}
        BY <3>1, ToSetAppend
      <3>3. QED BY <2>1, <2>2, <3>2 DEF x
    <2> HIDE DEF Gap
    <2>4. ToSet(b.runs) = {Gap(r) : r \in Over(missing, k + 1)}
      BY <1>3, <1>5, <1>8, <2>3
    <2>5. GapGood(rows, missing, a, k + 1, b, 0)
      BY <1>5, <1>6, <1>8, <2>1, <2>4 DEF GapGood, Gap
    <2>6. QED BY <2>5 DEF b, row
  <1>9. CASE ~ missing[k + 1] /\ st = 0
    <2>1. b = acc
      BY <1>2, <1>6, <1>9 DEF GapStep, b
    <2>2. GapGood(rows, missing, a, k + 1, b, 0)
      BY <1>3, <1>5, <1>9, <2>1 DEF GapGood
    <2>3. QED BY <2>2 DEF b, row
  <1>10. missing[k + 1] \in BOOLEAN
    BY <1>1, <1>2
  <1>11. QED BY <1>7, <1>8, <1>9

LEMMA GapsAreRuns == ASSUME AnalysisTyped, bars # << >> PROVE GapsReported
  <1> DEFINE rows == Align
             miss == [i \in DOMAIN rows |-> ~ rows[i].valid]
             Gap(r) == <<rows[r[1]].hour, rows[r[2]].hour, r[2] - r[1] + 1>>
  <1>1. PICK a, n : RowsAre(rows, a, n)
    BY AlignFacts
  <1> HIDE DEF rows
  <1>2. /\ a \in Nat /\ n \in Nat /\ rows \in Seq(Row) /\ Len(rows) = n /\ DOMAIN rows = 1 .. n
        /\ \A i \in 1 .. n : rows[i].hour = a + i /\ rows[i].valid \in BOOLEAN
    BY <1>1 DEF RowsAre, Row
  <1>3. PICK h : /\ GapRuns(rows) = IF h[n].start # 0
                                      THEN Append(h[n].runs, <<h[n].start, h[n].prev, h[n].count>>)
                                      ELSE h[n].runs
                 /\ h[0] = GapBase
                 /\ \A i \in 1 .. n : h[i] = GapStep(h[i - 1], rows[i])
    BY <1>2, GapUnfold
  <1>4. miss = [i \in 1 .. n |-> ~ rows[i].valid] /\ miss \in Seq(BOOLEAN) /\ Len(miss) = n
    BY <1>2
  <1> HIDE DEF miss
  <1> DEFINE N == {k \in Nat : k <= n => \E st : GapGood(rows, miss, a, k, h[k], st)}
  <1>5. 0 \in N
    <2>1. GapBase \in GapTyped /\ GapBase.start = 0 /\ GapBase.runs = << >>
      BY DEF GapBase, GapTyped
    <2>2. ToSet(<< >>) = {}
      BY DEF ToSet
    <2>3. Over(miss, 0) = {} /\ Open(miss, 0, 0)
      BY <1>4, RunStarts
    <2>4. GapGood(rows, miss, a, 0, h[0], 0)
      BY <1>3, <2>1, <2>2, <2>3 DEF GapGood
    <2>5. QED BY <2>4
  <1>6. ASSUME NEW k \in Nat, k \in N
        PROVE  k + 1 \in N
    <2> SUFFICES ASSUME k + 1 <= n
                 PROVE  \E st : GapGood(rows, miss, a, k + 1, h[k + 1], st)
      OBVIOUS
    <2>1. PICK st : GapGood(rows, miss, a, k, h[k], st)
      BY <1>2, <1>6
    <2>2. k + 1 \in 1 .. n /\ k + 1 - 1 = k
      BY <1>2
    <2>3. h[k + 1] = GapStep(h[k], rows[k + 1])
      BY <1>3, <2>2
    <2>4. QED BY <1>1, <1>4, <2>1, <2>3, GapStepGood
  <1> HIDE DEF N
  <1>7. PICK st : GapGood(rows, miss, a, n, h[n], st)
    <2>1. Nat \subseteq N
      BY <1>5, <1>6, Induction
    <2>2. QED BY <1>2, <2>1 DEF N
  <1> DEFINE c == h[n]
  <1>8. /\ c \in GapTyped /\ Open(miss, n, st) /\ st \in Nat
        /\ c.start = IF st = 0 THEN 0 ELSE a + st
        /\ st # 0 => c.prev = a + n /\ c.count = n - st + 1
        /\ ToSet(c.runs) = {Gap(r) : r \in Over(miss, n)}
    BY <1>7 DEF GapGood
  <1>9. GapRuns(rows) = IF c.start # 0 THEN Append(c.runs, <<c.start, c.prev, c.count>>) ELSE c.runs
    BY <1>3
  <1> HIDE DEF c
  <1>10. MaximalRuns(miss) = Over(miss, n) \union (IF st = 0 THEN {} ELSE {<<st, n>>})
    BY <1>4, <1>8, RunEnds
  <1>11. st = 0 \/ st \in 1 .. n
    BY <1>8 DEF Open
  <1>12. ToSet(GapRuns(rows)) = {Gap(r) : r \in MaximalRuns(miss)}
    <2>1. CASE st = 0
      BY <1>8, <1>9, <1>10, <2>1
    <2>2. CASE st # 0
      <3>1. c.start # 0
        BY <1>2, <1>8, <2>2
      <3>2. Gap(<<st, n>>) = <<c.start, c.prev, c.count>>
        <4>1. st \in 1 .. n /\ n \in 1 .. n
          BY <1>2, <1>11, <2>2
        <4>2. rows[st].hour = a + st /\ rows[n].hour = a + n
          BY <1>2, <4>1
        <4>3. QED BY <1>8, <2>2, <4>2
      <3>3. ToSet(Append(c.runs, <<c.start, c.prev, c.count>>)) = ToSet(c.runs) \union {Gap(<<st, n>>)}
        <4>1. c.runs \in Seq(Int \X Int \X Int) /\ <<c.start, c.prev, c.count>> \in Int \X Int \X Int
          BY <1>8 DEF GapTyped
        <4>2. QED BY <3>2, <4>1, ToSetAppend
      <3> HIDE DEF Gap
      <3>4. QED BY <1>8, <1>9, <1>10, <2>2, <3>1, <3>3
    <2>3. QED BY <2>1, <2>2
  <1>13. QED BY <1>12 DEF GapsReported, rows, miss
-----------------------------------------------------------------------------
(* The segment for Granger. *)

Ok(rows, i) == i <= Len(rows) /\ rows[i].valid

SegStep(rows, acc, i) ==
    CASE Ok(rows, i) /\ acc.start = 0 -> [acc EXCEPT !.start = i]
      [] ~ Ok(rows, i) /\ acc.start # 0 ->
            [best |-> IF i - acc.start > acc.best[2]
                        THEN <<acc.start, i - acc.start>> ELSE acc.best,
             start |-> 0]
      [] OTHER -> acc

SegBase == [best |-> <<1, 0>>, start |-> 0]

SegTyped == [best : Int \X Int, start : Int]

LEMMA SegOpens ==
    ASSUME NEW rows, NEW d \in SegTyped, NEW i \in Nat, Ok(rows, i), d.start = 0
    PROVE  LET b == SegStep(rows, d, i) IN b \in SegTyped /\ b.start = i /\ b.best = d.best
  <1>1. SegStep(rows, d, i) = [d EXCEPT !.start = i]
    BY DEF SegStep
  <1>2. [d EXCEPT !.start = i] \in SegTyped /\ [d EXCEPT !.start = i].start = i
        /\ [d EXCEPT !.start = i].best = d.best
    BY DEF SegTyped
  <1>3. QED BY <1>1, <1>2

LEMMA SegCloses ==
    ASSUME NEW rows, NEW d \in SegTyped, NEW i \in Nat, ~ Ok(rows, i), d.start # 0
    PROVE  LET b == SegStep(rows, d, i)
           IN  /\ b \in SegTyped /\ b.start = 0
               /\ b.best = IF i - d.start > d.best[2] THEN <<d.start, i - d.start>> ELSE d.best
  <1> DEFINE best == IF i - d.start > d.best[2] THEN <<d.start, i - d.start>> ELSE d.best
  <1>1. SegStep(rows, d, i) = [best |-> best, start |-> 0]
    BY DEF SegStep
  <1>2. best \in Int \X Int
    BY DEF SegTyped
  <1> HIDE DEF best
  <1>3. [best |-> best, start |-> 0] \in SegTyped
    BY <1>2 DEF SegTyped
  <1>4. QED BY <1>1, <1>3 DEF best

LEMMA SegRests ==
    ASSUME NEW rows, NEW d, NEW i, Ok(rows, i) <=> d.start # 0
    PROVE  SegStep(rows, d, i) = d
  BY DEF SegStep

LEMMA SegType ==
    ASSUME NEW rows, NEW d \in SegTyped, NEW i \in Nat PROVE SegStep(rows, d, i) \in SegTyped
  <1>1. CASE Ok(rows, i) /\ d.start = 0
    BY <1>1, SegOpens
  <1>2. CASE ~ Ok(rows, i) /\ d.start # 0
    BY <1>2, SegCloses
  <1>3. CASE Ok(rows, i) <=> d.start # 0
    BY <1>3, SegRests
  <1>4. QED BY <1>1, <1>2, <1>3

LEMMA SegUnfold ==
    ASSUME NEW rows, NEW m \in Nat, Len(rows) = m
    PROVE  \E h : /\ LongestCompleteRun(rows) = h[m + 1].best
                  /\ h[0] = SegBase
                  /\ \A i \in 1 .. m + 1 : h[i] = SegStep(rows, h[i - 1], i)
  <1> DEFINE n == m + 1
             D == SegTyped
             seq == [i \in 1 .. Len(rows) + 1 |-> i]
             it == CHOOSE f : f = [s \in SUBSET DOMAIN seq |->
                                     IF s = {} THEN SegBase ELSE SegStep(rows, f[s \ {Max(s)}], seq[Max(s)])]
             op == [p \in D \X (1 .. n) |-> SegStep(rows, p[1], p[2])]
  <1>1. n \in Nat /\ DOMAIN seq = 1 .. n /\ \A i \in 1 .. n : seq[i] = i
    OBVIOUS
  <1>2. LongestCompleteRun(rows) = it[DOMAIN seq].best
    BY DEF LongestCompleteRun, FoldLeft, MapThenFoldSet, SegStep, SegBase, Ok
  <1>3. \A d \in D, i \in 1 .. n : op[<<d, i>>] = SegStep(rows, d, i) /\ op[<<d, i>>] \in D
    BY <1>1, SegType
  <1>4. SegBase \in D
    BY DEF SegBase, SegTyped
  <1> HIDE DEF D, op, n, seq
  <1>5. PICK f \in [SUBSET (1 .. n) -> D] : IsSequenceFold(f, n, SegBase, op)
    BY <1>1, <1>3, <1>4, SequenceFoldExists
  <1>6. f = [s \in SUBSET DOMAIN seq |->
               IF s = {} THEN SegBase ELSE SegStep(rows, f[s \ {Max(s)}], seq[Max(s)])]
    <2>1. ASSUME NEW s \in SUBSET (1 .. n)
          PROVE  f[s] = IF s = {} THEN SegBase ELSE SegStep(rows, f[s \ {Max(s)}], seq[Max(s)])
      <3>1. CASE s = {}
        BY <1>5, <3>1 DEF IsSequenceFold
      <3>2. CASE s # {}
        <4>1. Max(s) \in 1 .. n /\ s \ {Max(s)} \in SUBSET (1 .. n)
          BY <1>1, <3>2, LastOfPrefix
        <4>2. f[s] = op[<<f[s \ {Max(s)}], Max(s)>>]
          BY <1>5, <3>2 DEF IsSequenceFold
        <4>3. QED BY <1>1, <1>3, <1>5, <3>2, <4>1, <4>2
      <3>3. QED BY <3>1, <3>2
    <2>2. QED BY <1>1, <2>1
  <1>7. it = [s \in SUBSET DOMAIN seq |->
                IF s = {} THEN SegBase ELSE SegStep(rows, it[s \ {Max(s)}], seq[Max(s)])]
    BY <1>6
  <1> HIDE DEF it
  <1> DEFINE h == [k \in 0 .. n |-> it[1 .. k]]
  <1>8. h[0] = SegBase
    <2>1. 1 .. 0 = {} /\ 0 \in 0 .. n
      BY <1>1
    <2>2. QED BY <1>7, <2>1
  <1>9. ASSUME NEW i \in 1 .. n
        PROVE  h[i] = SegStep(rows, h[i - 1], i)
    <2>1. 1 .. i # {} /\ 1 .. i \in SUBSET DOMAIN seq
      <3>1. i \in 1 .. i /\ \A x \in 1 .. i : x \in 1 .. n
        BY <1>1
      <3>2. QED BY <1>1, <3>1
    <2>2. Max(1 .. i) = i /\ (1 .. i) \ {i} = 1 .. i - 1
      BY <1>1, LastOfPrefix
    <2>3. it[1 .. i] = SegStep(rows, it[1 .. i - 1], i)
      BY <1>1, <1>7, <2>1, <2>2
    <2>4. QED BY <1>1, <2>3
  <1>10. it[DOMAIN seq] = h[n]
    BY <1>1
  <1> HIDE DEF h
  <1>11. QED BY <1>2, <1>8, <1>9, <1>10 DEF n

Length(r) == r[2] - r[1] + 1

\* What the loop has after k rows: the longest of the runs that are over.
SegGood(present, k, acc) ==
    /\ acc \in SegTyped /\ acc.start \in Nat /\ Open(present, k, acc.start)
    /\ acc.best[2] = 0 \/ \E r \in Over(present, k) : acc.best[2] = Length(r)
    /\ acc.best[2] >= 0
    /\ \A r \in Over(present, k) : Length(r) <= acc.best[2]

LEMMA SegStepGood ==
    ASSUME NEW rows, NEW a, NEW n, RowsAre(rows, a, n),
           NEW present, present = [i \in 1 .. n |-> rows[i].valid],
           NEW k \in Nat, k + 1 <= n, NEW acc, SegGood(present, k, acc)
    PROVE  SegGood(present, k + 1, SegStep(rows, acc, k + 1))
  <1> DEFINE b == SegStep(rows, acc, k + 1)
             st == acc.start
  <1>1. /\ n \in Nat /\ k + 1 \in 1 .. n /\ Len(rows) = n
        /\ \A i \in 1 .. n : rows[i].valid \in BOOLEAN
    BY DEF RowsAre
  <1>2. present \in Seq(BOOLEAN) /\ Len(present) = n /\ present[k + 1] = rows[k + 1].valid
    BY <1>1
  <1>3. Ok(rows, k + 1) = present[k + 1]
    BY <1>1, <1>2 DEF Ok
  <1>4. /\ acc \in SegTyped /\ st \in Nat /\ Open(present, k, st)
        /\ acc.best[2] = 0 \/ \E r \in Over(present, k) : acc.best[2] = Length(r)
        /\ acc.best[2] >= 0 /\ acc.best[2] \in Int
        /\ \A r \in Over(present, k) : Length(r) <= acc.best[2]
    BY DEF SegGood, SegTyped
  <1>5. /\ present[k + 1] /\ st = 0 => Open(present, k + 1, k + 1) /\ Over(present, k + 1) = Over(present, k)
        /\ present[k + 1] /\ st # 0 => Open(present, k + 1, st) /\ Over(present, k + 1) = Over(present, k)
        /\ ~ present[k + 1] /\ st = 0 => Open(present, k + 1, 0) /\ Over(present, k + 1) = Over(present, k)
        /\ ~ present[k + 1] /\ st # 0 =>
              /\ Open(present, k + 1, 0)
              /\ Over(present, k + 1) = Over(present, k) \union {<<st, k>>}
    BY <1>2, <1>4, RunStep
  <1> HIDE DEF b, st
  <1>6. CASE present[k + 1] /\ st = 0
    <2>1. b \in SegTyped /\ b.start = k + 1 /\ b.best = acc.best
      BY <1>3, <1>4, <1>6, SegOpens DEF b, st
    <2>2. Open(present, k + 1, b.start) /\ Over(present, k + 1) = Over(present, k) /\ b.start \in Nat
      BY <1>5, <1>6, <2>1
    <2>3. SegGood(present, k + 1, b)
      BY <1>4, <2>1, <2>2 DEF SegGood
    <2>4. QED BY <2>3 DEF b
  <1>7. CASE ~ present[k + 1] /\ st # 0
    <2> DEFINE len == (k + 1) - st
    <2>1. b \in SegTyped /\ b.start = 0
          /\ b.best = IF len > acc.best[2] THEN <<st, len>> ELSE acc.best
      BY <1>3, <1>4, <1>7, SegCloses DEF b, st
    <2>2. len \in Int /\ Length(<<st, k>>) = len /\ st \in 1 .. k
      BY <1>4, <1>7 DEF Length, Open
    <2>3. len > 0
      BY <2>2
    <2> HIDE DEF len
    <2>4. b.best[2] = IF len > acc.best[2] THEN len ELSE acc.best[2]
      BY <2>1
    <2>5. <<st, k>> \in Over(present, k + 1) /\ \A r \in Over(present, k) : r \in Over(present, k + 1)
      BY <1>5, <1>7
    <2>6. b.best[2] = 0 \/ \E r \in Over(present, k + 1) : b.best[2] = Length(r)
      BY <1>4, <2>2, <2>4, <2>5
    <2>7. b.best[2] >= 0 /\ len <= b.best[2] /\ acc.best[2] <= b.best[2] /\ b.best[2] \in Int
      BY <1>4, <2>2, <2>3, <2>4
    <2>8. \A r \in Over(present, k + 1) : Length(r) <= b.best[2]
      <3>1. \A r \in Over(present, k) : Length(r) \in Int
        BY <1>2 DEF Over, MaximalRuns, Length
      <3>2. \A r \in Over(present, k) : Length(r) <= b.best[2]
        BY <1>4, <2>7, <3>1
      <3>3. QED BY <1>5, <1>7, <2>2, <2>7, <3>2
    <2>9. QED BY <1>5, <1>7, <2>1, <2>6, <2>7, <2>8 DEF SegGood, b
  <1>8. CASE present[k + 1] <=> st # 0
    <2>1. b = acc
      BY <1>3, <1>8, SegRests DEF b, st
    <2>2. QED BY <1>4, <1>5, <1>8, <2>1 DEF SegGood, b, st
  <1>9. QED BY <1>6, <1>7, <1>8

LEMMA SegmentIsLongest == ASSUME AnalysisTyped, bars # << >> PROVE SegmentLongest
  <1> DEFINE rows == Align
             pres == [i \in DOMAIN rows |-> rows[i].valid]
             lengths == {r[2] - r[1] + 1 : r \in MaximalRuns(pres)} \union {0}
  <1>1. PICK a, n : RowsAre(rows, a, n)
    BY AlignFacts
  <1> HIDE DEF rows
  <1>2. /\ n \in Nat /\ Len(rows) = n /\ DOMAIN rows = 1 .. n
        /\ \A i \in 1 .. n : rows[i].valid \in BOOLEAN
    BY <1>1 DEF RowsAre
  <1>3. PICK h : /\ LongestCompleteRun(rows) = h[n + 1].best /\ h[0] = SegBase
                 /\ \A i \in 1 .. n + 1 : h[i] = SegStep(rows, h[i - 1], i)
    BY <1>2, SegUnfold
  <1>4. pres = [i \in 1 .. n |-> rows[i].valid] /\ pres \in Seq(BOOLEAN) /\ Len(pres) = n
    BY <1>2
  <1> HIDE DEF pres
  <1> DEFINE N == {k \in Nat : k <= n => SegGood(pres, k, h[k])}
  <1>5. 0 \in N
    <2>1. SegBase \in SegTyped /\ SegBase.start = 0 /\ SegBase.best[2] = 0
      BY DEF SegBase, SegTyped
    <2>2. Over(pres, 0) = {} /\ Open(pres, 0, 0)
      BY <1>4, RunStarts
    <2>3. SegGood(pres, 0, h[0])
      BY <1>3, <2>1, <2>2 DEF SegGood
    <2>4. QED BY <2>3
  <1>6. ASSUME NEW k \in Nat, k \in N
        PROVE  k + 1 \in N
    <2> SUFFICES ASSUME k + 1 <= n
                 PROVE  SegGood(pres, k + 1, h[k + 1])
      OBVIOUS
    <2>1. SegGood(pres, k, h[k])
      BY <1>2, <1>6
    <2>2. k + 1 \in 1 .. n + 1 /\ k + 1 - 1 = k
      BY <1>2
    <2>3. h[k + 1] = SegStep(rows, h[k], k + 1)
      BY <1>3, <2>2
    <2>4. QED BY <1>1, <1>4, <2>1, <2>3, SegStepGood
  <1> HIDE DEF N
  <1>7. SegGood(pres, n, h[n])
    <2>1. Nat \subseteq N
      BY <1>5, <1>6, Induction
    <2>2. QED BY <1>2, <2>1 DEF N
  <1> DEFINE acc == h[n]
             b == h[n + 1]
             st == acc.start
  <1>8. b = SegStep(rows, acc, n + 1)
    <2>1. n + 1 \in 1 .. n + 1 /\ n + 1 - 1 = n
      BY <1>2
    <2>2. QED BY <1>2, <1>3, <2>1
  <1>9. LongestCompleteRun(rows) = b.best
    BY <1>3
  <1>10. /\ acc \in SegTyped /\ st \in Nat /\ Open(pres, n, st)
         /\ acc.best[2] = 0 \/ \E r \in Over(pres, n) : acc.best[2] = Length(r)
         /\ acc.best[2] >= 0 /\ acc.best[2] \in Int
         /\ \A r \in Over(pres, n) : Length(r) <= acc.best[2]
    BY <1>7 DEF SegGood, SegTyped
  <1> HIDE DEF acc, b, st
  <1>11. MaximalRuns(pres) = Over(pres, n) \union (IF st = 0 THEN {} ELSE {<<st, n>>})
    BY <1>4, <1>10, RunEnds
  <1>12. ~ Ok(rows, n + 1)
    BY <1>2 DEF Ok
  <1>13. \A m : m \in lengths <=> m = 0 \/ \E r \in MaximalRuns(pres) : m = Length(r)
    BY DEF Length
  <1>14. \A r \in MaximalRuns(pres) : Length(r) \in Int
    BY <1>4 DEF MaximalRuns, Length
  <1> HIDE DEF lengths
  <1>15. b.best[2] \in lengths /\ \A m \in lengths : m <= b.best[2]
    <2>1. CASE st = 0
      <3>1. b = acc
        BY <1>8, <1>12, <2>1, SegRests DEF st
      <3>2. QED BY <1>10, <1>11, <1>13, <2>1, <3>1
    <2>2. CASE st # 0
      <3> DEFINE len == (n + 1) - st
      <3>1. b.best = IF len > acc.best[2] THEN <<st, len>> ELSE acc.best
        BY <1>2, <1>8, <1>10, <1>12, <2>2, SegCloses DEF st
      <3>2. len \in Int /\ Length(<<st, n>>) = len /\ st \in 1 .. n
        BY <1>2, <1>10, <2>2 DEF Length, Open
      <3> HIDE DEF len
      <3>3. b.best[2] = IF len > acc.best[2] THEN len ELSE acc.best[2]
        BY <3>1
      <3>4. b.best[2] >= 0 /\ len <= b.best[2] /\ acc.best[2] <= b.best[2] /\ b.best[2] \in Int
        BY <1>10, <3>2, <3>3
      <3>5. <<st, n>> \in MaximalRuns(pres) /\ \A r \in Over(pres, n) : r \in MaximalRuns(pres)
        BY <1>11, <2>2
      <3>6. \A r \in MaximalRuns(pres) : Length(r) <= b.best[2]
        <4>1. \A r \in Over(pres, n) : Length(r) <= b.best[2]
          BY <1>10, <1>14, <3>4, <3>5
        <4>2. QED BY <1>11, <3>2, <3>4, <4>1
      <3>7. QED BY <1>10, <1>13, <3>2, <3>3, <3>4, <3>5, <3>6
    <2>3. QED BY <2>1, <2>2
  <1>16. \A m \in lengths : m \in Int
    BY <1>13, <1>14
  <1>17. Max(lengths) = b.best[2]
    <2>1. Max(lengths) \in lengths /\ \A m \in lengths : Max(lengths) >= m
      <3>1. \E x \in lengths : \A m \in lengths : x >= m
        BY <1>15, <1>16
      <3>2. QED BY <3>1 DEF Max
    <2>2. QED BY <1>15, <1>16, <2>1
  <1>18. QED BY <1>9, <1>17 DEF SegmentLongest, rows, pres, lengths
-----------------------------------------------------------------------------
(* A growing sequence is its members in order. *)

LEMMA RankOf ==
    ASSUME NEW S \in SUBSET Int, NEW n \in Nat, NEW c \in [1 .. n -> S], Growing(c, n),
           \A h \in S : \E i \in 1 .. n : c[i] = h
    PROVE  /\ IsFiniteSet(S) /\ Cardinality(S) = n
           /\ \A i \in 1 .. n : Cardinality({g \in S : g <= c[i]}) = i
  <1>0. \A i, j \in 1 .. n : c[i] <= c[j] <=> i <= j
    <2> TAKE i, j \in 1 .. n
    <2>1. c[i] \in Int /\ c[j] \in Int /\ (i < j => c[i] < c[j]) /\ (j < i => c[j] < c[i])
      BY DEF Growing
    <2>2. i < j \/ i = j \/ j < i
      OBVIOUS
    <2>3. QED BY <2>1, <2>2
  <1>1. ASSUME NEW m \in 0 .. n, NEW T \in SUBSET S, \A j \in 1 .. n : c[j] \in T <=> j <= m
        PROVE  Cardinality(T) = m
    <2> DEFINE f == [j \in 1 .. m |-> c[j]]
    <2>1. m \in Nat /\ \A j \in 1 .. m : j \in 1 .. n
      OBVIOUS
    <2>2. f \in [1 .. m -> T]
      BY <1>1, <2>1
    <2>3. \A i, j \in 1 .. m : f[i] = f[j] => i = j
      <3> TAKE i, j \in 1 .. m
      <3>1. c[i] \in Int /\ c[j] \in Int /\ (c[i] <= c[j] <=> i <= j) /\ (c[j] <= c[i] <=> j <= i)
        BY <1>0, <2>1
      <3>2. QED BY <3>1
    <2>4. \A h \in T : \E j \in 1 .. m : f[j] = h
      <3> TAKE h \in T
      <3>1. PICK i \in 1 .. n : c[i] = h
        OBVIOUS
      <3>2. i \in 1 .. m
        BY <1>1, <3>1
      <3>3. QED BY <3>1, <3>2
    <2> HIDE DEF f
    <2>5. f \in Bijection(1 .. m, T)
      BY <2>2, <2>3, <2>4 DEF Bijection, Injection, IsInjective, Surjection
    <2>6. ExistsBijection(1 .. m, T)
      BY <2>5 DEF ExistsBijection
    <2>7. QED BY <2>1, <2>6, FS_CountingElements
  <1>2. Cardinality(S) = n
    BY <1>1
  <1>3. \A i \in 1 .. n : Cardinality({g \in S : g <= c[i]}) = i
    <2> TAKE i \in 1 .. n
    <2> DEFINE T == {g \in S : g <= c[i]}
    <2>1. \A j \in 1 .. n : c[j] \in T <=> j <= i
      BY <1>0
    <2>2. T \in SUBSET S /\ i \in 0 .. n
      OBVIOUS
    <2> HIDE DEF T
    <2>3. Cardinality(T) = i
      BY <1>1, <2>1, <2>2
    <2>4. QED BY <2>3 DEF T
  <1>4. IsFiniteSet(S)
    <2>1. c \in Surjection(1 .. n, S)
      BY DEF Surjection
    <2>2. ExistsSurjection(1 .. n, S)
      BY <2>1 DEF ExistsSurjection
    <2>3. QED BY <2>2, FS_NatSurjection
  <1>5. QED BY <1>2, <1>3, <1>4

LEMMA OnlyOrder ==
    ASSUME NEW S \in SUBSET Int, NEW n \in Nat, NEW c \in [1 .. n -> S], Growing(c, n),
           \A h \in S : \E i \in 1 .. n : c[i] = h
    PROVE  InOrder(S) = c
  <1> DEFINE s == InOrder(S)
  <1>1. /\ IsFiniteSet(S) /\ Cardinality(S) = n
        /\ \A i \in 1 .. n : Cardinality({g \in S : g <= c[i]}) = i
    BY RankOf
  <1>2. s \in [1 .. n -> S] /\ Growing(s, n) /\ \A h \in S : \E i \in 1 .. n : s[i] = h
    BY <1>1, Ranking DEF Growing
  <1> HIDE DEF s
  <1>3. \A i \in 1 .. n : Cardinality({g \in S : g <= s[i]}) = i
    BY <1>2, RankOf
  <1>4. \A i \in 1 .. n : s[i] = c[i]
    <2> TAKE i \in 1 .. n
    <2>1. PICK j \in 1 .. n : s[j] = c[i]
      BY <1>2
    <2>2. j = i
      BY <1>1, <1>3, <2>1
    <2>3. QED BY <2>1, <2>2
  <1>5. QED BY <1>2, <1>4 DEF s
-----------------------------------------------------------------------------
(* The events. *)

SumStep(sum, e) == sum + e.size

SumBase == 0

SumTyped == Int

LEMMA SumType == ASSUME NEW d \in SumTyped, NEW e, e.size \in Int PROVE SumStep(d, e) \in SumTyped
  BY DEF SumStep, SumTyped

LEMMA SumUnfold ==
    ASSUME NEW ev, NEW m \in Nat, DOMAIN ev = 1 .. m, \A i \in 1 .. m : ev[i].size \in Int
    PROVE  \E h : /\ Total(ev) = h[m]
                  /\ h[0] = SumBase
                  /\ \A i \in 1 .. m : h[i] = SumStep(h[i - 1], ev[i])
  <1> DEFINE n == m
             D == SumTyped
             it == CHOOSE f : f = [s \in SUBSET DOMAIN ev |->
                                     IF s = {} THEN SumBase ELSE SumStep(f[s \ {Max(s)}], ev[Max(s)])]
             op == [p \in D \X (1 .. n) |-> SumStep(p[1], ev[p[2]])]
  <1>1. n \in Nat /\ DOMAIN ev = 1 .. n /\ \A i \in 1 .. n : ev[i].size \in Int
    OBVIOUS
  <1>2. Total(ev) = it[DOMAIN ev]
    BY DEF Total, FoldLeft, MapThenFoldSet, SumStep, SumBase
  <1>3. \A d \in D, i \in 1 .. n : op[<<d, i>>] = SumStep(d, ev[i]) /\ op[<<d, i>>] \in D
    BY <1>1, SumType
  <1>4. SumBase \in D
    BY DEF SumBase, SumTyped
  <1> HIDE DEF D, op, n
  <1>5. PICK f \in [SUBSET (1 .. n) -> D] : IsSequenceFold(f, n, SumBase, op)
    BY <1>1, <1>3, <1>4, SequenceFoldExists
  <1>6. f = [s \in SUBSET DOMAIN ev |->
               IF s = {} THEN SumBase ELSE SumStep(f[s \ {Max(s)}], ev[Max(s)])]
    <2>1. ASSUME NEW s \in SUBSET (1 .. n)
          PROVE  f[s] = IF s = {} THEN SumBase ELSE SumStep(f[s \ {Max(s)}], ev[Max(s)])
      <3>1. CASE s = {}
        BY <1>5, <3>1 DEF IsSequenceFold
      <3>2. CASE s # {}
        <4>1. Max(s) \in 1 .. n /\ s \ {Max(s)} \in SUBSET (1 .. n)
          BY <1>1, <3>2, LastOfPrefix
        <4>2. f[s] = op[<<f[s \ {Max(s)}], Max(s)>>]
          BY <1>5, <3>2 DEF IsSequenceFold
        <4>3. QED BY <1>1, <1>3, <1>5, <3>2, <4>1, <4>2
      <3>3. QED BY <3>1, <3>2
    <2>2. QED BY <1>1, <2>1
  <1>7. it = [s \in SUBSET DOMAIN ev |->
                IF s = {} THEN SumBase ELSE SumStep(it[s \ {Max(s)}], ev[Max(s)])]
    BY <1>6
  <1> HIDE DEF it
  <1> DEFINE h == [k \in 0 .. n |-> it[1 .. k]]
  <1>8. h[0] = SumBase
    <2>1. 1 .. 0 = {} /\ 0 \in 0 .. n
      BY <1>1
    <2>2. QED BY <1>7, <2>1
  <1>9. ASSUME NEW i \in 1 .. n
        PROVE  h[i] = SumStep(h[i - 1], ev[i])
    <2>1. 1 .. i # {} /\ 1 .. i \in SUBSET DOMAIN ev
      <3>1. i \in 1 .. i /\ \A x \in 1 .. i : x \in 1 .. n
        BY <1>1
      <3>2. QED BY <1>1, <3>1
    <2>2. Max(1 .. i) = i /\ (1 .. i) \ {i} = 1 .. i - 1
      BY <1>1, LastOfPrefix
    <2>3. it[1 .. i] = SumStep(it[1 .. i - 1], ev[i])
      BY <1>1, <1>7, <2>1, <2>2
    <2>4. QED BY <1>1, <2>3
  <1>10. it[DOMAIN ev] = h[n]
    BY <1>1
  <1> HIDE DEF h
  <1>11. QED BY <1>2, <1>8, <1>9, <1>10 DEF n

Events == {CloseCluster(p[1], p[2]) : p \in Int \X Int}

ClusterStep(acc, i) ==
    IF i = 1 \/ articles[i].time - articles[i - 1].time <= ClusterWindow
      THEN acc
      ELSE [events |-> Append(acc.events, CloseCluster(acc.start, i - 1)), start |-> i]

ClusterBase == [events |-> << >>, start |-> 1]

ClusterTyped == [events : Seq(Events), start : Int]

LEMMA ClusterType ==
    ASSUME NEW d \in ClusterTyped, NEW i \in Nat
    PROVE  ClusterStep(d, i) \in ClusterTyped
  <1>1. d.events \in Seq(Events) /\ d.start \in Int /\ i - 1 \in Int
    BY DEF ClusterTyped
  <1>2. <<d.start, i - 1>> \in Int \X Int
    BY <1>1
  <1>3. CloseCluster(d.start, i - 1) \in Events
    BY <1>2 DEF Events
  <1> DEFINE e == CloseCluster(d.start, i - 1)
  <1> HIDE DEF e
  <1>4. [events |-> Append(d.events, e), start |-> i] \in ClusterTyped
    <2>1. Append(d.events, e) \in Seq(Events)
      BY <1>1, <1>3 DEF e
    <2>2. QED BY <2>1 DEF ClusterTyped
  <1>5. QED BY <1>4 DEF ClusterStep, e

LEMMA ClusterUnfold ==
    ASSUME AnalysisTyped, articles # << >>
    PROVE  \E h : /\ ClusterEvents = Append(h[Len(articles)].events,
                                            CloseCluster(h[Len(articles)].start, Len(articles)))
                  /\ h[0] = ClusterBase
                  /\ \A i \in 1 .. Len(articles) : h[i] = ClusterStep(h[i - 1], i)
  <1> DEFINE n == Len(articles)
             D == ClusterTyped
             seq == [i \in DOMAIN articles |-> i]
             it == CHOOSE f : f = [s \in SUBSET DOMAIN seq |->
                                     IF s = {} THEN ClusterBase ELSE ClusterStep(f[s \ {Max(s)}], seq[Max(s)])]
             op == [p \in D \X (1 .. n) |-> ClusterStep(p[1], p[2])]
  <1>1. n \in Nat /\ DOMAIN seq = 1 .. n /\ \A i \in 1 .. n : seq[i] = i
    BY DEF AnalysisTyped
  <1>2. ClusterEvents = Append(it[DOMAIN seq].events, CloseCluster(it[DOMAIN seq].start, Len(articles)))
    BY DEF ClusterEvents, FoldLeft, MapThenFoldSet, ClusterStep, ClusterBase
  <1>3. \A d \in D, i \in 1 .. n : op[<<d, i>>] = ClusterStep(d, i) /\ op[<<d, i>>] \in D
    BY <1>1, ClusterType
  <1>4. ClusterBase \in D
    BY DEF ClusterBase, ClusterTyped
  <1> HIDE DEF D, op, n, seq
  <1>5. PICK f \in [SUBSET (1 .. n) -> D] : IsSequenceFold(f, n, ClusterBase, op)
    BY <1>1, <1>3, <1>4, SequenceFoldExists
  <1>6. f = [s \in SUBSET DOMAIN seq |->
               IF s = {} THEN ClusterBase ELSE ClusterStep(f[s \ {Max(s)}], seq[Max(s)])]
    <2>1. ASSUME NEW s \in SUBSET (1 .. n)
          PROVE  f[s] = IF s = {} THEN ClusterBase ELSE ClusterStep(f[s \ {Max(s)}], seq[Max(s)])
      <3>1. CASE s = {}
        BY <1>5, <3>1 DEF IsSequenceFold
      <3>2. CASE s # {}
        <4>1. Max(s) \in 1 .. n /\ s \ {Max(s)} \in SUBSET (1 .. n)
          BY <1>1, <3>2, LastOfPrefix
        <4>2. f[s] = op[<<f[s \ {Max(s)}], Max(s)>>]
          BY <1>5, <3>2 DEF IsSequenceFold
        <4>3. QED BY <1>1, <1>3, <1>5, <3>2, <4>1, <4>2
      <3>3. QED BY <3>1, <3>2
    <2>2. QED BY <1>1, <2>1
  <1>7. it = [s \in SUBSET DOMAIN seq |->
                IF s = {} THEN ClusterBase ELSE ClusterStep(it[s \ {Max(s)}], seq[Max(s)])]
    BY <1>6
  <1> HIDE DEF it
  <1> DEFINE h == [k \in 0 .. n |-> it[1 .. k]]
  <1>8. h[0] = ClusterBase
    <2>1. 1 .. 0 = {} /\ 0 \in 0 .. n
      BY <1>1
    <2>2. QED BY <1>7, <2>1
  <1>9. ASSUME NEW i \in 1 .. n
        PROVE  h[i] = ClusterStep(h[i - 1], i)
    <2>1. 1 .. i # {} /\ 1 .. i \in SUBSET DOMAIN seq
      <3>1. i \in 1 .. i /\ \A x \in 1 .. i : x \in 1 .. n
        BY <1>1
      <3>2. QED BY <1>1, <3>1
    <2>2. Max(1 .. i) = i /\ (1 .. i) \ {i} = 1 .. i - 1
      BY <1>1, LastOfPrefix
    <2>3. it[1 .. i] = ClusterStep(it[1 .. i - 1], i)
      BY <1>1, <1>7, <2>1, <2>2
    <2>4. QED BY <1>1, <2>3
  <1>10. it[DOMAIN seq] = h[n]
    BY <1>1
  <1> HIDE DEF h
  <1>11. QED BY <1>2, <1>8, <1>9, <1>10 DEF n

\* Where an event starts, of the articles up to k.
Cuts(k) ==
    {1} \union {i \in 2 .. Len(articles) :
                   i <= k /\ articles[i].time - articles[i - 1].time > ClusterWindow}

\* What the loop has after k articles: the events between the first m cuts c.
ClusterGood(k, acc, c, m) ==
    /\ acc \in ClusterTyped /\ m \in Nat \ {0} /\ Len(acc.events) + 1 = m
    /\ c \in [1 .. m -> 1 .. Len(articles)] /\ c[1] = 1 /\ Growing(c, m)
    /\ \A i \in 1 .. m : c[i] \in Cuts(k)
    /\ \A x \in Cuts(k) : \E i \in 1 .. m : c[i] = x
    /\ acc.start = c[m]
    /\ \A j \in 1 .. m - 1 : acc.events[j] = CloseCluster(c[j], c[j + 1] - 1)

LEMMA ClusterStepGood ==
    ASSUME AnalysisTyped, NEW k \in Nat, k + 1 <= Len(articles), NEW acc, NEW c, NEW m,
           ClusterGood(k, acc, c, m)
    PROVE  \E d, p : ClusterGood(k + 1, ClusterStep(acc, k + 1), d, p)
  <1> DEFINE n == Len(articles)
             i == k + 1
             b == ClusterStep(acc, i)
             pause == i # 1 /\ articles[i].time - articles[i - 1].time > ClusterWindow
  <1>1. /\ n \in Nat /\ i \in 1 .. n /\ ClusterWindow \in Nat
        /\ \A j \in 1 .. n : articles[j].time \in Int
    <2>1. articles \in Seq([time : 1 .. Hours, score : {-1, 1, 2}])
      BY DEF AnalysisTyped
    <2>2. n \in Nat /\ \A j \in 1 .. n : articles[j] \in [time : 1 .. Hours, score : {-1, 1, 2}]
      BY <2>1, LenProperties, ElementOfSeq
    <2>3. \A j \in 1 .. n : articles[j].time \in 1 .. Hours
      BY <2>2
    <2>4. i \in 1 .. n /\ ClusterWindow \in Nat
      BY <2>2, AnalysisAssumption
    <2> HIDE DEF n, i, pause
    <2>5. QED BY <2>2, <2>3, <2>4
  <1>2. /\ acc \in ClusterTyped /\ m \in Nat \ {0} /\ Len(acc.events) + 1 = m
        /\ c \in [1 .. m -> 1 .. n] /\ c[1] = 1 /\ Growing(c, m)
        /\ \A j \in 1 .. m : c[j] \in Cuts(k)
        /\ \A x \in Cuts(k) : \E j \in 1 .. m : c[j] = x
        /\ acc.start = c[m]
        /\ \A j \in 1 .. m - 1 : acc.events[j] = CloseCluster(c[j], c[j + 1] - 1)
    BY DEF ClusterGood
  <1>3. (~ pause => b = acc)
        /\ (pause => b = [events |-> Append(acc.events, CloseCluster(acc.start, i - 1)), start |-> i])
    <2>1. i # 1 => i - 1 \in 1 .. n
      BY <1>1
    <2>2. pause <=> ~ (i = 1 \/ articles[i].time - articles[i - 1].time <= ClusterWindow)
      BY <1>1, <2>1
    <2> HIDE DEF i, pause
    <2>3. QED BY <2>2 DEF ClusterStep
  <1>4. \A x \in 2 .. n : x <= i <=> x <= k \/ x = i
    BY <1>1
  <1>5. i # 1 => i \in 2 .. n
    BY <1>1
  <1>6. b \in ClusterTyped
    BY <1>1, <1>2, ClusterType
  <1>7. CASE ~ pause
    <2>1. Cuts(i) = Cuts(k)
      BY <1>4, <1>7 DEF Cuts
    <2> HIDE DEF i, b
    <2>2. ClusterGood(i, b, c, m)
      BY <1>2, <1>3, <1>7, <2>1 DEF ClusterGood
    <2>3. QED BY <2>2 DEF i, b
  <1>8. CASE pause
    <2> DEFINE d == [j \in 1 .. m + 1 |-> IF j <= m THEN c[j] ELSE i]
               e == CloseCluster(acc.start, i - 1)
    <2>1. Cuts(i) = Cuts(k) \union {i}
      <3>1. \A x : x \in Cuts(i) <=> x \in Cuts(k) \/ x = i
        BY <1>1, <1>4, <1>5, <1>8 DEF Cuts
      <3>2. QED BY <3>1
    <2>2. \A x \in Cuts(k) : x \in Int /\ x < i
      BY <1>1, <1>8 DEF Cuts
    <2>3. b.events = Append(acc.events, e) /\ b.start = i
      BY <1>3, <1>8
    <2>4. acc.events \in Seq(Events) /\ e \in Events
      <3>1. acc.events \in Seq(Events) /\ acc.start \in Int
        BY <1>2 DEF ClusterTyped
      <3>2. <<acc.start, i - 1>> \in Int \X Int
        BY <3>1
      <3>3. QED BY <3>1, <3>2 DEF Events
    <2> HIDE DEF i, b, e
    <2>5. /\ \A j \in 1 .. m : d[j] = c[j] /\ j \in 1 .. m + 1
          /\ d[m + 1] = i /\ m + 1 \in 1 .. m + 1
      BY <1>2
    <2>6. \A j \in 1 .. m + 1 : j \in 1 .. m \/ j = m + 1
      BY <1>2
    <2>7. d \in [1 .. m + 1 -> 1 .. n]
      BY <1>1, <1>2
    <2> HIDE DEF d
    <2>8. Growing(d, m + 1)
      <3> SUFFICES ASSUME NEW x \in 1 .. m + 1, NEW y \in 1 .. m + 1, x < y
                   PROVE  d[x] < d[y]
        BY DEF Growing
      <3>1. x \in 1 .. m
        BY <1>2
      <3>2. CASE y \in 1 .. m
        BY <1>2, <2>5, <3>1, <3>2 DEF Growing
      <3>3. CASE y = m + 1
        BY <1>2, <2>2, <2>5, <3>1, <3>3
      <3>4. QED BY <2>6, <3>2, <3>3
    <2>9. /\ \A j \in 1 .. m + 1 : d[j] \in Cuts(i)
          /\ \A x \in Cuts(i) : \E j \in 1 .. m + 1 : d[j] = x
      <3>1. \A j \in 1 .. m + 1 : d[j] \in Cuts(i)
        BY <1>2, <2>1, <2>5, <2>6
      <3>2. ASSUME NEW x \in Cuts(i)
            PROVE  \E j \in 1 .. m + 1 : d[j] = x
        <4>1. CASE x \in Cuts(k)
          <5>1. PICK j \in 1 .. m : c[j] = x
            BY <1>2, <4>1
          <5>2. QED BY <2>5, <5>1
        <4>2. CASE x = i
          BY <2>5, <4>2
        <4>3. QED BY <2>1, <4>1, <4>2
      <3>3. QED BY <3>1, <3>2
    <2>10. /\ Len(b.events) = m
           /\ \A j \in 1 .. m - 1 : b.events[j] = acc.events[j]
           /\ b.events[m] = e
      <3>1. Len(acc.events) = m - 1 /\ Len(acc.events) \in Nat
        <4>1. Len(acc.events) \in Nat
          BY <2>4, LenProperties
        <4>2. m \in Nat /\ Len(acc.events) + 1 = m
          BY <1>2
        <4>3. QED BY <4>1, <4>2
      <3>2. /\ Len(b.events) = Len(acc.events) + 1
            /\ \A j \in 1 .. Len(acc.events) : b.events[j] = acc.events[j]
            /\ b.events[Len(acc.events) + 1] = e
        BY <2>3, <2>4, AppendProperties
      <3>3. QED BY <1>2, <3>1, <3>2
    <2>11. \A j \in 1 .. (m + 1) - 1 : b.events[j] = CloseCluster(d[j], d[j + 1] - 1)
      <3>1. ASSUME NEW j \in 1 .. m - 1
            PROVE  b.events[j] = CloseCluster(d[j], d[j + 1] - 1)
        <4>1. j \in 1 .. m /\ j + 1 \in 1 .. m
          BY <1>2
        <4>2. QED BY <1>2, <2>5, <2>10, <4>1
      <3>2. b.events[m] = CloseCluster(d[m], d[m + 1] - 1)
        <4>1. m \in 1 .. m
          BY <1>2
        <4>2. QED BY <1>2, <2>5, <2>10, <4>1 DEF e
      <3>3. \A j \in 1 .. (m + 1) - 1 : j \in 1 .. m - 1 \/ j = m
        BY <1>2
      <3>4. QED BY <3>1, <3>2, <3>3
    <2>12. m + 1 \in Nat \ {0} /\ Len(b.events) + 1 = m + 1 /\ d[1] = 1 /\ b.start = d[m + 1]
      <3>1. 1 \in 1 .. m
        BY <1>2
      <3>2. QED BY <1>2, <2>3, <2>5, <2>10, <3>1
    <2>13. ClusterGood(i, b, d, m + 1)
      BY <1>6, <2>7, <2>8, <2>9, <2>11, <2>12 DEF ClusterGood
    <2>14. QED BY <2>13 DEF i, b
  <1>9. QED BY <1>7, <1>8

LEMMA NoArticles ==
    ASSUME articles = << >>
    PROVE  EventsPartition
  <1>1. ClusterEvents = << >> /\ DOMAIN ClusterEvents = 1 .. 0 /\ Len(articles) = 0
    BY DEF ClusterEvents, FoldLeft, MapThenFoldSet
  <1>2. PICK h : Total(ClusterEvents) = h[0] /\ h[0] = SumBase
    BY <1>1, SumUnfold
  <1>3. [i \in DOMAIN ClusterEvents |-> ClusterEvents[i].time]
           = [i \in DOMAIN << >> |-> articles[<< >>[i]].time]
    BY <1>1
  <1>4. Total(ClusterEvents) = Len(articles)
    BY <1>1, <1>2 DEF SumBase
  <1>5. QED BY <1>3, <1>4 DEF EventsPartition

\* The events are what is between m cuts c and the end.
EventsCut(c, m) ==
    /\ m \in Nat \ {0} /\ DOMAIN ClusterEvents = 1 .. m
    /\ c \in [1 .. m + 1 -> Int] /\ c[1] = 1 /\ c[m + 1] = Len(articles) + 1
    /\ Growing(c, m)
    /\ \A i \in 1 .. m : c[i] \in Cuts(Len(articles))
    /\ \A x \in Cuts(Len(articles)) : \E i \in 1 .. m : c[i] = x
    /\ \A j \in 1 .. m : ClusterEvents[j] = CloseCluster(c[j], c[j + 1] - 1)

LEMMA EventsFound ==
    ASSUME AnalysisTyped, articles # << >>
    PROVE  \E c, m : EventsCut(c, m)
  <1> DEFINE n == Len(articles)
  <1>1. n \in Nat \ {0}
    BY EmptySeq DEF AnalysisTyped
  <1>2. PICK h : /\ ClusterEvents = Append(h[n].events, CloseCluster(h[n].start, n))
                 /\ h[0] = ClusterBase
                 /\ \A i \in 1 .. n : h[i] = ClusterStep(h[i - 1], i)
    BY ClusterUnfold
  <1> DEFINE N == {k \in Nat : k <= n => \E c, m : ClusterGood(k, h[k], c, m)}
  <1>3. 0 \in N
    <2> DEFINE c == [j \in 1 .. 1 |-> 1]
    <2>1. ClusterBase \in ClusterTyped /\ ClusterBase.start = 1 /\ ClusterBase.events = << >>
      BY DEF ClusterBase, ClusterTyped
    <2>2. Len(<< >>) + 1 = 1 /\ 1 .. 1 = {1} /\ 1 .. 1 - 1 = {}
      OBVIOUS
    <2>3. Cuts(0) = {1}
      BY <1>1 DEF Cuts
    <2>4. c \in [1 .. 1 -> 1 .. n] /\ c[1] = 1
      BY <1>1
    <2> HIDE DEF c
    <2>5. Growing(c, 1)
      BY DEF Growing
    <2>6. ClusterGood(0, h[0], c, 1)
      BY <1>2, <2>1, <2>2, <2>3, <2>4, <2>5 DEF ClusterGood
    <2>7. QED BY <2>6
  <1>4. ASSUME NEW k \in Nat, k \in N
        PROVE  k + 1 \in N
    <2> SUFFICES ASSUME k + 1 <= n
                 PROVE  \E c, m : ClusterGood(k + 1, h[k + 1], c, m)
      OBVIOUS
    <2>1. PICK c, m : ClusterGood(k, h[k], c, m)
      BY <1>1, <1>4
    <2>2. k + 1 \in 1 .. n /\ k + 1 - 1 = k
      BY <1>1
    <2>3. h[k + 1] = ClusterStep(h[k], k + 1)
      BY <1>2, <2>2
    <2>4. QED BY <2>1, <2>3, ClusterStepGood
  <1> HIDE DEF N
  <1>5. PICK c, m : ClusterGood(n, h[n], c, m)
    <2>1. Nat \subseteq N
      BY <1>3, <1>4, Induction
    <2>2. QED BY <1>1, <2>1 DEF N
  <1> DEFINE acc == h[n]
             e == CloseCluster(acc.start, n)
             d == [j \in 1 .. m + 1 |-> IF j <= m THEN c[j] ELSE n + 1]
  <1>6. /\ acc \in ClusterTyped /\ m \in Nat \ {0} /\ Len(acc.events) + 1 = m
        /\ c \in [1 .. m -> 1 .. n] /\ c[1] = 1 /\ Growing(c, m)
        /\ \A j \in 1 .. m : c[j] \in Cuts(n)
        /\ \A x \in Cuts(n) : \E j \in 1 .. m : c[j] = x
        /\ acc.start = c[m]
        /\ \A j \in 1 .. m - 1 : acc.events[j] = CloseCluster(c[j], c[j + 1] - 1)
    BY <1>5 DEF ClusterGood
  <1>7. ClusterEvents = Append(acc.events, e)
    BY <1>2
  <1>8. acc.events \in Seq(Events) /\ e \in Events
    <2> HIDE DEF acc, n
    <2>1. acc.events \in Seq(Events) /\ acc.start \in Int
      BY <1>6 DEF ClusterTyped
    <2>2. <<acc.start, n>> \in Int \X Int
      BY <1>1, <2>1
    <2>3. QED BY <2>1, <2>2 DEF Events
  <1> HIDE DEF acc, e, n
  <1>9. /\ DOMAIN ClusterEvents = 1 .. m
        /\ \A j \in 1 .. m - 1 : ClusterEvents[j] = acc.events[j]
        /\ ClusterEvents[m] = e
    <2>1. Len(acc.events) = m - 1 /\ Len(acc.events) \in Nat
      <3>1. Len(acc.events) \in Nat
        BY <1>8, LenProperties
      <3>2. m \in Nat /\ Len(acc.events) + 1 = m
        BY <1>6
      <3>3. QED BY <3>1, <3>2
    <2>2. /\ ClusterEvents \in Seq(Events) /\ Len(ClusterEvents) = Len(acc.events) + 1
          /\ \A j \in 1 .. Len(acc.events) : ClusterEvents[j] = acc.events[j]
          /\ ClusterEvents[Len(acc.events) + 1] = e
      BY <1>7, <1>8, AppendProperties
    <2>3. DOMAIN ClusterEvents = 1 .. Len(ClusterEvents) /\ Len(ClusterEvents) = m
      BY <1>6, <2>1, <2>2
    <2>4. QED BY <1>6, <2>1, <2>2, <2>3
  <1>10. /\ \A j \in 1 .. m : d[j] = c[j]
         /\ d[m + 1] = n + 1 /\ d[1] = 1 /\ d \in [1 .. m + 1 -> Int]
    <2>1. \A j \in 1 .. m : j \in 1 .. m + 1 /\ j <= m
      BY <1>6
    <2>2. m + 1 \in 1 .. m + 1 /\ ~ (m + 1 <= m) /\ 1 \in 1 .. m
      BY <1>6
    <2>3. QED BY <1>1, <1>6, <2>1, <2>2
  <1> HIDE DEF d
  <1>11. \A j \in 1 .. m : ClusterEvents[j] = CloseCluster(d[j], d[j + 1] - 1)
    <2>1. ASSUME NEW j \in 1 .. m - 1
          PROVE  ClusterEvents[j] = CloseCluster(d[j], d[j + 1] - 1)
      <3>1. j \in 1 .. m /\ j + 1 \in 1 .. m
        BY <1>6
      <3>2. QED BY <1>6, <1>9, <1>10, <3>1
    <2>2. ClusterEvents[m] = CloseCluster(d[m], d[m + 1] - 1)
      <3>1. m \in 1 .. m /\ (n + 1) - 1 = n
        BY <1>1, <1>6
      <3>2. QED BY <1>6, <1>9, <1>10, <3>1 DEF e
    <2>3. \A j \in 1 .. m : j \in 1 .. m - 1 \/ j = m
      BY <1>6
    <2>4. QED BY <2>1, <2>2, <2>3
  <1>12. Growing(d, m)
    BY <1>6, <1>10 DEF Growing
  <1>13. /\ \A j \in 1 .. m : d[j] \in Cuts(n)
         /\ \A x \in Cuts(n) : \E j \in 1 .. m : d[j] = x
    BY <1>6, <1>10
  <1>14. EventsCut(d, m)
    BY <1>6, <1>9, <1>10, <1>11, <1>12, <1>13 DEF EventsCut, n
  <1>15. QED BY <1>14

LEMMA EventsArePartition == ASSUME AnalysisTyped PROVE EventsPartition
  <1> SUFFICES ASSUME articles # << >>
               PROVE  EventsPartition
    BY NoArticles
  <1> DEFINE n == Len(articles)
             S == Cuts(n)
             pauses == {i \in 2 .. n : articles[i].time - articles[i - 1].time > ClusterWindow}
             firsts == InOrder({1} \union pauses)
             times == [i \in DOMAIN ClusterEvents |-> ClusterEvents[i].time]
  <1>1. n \in Nat
    BY DEF AnalysisTyped
  <1>2. {1} \union pauses = S /\ S \in SUBSET Int
    <2>1. \A i \in 2 .. n : i <= n /\ i \in Int
      BY <1>1
    <2>2. QED BY <2>1 DEF Cuts
  <1>3. PICK c, m : EventsCut(c, m)
    BY EventsFound
  <1>17. /\ m \in Nat \ {0} /\ DOMAIN ClusterEvents = 1 .. m
         /\ c \in [1 .. m + 1 -> Int] /\ c[1] = 1 /\ c[m + 1] = n + 1
         /\ Growing(c, m)
         /\ \A i \in 1 .. m : c[i] \in Cuts(n)
         /\ \A x \in Cuts(n) : \E i \in 1 .. m : c[i] = x
         /\ \A j \in 1 .. m : ClusterEvents[j] = CloseCluster(c[j], c[j + 1] - 1)
    BY <1>3 DEF EventsCut
  <1> DEFINE s == [i \in 1 .. m |-> c[i]]
  <1> HIDE DEF S
  <1>4. s \in [1 .. m -> S] /\ Growing(s, m) /\ \A h \in S : \E i \in 1 .. m : s[i] = h
    BY <1>17 DEF S, Growing
  <1>5. m \in Nat
    BY <1>17
  <1> HIDE DEF s
  <1>6. InOrder(S) = s
    BY <1>2, <1>4, <1>5, OnlyOrder
  <1>7. firsts = s
    BY <1>2, <1>6
  <1> HIDE DEF firsts, pauses, n
  <1>8. \A j \in 1 .. m : /\ ClusterEvents[j].time = articles[c[j]].time
                          /\ ClusterEvents[j].size = c[j + 1] - 1 - c[j] + 1
    <2>1. \A a, b : CloseCluster(a, b).time = articles[a].time /\ CloseCluster(a, b).size = b - a + 1
      BY DEF CloseCluster
    <2> TAKE j \in 1 .. m
    <2>2. ClusterEvents[j] = CloseCluster(c[j], c[j + 1] - 1)
      BY <1>17
    <2>3. QED BY <2>1, <2>2
  <1>9. times = [i \in DOMAIN firsts |-> articles[firsts[i]].time]
    <2>1. DOMAIN firsts = 1 .. m /\ \A i \in 1 .. m : firsts[i] = c[i]
      BY <1>4, <1>7 DEF s
    <2>2. QED BY <1>17, <1>8, <2>1
  <1>10. \A j \in 1 .. m : c[j] \in Int /\ c[j + 1] \in Int /\ ClusterEvents[j].size = c[j + 1] - c[j]
    <2> TAKE j \in 1 .. m
    <2>1. j \in 1 .. m + 1 /\ j + 1 \in 1 .. m + 1
      BY <1>5
    <2>2. c[j] \in Int /\ c[j + 1] \in Int
      BY <1>17, <2>1
    <2>3. QED BY <1>8, <2>2
  <1>11. PICK h : /\ Total(ClusterEvents) = h[m]
                  /\ h[0] = SumBase
                  /\ \A i \in 1 .. m : h[i] = SumStep(h[i - 1], ClusterEvents[i])
    <2>1. \A i \in 1 .. m : ClusterEvents[i].size \in Int
      BY <1>10
    <2>2. QED BY <1>17, <1>5, <2>1, SumUnfold
  <1> DEFINE N == {k \in Nat : k <= m => h[k] = c[k + 1] - 1}
  <1>12. 0 \in N
    <2>1. h[0] = 0 /\ c[0 + 1] = 1
      BY <1>11, <1>17 DEF SumBase
    <2>2. QED BY <2>1
  <1>13. ASSUME NEW k \in Nat, k \in N
         PROVE  k + 1 \in N
    <2> SUFFICES ASSUME k + 1 <= m
                 PROVE  h[k + 1] = c[(k + 1) + 1] - 1
      OBVIOUS
    <2>1. k + 1 \in 1 .. m /\ k + 1 - 1 = k
      BY <1>5
    <2>2. h[k] = c[k + 1] - 1
      BY <1>5, <1>13
    <2>3. h[k + 1] = h[k] + ClusterEvents[k + 1].size
      BY <1>11, <2>1 DEF SumStep
    <2>4. c[k + 1] \in Int /\ c[(k + 1) + 1] \in Int
          /\ ClusterEvents[k + 1].size = c[(k + 1) + 1] - c[k + 1]
      BY <1>10, <2>1
    <2>5. QED BY <2>2, <2>3, <2>4
  <1> HIDE DEF N
  <1>14. h[m] = c[m + 1] - 1
    <2>1. Nat \subseteq N
      BY <1>12, <1>13, Induction
    <2>2. QED BY <1>5, <2>1 DEF N
  <1>15. Total(ClusterEvents) = n
    BY <1>1, <1>17, <1>11, <1>14 DEF n
  <1>16. QED BY <1>9, <1>15 DEF EventsPartition, firsts, pauses, n

(* For any bars, significances and articles: the lag correlation, its gaps,  *)
(* its segment and its windows keep the hours of the bars they are computed  *)
(* from (lag_detection/series_builder.py, rolling.py), an onset lies within  *)
(* a window that the chart shows (event_study.py:onset_lag, dashboard/       *)
(* app.py:sig_windows), and the events partition the articles. Of the return *)
(* curves of the events (event_car) it says nothing.                         *)
THEOREM SeriesFaithfulTheorem == AnalysisTyped => SeriesFaithful
  <1> SUFFICES ASSUME AnalysisTyped
               PROVE  SeriesFaithful
    OBVIOUS
  <1>1. bars # << >> => GridKept /\ GapsReported /\ SegmentLongest
    BY RowsKeepTime, GapsAreRuns, SegmentIsLongest
  <1>2. HorizonsAgree
    BY SigWindowsAreRuns, OnsetIsFirst, OnsetInWindow DEF HorizonsAgree
  <1>3. EventsPartition
    BY EventsArePartition
  <1>4. QED BY <1>1, <1>2, <1>3 DEF SeriesFaithful

LEMMA InitAnalysisTyped == ASSUME SInit PROVE AnalysisTyped
  <1>1. Hours \in Nat \ {0} /\ FullBar \in Nat \ {0} /\ MaxArticles \in Nat
    BY AnalysisAssumption
  <1>2. << >> \in Seq(BOOLEAN) /\ << >> \in Seq([time : 1 .. Hours, score : {-1, 1, 2}])
    OBVIOUS
  <1>0. NoHorizons =>
          /\ significant_fdr \in Seq(BOOLEAN) /\ significant \in Seq(BOOLEAN)
          /\ Len(significant) = Len(significant_fdr) /\ Len(significant) = 0
    BY <1>2 DEF NoHorizons
  <1>3. CASE /\ bars \in {b \in [1 .. Hours -> {0, FullBar - 1, FullBar}] :
                             \E h \in 1 .. Hours : b[h] > 0}
             /\ NoHorizons /\ articles = << >>
    <2>1. {0, FullBar - 1, FullBar} \subseteq Nat
      BY <1>1
    <2>2. bars \in [1 .. Hours -> Nat] /\ \E h \in 1 .. Hours : bars[h] > 0
      BY <1>3, <2>1
    <2>3. QED BY <1>0, <1>2, <1>3, <2>2 DEF AnalysisTyped
  <1>4. CASE /\ significant_fdr \in [1 .. Hours -> BOOLEAN]
             /\ significant \in {s \in [1 .. Hours -> BOOLEAN] :
                                   \A h \in 1 .. Hours : s[h] => significant_fdr[h]}
             /\ bars = << >> /\ articles = << >>
    <2>1. /\ significant_fdr \in Seq(BOOLEAN) /\ significant \in Seq(BOOLEAN)
          /\ Len(significant) = Hours /\ Len(significant_fdr) = Hours
      BY <1>1, <1>4
    <2>2. \A h \in 1 .. Hours : significant[h] => significant_fdr[h]
      BY <1>4
    <2>3. QED BY <1>2, <1>4, <2>1, <2>2 DEF AnalysisTyped
  <1>5. CASE /\ articles \in {a \in UNION {[1 .. n -> [time : 1 .. Hours, score : {-1, 1, 2}]] :
                                              n \in 0 .. MaxArticles} : Ordered(a)}
             /\ bars = << >> /\ NoHorizons
    <2>1. PICK n \in 0 .. MaxArticles : articles \in [1 .. n -> [time : 1 .. Hours, score : {-1, 1, 2}]]
      BY <1>5
    <2>2. articles \in Seq([time : 1 .. Hours, score : {-1, 1, 2}])
      <3> DEFINE R == [time : 1 .. Hours, score : {-1, 1, 2}]
      <3>1. n \in Nat
        BY <1>1
      <3> HIDE DEF R
      <3>2. articles \in [1 .. n -> R]
        BY <2>1 DEF R
      <3>3. articles \in Seq(R)
        BY <3>1, <3>2
      <3>4. QED BY <3>3 DEF R
    <2>3. QED BY <1>0, <1>2, <1>5, <2>2 DEF AnalysisTyped
  <1>6. QED BY <1>3, <1>4, <1>5 DEF SInit
-----------------------------------------------------------------------------
(* What the repairs ask for. *)

RepairPlansTyped ==
    /\ candles \in SUBSET (1 .. PlanMinutes)
    /\ daysOff \in SUBSET (1 .. PlanDays) /\ since \in Nat

LEMMA InitRepairPlansTyped == ASSUME RInit PROVE RepairPlansTyped
  <1>1. 1 .. PlanDays \subseteq Nat /\ 1 \in Nat
    BY RepairPlansAssumption
  <1>2. QED BY <1>1 DEF RInit, RepairPlansTyped
-----------------------------------------------------------------------------
(* Sequences of ranges. *)

NumberPair == Nat \X Nat

\* A range of the sequence reaches x.
Reached(calls, x) == \E i \in 1 .. Len(calls) : calls[i][1] <= x /\ x < calls[i][2]

LEMMA PairType ==
    /\ \A r \in NumberPair : r[1] \in Nat /\ r[2] \in Nat
    /\ \A a, b \in Nat : <<a, b>> \in NumberPair
  BY DEF NumberPair

LEMMA PairOf == \A a, b : <<a, b>>[1] = a /\ <<a, b>>[2] = b
  OBVIOUS

LEMMA LastIn ==
    ASSUME NEW R, NEW s \in Seq(R), s # << >>
    PROVE  Last(s) = s[Len(s)] /\ Last(s) \in R /\ Len(s) \in Nat \ {0}
  <1>1. Len(s) \in Nat \ {0} /\ s \in [1 .. Len(s) -> R]
    BY LenProperties, EmptySeq
  <1>2. Len(s) \in 1 .. Len(s)
    BY <1>1
  <1>3. QED BY <1>1, <1>2 DEF Last

LEMMA ReplaceLast ==
    ASSUME NEW R, NEW s \in Seq(R), s # << >>, NEW r \in R
    PROVE  /\ Append(Front(s), r) \in Seq(R)
           /\ Len(Append(Front(s), r)) = Len(s)
           /\ Append(Front(s), r)[Len(s)] = r
           /\ \A i \in 1 .. Len(s) - 1 : Append(Front(s), r)[i] = s[i]
  <1>1. Len(s) \in Nat \ {0}
    BY LastIn
  <1> DEFINE k == Len(s) - 1
  <1>2. k \in Nat /\ k + 1 = Len(s) /\ \A i \in 1 .. k : s[i] \in R
    BY <1>1, ElementOfSeq
  <1> HIDE DEF k
  <1>6. /\ SubSeq(s, 1, k) \in Seq(R) /\ Len(SubSeq(s, 1, k)) = IF 1 <= k THEN k - 1 + 1 ELSE 0
        /\ \A i \in 1 .. k - 1 + 1 : SubSeq(s, 1, k)[i] = s[1 + i - 1]
    BY <1>2, SubSeqProperties
  <1>7. Len(SubSeq(s, 1, k)) = k /\ \A i \in 1 .. k : SubSeq(s, 1, k)[i] = s[i]
    BY <1>2, <1>6
  <1>3. /\ Front(s) \in Seq(R) /\ Len(Front(s)) = Len(s) - 1
        /\ \A i \in 1 .. Len(s) - 1 : Front(s)[i] = s[i]
    BY <1>6, <1>7 DEF Front, k
  <1> DEFINE t == Front(s)
  <1> HIDE DEF t
  <1>4. t \in Seq(R) /\ Len(t) = Len(s) - 1 /\ \A i \in 1 .. Len(s) - 1 : t[i] = s[i]
    BY <1>3 DEF t
  <1>5. /\ Append(t, r) \in Seq(R) /\ Len(Append(t, r)) = Len(t) + 1
        /\ Append(t, r)[Len(t) + 1] = r
        /\ \A i \in 1 .. Len(t) : Append(t, r)[i] = t[i]
    BY <1>4, AppendProperties
  <1>8. QED BY <1>1, <1>4, <1>5 DEF t
-----------------------------------------------------------------------------
(* The days the news repair asks for. *)

\* The runs hold the days t, in order, and none touches the next.
RunsGood(t, runs) ==
    /\ runs \in Seq(NumberPair)
    /\ \A d \in Nat : d \in t <=> Reached(runs, d)
    /\ \A i \in 1 .. Len(runs) : runs[i][1] < runs[i][2]
    /\ \A i \in 1 .. Len(runs) - 1 : runs[i][2] < runs[i + 1][1]

LEMMA ExtendType ==
    ASSUME NEW runs \in Seq(NumberPair), NEW d \in Nat
    PROVE  Extend(runs, d) \in Seq(NumberPair)
  <1>1. d + 1 \in Nat /\ <<d, d + 1>> \in NumberPair
    BY PairType
  <1>2. CASE runs # << >> /\ d = Last(runs)[2]
    <2>1. <<Last(runs)[1], d + 1>> \in NumberPair
      BY <1>1, <1>2, LastIn, PairType
    <2>2. QED BY <1>2, <2>1, ReplaceLast DEF Extend
  <1>3. CASE ~ (runs # << >> /\ d = Last(runs)[2])
    BY <1>1, <1>3, AppendProperties DEF Extend
  <1>4. QED BY <1>2, <1>3

LEMMA ExtendGood ==
    ASSUME NEW t \in SUBSET Nat, NEW d \in Nat, \A x \in t : x < d,
           NEW runs, RunsGood(t, runs)
    PROVE  RunsGood(t \union {d}, Extend(runs, d))
  <1> DEFINE next == Extend(runs, d)
             n == Len(runs)
  <1>1. /\ runs \in Seq(NumberPair) /\ n \in Nat
        /\ \A i \in 1 .. n : runs[i] \in NumberPair /\ runs[i][1] \in Nat /\ runs[i][2] \in Nat
        /\ \A x \in Nat : x \in t <=> Reached(runs, x)
        /\ \A i \in 1 .. n : runs[i][1] < runs[i][2]
        /\ \A i \in 1 .. n - 1 : runs[i][2] < runs[i + 1][1]
    BY PairType, ElementOfSeq, LenProperties DEF RunsGood
  <1>2. \A i \in 1 .. n : runs[i][2] <= d
    <2> TAKE i \in 1 .. n
    <2>1. runs[i][2] - 1 \in Nat /\ runs[i][1] <= runs[i][2] - 1 /\ runs[i][2] - 1 < runs[i][2]
      BY <1>1
    <2>2. runs[i][2] - 1 \in t
      BY <1>1, <2>1 DEF Reached
    <2>3. QED BY <1>1, <2>1, <2>2
  <1>3. next \in Seq(NumberPair)
    BY <1>1, ExtendType
  <1>4. CASE runs # << >> /\ d = Last(runs)[2]
    <2>1. n \in Nat \ {0} /\ Last(runs) = runs[n] /\ n \in 1 .. n
      BY <1>1, <1>4, LastIn
    <2> DEFINE r == <<runs[n][1], d + 1>>
    <2>2. r \in NumberPair /\ r[1] = runs[n][1] /\ r[2] = d + 1
      BY <1>1, <2>1, PairType
    <2> HIDE DEF r
    <2>3. next = Append(Front(runs), r)
      BY <1>4, <2>1 DEF Extend, r
    <2> HIDE DEF next, n
    <2>4. Len(next) = n /\ next[n] = r /\ \A i \in 1 .. n - 1 : next[i] = runs[i]
      BY <1>1, <1>4, <2>2, <2>3, ReplaceLast DEF n
    <2>5. \A i \in 1 .. n : next[i][1] = runs[i][1] /\ (i # n => next[i][2] = runs[i][2])
      <3> TAKE i \in 1 .. n
      <3>1. i = n \/ i \in 1 .. n - 1
        BY <1>1
      <3>2. QED BY <2>2, <2>4, <3>1
    <2>6. \A i \in 1 .. n : next[i][1] < next[i][2]
      <3> TAKE i \in 1 .. n
      <3>1. CASE i = n
        BY <1>1, <1>4, <2>1, <2>2, <2>4, <3>1
      <3>2. CASE i # n
        BY <1>1, <2>5, <3>2
      <3>3. QED BY <3>1, <3>2
    <2>7. \A i \in 1 .. n - 1 : next[i][2] < next[i + 1][1]
      <3> TAKE i \in 1 .. n - 1
      <3>1. i \in 1 .. n /\ i + 1 \in 1 .. n /\ i # n
        BY <1>1
      <3>2. QED BY <1>1, <2>5, <3>1
    <2>8. ASSUME NEW x \in Nat
          PROVE  x \in t \union {d} <=> Reached(next, x)
      <3>1. ASSUME NEW i \in 1 .. n, runs[i][1] <= x, x < runs[i][2]
            PROVE  Reached(next, x)
        <4>1. CASE i = n
          <5>1. next[n][1] <= x /\ x < next[n][2]
            BY <1>1, <1>4, <2>1, <2>2, <2>4, <3>1, <4>1
          <5>2. QED BY <2>1, <2>4, <5>1 DEF Reached
        <4>2. CASE i # n
          BY <2>4, <2>5, <3>1, <4>2 DEF Reached
        <4>3. QED BY <4>1, <4>2
      <3>2. ASSUME x = d
            PROVE  Reached(next, x)
        <4>1. next[n][1] <= x /\ x < next[n][2]
          BY <1>1, <1>4, <2>1, <2>2, <2>4, <3>2
        <4>2. QED BY <2>1, <2>4, <4>1 DEF Reached
      <3>3. ASSUME NEW i \in 1 .. n, next[i][1] <= x, x < next[i][2]
            PROVE  x \in t \union {d}
        <4>1. CASE i # n
          BY <1>1, <2>5, <3>3, <4>1 DEF Reached, n
        <4>2. CASE i = n
          <5>1. x < d + 1 /\ runs[n][1] <= x
            BY <2>2, <2>4, <3>3, <4>2
          <5>2. x = d \/ x < runs[n][2]
            BY <1>4, <2>1, <5>1
          <5>3. QED BY <1>1, <2>1, <5>1, <5>2 DEF Reached, n
        <4>3. QED BY <4>1, <4>2
      <3>4. QED BY <1>1, <2>4, <3>1, <3>2, <3>3 DEF Reached, n
    <2>9. QED BY <1>3, <2>4, <2>6, <2>7, <2>8 DEF RunsGood, next
  <1>5. CASE ~ (runs # << >> /\ d = Last(runs)[2])
    <2> DEFINE r == <<d, d + 1>>
    <2>1. r \in NumberPair /\ r[1] = d /\ r[2] = d + 1
      BY PairType
    <2> HIDE DEF r
    <2>2. next = Append(runs, r)
      BY <1>5 DEF Extend, r
    <2>3. n >= 1 => runs[n][2] < d
      <3> SUFFICES ASSUME n >= 1
                   PROVE  runs[n][2] < d
        OBVIOUS
      <3>1. runs # << >> /\ n \in 1 .. n
        BY <1>1, EmptySeq
      <3>2. runs[n][2] # d
        BY <1>1, <1>5, <3>1, LastIn
      <3>3. QED BY <1>1, <1>2, <3>1, <3>2
    <2> HIDE DEF next, n
    <2>4. Len(next) = n + 1 /\ next[n + 1] = r /\ \A i \in 1 .. n : next[i] = runs[i]
      BY <1>1, <2>1, <2>2, AppendProperties DEF n
    <2>5. \A i \in 1 .. n + 1 : i = n + 1 \/ i \in 1 .. n
      BY <1>1
    <2>6. \A i \in 1 .. n + 1 : next[i][1] < next[i][2]
      BY <1>1, <2>1, <2>4, <2>5
    <2>7. \A i \in 1 .. n : next[i][2] < next[i + 1][1]
      <3> TAKE i \in 1 .. n
      <3>1. CASE i = n
        <4>1. n >= 1
          BY <1>1
        <4>2. QED BY <2>1, <2>3, <2>4, <3>1, <4>1
      <3>2. CASE i # n
        <4>1. i \in 1 .. n - 1 /\ i + 1 \in 1 .. n
          BY <1>1, <3>2
        <4>2. QED BY <1>1, <2>4, <4>1
      <3>3. QED BY <3>1, <3>2
    <2>8. ASSUME NEW x \in Nat
          PROVE  x \in t \union {d} <=> Reached(next, x)
      <3>1. Reached(next, x) <=> Reached(runs, x) \/ (r[1] <= x /\ x < r[2])
        <4>1. n + 1 \in 1 .. n + 1 /\ \A i \in 1 .. n : i \in 1 .. n + 1
          BY <1>1
        <4>2. QED BY <2>4, <2>5, <4>1 DEF Reached, n
      <3>2. r[1] <= x /\ x < r[2] <=> x = d
        BY <2>1
      <3>3. QED BY <1>1, <3>1, <3>2
    <2>9. (n + 1) - 1 = n
      BY <1>1
    <2>10. QED BY <1>3, <2>4, <2>6, <2>7, <2>8, <2>9 DEF RunsGood, next
  <1>6. QED BY <1>4, <1>5

LEMMA DayRangesGood ==
    ASSUME NEW days \in SUBSET Nat, IsFiniteSet(days)
    PROVE  RunsGood(days, DayRanges(days))
  <1> DEFINE D == Seq(NumberPair)
             it == CHOOSE f : f = [s \in SUBSET days |->
                                     IF s = {} THEN << >> ELSE Extend(f[s \ {Max(s)}], Max(s))]
             next == [s \in SUBSET days |-> Max(s)]
             op == [p \in D \X days |-> Extend(p[1], p[2])]
  <1>1. DayRanges(days) = it[days]
    BY DEF DayRanges, MapThenFoldSet
  <1>2. \A s \in SUBSET days : s # {} => Max(s) \in s /\ \A x \in s : x <= Max(s)
    <2> TAKE s \in SUBSET days
    <2>1. IsFiniteSet(s)
      BY FS_Subset
    <2>2. s \in SUBSET Int
      OBVIOUS
    <2>3. QED BY <2>1, <2>2, MaxIsLargest
  <1>3. \A s \in SUBSET days : next[s] = Max(s)
    OBVIOUS
  <1>4. \A r \in D, x \in days : op[<<r, x>>] = Extend(r, x) /\ op[<<r, x>>] \in D
    BY ExtendType
  <1>5. << >> \in D
    OBVIOUS
  <1> HIDE DEF D, op, next
  <1>6. CanFold(days, D, << >>, next, op)
    BY <1>2, <1>3, <1>4, <1>5 DEF CanFold
  <1>7. PICK f \in [SUBSET days -> D] : IsFold(f, days, << >>, next, op)
    BY <1>6, FoldExists
  <1>8. ASSUME NEW s \in SUBSET days
        PROVE  f[s] = IF s = {} THEN << >> ELSE Extend(f[s \ {Max(s)}], Max(s))
    <2>1. CASE s = {}
      BY <1>7, <2>1 DEF IsFold
    <2>2. CASE s # {}
      <3>1. Max(s) \in days /\ s \ {Max(s)} \in SUBSET days
        BY <1>2, <2>2
      <3>2. f[s] = op[<<f[s \ {Max(s)}], Max(s)>>]
        BY <1>3, <1>7, <2>2 DEF IsFold
      <3>3. QED BY <1>4, <1>7, <2>2, <3>1, <3>2
    <2>3. QED BY <2>1, <2>2
  <1>9. f = [s \in SUBSET days |-> IF s = {} THEN << >> ELSE Extend(f[s \ {Max(s)}], Max(s))]
    BY <1>7, <1>8
  <1>10. it = [s \in SUBSET days |-> IF s = {} THEN << >> ELSE Extend(it[s \ {Max(s)}], Max(s))]
    BY <1>9
  <1> HIDE DEF it
  <1> DEFINE N == {k \in Nat : \A s \in SUBSET days : Cardinality(s) = k => RunsGood(s, it[s])}
  <1>11. \A s \in SUBSET days : IsFiniteSet(s) /\ Cardinality(s) \in Nat
    BY FS_Subset, FS_CardinalityType
  <1>12. 0 \in N
    <2> SUFFICES ASSUME NEW s \in SUBSET days, Cardinality(s) = 0
                 PROVE  RunsGood(s, it[s])
      OBVIOUS
    <2>1. s = {}
      BY <1>11, FS_EmptySet
    <2>2. it[s] = << >>
      BY <1>10, <2>1
    <2>3. QED BY <2>1, <2>2 DEF RunsGood, Reached
  <1>13. ASSUME NEW k \in Nat, k \in N
         PROVE  k + 1 \in N
    <2> SUFFICES ASSUME NEW s \in SUBSET days, Cardinality(s) = k + 1
                 PROVE  RunsGood(s, it[s])
      OBVIOUS
    <2>1. s # {}
      <3>1. k + 1 # 0
        OBVIOUS
      <3>2. QED BY <3>1, FS_EmptySet
    <2> DEFINE m == Max(s)
               t == s \ {m}
    <2>2. m \in s /\ \A x \in s : x <= m
      BY <1>2, <2>1
    <2>3. it[s] = Extend(it[t], m)
      BY <1>10, <2>1
    <2> HIDE DEF m
    <2>4. Cardinality(t) = k
      <3>1. Cardinality(s \ {m}) = Cardinality(s) - 1
        BY <1>11, <2>2, FS_RemoveElement
      <3>2. QED BY <3>1
    <2>5. t \in SUBSET Nat /\ m \in Nat /\ t \in SUBSET days /\ t \union {m} = s
      BY <2>2
    <2>6. \A x \in t : x < m
      BY <2>2, <2>5
    <2>7. RunsGood(t, it[t])
      BY <1>13, <2>4, <2>5
    <2> HIDE DEF t
    <2>8. RunsGood(t \union {m}, Extend(it[t], m))
      BY <2>5, <2>6, <2>7, ExtendGood
    <2>9. QED BY <2>3, <2>5, <2>8
  <1> HIDE DEF N
  <1>14. Nat \subseteq N
    BY <1>12, <1>13, Induction
  <1>15. QED BY <1>1, <1>11, <1>14 DEF N

RecentBase == << >>
RecentStep(kept, r) ==
    IF r[2] > since THEN Append(kept, <<Larger(r[1], since), r[2]>>) ELSE kept
RecentTyped == Seq(NumberPair)

LEMMA RecentType ==
    ASSUME since \in Nat, NEW d \in RecentTyped, NEW r \in NumberPair
    PROVE  RecentStep(d, r) \in RecentTyped
  <1>1. <<Larger(r[1], since), r[2]>> \in NumberPair
    BY PairType DEF Larger
  <1>2. QED BY <1>1, AppendProperties DEF RecentStep, RecentTyped

LEMMA RecentUnfold ==
    ASSUME NEW runs \in Seq(NumberPair), NEW m \in Nat, Len(runs) = m, since \in Nat
    PROVE  \E h : /\ RecentDayRanges(runs, since) = h[m]
                  /\ h[0] = RecentBase
                  /\ \A i \in 1 .. m : h[i] = RecentStep(h[i - 1], runs[i])
  <1> DEFINE n == m
             D == RecentTyped
             it == CHOOSE f : f = [s \in SUBSET DOMAIN runs |->
                                     IF s = {} THEN RecentBase ELSE RecentStep(f[s \ {Max(s)}], runs[Max(s)])]
             op == [p \in D \X (1 .. n) |-> RecentStep(p[1], runs[p[2]])]
  <1>1. n \in Nat /\ DOMAIN runs = 1 .. n /\ \A i \in 1 .. n : runs[i] \in NumberPair
    OBVIOUS
  <1>2. RecentDayRanges(runs, since) = it[DOMAIN runs]
    BY DEF RecentDayRanges, FoldLeft, MapThenFoldSet, RecentStep, RecentBase
  <1>3. \A d \in D, i \in 1 .. n : op[<<d, i>>] = RecentStep(d, runs[i]) /\ op[<<d, i>>] \in D
    BY <1>1, RecentType
  <1>4. RecentBase \in D
    BY DEF RecentBase, RecentTyped
  <1> HIDE DEF D, op, n
  <1>5. PICK f \in [SUBSET (1 .. n) -> D] : IsSequenceFold(f, n, RecentBase, op)
    BY <1>1, <1>3, <1>4, SequenceFoldExists
  <1>6. f = [s \in SUBSET DOMAIN runs |->
               IF s = {} THEN RecentBase ELSE RecentStep(f[s \ {Max(s)}], runs[Max(s)])]
    <2>1. ASSUME NEW s \in SUBSET (1 .. n)
          PROVE  f[s] = IF s = {} THEN RecentBase ELSE RecentStep(f[s \ {Max(s)}], runs[Max(s)])
      <3>1. CASE s = {}
        BY <1>5, <3>1 DEF IsSequenceFold
      <3>2. CASE s # {}
        <4>1. Max(s) \in 1 .. n /\ s \ {Max(s)} \in SUBSET (1 .. n)
          BY <1>1, <3>2, LastOfPrefix
        <4>2. f[s] = op[<<f[s \ {Max(s)}], Max(s)>>]
          BY <1>5, <3>2 DEF IsSequenceFold
        <4>3. QED BY <1>1, <1>3, <1>5, <3>2, <4>1, <4>2
      <3>3. QED BY <3>1, <3>2
    <2>2. QED BY <1>1, <2>1
  <1>7. it = [s \in SUBSET DOMAIN runs |->
                IF s = {} THEN RecentBase ELSE RecentStep(it[s \ {Max(s)}], runs[Max(s)])]
    BY <1>6
  <1> HIDE DEF it
  <1> DEFINE h == [k \in 0 .. n |-> it[1 .. k]]
  <1>8. h[0] = RecentBase
    <2>1. 1 .. 0 = {} /\ 0 \in 0 .. n
      BY <1>1
    <2>2. QED BY <1>7, <2>1
  <1>9. ASSUME NEW i \in 1 .. n
        PROVE  h[i] = RecentStep(h[i - 1], runs[i])
    <2>1. 1 .. i # {} /\ 1 .. i \in SUBSET DOMAIN runs
      <3>1. i \in 1 .. i /\ \A x \in 1 .. i : x \in 1 .. n
        BY <1>1
      <3>2. QED BY <1>1, <3>1
    <2>2. Max(1 .. i) = i /\ (1 .. i) \ {i} = 1 .. i - 1
      BY <1>1, LastOfPrefix
    <2>3. it[1 .. i] = RecentStep(it[1 .. i - 1], runs[i])
      BY <1>1, <1>7, <2>1, <2>2
    <2>4. QED BY <1>1, <2>3
  <1>10. it[DOMAIN runs] = h[n]
    BY <1>1
  <1> HIDE DEF h
  <1>11. QED BY <1>2, <1>8, <1>9, <1>10 DEF n

\* The runs 1 .. k, cut off before `since`.
RecentGood(runs, k, kept) ==
    /\ kept \in RecentTyped
    /\ \A d \in Nat : Reached(kept, d) <=>
          since <= d /\ \E i \in 1 .. k : runs[i][1] <= d /\ d < runs[i][2]
    /\ \A i \in 1 .. Len(kept) - 1 : kept[i][2] < kept[i + 1][1]
    /\ Len(kept) >= 1 => k >= 1 /\ kept[Len(kept)][2] <= runs[k][2]

LEMMA RecentStepGood ==
    ASSUME since \in Nat, NEW t, NEW runs, RunsGood(t, runs),
           NEW k \in Nat, k + 1 \in 1 .. Len(runs), NEW kept, RecentGood(runs, k, kept)
    PROVE  RecentGood(runs, k + 1, RecentStep(kept, runs[k + 1]))
  <1> DEFINE next == RecentStep(kept, runs[k + 1])
             n == Len(kept)
  <1>1. /\ runs \in Seq(NumberPair) /\ runs[k + 1] \in NumberPair
        /\ \A i \in 1 .. k + 1 : runs[i][1] \in Nat /\ runs[i][2] \in Nat /\ runs[i][1] < runs[i][2]
        /\ k >= 1 => runs[k][2] < runs[k + 1][1]
    <2>1. \A i \in 1 .. k + 1 : i \in 1 .. Len(runs)
      BY LenProperties DEF RunsGood
    <2>2. k >= 1 => k \in 1 .. Len(runs) - 1
      BY LenProperties DEF RunsGood
    <2>3. QED BY <2>1, <2>2, PairType, ElementOfSeq DEF RunsGood
  <1>2. /\ kept \in Seq(NumberPair) /\ n \in Nat
        /\ \A i \in 1 .. n : kept[i][1] \in Nat /\ kept[i][2] \in Nat
        /\ \A d \in Nat : Reached(kept, d) <=>
              since <= d /\ \E i \in 1 .. k : runs[i][1] <= d /\ d < runs[i][2]
        /\ \A i \in 1 .. n - 1 : kept[i][2] < kept[i + 1][1]
        /\ n >= 1 => k >= 1 /\ kept[n][2] <= runs[k][2]
    BY PairType, ElementOfSeq, LenProperties DEF RecentGood, RecentTyped
  <1>3. next \in RecentTyped
    BY <1>1, <1>2, RecentType DEF RecentTyped
  <1>4. \A i \in 1 .. k + 1 : i = k + 1 \/ i \in 1 .. k
    OBVIOUS
  <1>5. k + 1 \in 1 .. k + 1 /\ \A i \in 1 .. k : i \in 1 .. k + 1
    OBVIOUS
  <1>6. CASE runs[k + 1][2] > since
    <2> DEFINE r == <<Larger(runs[k + 1][1], since), runs[k + 1][2]>>
    <2>1. /\ r \in NumberPair /\ r[2] = runs[k + 1][2] /\ r[1] \in Nat
          /\ r[1] >= runs[k + 1][1] /\ r[1] >= since
          /\ r[1] = runs[k + 1][1] \/ r[1] = since
      BY <1>1, <1>5, PairType DEF Larger
    <2> HIDE DEF r
    <2>2. next = Append(kept, r)
      BY <1>6 DEF RecentStep, r
    <2> HIDE DEF next, n
    <2>3. Len(next) = n + 1 /\ next[n + 1] = r /\ \A i \in 1 .. n : next[i] = kept[i]
      BY <1>2, <2>1, <2>2, AppendProperties DEF n
    <2>4. \A i \in 1 .. n : next[i][2] < next[i + 1][1]
      <3> TAKE i \in 1 .. n
      <3>1. CASE i = n
        <4>1. n >= 1 /\ k >= 1 /\ kept[n][2] \in Nat /\ k \in 1 .. k + 1
          BY <1>2, <3>1
        <4>2. QED BY <1>1, <1>2, <1>5, <2>1, <2>3, <3>1, <4>1
      <3>2. CASE i # n
        <4>1. i \in 1 .. n - 1 /\ i + 1 \in 1 .. n
          BY <1>2, <3>2
        <4>2. QED BY <1>2, <2>3, <4>1
      <3>3. QED BY <3>1, <3>2
    <2>5. ASSUME NEW x \in Nat
          PROVE  Reached(next, x) <=>
                    since <= x /\ \E i \in 1 .. k + 1 : runs[i][1] <= x /\ x < runs[i][2]
      <3>1. Reached(next, x) <=> Reached(kept, x) \/ (r[1] <= x /\ x < r[2])
        <4>1. n + 1 \in 1 .. n + 1 /\ \A i \in 1 .. n : i \in 1 .. n + 1
          BY <1>2
        <4>2. \A i \in 1 .. n + 1 : i = n + 1 \/ i \in 1 .. n
          BY <1>2
        <4>3. QED BY <2>3, <4>1, <4>2 DEF Reached, n
      <3>2. r[1] <= x /\ x < r[2] <=> since <= x /\ runs[k + 1][1] <= x /\ x < runs[k + 1][2]
        BY <1>1, <1>5, <2>1
      <3>3. QED BY <1>2, <1>4, <1>5, <3>1, <3>2
    <2>6. (n + 1) - 1 = n /\ k + 1 >= 1 /\ next[n + 1][2] <= runs[k + 1][2]
      BY <1>1, <1>2, <1>5, <2>1, <2>3
    <2>7. QED BY <1>3, <2>3, <2>4, <2>5, <2>6 DEF RecentGood, next
  <1>7. CASE ~ (runs[k + 1][2] > since)
    <2>1. next = kept
      BY <1>7 DEF RecentStep
    <2>2. \A x \in Nat : since <= x => ~ (x < runs[k + 1][2])
      BY <1>1, <1>5, <1>7
    <2>3. n >= 1 => kept[n][2] <= runs[k + 1][2]
      <3> SUFFICES ASSUME n >= 1
                   PROVE  kept[n][2] <= runs[k + 1][2]
        OBVIOUS
      <3>1. k \in 1 .. k + 1 /\ n \in 1 .. n
        BY <1>2
      <3>2. QED BY <1>1, <1>2, <1>5, <3>1
    <2> HIDE DEF next
    <2>4. \A x \in Nat : (\E i \in 1 .. k + 1 : runs[i][1] <= x /\ x < runs[i][2]) <=>
             (\E i \in 1 .. k : runs[i][1] <= x /\ x < runs[i][2])
             \/ (runs[k + 1][1] <= x /\ x < runs[k + 1][2])
      BY <1>4, <1>5
    <2>5. QED BY <1>2, <1>3, <2>1, <2>2, <2>3, <2>4 DEF RecentGood, next
  <1>8. QED BY <1>6, <1>7

LEMMA NewsIsAsked == ASSUME RepairPlansTyped PROVE NewsAsksExactly
  <1> DEFINE runs == DayRanges(daysOff)
             kept == RecentDayRanges(runs, since)
             m == Len(runs)
             n == Len(kept)
  <1>0. since \in Nat /\ daysOff \in SUBSET Nat /\ IsFiniteSet(daysOff) /\ daysOff \subseteq 1 .. PlanDays
        /\ PlanDays \in Nat
    <2>1. PlanDays \in Nat /\ daysOff \in SUBSET (1 .. PlanDays) /\ since \in Nat
      BY RepairPlansAssumption DEF RepairPlansTyped
    <2>2. IsFiniteSet(1 .. PlanDays)
      BY <2>1, FS_Interval
    <2>4. IsFiniteSet(daysOff)
      BY <2>1, <2>2, FS_Subset
    <2>3. QED BY <2>1, <2>4
  <1>1. RunsGood(daysOff, runs)
    BY <1>0, DayRangesGood
  <1> HIDE DEF runs
  <1>2. runs \in Seq(NumberPair) /\ m \in Nat
    BY <1>1, LenProperties DEF RunsGood
  <1>3. PICK h : /\ kept = h[m]
                 /\ h[0] = RecentBase
                 /\ \A i \in 1 .. m : h[i] = RecentStep(h[i - 1], runs[i])
    BY <1>0, <1>2, RecentUnfold
  <1> HIDE DEF kept
  <1> DEFINE N == {k \in Nat : k <= m => RecentGood(runs, k, h[k])}
  <1>4. 0 \in N
    <2>1. RecentBase \in Seq(NumberPair) /\ Len(RecentBase) = 0
      BY DEF RecentBase
    <2>2. RecentGood(runs, 0, RecentBase)
      BY <2>1 DEF RecentGood, RecentTyped, Reached
    <2>3. QED BY <1>3, <2>2
  <1>5. ASSUME NEW k \in Nat, k \in N
        PROVE  k + 1 \in N
    <2> SUFFICES ASSUME k + 1 <= m
                 PROVE  RecentGood(runs, k + 1, h[k + 1])
      OBVIOUS
    <2>1. k + 1 \in 1 .. Len(runs) /\ (k + 1) - 1 = k /\ k <= m
      BY <1>2
    <2>2. h[k + 1] = RecentStep(h[k], runs[k + 1]) /\ RecentGood(runs, k, h[k])
      BY <1>3, <1>5, <2>1
    <2>3. QED BY <1>0, <1>1, <2>1, <2>2, RecentStepGood
  <1> HIDE DEF N
  <1>6. RecentGood(runs, m, kept)
    <2>1. Nat \subseteq N
      BY <1>4, <1>5, Induction
    <2>2. QED BY <1>2, <1>3, <2>1 DEF N
  <1>7. kept \in Seq(NumberPair) /\ n \in Nat
    BY <1>6, LenProperties DEF RecentGood, RecentTyped
  <1>8. NewsCalls = [i \in 1 .. n |-> kept[(n - i) + 1]]
    BY DEF NewsCalls, Reverse, runs, kept
  <1>9. Len(NewsCalls) = n /\ DOMAIN NewsCalls = 1 .. n
    BY <1>7, <1>8
  <1> HIDE DEF n, m
  <1>10. \A i \in 1 .. n : NewsCalls[i] = kept[(n - i) + 1] /\ (n - i) + 1 \in 1 .. n
    BY <1>7, <1>8
  <1>11. \A i \in 1 .. n - 1 : NewsCalls[i + 1][2] < NewsCalls[i][1]
    <2> TAKE i \in 1 .. n - 1
    <2>1. /\ i \in 1 .. n /\ i + 1 \in 1 .. n /\ n - i \in 1 .. n - 1
          /\ (n - (i + 1)) + 1 = n - i
      BY <1>7
    <2>2. NewsCalls[i + 1] = kept[n - i] /\ NewsCalls[i] = kept[(n - i) + 1]
      BY <1>10, <2>1
    <2>3. kept[n - i][2] < kept[(n - i) + 1][1]
      BY <1>6, <2>1 DEF RecentGood, n
    <2>4. QED BY <2>2, <2>3
  <1>12. ASSUME NEW d \in 1 .. PlanDays
         PROVE  (\E r \in ToSet(NewsCalls) : r[1] <= d /\ d < r[2]) <=> d \in daysOff /\ d >= since
    <2>1. d \in Nat /\ (d >= since <=> since <= d)
      BY <1>0
    <2>2. (\E r \in ToSet(NewsCalls) : r[1] <= d /\ d < r[2]) <=> Reached(kept, d)
      <3>1. \A r \in ToSet(NewsCalls) : \E i \in 1 .. n : r = kept[i]
        <4> TAKE r \in ToSet(NewsCalls)
        <4>1. PICK i \in 1 .. n : r = NewsCalls[i]
          BY <1>9 DEF ToSet
        <4>2. r = kept[(n - i) + 1] /\ (n - i) + 1 \in 1 .. n
          BY <1>10, <4>1
        <4>3. QED BY <4>2
      <3>2. \A i \in 1 .. n : kept[i] \in ToSet(NewsCalls)
        <4> TAKE i \in 1 .. n
        <4>1. (n - i) + 1 \in 1 .. n /\ (n - ((n - i) + 1)) + 1 = i
          BY <1>7
        <4>2. NewsCalls[(n - i) + 1] = kept[i]
          BY <1>10, <4>1
        <4>3. QED BY <1>9, <4>1, <4>2 DEF ToSet
      <3>3. QED BY <3>1, <3>2 DEF Reached, n
    <2>3. Reached(runs, d) <=> \E i \in 1 .. m : runs[i][1] <= d /\ d < runs[i][2]
      BY DEF Reached, m
    <2>4. Reached(kept, d) <=> since <= d /\ Reached(runs, d)
      BY <1>6, <2>1, <2>3 DEF RecentGood
    <2>5. d \in daysOff <=> Reached(runs, d)
      BY <1>1, <2>1 DEF RunsGood
    <2>6. QED BY <2>1, <2>2, <2>4, <2>5
  <1>13. {d \in 1 .. PlanDays : \E r \in ToSet(NewsCalls) : r[1] <= d /\ d < r[2]}
           = {d \in daysOff : d >= since}
    BY <1>0, <1>12
  <1>14. QED BY <1>9, <1>11, <1>13 DEF NewsAsksExactly
-----------------------------------------------------------------------------
(* The ranges of candles the market repair asks for. *)

\* The calls hold the ranges s and, besides, only what is between two of them that
\* are nearer than j; two calls are j apart.
CallsGood(s, c, j) ==
    /\ c \in Seq(NumberPair)
    /\ \A x \in Nat : (\E r \in s : r[1] <= x /\ x < r[2]) => Reached(c, x)
    /\ \A x \in Nat : Reached(c, x) =>
          \/ \E r \in s : r[1] <= x /\ x < r[2]
          \/ \E r, q \in s : r[2] <= x /\ x < q[1] /\ q[1] - r[2] < j
    /\ \A i \in 1 .. Len(c) - 1 : c[i + 1][1] - c[i][2] >= j
    /\ c # << >> => /\ \E r \in s : r[1] = c[Len(c)][1]
                    /\ \E r \in s : r[2] = c[Len(c)][2]

LEMMA JoinType ==
    ASSUME NEW c \in Seq(NumberPair), NEW r \in NumberPair, NEW j \in Nat
    PROVE  Join(c, r, j) \in Seq(NumberPair)
  <1>1. CASE c # << >> /\ r[1] - Last(c)[2] < j
    <2>1. <<Last(c)[1], Larger(Last(c)[2], r[2])>> \in NumberPair
      BY <1>1, LastIn, PairType DEF Larger
    <2>2. QED BY <1>1, <2>1, ReplaceLast DEF Join
  <1>2. CASE ~ (c # << >> /\ r[1] - Last(c)[2] < j)
    BY <1>2, AppendProperties DEF Join
  <1>3. QED BY <1>1, <1>2

LEMMA JoinGood ==
    ASSUME NEW s \in SUBSET NumberPair, NEW r \in NumberPair, r[1] < r[2],
           \A q \in s : q[1] <= r[1],
           NEW j \in Nat, NEW c, CallsGood(s, c, j)
    PROVE  CallsGood(s \union {r}, Join(c, r, j), j)
  <1> DEFINE next == Join(c, r, j)
             n == Len(c)
             R == s \union {r}
             In(S, x) == \E q \in S : q[1] <= x /\ x < q[2]
             Between(S, x) == \E p, q \in S : p[2] <= x /\ x < q[1] /\ q[1] - p[2] < j
  <1>1. /\ c \in Seq(NumberPair) /\ n \in Nat
        /\ \A i \in 1 .. n : c[i] \in NumberPair /\ c[i][1] \in Nat /\ c[i][2] \in Nat
        /\ \A x \in Nat : In(s, x) => Reached(c, x)
        /\ \A x \in Nat : Reached(c, x) => In(s, x) \/ Between(s, x)
        /\ \A i \in 1 .. n - 1 : c[i + 1][1] - c[i][2] >= j
    BY PairType, ElementOfSeq, LenProperties DEF CallsGood
  <1>2. \A q \in R : q \in NumberPair /\ q[1] \in Nat /\ q[2] \in Nat
    BY PairType
  <1>3. r \in R /\ r[1] \in Nat /\ r[2] \in Nat /\ \A q \in s : q \in R
    BY <1>2
  <1>4. next \in Seq(NumberPair)
    BY <1>1, JoinType
  <1>5. \A x \in Nat : /\ In(R, x) <=> In(s, x) \/ (r[1] <= x /\ x < r[2])
                       /\ Between(s, x) => Between(R, x)
    BY <1>3
  <1>6. CASE c # << >> /\ r[1] - Last(c)[2] < j
    <2>1. n \in Nat \ {0} /\ Last(c) = c[n] /\ n \in 1 .. n
      BY <1>1, <1>6, LastIn
    <2> DEFINE e == <<c[n][1], Larger(c[n][2], r[2])>>
    <2>2. /\ e \in NumberPair /\ e[1] = c[n][1] /\ e[2] \in Nat
          /\ e[2] >= c[n][2] /\ e[2] >= r[2] /\ (e[2] = c[n][2] \/ e[2] = r[2])
      BY <1>1, <1>3, <2>1, PairType DEF Larger
    <2>3. PICK p \in s, q \in s : p[1] = c[n][1] /\ q[2] = c[n][2]
      BY <1>6 DEF CallsGood
    <2> HIDE DEF e
    <2>4. next = Append(Front(c), e)
      BY <1>6, <2>1 DEF Join, e
    <2> HIDE DEF next, n, In, Between
    <2>5. Len(next) = n /\ next[n] = e /\ \A i \in 1 .. n - 1 : next[i] = c[i]
      BY <1>1, <1>6, <2>2, <2>4, ReplaceLast DEF n
    <2>6. \A i \in 1 .. n : next[i][1] = c[i][1] /\ (i # n => next[i][2] = c[i][2])
      <3> TAKE i \in 1 .. n
      <3>1. i = n \/ i \in 1 .. n - 1
        BY <1>1
      <3>2. QED BY <2>2, <2>5, <3>1
    <2>7. \A i \in 1 .. n - 1 : next[i + 1][1] - next[i][2] >= j
      <3> TAKE i \in 1 .. n - 1
      <3>1. i \in 1 .. n /\ i + 1 \in 1 .. n /\ i # n
        BY <1>1
      <3>2. QED BY <1>1, <2>6, <3>1
    <2>8. c[n][1] <= r[1] /\ c[n] \in NumberPair /\ c[n][1] \in Nat /\ c[n][2] \in Nat
          /\ r[1] - c[n][2] < j
      BY <1>1, <1>6, <2>1, <2>3
    <2>9. ASSUME NEW x \in Nat
          PROVE  Reached(next, x) <=> Reached(c, x) \/ (e[1] <= x /\ x < e[2])
      <3>1. ASSUME NEW i \in 1 .. n, c[i][1] <= x, x < c[i][2]
            PROVE  Reached(next, x)
        <4>1. CASE i = n
          <5>1. next[n][1] <= x /\ x < next[n][2]
            BY <2>2, <2>5, <2>8, <3>1, <4>1
          <5>2. QED BY <2>1, <2>5, <5>1 DEF Reached
        <4>2. CASE i # n
          BY <2>5, <2>6, <3>1, <4>2 DEF Reached
        <4>3. QED BY <4>1, <4>2
      <3>2. ASSUME e[1] <= x, x < e[2]
            PROVE  Reached(next, x)
        BY <2>1, <2>5, <3>2 DEF Reached
      <3>3. ASSUME NEW i \in 1 .. n, next[i][1] <= x, x < next[i][2]
            PROVE  Reached(c, x) \/ (e[1] <= x /\ x < e[2])
        <4>1. CASE i = n
          BY <2>5, <3>3, <4>1
        <4>2. CASE i # n
          BY <2>6, <3>3, <4>2 DEF Reached, n
        <4>3. QED BY <4>1, <4>2
      <3>4. QED BY <2>5, <3>1, <3>2, <3>3 DEF Reached, n
    <2>10. ASSUME NEW x \in Nat, In(R, x)
           PROVE  Reached(next, x)
      <3>1. CASE In(s, x)
        BY <1>1, <2>9, <3>1
      <3>2. CASE r[1] <= x /\ x < r[2]
        <4>1. e[1] <= x /\ x < e[2]
          BY <1>3, <2>2, <2>8, <3>2
        <4>2. QED BY <2>9, <4>1
      <3>3. QED BY <1>5, <2>10, <3>1, <3>2
    <2>11. ASSUME NEW x \in Nat, Reached(next, x)
           PROVE  In(R, x) \/ Between(R, x)
      <3>1. CASE Reached(c, x)
        BY <1>1, <1>5, <3>1
      <3>2. CASE ~ Reached(c, x) /\ e[1] <= x /\ x < e[2]
        <4>1. c[n][2] <= x
          <5>1. ~ (c[n][1] <= x /\ x < c[n][2])
            BY <2>1, <3>2 DEF Reached, n
          <5>2. QED BY <2>2, <2>8, <3>2, <5>1
        <4>2. x < r[2]
          BY <2>2, <2>8, <3>2, <4>1
        <4>3. CASE r[1] <= x
          BY <1>5, <4>2, <4>3
        <4>4. CASE ~ (r[1] <= x)
          <5>1. q[2] <= x /\ x < r[1] /\ r[1] - q[2] < j
            BY <1>3, <2>3, <2>8, <4>1, <4>4
          <5>2. q \in R
            BY <1>3
          <5>3. QED BY <1>3, <5>1, <5>2 DEF Between
        <4>5. QED BY <4>3, <4>4
      <3>3. QED BY <2>9, <2>11, <3>1, <3>2
    <2>12. (\E x \in R : x[1] = next[n][1]) /\ (\E x \in R : x[2] = next[n][2])
      BY <1>3, <2>2, <2>3, <2>5
    <2>13. QED BY <1>4, <2>5, <2>7, <2>10, <2>11, <2>12 DEF CallsGood, next, In, Between
  <1>7. CASE ~ (c # << >> /\ r[1] - Last(c)[2] < j)
    <2>1. next = Append(c, r)
      BY <1>7 DEF Join
    <2>2. n >= 1 => r[1] - c[n][2] >= j
      <3> SUFFICES ASSUME n >= 1
                   PROVE  r[1] - c[n][2] >= j
        OBVIOUS
      <3>1. c # << >> /\ n \in 1 .. n
        BY <1>1, EmptySeq
      <3>2. ~ (r[1] - c[n][2] < j) /\ c[n][2] \in Nat
        BY <1>1, <1>7, <3>1, LastIn
      <3>3. QED BY <1>3, <3>2
    <2> HIDE DEF next, n, In, Between
    <2>3. Len(next) = n + 1 /\ next[n + 1] = r /\ \A i \in 1 .. n : next[i] = c[i]
      BY <1>1, <2>1, AppendProperties DEF n
    <2>4. \A i \in 1 .. n : next[i + 1][1] - next[i][2] >= j
      <3> TAKE i \in 1 .. n
      <3>1. CASE i = n
        <4>1. n >= 1
          BY <1>1
        <4>2. QED BY <2>2, <2>3, <3>1, <4>1
      <3>2. CASE i # n
        <4>1. i \in 1 .. n - 1 /\ i + 1 \in 1 .. n
          BY <1>1, <3>2
        <4>2. QED BY <1>1, <2>3, <4>1
      <3>3. QED BY <3>1, <3>2
    <2>5. ASSUME NEW x \in Nat
          PROVE  Reached(next, x) <=> Reached(c, x) \/ (r[1] <= x /\ x < r[2])
      <3>1. n + 1 \in 1 .. n + 1 /\ \A i \in 1 .. n : i \in 1 .. n + 1
        BY <1>1
      <3>2. \A i \in 1 .. n + 1 : i = n + 1 \/ i \in 1 .. n
        BY <1>1
      <3>3. QED BY <2>3, <3>1, <3>2 DEF Reached, n
    <2>6. \A x \in Nat : In(R, x) => Reached(next, x)
      BY <1>1, <1>5, <2>5
    <2>7. \A x \in Nat : Reached(next, x) => In(R, x) \/ Between(R, x)
      BY <1>1, <1>5, <2>5
    <2>8. (n + 1) - 1 = n
      BY <1>1
    <2>9. (\E x \in R : x[1] = next[n + 1][1]) /\ (\E x \in R : x[2] = next[n + 1][2])
      BY <1>3, <2>3
    <2>10. QED BY <1>4, <2>3, <2>4, <2>6, <2>7, <2>8, <2>9 DEF CallsGood, next, In, Between
  <1>8. QED BY <1>6, <1>7

\* The order of the ranges has a last one in a finite set.
LEMMA LastStart ==
    ASSUME NEW S \in SUBSET NumberPair, IsFiniteSet(S), S # {}
    PROVE  LastToStart(S) \in S /\ \A q \in S : q[1] <= LastToStart(S)[1]
  <1> DEFINE order == {p \in S \X S : Starts(p[1], p[2])}
  <1>1. \A q, r \in S : <<q, r>> \in order <=> Starts(q, r)
    OBVIOUS
  <1>2. \A q \in S : q[1] \in Nat /\ q[2] \in Nat
    BY PairType
  <1>3. \A q, r \in S : Starts(q, r) \/ Starts(r, q)
    BY <1>2 DEF Starts
  <1>4. \A p, q, r \in S : Starts(p, q) /\ Starts(q, r) => Starts(p, r)
    BY <1>2 DEF Starts
  <1> HIDE DEF order
  <1>5. \E r \in S : \A q \in S : <<q, r>> \in order
    BY <1>1, <1>3, <1>4, LastInOrder
  <1>6. \E r \in S : \A q \in S : Starts(q, r)
    BY <1>1, <1>5
  <1>7. LastToStart(S) \in S /\ \A q \in S : Starts(q, LastToStart(S))
    BY <1>6 DEF LastToStart
  <1>8. QED BY <1>2, <1>7 DEF Starts

LEMMA CoalesceGood ==
    ASSUME NEW S \in SUBSET NumberPair, IsFiniteSet(S), \A r \in S : r[1] < r[2], NEW j \in Nat
    PROVE  CallsGood(S, Coalesce(S, j), j)
  <1> DEFINE D == Seq(NumberPair)
             it == CHOOSE f : f = [s \in SUBSET S |->
                                     IF s = {} THEN << >>
                                     ELSE Join(f[s \ {LastToStart(s)}], LastToStart(s), j)]
             next == [s \in SUBSET S |-> LastToStart(s)]
             op == [p \in D \X S |-> Join(p[1], p[2], j)]
  <1>1. Coalesce(S, j) = it[S]
    BY DEF Coalesce, MapThenFoldSet
  <1>2. \A s \in SUBSET S : s # {} => LastToStart(s) \in s /\ \A x \in s : x[1] <= LastToStart(s)[1]
    <2> TAKE s \in SUBSET S
    <2>1. IsFiniteSet(s)
      BY FS_Subset
    <2>2. s \in SUBSET NumberPair
      OBVIOUS
    <2>3. QED BY <2>1, <2>2, LastStart
  <1>3. \A s \in SUBSET S : next[s] = LastToStart(s)
    OBVIOUS
  <1>4. \A c \in D, r \in S : op[<<c, r>>] = Join(c, r, j) /\ op[<<c, r>>] \in D
    BY JoinType
  <1>5. << >> \in D
    OBVIOUS
  <1> HIDE DEF D, op, next
  <1>6. CanFold(S, D, << >>, next, op)
    BY <1>2, <1>3, <1>4, <1>5 DEF CanFold
  <1>7. PICK f \in [SUBSET S -> D] : IsFold(f, S, << >>, next, op)
    BY <1>6, FoldExists
  <1>8. ASSUME NEW s \in SUBSET S
        PROVE  f[s] = IF s = {} THEN << >> ELSE Join(f[s \ {LastToStart(s)}], LastToStart(s), j)
    <2>1. CASE s = {}
      BY <1>7, <2>1 DEF IsFold
    <2>2. CASE s # {}
      <3>1. LastToStart(s) \in S /\ s \ {LastToStart(s)} \in SUBSET S
        BY <1>2, <2>2
      <3>2. f[s] = op[<<f[s \ {LastToStart(s)}], LastToStart(s)>>]
        BY <1>3, <1>7, <2>2 DEF IsFold
      <3>3. QED BY <1>4, <1>7, <2>2, <3>1, <3>2
    <2>3. QED BY <2>1, <2>2
  <1>9. f = [s \in SUBSET S |->
               IF s = {} THEN << >> ELSE Join(f[s \ {LastToStart(s)}], LastToStart(s), j)]
    BY <1>7, <1>8
  <1>10. it = [s \in SUBSET S |->
                 IF s = {} THEN << >> ELSE Join(it[s \ {LastToStart(s)}], LastToStart(s), j)]
    BY <1>9
  <1> HIDE DEF it
  <1> DEFINE N == {k \in Nat : \A s \in SUBSET S : Cardinality(s) = k => CallsGood(s, it[s], j)}
  <1>11. \A s \in SUBSET S : IsFiniteSet(s) /\ Cardinality(s) \in Nat
    BY FS_Subset, FS_CardinalityType
  <1>12. 0 \in N
    <2> SUFFICES ASSUME NEW s \in SUBSET S, Cardinality(s) = 0
                 PROVE  CallsGood(s, it[s], j)
      OBVIOUS
    <2>1. s = {}
      BY <1>11, FS_EmptySet
    <2>2. it[s] = << >>
      BY <1>10, <2>1
    <2>3. QED BY <2>1, <2>2 DEF CallsGood, Reached
  <1>13. ASSUME NEW k \in Nat, k \in N
         PROVE  k + 1 \in N
    <2> SUFFICES ASSUME NEW s \in SUBSET S, Cardinality(s) = k + 1
                 PROVE  CallsGood(s, it[s], j)
      OBVIOUS
    <2>1. s # {}
      <3>1. k + 1 # 0
        OBVIOUS
      <3>2. QED BY <3>1, FS_EmptySet
    <2> DEFINE r == LastToStart(s)
               t == s \ {r}
    <2>2. r \in s /\ \A x \in s : x[1] <= r[1]
      BY <1>2, <2>1
    <2>3. it[s] = Join(it[t], r, j)
      BY <1>10, <2>1
    <2> HIDE DEF r
    <2>4. Cardinality(t) = k
      <3>1. Cardinality(s \ {r}) = Cardinality(s) - 1
        BY <1>11, <2>2, FS_RemoveElement
      <3>2. QED BY <3>1
    <2>5. t \in SUBSET NumberPair /\ r \in NumberPair /\ r[1] < r[2] /\ t \in SUBSET S /\ t \union {r} = s
      BY <2>2
    <2>6. \A x \in t : x[1] <= r[1]
      BY <2>2
    <2>7. CallsGood(t, it[t], j)
      BY <1>13, <2>4, <2>5
    <2> HIDE DEF t
    <2>8. CallsGood(t \union {r}, Join(it[t], r, j), j)
      BY <2>5, <2>6, <2>7, JoinGood
    <2>9. QED BY <2>3, <2>5, <2>8
  <1> HIDE DEF N
  <1>14. Nat \subseteq N
    BY <1>12, <1>13, Induction
  <1>15. QED BY <1>1, <1>11, <1>14 DEF N

\* Minutes without candles, u up to before v, between two candles or an end.
Gap(u, v) ==
    /\ u \in 1 .. PlanMinutes /\ v \in 2 .. PlanMinutes + 1 /\ u < v
    /\ \A m \in Nat : u <= m /\ m < v => m \notin candles
    /\ u = 1 \/ u - 1 \in candles
    /\ v = PlanMinutes + 1 \/ v \in candles

\* Only the last minute, behind a candle, is within the grace.
Late(u) == candles # {} /\ u = PlanMinutes

RangeOf(u, v) == <<2 * u, IF v = PlanMinutes + 1 THEN 2 * PlanMinutes + 3 ELSE 2 * v>>

LEMMA Planned ==
    ASSUME RepairPlansTyped
    PROVE  /\ PlanMinutes \in Nat \ {0} /\ JoinMinutes \in Nat
           /\ candles \in SUBSET Nat /\ \A m \in candles : 1 <= m /\ m <= PlanMinutes
           /\ IsFiniteSet(candles)
  <1>1. PlanMinutes \in Nat \ {0} /\ JoinMinutes \in Nat /\ candles \in SUBSET (1 .. PlanMinutes)
    BY RepairPlansAssumption DEF RepairPlansTyped
  <1>2. IsFiniteSet(1 .. PlanMinutes)
    BY <1>1, FS_Interval
  <1>3. IsFiniteSet(candles)
    BY <1>1, <1>2, FS_Subset
  <1>4. QED BY <1>1, <1>3

LEMMA RangeOfType ==
    ASSUME RepairPlansTyped, NEW u \in Nat, NEW v \in Nat, Gap(u, v)
    PROVE  /\ RangeOf(u, v) \in NumberPair
           /\ RangeOf(u, v)[1] = 2 * u
           /\ RangeOf(u, v)[2] = IF v = PlanMinutes + 1 THEN 2 * PlanMinutes + 3 ELSE 2 * v
           /\ RangeOf(u, v)[1] < RangeOf(u, v)[2]
           /\ (RangeOf(u, v)[2] - RangeOf(u, v)[1]) \div Minute = v - u
           /\ \A m \in Nat : m <= PlanMinutes =>
                 (RangeOf(u, v)[1] <= 2 * m /\ 2 * m < RangeOf(u, v)[2] <=> u <= m /\ m < v)
  <1> DEFINE e == IF v = PlanMinutes + 1 THEN 2 * PlanMinutes + 3 ELSE 2 * v
  <1>1. PlanMinutes \in Nat \ {0} /\ 2 * u \in Nat /\ e \in Nat /\ u < v
    BY Planned DEF Gap
  <1>2. 2 * u < e /\ (e - 2 * u) \div 2 = v - u
    BY <1>1
  <1>3. \A m \in Nat : m <= PlanMinutes => (2 * u <= 2 * m /\ 2 * m < e <=> u <= m /\ m < v)
    BY <1>1
  <1>4. RangeOf(u, v) = <<2 * u, e>>
    BY DEF RangeOf
  <1> HIDE DEF e
  <1>5. RangeOf(u, v) \in NumberPair /\ RangeOf(u, v)[1] = 2 * u /\ RangeOf(u, v)[2] = e
    BY <1>1, <1>4, PairType
  <1>6. QED BY <1>1, <1>2, <1>3, <1>5 DEF e, Minute

\* Every missing minute is in a gap, and gaps do not touch.
LEMMA GapAround ==
    ASSUME RepairPlansTyped, NEW m \in 1 .. PlanMinutes, m \notin candles
    PROVE  \E u, v \in Nat : Gap(u, v) /\ u <= m /\ m < v
  <1> DEFINE below == {c \in candles : c < m} \union {0}
             above == {c \in candles : c > m} \union {PlanMinutes + 1}
  <1>1. /\ PlanMinutes \in Nat \ {0} /\ m \in Nat
        /\ candles \in SUBSET Nat /\ \A c \in candles : 1 <= c /\ c <= PlanMinutes
        /\ IsFiniteSet(candles)
    BY Planned
  <1>2. \A x : IsFiniteSet({x})
    BY FS_Singleton
  <1>3. IsFiniteSet({c \in candles : c < m}) /\ IsFiniteSet({c \in candles : c > m})
    BY <1>1, FS_Subset
  <1>4. IsFiniteSet(below) /\ IsFiniteSet(above)
    BY <1>2, <1>3, FS_Union
  <1>5. below \in SUBSET Int /\ above \in SUBSET Int /\ below # {} /\ above # {}
    <2>1. 0 \in Int /\ PlanMinutes + 1 \in Int /\ \A c \in candles : c \in Int
      BY <1>1
    <2>2. QED BY <2>1
  <1>6. PICK b \in below : \A x \in below : x <= b
    <2> HIDE DEF below
    <2>1. QED BY <1>4, <1>5, LargestMember
  <1>7. PICK v \in above : \A x \in above : v <= x
    <2> HIDE DEF above
    <2>1. QED BY <1>4, <1>5, LeastMember
  <1>8. b \in Nat /\ b < m /\ (b = 0 \/ b \in candles) /\ v \in Nat /\ m < v
        /\ (v = PlanMinutes + 1 \/ v \in candles) /\ v <= PlanMinutes + 1
    BY <1>1, <1>7
  <1>9. \A x \in Nat : b + 1 <= x /\ x < v => x \notin candles
    <2> SUFFICES ASSUME NEW x \in Nat, b + 1 <= x, x < v, x \in candles
                 PROVE  FALSE
      OBVIOUS
    <2>1. x # m
      OBVIOUS
    <2>2. x < m => x \in below
      OBVIOUS
    <2>3. x > m => x \in above
      OBVIOUS
    <2> HIDE DEF below, above
    <2>4. QED BY <1>1, <1>6, <1>7, <1>8, <2>1, <2>2, <2>3
  <1>10. Gap(b + 1, v) /\ b + 1 <= m /\ b + 1 \in Nat
    <2>1. b + 1 \in 1 .. PlanMinutes /\ v \in 2 .. PlanMinutes + 1 /\ b + 1 < v /\ (b + 1) - 1 = b
          /\ b + 1 \in Nat /\ b + 1 <= m
      BY <1>1, <1>8
    <2>2. QED BY <1>8, <1>9, <2>1 DEF Gap
  <1>11. QED BY <1>8, <1>10

LEMMA GapsApart ==
    ASSUME RepairPlansTyped, NEW u \in Nat, NEW v \in Nat, NEW x \in Nat, NEW y \in Nat,
           Gap(u, v), Gap(x, y), NEW m \in Nat, u <= m, m < v, x <= m, m < y
    PROVE  u = x /\ v = y
  <1>0. PlanMinutes \in Nat \ {0} /\ \A c \in candles : c \in Nat
    BY Planned
  <1>1. ASSUME NEW a \in Nat, NEW b \in Nat, NEW c \in Nat, NEW d \in Nat, Gap(a, b), Gap(c, d),
               a <= m, m < b, c <= m, m < d
        PROVE  a >= c /\ b <= d
    <2>1. ~ (a < c)
      <3> SUFFICES ASSUME a < c
                   PROVE  FALSE
        OBVIOUS
      <3>1. c - 1 \in candles /\ c - 1 \in Nat /\ a <= c - 1 /\ c - 1 < b
        BY <1>1 DEF Gap
      <3>2. QED BY <1>1, <3>1 DEF Gap
    <2>2. ~ (d < b)
      <3> SUFFICES ASSUME d < b
                   PROVE  FALSE
        OBVIOUS
      <3>1. d \in candles /\ a <= d
        BY <1>0, <1>1 DEF Gap
      <3>2. QED BY <1>1, <3>1 DEF Gap
    <2>3. QED BY <2>1, <2>2
  <1>2. QED BY <1>1

LEMMA Candles ==
    ASSUME RepairPlansTyped, candles # {}
    PROVE  LET T == {Minute * m : m \in candles}
           IN  \E a, b \in candles : /\ Min(T) = 2 * a /\ Max(T) = 2 * b
                                     /\ \A m \in candles : a <= m /\ m <= b
  <1> DEFINE T == {Minute * m : m \in candles}
  <1>1. /\ PlanMinutes \in Nat \ {0} /\ candles \in SUBSET Nat
        /\ \A c \in candles : 1 <= c /\ c <= PlanMinutes
    BY Planned
  <1>2. T \subseteq 1 .. 2 * PlanMinutes
    BY <1>1 DEF Minute
  <1>3. IsFiniteSet(1 .. 2 * PlanMinutes)
    BY <1>1, FS_Interval
  <1>4. T \in SUBSET Int /\ T # {}
    BY <1>2
  <1>5. IsFiniteSet(T)
    <2> HIDE DEF T
    <2>1. QED BY <1>2, <1>3, FS_Subset
  <1>6. Min(T) \in T /\ Max(T) \in T /\ \A x \in T : Min(T) <= x /\ x <= Max(T)
    <2> HIDE DEF T
    <2>1. QED BY <1>4, <1>5, MinIsLeast, MaxIsLargest
  <1> DEFINE lo == Min(T)
             hi == Max(T)
  <1> HIDE DEF lo, hi
  <1>7. lo \in T /\ hi \in T /\ \A x \in T : lo <= x /\ x <= hi
    BY <1>6 DEF lo, hi
  <1>8. PICK a \in candles, b \in candles : lo = 2 * a /\ hi = 2 * b
    BY <1>7 DEF Minute
  <1>9. \A m \in candles : a <= m /\ m <= b
    <2> TAKE m \in candles
    <2>1. 2 * m \in T
      BY DEF Minute
    <2> HIDE DEF T
    <2>2. 2 * a <= 2 * m /\ 2 * m <= 2 * b
      BY <1>7, <1>8, <2>1
    <2>3. QED BY <1>1, <2>2
  <1>10. QED BY <1>8, <1>9 DEF lo, hi

LEMMA PlanIsGaps ==
    ASSUME RepairPlansTyped
    PROVE  /\ \A r \in MarketPlan : \E u, v \in Nat : Gap(u, v) /\ ~ Late(u) /\ r = RangeOf(u, v)
           /\ \A u, v \in Nat : Gap(u, v) /\ ~ Late(u) => RangeOf(u, v) \in MarketPlan
  <1> DEFINE T == {Minute * m : m \in candles}
             clock == Minute * (PlanMinutes + 1) + 1
             FromGap(r) == \E u, v \in Nat : Gap(u, v) /\ ~ Late(u) /\ r = RangeOf(u, v)
  <1>1. /\ PlanMinutes \in Nat \ {0} /\ candles \in SUBSET Nat
        /\ \A c \in candles : 1 <= c /\ c <= PlanMinutes
    BY Planned
  <1>2. clock = 2 * PlanMinutes + 3
    BY <1>1 DEF Minute
  <1>3. CASE candles = {}
    <2>1. T = {}
      BY <1>3
    <2>2. MarketPlan = {<<2, 2 * PlanMinutes + 3>>}
      BY <1>2, <2>1 DEF MarketPlan, MarketGaps, Minute
    <2>3. 1 \in Nat /\ PlanMinutes + 1 \in Nat /\ Gap(1, PlanMinutes + 1) /\ ~ Late(1)
      BY <1>1, <1>3 DEF Gap, Late
    <2>4. RangeOf(1, PlanMinutes + 1) = <<2, 2 * PlanMinutes + 3>>
      BY <1>1 DEF RangeOf
    <2>5. \A u, v \in Nat : Gap(u, v) => u = 1 /\ v = PlanMinutes + 1
      BY <1>3 DEF Gap
    <2>6. QED BY <2>2, <2>3, <2>4, <2>5
  <1>4. CASE candles # {}
    <2>1. PICK a \in candles, b \in candles :
             Min(T) = 2 * a /\ Max(T) = 2 * b /\ \A m \in candles : a <= m /\ m <= b
      BY <1>4, Candles
    <2>2. a \in Nat /\ b \in Nat /\ 1 <= a /\ a <= PlanMinutes /\ 1 <= b /\ b <= PlanMinutes
      BY <1>1
    <2>3. T # {}
      BY <1>4
    <2>4. MarketPlan = HeadGap(Minute, T) \union InternalGaps(T) \union TailGap(clock, T, 2 * Minute)
      BY <2>3 DEF MarketPlan, MarketGaps
    <2>5. HeadGap(Minute, T) = {r \in {<<2, 2 * a>>} : r[2] - r[1] >= 2}
      BY <2>1 DEF HeadGap, Minute
    <2>6. TailGap(clock, T, 2 * Minute) = {r \in {<<2 * b + 2, 2 * PlanMinutes + 3>>} : r[2] - r[1] > 4}
      BY <1>2, <2>1 DEF TailGap, Minute
    <2>7. ASSUME NEW r \in HeadGap(Minute, T)
          PROVE  FromGap(r)
      <3>1. r = <<2, 2 * a>> /\ 2 * a - 2 >= 2
        BY <2>5, PairOf
      <3>2. Gap(1, a) /\ ~ Late(1)
        BY <1>1, <2>1, <2>2, <3>1 DEF Gap, Late
      <3>3. RangeOf(1, a) = <<2, 2 * a>>
        BY <1>1, <2>2 DEF RangeOf
      <3>4. QED BY <2>2, <3>1, <3>2, <3>3
    <2>8. ASSUME NEW r \in TailGap(clock, T, 2 * Minute)
          PROVE  FromGap(r)
      <3>1. r = <<2 * b + 2, 2 * PlanMinutes + 3>> /\ (2 * PlanMinutes + 3) - (2 * b + 2) > 4
        BY <2>6, PairOf
      <3>2. b + 1 \in Nat /\ PlanMinutes + 1 \in Nat /\ b + 1 < PlanMinutes
        BY <1>1, <2>2, <3>1
      <3>3. Gap(b + 1, PlanMinutes + 1) /\ ~ Late(b + 1)
        BY <1>1, <2>1, <2>2, <3>2 DEF Gap, Late
      <3>4. RangeOf(b + 1, PlanMinutes + 1) = <<2 * b + 2, 2 * PlanMinutes + 3>>
        BY <1>1, <2>2 DEF RangeOf
      <3>5. QED BY <3>1, <3>2, <3>3, <3>4
    <2>9. ASSUME NEW r \in InternalGaps(T)
          PROVE  FromGap(r)
      <3>1. PICK p \in T \X T : /\ r = <<p[1] + Minute, p[2]>> /\ p[2] - p[1] > Minute
                                /\ \A w \in T : ~ (p[1] < w /\ w < p[2])
        BY DEF InternalGaps
      <3>2. PICK c \in candles, d \in candles : p[1] = 2 * c /\ p[2] = 2 * d
        BY DEF Minute
      <3>3. c \in Nat /\ d \in Nat /\ c + 1 < d /\ d <= PlanMinutes /\ 1 <= c
        BY <1>1, <3>1, <3>2 DEF Minute
      <3>4. \A m \in Nat : c + 1 <= m /\ m < d => m \notin candles
        <4> SUFFICES ASSUME NEW m \in Nat, c + 1 <= m, m < d, m \in candles
                     PROVE  FALSE
          OBVIOUS
        <4>1. 2 * m \in T
          BY DEF Minute
        <4>2. 2 * c < 2 * m /\ 2 * m < 2 * d
          BY <3>3
        <4>3. QED BY <3>1, <3>2, <4>1, <4>2
      <3>5. Gap(c + 1, d) /\ ~ Late(c + 1)
        <4>1. (c + 1) - 1 = c /\ c + 1 \in 1 .. PlanMinutes /\ d \in 2 .. PlanMinutes + 1
              /\ c + 1 # PlanMinutes
          BY <1>1, <3>3
        <4>2. QED BY <3>3, <3>4, <4>1 DEF Gap, Late
      <3>6. RangeOf(c + 1, d) = <<2 * c + 2, 2 * d>>
        BY <1>1, <3>3 DEF RangeOf
      <3>7. r = <<2 * c + 2, 2 * d>>
        BY <3>1, <3>2 DEF Minute
      <3>8. QED BY <3>3, <3>5, <3>6, <3>7
    <2>10. ASSUME NEW u \in Nat, NEW v \in Nat, Gap(u, v), ~ Late(u)
           PROVE  RangeOf(u, v) \in MarketPlan
      <3>0. u # PlanMinutes /\ u <= PlanMinutes /\ 1 <= u /\ u < v /\ v <= PlanMinutes + 1
        BY <1>1, <1>4, <2>10 DEF Gap, Late
      <3>1. CASE v = PlanMinutes + 1
        <4>1. u <= a => FALSE
          BY <1>1, <2>2, <2>10, <3>1 DEF Gap
        <4>2. u - 1 \in candles
          BY <2>2, <2>10, <4>1 DEF Gap
        <4>3. ~ (u <= b)
          BY <1>1, <2>2, <2>10, <3>1 DEF Gap
        <4>4. b = u - 1
          BY <2>1, <2>2, <4>2, <4>3
        <4>5. RangeOf(u, v) = <<2 * b + 2, 2 * PlanMinutes + 3>>
          BY <1>1, <2>2, <3>1, <4>4 DEF RangeOf
        <4>6. (2 * PlanMinutes + 3) - (2 * b + 2) > 4
          BY <1>1, <2>2, <3>0, <4>4
        <4>7. RangeOf(u, v) \in TailGap(clock, T, 2 * Minute)
          BY <2>6, <4>5, <4>6, PairOf
        <4>8. QED BY <2>4, <4>7
      <3>2. CASE v # PlanMinutes + 1 /\ u = 1
        <4>1. v \in candles /\ v \in Nat
          BY <2>10, <3>2 DEF Gap
        <4>2. a <= v /\ ~ (a < v)
          BY <2>1, <2>2, <2>10, <3>2, <4>1 DEF Gap
        <4>3. a = v
          BY <2>2, <4>2
        <4>4. RangeOf(u, v) = <<2, 2 * a>> /\ 2 * a - 2 >= 2
          BY <2>2, <3>0, <3>2, <4>3 DEF RangeOf
        <4>5. RangeOf(u, v) \in HeadGap(Minute, T)
          BY <2>5, <4>4, PairOf
        <4>6. QED BY <2>4, <4>5
      <3>3. CASE v # PlanMinutes + 1 /\ u # 1
        <4>1. v \in candles /\ u - 1 \in candles
          BY <2>10, <3>3 DEF Gap
        <4> DEFINE p == <<2 * (u - 1), 2 * v>>
        <4>2. 2 * (u - 1) \in T /\ 2 * v \in T
          BY <4>1 DEF Minute
        <4>3. p \in T \X T /\ p[1] = 2 * (u - 1) /\ p[2] = 2 * v
          BY <4>2
        <4>4. 2 * v - 2 * (u - 1) > 2
          BY <3>0
        <4>5. ASSUME NEW w \in T, 2 * (u - 1) < w, w < 2 * v
              PROVE  FALSE
          <5>1. PICK m \in candles : w = 2 * m
            BY DEF Minute
          <5>2. m \in Nat /\ u <= m /\ m < v
            BY <1>1, <4>5, <5>1
          <5>3. QED BY <2>10, <5>2 DEF Gap
        <4>6. RangeOf(u, v) = <<p[1] + 2, p[2]>>
          BY <3>0, <3>3, <4>3 DEF RangeOf
        <4> HIDE DEF p, T
        <4>7. RangeOf(u, v) \in InternalGaps(T)
          BY <4>3, <4>4, <4>5, <4>6 DEF InternalGaps, Minute
        <4>8. QED BY <2>4, <4>7
      <3>4. QED BY <3>1, <3>2, <3>3
    <2> HIDE DEF FromGap
    <2>11. \A r \in MarketPlan : FromGap(r)
      BY <2>4, <2>7, <2>8, <2>9
    <2>12. QED BY <2>10, <2>11 DEF FromGap
  <1>5. QED BY <1>3, <1>4

LEMMA PlanType ==
    ASSUME RepairPlansTyped
    PROVE  /\ MarketPlan \in SUBSET NumberPair /\ IsFiniteSet(MarketPlan)
           /\ \A r \in MarketPlan : r[1] < r[2]
  <1> DEFINE K == 0 .. 2 * PlanMinutes + 3
  <1>1. PlanMinutes \in Nat \ {0}
    BY Planned
  <1>2. ASSUME NEW r \in MarketPlan
        PROVE  r \in NumberPair /\ r[1] < r[2] /\ r \in K \X K
    <2>1. PICK u \in Nat, v \in Nat : Gap(u, v) /\ r = RangeOf(u, v)
      BY PlanIsGaps
    <2>2. r \in NumberPair /\ r[1] < r[2] /\ r[1] = 2 * u
          /\ r[2] = IF v = PlanMinutes + 1 THEN 2 * PlanMinutes + 3 ELSE 2 * v
      BY <2>1, RangeOfType
    <2>3. u <= PlanMinutes /\ v <= PlanMinutes + 1
      BY <1>1, <2>1 DEF Gap
    <2>4. r[1] \in K /\ r[2] \in K
      BY <1>1, <2>2, <2>3
    <2>5. QED BY <2>2, <2>4 DEF NumberPair
  <1>3. IsFiniteSet(K \X K)
    <2>1. IsFiniteSet(K)
      BY <1>1, FS_Interval
    <2> HIDE DEF K
    <2>2. QED BY <2>1, FS_Product
  <1>4. IsFiniteSet(MarketPlan)
    BY <1>2, <1>3, FS_Subset
  <1>5. QED BY <1>2, <1>4

\* The minutes of a set of ranges.
Within(s) == {m \in 1 .. PlanMinutes : \E r \in s : r[1] <= 2 * m /\ 2 * m < r[2]}

LEMMA RangeCounted ==
    ASSUME RepairPlansTyped, NEW r \in MarketPlan
    PROVE  /\ IsFiniteSet(Within({r})) /\ Cardinality(Within({r})) = (r[2] - r[1]) \div Minute
           /\ Cardinality(Within({r})) \in Nat
  <1>1. PICK u \in Nat, v \in Nat : Gap(u, v) /\ r = RangeOf(u, v)
    BY PlanIsGaps
  <1>2. PlanMinutes \in Nat \ {0} /\ 1 <= u /\ u < v /\ v <= PlanMinutes + 1
    BY <1>1, Planned DEF Gap
  <1>3. /\ (r[2] - r[1]) \div Minute = v - u
        /\ \A m \in Nat : m <= PlanMinutes => (r[1] <= 2 * m /\ 2 * m < r[2] <=> u <= m /\ m < v)
    BY <1>1, RangeOfType
  <1>4. \A m : m \in Within({r}) <=> m \in u .. v - 1
    BY <1>2, <1>3 DEF Within
  <1>5. Within({r}) = u .. v - 1
    BY <1>4
  <1>6. IsFiniteSet(u .. v - 1) /\ Cardinality(u .. v - 1) = v - u
    <2>1. ~ (u > v - 1) /\ v - 1 \in Int /\ (v - 1) - u + 1 = v - u
      BY <1>2
    <2>2. QED BY <2>1, FS_Interval
  <1>7. QED BY <1>2, <1>3, <1>5, <1>6

LEMMA RangesApart ==
    ASSUME RepairPlansTyped, NEW r \in MarketPlan, NEW q \in MarketPlan,
           NEW m \in Within({r}), m \in Within({q})
    PROVE  r = q
  <1>1. PICK u \in Nat, v \in Nat : Gap(u, v) /\ r = RangeOf(u, v)
    BY PlanIsGaps
  <1>2. PICK x \in Nat, y \in Nat : Gap(x, y) /\ q = RangeOf(x, y)
    BY PlanIsGaps
  <1>3. m \in Nat /\ m <= PlanMinutes /\ r[1] <= 2 * m /\ 2 * m < r[2] /\ q[1] <= 2 * m /\ 2 * m < q[2]
    BY Planned DEF Within
  <1>4. u <= m /\ m < v /\ x <= m /\ m < y
    BY <1>1, <1>2, <1>3, RangeOfType
  <1>5. u = x /\ v = y
    BY <1>1, <1>2, <1>3, <1>4, GapsApart
  <1>6. QED BY <1>1, <1>2, <1>5

LEMMA MinutesCounted ==
    ASSUME RepairPlansTyped
    PROVE  MissingMinutes(MarketPlan) = Cardinality(Within(MarketPlan))
  <1> DEFINE S == MarketPlan
             it == CHOOSE f : f = [s \in SUBSET S |->
                                     IF s = {} THEN 0
                                     ELSE (((CHOOSE x \in s : TRUE)[2] - (CHOOSE x \in s : TRUE)[1])
                                              \div Minute) + f[s \ {CHOOSE x \in s : TRUE}]]
             next == [s \in SUBSET S |-> CHOOSE x \in s : TRUE]
             op == [p \in Nat \X S |-> ((p[2][2] - p[2][1]) \div Minute) + p[1]]
  <1>1. MissingMinutes(S) = it[S]
    BY DEF MissingMinutes, MapThenSumSet, MapThenFoldSet
  <1>2. IsFiniteSet(S)
    BY PlanType
  <1>3. \A s \in SUBSET S : s # {} => next[s] \in s /\ next[s] = CHOOSE x \in s : TRUE
    OBVIOUS
  <1>4. \A r \in S : (r[2] - r[1]) \div Minute \in Nat
    BY RangeCounted
  <1> DEFINE size == [r \in S |-> (r[2] - r[1]) \div Minute]
  <1>5. \A d \in Nat, r \in S : op[<<d, r>>] = size[r] + d /\ size[r] + d \in Nat /\ size[r] \in Nat
    BY <1>4
  <1>6. ASSUME NEW f, NEW s \in SUBSET S, s # {}
        PROVE  (((CHOOSE x \in s : TRUE)[2] - (CHOOSE x \in s : TRUE)[1]) \div Minute)
                  + f[s \ {CHOOSE x \in s : TRUE}] = size[next[s]] + f[s \ {next[s]}]
    <2>1. next[s] \in S
      BY <1>3, <1>6
    <2>2. QED BY <1>3, <1>6, <2>1
  <1>7. \A r \in S : size[r] = (r[2] - r[1]) \div Minute
    OBVIOUS
  <1> HIDE DEF op, next, size, S
  <1>8. CanFold(S, Nat, 0, next, op)
    BY <1>2, <1>3, <1>5 DEF CanFold
  <1>9. PICK f \in [SUBSET S -> Nat] : IsFold(f, S, 0, next, op)
    BY <1>8, FoldExists
  <1>10. ASSUME NEW s \in SUBSET S
         PROVE  f[s] = IF s = {} THEN 0
                       ELSE (((CHOOSE x \in s : TRUE)[2] - (CHOOSE x \in s : TRUE)[1]) \div Minute)
                               + f[s \ {CHOOSE x \in s : TRUE}]
    <2>1. CASE s = {}
      BY <1>9, <2>1 DEF IsFold
    <2>2. CASE s # {}
      <3>1. next[s] \in S /\ s \ {next[s]} \in SUBSET S
        BY <1>3, <2>2
      <3>2. f[s] = op[<<f[s \ {next[s]}], next[s]>>]
        BY <1>9, <2>2 DEF IsFold
      <3>3. f[s] = size[next[s]] + f[s \ {next[s]}]
        BY <1>5, <1>9, <3>1, <3>2
      <3>4. QED BY <1>6, <2>2, <3>3
    <2>3. QED BY <2>1, <2>2
  <1>11. f = [s \in SUBSET S |->
                IF s = {} THEN 0
                ELSE (((CHOOSE x \in s : TRUE)[2] - (CHOOSE x \in s : TRUE)[1]) \div Minute)
                        + f[s \ {CHOOSE x \in s : TRUE}]]
    BY <1>9, <1>10
  <1>12. it = [s \in SUBSET S |->
                 IF s = {} THEN 0
                 ELSE (((CHOOSE x \in s : TRUE)[2] - (CHOOSE x \in s : TRUE)[1]) \div Minute)
                         + it[s \ {CHOOSE x \in s : TRUE}]]
    BY <1>11
  <1> HIDE DEF it
  <1>13. \A s \in SUBSET S : it[s] = IF s = {} THEN 0 ELSE size[next[s]] + it[s \ {next[s]}]
    BY <1>6, <1>12
  <1> DEFINE N == {k \in Nat : \A s \in SUBSET S : Cardinality(s) = k => it[s] = Cardinality(Within(s))}
  <1>14. \A s \in SUBSET S : IsFiniteSet(s) /\ Cardinality(s) \in Nat
    BY <1>2, FS_Subset, FS_CardinalityType
  <1>15. \A s : IsFiniteSet(Within(s))
    <2>1. IsFiniteSet(1 .. PlanMinutes)
      BY Planned, FS_Interval
    <2>2. \A s : Within(s) \in SUBSET (1 .. PlanMinutes)
      BY DEF Within
    <2>3. QED BY <2>1, <2>2, FS_Subset
  <1>16. 0 \in N
    <2> SUFFICES ASSUME NEW s \in SUBSET S, Cardinality(s) = 0
                 PROVE  it[s] = Cardinality(Within(s))
      OBVIOUS
    <2>1. s = {}
      BY <1>14, FS_EmptySet
    <2>2. it[s] = 0 /\ Within(s) = {}
      BY <1>13, <2>1 DEF Within
    <2>3. QED BY <2>2, FS_EmptySet
  <1>17. ASSUME NEW k \in Nat, k \in N
         PROVE  k + 1 \in N
    <2> SUFFICES ASSUME NEW s \in SUBSET S, Cardinality(s) = k + 1
                 PROVE  it[s] = Cardinality(Within(s))
      OBVIOUS
    <2>1. s # {}
      <3>1. k + 1 # 0
        OBVIOUS
      <3>2. QED BY <3>1, FS_EmptySet
    <2> DEFINE r == next[s]
               t == s \ {r}
    <2>2. r \in s /\ r \in S
      BY <1>3, <2>1
    <2>3. it[s] = size[r] + it[t]
      BY <1>13, <2>1
    <2> HIDE DEF r
    <2>4. Cardinality(t) = k
      <3>1. Cardinality(s \ {r}) = Cardinality(s) - 1
        BY <1>14, <2>2, FS_RemoveElement
      <3>2. QED BY <3>1
    <2>5. t \in SUBSET S
      OBVIOUS
    <2>6. it[t] = Cardinality(Within(t))
      BY <1>17, <2>4, <2>5
    <2>7. size[r] = Cardinality(Within({r})) /\ size[r] \in Nat
      BY <1>5, <1>7, <2>2, RangeCounted DEF S
    <2>8. Within(s) = Within(t) \union Within({r})
      BY <2>2 DEF Within
    <2>9. Within(t) \intersect Within({r}) = {}
      <3> SUFFICES ASSUME NEW m \in Within(t), m \in Within({r})
                   PROVE  FALSE
        OBVIOUS
      <3>1. PICK q \in t : m \in Within({q})
        BY DEF Within
      <3>2. q \in MarketPlan /\ r \in MarketPlan /\ q # r
        BY <2>2 DEF S
      <3>3. QED BY <3>1, <3>2, RangesApart
    <2>10. Cardinality(Within(t) \union Within({r}))
             = Cardinality(Within(t)) + Cardinality(Within({r})) - Cardinality({})
      <3> DEFINE A == Within(t)
                 B == Within({r})
      <3>1. IsFiniteSet(A) /\ IsFiniteSet(B) /\ A \intersect B = {}
        BY <1>15, <2>9
      <3> HIDE DEF A, B
      <3>2. Cardinality(A \union B) = Cardinality(A) + Cardinality(B) - Cardinality(A \intersect B)
        BY <3>1, FS_Union
      <3>3. Cardinality(A \union B) = Cardinality(A) + Cardinality(B) - Cardinality({})
        BY <3>1, <3>2
      <3>4. QED BY <3>3 DEF A, B
    <2>11. Cardinality({}) = 0 /\ Cardinality(Within(t)) \in Nat
      BY <1>15, FS_EmptySet, FS_CardinalityType
    <2>12. Cardinality(Within(s)) = Cardinality(Within(t)) + size[r] - 0
      BY <2>7, <2>8, <2>10, <2>11
    <2> DEFINE a == Cardinality(Within(t))
               b == size[r]
    <2>13. a \in Nat /\ b \in Nat /\ it[s] = b + a /\ Cardinality(Within(s)) = a + b - 0
      BY <2>3, <2>6, <2>7, <2>11, <2>12
    <2> HIDE DEF a, b
    <2>14. QED BY <2>13
  <1> HIDE DEF N
  <1>18. Nat \subseteq N
    BY <1>16, <1>17, Induction
  <1>19. it[S] = Cardinality(Within(S))
    BY <1>14, <1>18 DEF N
  <1>20. QED BY <1>1, <1>19 DEF S

LEMMA MarketIsAsked == ASSUME RepairPlansTyped PROVE MarketAsksExactly
  <1> DEFINE j == Minute * JoinMinutes
             missing == (1 .. PlanMinutes) \ candles
             inGrace == candles # {} /\ Max(candles) = PlanMinutes - 1
             asked == MinutesOf(ToSet(MarketCalls))
  <1>1. /\ PlanMinutes \in Nat \ {0} /\ JoinMinutes \in Nat
        /\ candles \in SUBSET Nat /\ \A m \in candles : 1 <= m /\ m <= PlanMinutes
        /\ IsFiniteSet(candles)
    BY Planned
  <1>2. j \in Nat /\ j = 2 * JoinMinutes
    BY <1>1 DEF Minute
  <1>3. CallsGood(MarketPlan, MarketCalls, j)
    <2> HIDE DEF j
    <2>1. CallsGood(MarketPlan, Coalesce(MarketPlan, j), j)
      BY <1>2, PlanType, CoalesceGood
    <2>2. QED BY <2>1 DEF MarketCalls, j
  <1>4. \A m : m \in asked <=> m \in 0 .. PlanMinutes + 1 /\ Reached(MarketCalls, 2 * m)
    <2>1. DOMAIN MarketCalls = 1 .. Len(MarketCalls)
      BY <1>3, LenProperties DEF CallsGood
    <2>2. QED BY <2>1 DEF MinutesOf, ToSet, Reached, Minute
  <1> HIDE DEF asked, j
  <1>5. ASSUME NEW m \in missing
        PROVE  \E u, v \in Nat : Gap(u, v) /\ u <= m /\ m < v /\ (Late(u) => inGrace /\ m = PlanMinutes)
    <2>1. PICK u \in Nat, v \in Nat : Gap(u, v) /\ u <= m /\ m < v
      BY GapAround
    <2>2. ASSUME Late(u)
          PROVE  inGrace /\ m = PlanMinutes
      <3>1. u = PlanMinutes /\ candles # {}
        BY <2>2 DEF Late
      <3>2. v = PlanMinutes + 1 /\ m = PlanMinutes /\ u # 1
        <4>1. m \in 1 .. PlanMinutes /\ v \in 2 .. PlanMinutes + 1 /\ u < v
          BY <2>1 DEF Gap
        <4>2. v = PlanMinutes + 1 /\ m = PlanMinutes
          BY <1>1, <2>1, <3>1, <4>1
        <4>3. PICK c \in candles : c \in Nat /\ 1 <= c /\ c <= PlanMinutes
          BY <1>1, <3>1
        <4>4. ~ (u <= c)
          BY <1>1, <2>1, <4>2, <4>3 DEF Gap
        <4>5. QED BY <4>2, <4>3, <4>4
      <3>3. PlanMinutes - 1 \in candles /\ PlanMinutes \notin candles
        BY <1>1, <2>1, <3>1, <3>2 DEF Gap
      <3>4. \A c \in candles : c <= PlanMinutes - 1
        BY <1>1, <3>3
      <3>5. Max(candles) \in candles /\ \A c \in candles : c <= Max(candles)
        BY <1>1, <3>1, MaxIsLargest
      <3>8. \A x \in candles : (\A c \in candles : c <= x) => x = PlanMinutes - 1
        BY <1>1, <3>3, <3>4
      <3>6. Max(candles) = PlanMinutes - 1
        BY <3>5, <3>8
      <3>7. QED BY <3>1, <3>2, <3>6
    <2>3. QED BY <2>1, <2>2
  <1>6. ASSUME inGrace
        PROVE  \A u, v \in Nat : Gap(u, v) /\ v = PlanMinutes + 1 => Late(u)
    <2> SUFFICES ASSUME NEW u \in Nat, Gap(u, PlanMinutes + 1)
                 PROVE  Late(u)
      OBVIOUS
    <2>1. Max(candles) \in candles /\ \A c \in candles : c <= Max(candles)
      BY <1>1, <1>6, MaxIsLargest
    <2>2. PlanMinutes - 1 \in candles /\ PlanMinutes \notin candles
      BY <1>1, <1>6, <2>1
    <2>3. ~ (u <= PlanMinutes - 1)
      BY <1>1, <2>2 DEF Gap
    <2>4. u = PlanMinutes
      BY <1>1, <2>3 DEF Gap
    <2>5. QED BY <1>6, <2>4 DEF Late
  <1> HIDE DEF inGrace
  <1>7. ASSUME NEW m \in missing, ~ (inGrace /\ m = PlanMinutes)
        PROVE  m \in Within(MarketPlan)
    <2>1. PICK u \in Nat, v \in Nat : Gap(u, v) /\ u <= m /\ m < v /\ ~ Late(u)
      BY <1>5, <1>7
    <2>2. RangeOf(u, v) \in MarketPlan
      BY <2>1, PlanIsGaps
    <2>3. RangeOf(u, v)[1] <= 2 * m /\ 2 * m < RangeOf(u, v)[2]
      BY <1>1, <2>1, RangeOfType
    <2>4. QED BY <2>2, <2>3 DEF Within
  <1>8. ASSUME NEW m \in Within(MarketPlan)
        PROVE  m \in missing /\ m \in asked /\ ~ (inGrace /\ m = PlanMinutes)
    <2>1. m \in 1 .. PlanMinutes /\ m \in Nat /\ m <= PlanMinutes
      BY <1>1 DEF Within
    <2>2. PICK r \in MarketPlan : r[1] <= 2 * m /\ 2 * m < r[2]
      BY DEF Within
    <2>3. PICK u \in Nat, v \in Nat : Gap(u, v) /\ ~ Late(u) /\ r = RangeOf(u, v)
      BY PlanIsGaps
    <2>4. u <= m /\ m < v
      BY <2>1, <2>2, <2>3, RangeOfType
    <2>5. m \in missing
      BY <2>1, <2>3, <2>4 DEF Gap
    <2>6. Reached(MarketCalls, 2 * m)
      <3>1. 2 * m \in Nat
        BY <2>1
      <3>2. QED BY <1>3, <2>2, <3>1 DEF CallsGood
    <2>7. m \in asked
      BY <1>1, <1>4, <2>1, <2>6
    <2>8. ~ (inGrace /\ m = PlanMinutes)
      <3> SUFFICES ASSUME inGrace, m = PlanMinutes
                   PROVE  FALSE
        OBVIOUS
      <3>1. v = PlanMinutes + 1
        BY <1>1, <2>3, <2>4 DEF Gap
      <3>2. QED BY <1>6, <2>3, <3>1
    <2>9. QED BY <2>5, <2>7, <2>8
  <1>9. ASSUME NEW m \in asked, m \in 1 .. PlanMinutes, m \notin Within(MarketPlan)
        PROVE  \E a, b \in missing : a < m /\ m < b /\ b - a <= JoinMinutes
    <2>1. m \in Nat /\ 2 * m \in Nat /\ Reached(MarketCalls, 2 * m)
      BY <1>1, <1>4, <1>9
    <2>2. ~ \E r \in MarketPlan : r[1] <= 2 * m /\ 2 * m < r[2]
      BY <1>9 DEF Within
    <2>3. PICK r \in MarketPlan, q \in MarketPlan :
             r[2] <= 2 * m /\ 2 * m < q[1] /\ q[1] - r[2] < j
      BY <1>3, <2>1, <2>2 DEF CallsGood
    <2>4. PICK u \in Nat, v \in Nat : Gap(u, v) /\ r = RangeOf(u, v)
      BY PlanIsGaps
    <2>5. PICK x \in Nat, y \in Nat : Gap(x, y) /\ q = RangeOf(x, y)
      BY PlanIsGaps
    <2>6. /\ r[2] = IF v = PlanMinutes + 1 THEN 2 * PlanMinutes + 3 ELSE 2 * v
          /\ q[1] = 2 * x
      BY <2>4, <2>5, RangeOfType
    <2>7. 1 <= u /\ u < v /\ u <= PlanMinutes /\ 1 <= x /\ x <= PlanMinutes /\ x < y
          /\ v <= PlanMinutes + 1
      BY <1>1, <2>4, <2>5 DEF Gap
    <2>8. v # PlanMinutes + 1 /\ v <= m /\ m < x /\ 2 * x - 2 * v < 2 * JoinMinutes
      BY <1>1, <1>2, <1>9, <2>1, <2>3, <2>6
    <2>9. v - 1 \in missing
      <3>1. v - 1 \in Nat /\ u <= v - 1 /\ v - 1 < v /\ v - 1 \in 1 .. PlanMinutes
        BY <1>1, <2>7
      <3>2. QED BY <2>4, <3>1 DEF Gap
    <2>10. x \in missing
      BY <1>1, <2>5, <2>7 DEF Gap
    <2>11. v - 1 < m /\ x - (v - 1) <= JoinMinutes
      BY <1>1, <2>1, <2>8
    <2>12. QED BY <2>8, <2>9, <2>10, <2>11
  <1>10. ASSUME NEW m \in missing
         PROVE  m \in asked <=> ~ (inGrace /\ m = PlanMinutes)
    <2>1. ASSUME m \in asked, inGrace, m = PlanMinutes
          PROVE  FALSE
      <3>1. m \notin Within(MarketPlan)
        BY <1>8, <2>1
      <3>2. m \in 1 .. PlanMinutes
        OBVIOUS
      <3>3. PICK b \in missing : m < b
        BY <1>9, <2>1, <3>1, <3>2
      <3>4. QED BY <1>1, <2>1, <3>3
    <2>2. ASSUME ~ (inGrace /\ m = PlanMinutes)
          PROVE  m \in asked
      BY <1>7, <1>8, <2>2
    <2>3. QED BY <2>1, <2>2
  <1>11. \A m \in asked \intersect candles :
            \E a, b \in missing : a < m /\ m < b /\ b - a <= JoinMinutes
    <2> TAKE m \in asked \intersect candles
    <2>0. m \in candles /\ m \in asked
      OBVIOUS
    <2>1. m \in 1 .. PlanMinutes /\ m \notin missing
      BY <1>1, <2>0
    <2>2. m \notin Within(MarketPlan)
      BY <1>8, <2>1
    <2>3. QED BY <1>9, <2>0, <2>1, <2>2
  <1>12. MissingMinutes(MarketPlan) = Cardinality(missing \intersect asked)
    <2>1. Within(MarketPlan) = missing \intersect asked
      BY <1>7, <1>8, <1>10
    <2>2. QED BY <2>1, MinutesCounted
  <1>13. \A i \in 1 .. Len(MarketCalls) - 1 :
            MarketCalls[i + 1][1] - MarketCalls[i][2] >= Minute * JoinMinutes
    BY <1>3 DEF CallsGood, j
  <1>14. QED BY <1>10, <1>11, <1>12, <1>13 DEF MarketAsksExactly, asked, inGrace

(* maintenance/repair.py and ranges.py: for any number of minutes and days   *)
(* and any distance at which ranges are joined, the market repair asks for    *)
(* every missing minute and nothing far from one, and the news repair for     *)
(* exactly the empty days.                                                    *)
THEOREM RepairPlansTheorem == RepairPlansTyped => RepairPlansAreExact
  <1>1. QED BY MarketIsAsked, NewsIsAsked DEF RepairPlansAreExact
==============================================================================
