------------------------------ MODULE Backtest ------------------------------
(***************************************************************************)
(* signals/: which rows a model is trained on, when it is asked, and when  *)
(* the money is where. The classifier is left out; what matters is that no *)
(* prediction rests on a price that was not known when it is made. A row   *)
(* is a bar of a coin, on the regular grid that the feature job writes;    *)
(* bar b has closed at b + 1.                                              *)
(***************************************************************************)
EXTENDS Integers, Sequences, SequencesExt

CONSTANTS Coins,       \* targets
          LastBar,     \* bound: bars 1 .. LastBar
          Ahead,       \* horizon_bars
          TrainWindow, \* train_window_bars
          MinTrain,    \* min_train_bars
          RetrainEvery \* retrain_every_bars

ASSUME BacktestAssumption ==
    /\ LastBar \in Nat \ {0} /\ Ahead \in Nat \ {0} /\ TrainWindow \in Nat \ {0}
    /\ MinTrain \in Nat \ {0} /\ RetrainEvery \in Nat \ {0}

VARIABLES priced,    \* coin -> bars whose close is not NaN
          testFrom,  \* test_start; the window ends before testTo
          testTo,
          actions    \* BUY, SELL and HOLD of one coin, by bar

tvars == <<priced, testFrom, testTo, actions>>

TInit ==
    \/ /\ priced \in [Coins -> SUBSET (1 .. LastBar)]
       /\ testFrom \in 1 .. LastBar /\ testTo \in 2 .. LastBar + 1 /\ testFrom < testTo
       /\ actions = << >>
    \/ /\ actions \in [1 .. LastBar -> {"BUY", "SELL", "HOLD"}]
       /\ priced = [c \in Coins |-> {}] /\ testFrom = 1 /\ testTo = 2

\* build_model_frame: the label of a row is known if its price and the one Ahead
\* bars later are.
Labelled(c) == {b \in priced[c] : b + Ahead \in priced[c]}

\* The newest rows of a coin, at most TrainWindow.
Newest(rows) == {b \in rows : Cardinality({a \in rows : a > b}) < TrainWindow}

\* The rows before the predicted one, without regard to their labels' future.
TrainingRows_Leaking(predictAt) ==
    [c \in Coins |-> Newest({b \in Labelled(c) : b <= predictAt})]

\* training_rows: bucket <= predict_bucket - horizon.
TrainingRows(predictAt) ==
    [c \in Coins |-> Newest({b \in Labelled(c) : b <= predictAt - Ahead})]

\* walk_forward: the rows of the test window, those with a price and a next one.
TestRows(c) ==
    {b \in priced[c] : b + 1 \in priced[c] /\ testFrom <= b /\ b < testTo}

BlockStarts == {s \in testFrom .. testTo - 1 : (s - testFrom) % RetrainEvery = 0}

\* Each block: train at its start, predict its rows.
WalkForward ==
    UNION {{[coin |-> c, bar |-> b, rows |-> TrainingRows(s)] :
               b \in {t \in TestRows(c) : s <= t /\ t < s + RetrainEvery}} :
           c \in Coins, s \in BlockStarts}

\* generate_signals: the newest priced bar of each coin, and one model for all,
\* trained up to the oldest of these bars on the coins with enough rows.
Signals ==
    LET latest == [c \in Coins |-> IF priced[c] = {} THEN 0 ELSE Max(priced[c])]
        present == {c \in Coins : latest[c] > 0}
        rows == TrainingRows(Min({latest[c] : c \in present}))
        eligible == {c \in present : Cardinality(rows[c]) >= MinTrain}
    IN  IF present = {} THEN {}
        ELSE {[coin |-> c, bar |-> latest[c],
               rows |-> [d \in Coins |-> IF d \in eligible THEN rows[d] ELSE {}]] : c \in eligible}

\* strategy_returns: the position held for the next bar's return, after each bar.
Positions ==
    LET step(held, action) ==
            Append(held, CASE action = "BUY" -> 1 [] action = "SELL" -> 0
                           [] action = "HOLD" -> IF held = << >> THEN 0 ELSE Last(held))
    IN  FoldLeft(step, << >>, actions)

\* The bars at which a fee is paid: a position that differs from the one before.
Trades == {b \in DOMAIN Positions : Positions[b] # (IF b = 1 THEN 0 ELSE Positions[b - 1])}

(* "every prediction below is one the live system could genuinely have made" *)
(* (signals/backtest.py:10). The price in the label of a training row is the *)
(* close of a bar not later than any bar the model is asked about, in replay *)
(* with the model of the block's start as in live use with one model for     *)
(* coins whose newest bars differ; every row of the test window is predicted *)
(* once; what is held follows from the calls up to that bar alone, and no    *)
(* position changes without a fee.                                           *)
NoLookahead ==
    /\ \A p \in WalkForward \union Signals : \A c \in Coins : \A b \in p.rows[c] :
          b + Ahead <= p.bar
    /\ \A c \in Coins : \A b \in TestRows(c) :
          Cardinality({p \in WalkForward : p.coin = c /\ p.bar = b}) = 1
    /\ \A p \in Signals : priced[p.coin] \intersect (p.bar + 1 .. LastBar) = {}
    /\ \A b \in DOMAIN actions :
          LET calls == {a \in 1 .. b : actions[a] # "HOLD"}
          IN  Positions[b] = IF calls # {} /\ actions[Max(calls)] = "BUY" THEN 1 ELSE 0
    /\ \A b \in Trades : actions[b] = IF Positions[b] = 1 THEN "BUY" ELSE "SELL"
=============================================================================
