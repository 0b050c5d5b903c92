---------------------------- MODULE MCFeatureJob ----------------------------
EXTENDS FeatureJob

\* --full-refresh --every, and --start at a slot inside a longer bar. At the
\* end that start is ahead of the first watermarks by more than the lookback.
MCCalls == {[full |-> TRUE, every |-> TRUE, start |-> None],
            [full |-> FALSE, every |-> FALSE, start |-> 3]}

\* Both are on time when three slots are complete; the score is the health
\* check's business when four are, the candle when five are.
MCLate == {<<"score", 1>>, <<"candle", 2>>}
=============================================================================
