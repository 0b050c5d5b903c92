----------------------------- MODULE MCScoring -----------------------------
EXTENDS Scoring

CONSTANTS x, y

\* The current tagger finds one coin in every text. An older one finds a second
\* one in the oldest text.
MCCoins == {x, y}
MCTagger == [a \in Articles |-> {x}]
MCFound == [a \in Articles |-> {MCTagger[a]} \union IF a = 1 THEN {{x, y}} ELSE {}]
=============================================================================
