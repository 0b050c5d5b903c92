-------------------------- MODULE MCStorageConsumer --------------------------
EXTENDS StorageConsumer

CONSTANTS k1, k2

\* Two rows of one key can meet (a redelivery by the producer, a second copy
\* of an article), a row of another key, and one message of each kind that
\* never becomes a row.
MCKeys == {k1, k2}
MCMessages ==
    {[key |-> k, kind |-> "row"] : k \in MCKeys}
      \union {[key |-> k1, kind |-> x] : x \in Kinds \ {"row"}}
=============================================================================
