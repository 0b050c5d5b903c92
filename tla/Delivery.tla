------------------------------ MODULE Delivery ------------------------------
(***************************************************************************)
(* What the storage consumers promise, without processes, retries, leases  *)
(* or crashes: a topic partition is applied to a table in log order, the   *)
(* first row of a key wins, a message the server refuses is set aside, and *)
(* the committed offset only moves over messages that are settled.         *)
(* Streaming code: "at-least-once" delivery plus "idempotent inserts"      *)
(* (streaming/market_consumer.py, streaming/sentiment_consumer.py).        *)
(***************************************************************************)
EXTENDS Naturals, Sequences

CONSTANTS Keys,      \* primary keys: (symbol, time) or (time, url)
          Messages   \* the messages producers may append

VARIABLES log,        \* the partition: offset n of the code is index n + 1
          committed,  \* number of messages the group has committed
          rows,       \* key -> index of the message that wrote its row, 0: none
          skipped     \* messages the server refused, logged and passed over

dvars == <<log, committed, rows, skipped>>

\* A message that validation turns into a row; every other kind never reaches
\* the database with a row it accepts.
IsRow(m) == m.kind = "row"

\* The n-th message needs nothing more from the consumer.
Settled(n) ==
    \/ ~ IsRow(log[n])
    \/ rows[log[n].key] # 0
    \/ n \in skipped

\* Every message up to the n-th is settled.
SettledUpTo(n) == \A p \in 1 .. n : Settled(p)

DInit ==
    /\ log = << >>
    /\ committed = 0
    /\ rows = [k \in Keys |-> 0]
    /\ skipped = {}

AppendMessage ==
    /\ \E m \in Messages : log' = Append(log, m)
    /\ UNCHANGED <<committed, rows, skipped>>

\* The row of the n-th message is written, once every earlier one is settled.
StoreRow ==
    /\ \E n \in 1 .. Len(log) :
          /\ IsRow(log[n])
          /\ rows[log[n].key] = 0
          /\ SettledUpTo(n - 1)
          /\ rows' = [rows EXCEPT ![log[n].key] = n]
    /\ UNCHANGED <<log, committed, skipped>>

SetAside ==
    /\ \E n \in 1 .. Len(log) :
          /\ SettledUpTo(n - 1)
          /\ skipped' = skipped \union {n}
    /\ UNCHANGED <<log, committed, rows>>

Acknowledge ==
    /\ committed < Len(log)
    /\ Settled(committed + 1)
    /\ committed' = committed + 1
    /\ UNCHANGED <<log, rows, skipped>>

DNext == AppendMessage \/ StoreRow \/ SetAside \/ Acknowledge

DSpec == DInit /\ [][DNext]_dvars
=============================================================================
