----------------------- MODULE MarketBackfill_proofs -----------------------
(***************************************************************************)
(* The candles of one symbol under two writers, for any number of minutes, *)
(* any listing, page size, number of attempts and grace.                   *)
(*                                                                         *)
(* A candle is in the hands of the live path or of the backfill long       *)
(* before it is stored; the invariant Timely says of everything in hand    *)
(* that its minute has begun, and has ended if the candle claims so.       *)
(***************************************************************************)
EXTENDS MarketBackfill, NumberFacts, SequenceTheorems, FiniteSetTheorems, TLAPS

Live ==
    /\ now \in C!Minutes
    /\ table \in [C!Minutes -> C!Kinds]
    /\ stream \in {"off", "connecting", "open", "sleeping"}
    /\ delay \in FirstDelay .. MaxDelay
    /\ due \subseteq {m \in C!Minutes : m < now}
    /\ buffer \subseteq Messages /\ topic \subseteq Messages
    /\ faults \in 0 .. MaxFaults

Repair ==
    /\ listed \in Listings
    /\ page \in [C!Minutes -> C!Kinds]

Timely ==
    /\ \A m \in buffer \union topic : m.closed => m.minute < now
    /\ \A m \in C!Minutes :
          /\ page[m] # "none" => m <= now
          /\ page[m] = "final" => m < now

Inv == Live /\ Repair /\ Timely

\* The cases of BNext.
LEMMA NextCases ==
    ASSUME BNext
    PROVE  \/ (Tick /\ UNCHANGED bvars) \/ (StartIngestion /\ UNCHANGED bvars)
           \/ (Connect /\ UNCHANGED bvars) \/ (PublishClosed /\ UNCHANGED bvars)
           \/ (WakeUp /\ UNCHANGED bvars) \/ (Deliver /\ UNCHANGED bvars)
           \/ (Consume /\ UNCHANGED bvars) \/ (PublishForming /\ UNCHANGED bvars)
           \/ (Disconnect /\ UNCHANGED bvars) \/ (CloseCleanly /\ UNCHANGED bvars)
           \/ (EndIngestion /\ UNCHANGED bvars) \/ (DropAfterRetries /\ UNCHANGED bvars)
           \/ StartBackfill \/ FetchPage \/ FetchNothing \/ InsertPage \/ RetryPage \/ FailBackfill
  BY DEF BNext, IngestionSteps, IngestionProgress, IngestionFaults, BackfillSteps

\* A page shows candles of minutes that have begun, finished ones as such.
LEMMA KlinesTimely ==
    ASSUME NEW from, NEW to, now \in C!Minutes, listed \subseteq C!Minutes
    PROVE  /\ Klines(from, to) \in [C!Minutes -> C!Kinds]
           /\ \A m \in C!Minutes :
                 /\ Klines(from, to)[m] # "none" => m <= now
                 /\ Klines(from, to)[m] = "final" => m < now
  <1> DEFINE inWindow == {m \in listed : from <= Opens(m) /\ Opens(m) <= to /\ m <= now}
             first == {m \in inWindow : Cardinality({n \in inWindow : n < m}) < PageSize}
  <1>1. Klines(from, to) = [m \in C!Minutes |->
            IF m \notin first THEN "none" ELSE IF m = now THEN "partial" ELSE "final"]
    BY DEF Klines
  <1>2. \A m \in first : m <= now /\ m \in C!Minutes
    OBVIOUS
  <1> HIDE DEF first
  <1>3. QED BY <1>1, <1>2, IngestionAssumption DEF C!Kinds, C!Minutes

\* What the live path or a page inserts is typed.
LEMMA InsertTyped ==
    ASSUME Live, NEW candles \in [C!Minutes -> C!Kinds], InsertCandles(candles)
    PROVE  table' \in [C!Minutes -> C!Kinds]
  BY DEF Live, InsertCandles

LEMMA CandleTyped ==
    \A m \in C!Minutes : Candle(m, "final") \in [C!Minutes -> C!Kinds]
  BY DEF Candle, C!Kinds

LEMMA InitInv == ASSUME BInit PROVE Inv
  BY IngestionAssumption
  DEF BInit, MInit, C!CInit, Inv, Live, Repair, Timely, NoCandles, C!Minutes, C!Kinds

LEMMA NextInv == ASSUME Inv, [BNext]_allvars PROVE Inv'
  <1> USE DEF Inv
  <1>1. CASE UNCHANGED allvars
    BY <1>1 DEF allvars, mvars, bvars, Live, Repair, Timely
  <1>2. CASE Tick /\ UNCHANGED bvars
    <2>1. now' = now + 1 /\ now' \in C!Minutes /\ table' = table
      BY <1>2, IngestionAssumption DEF Tick, C!MinutePasses, Live, C!Minutes
    <2>2. now \in Nat /\ now < now' /\ due' \subseteq {m \in C!Minutes : m < now'}
      BY <1>2, <2>1, IngestionAssumption DEF Tick, Live, C!Minutes
    <2>3. Timely'
      BY <1>2, <2>1, <2>2, IngestionAssumption DEF Tick, bvars, Live, Repair, Timely, Messages, C!Minutes
    <2>4. QED BY <1>2, <2>1, <2>2, <2>3 DEF Tick, bvars, Live, Repair
  <1>3. CASE (StartIngestion \/ Connect \/ WakeUp \/ Disconnect \/ CloseCleanly) /\ UNCHANGED bvars
    <2>1. UNCHANGED <<now, table, buffer, topic>> /\ due' \subseteq due
      BY <1>3 DEF StartIngestion, Connect, WakeUp, Disconnect, CloseCleanly
    <2>2. stream' \in {"off", "connecting", "open", "sleeping"}
      BY <1>3 DEF StartIngestion, Connect, WakeUp, Disconnect, CloseCleanly
    <2>3. delay' \in FirstDelay .. MaxDelay
      BY <1>3, IngestionAssumption DEF StartIngestion, Connect, WakeUp, Disconnect, CloseCleanly, Live
    <2>4. faults' \in 0 .. MaxFaults
      BY <1>3, IngestionAssumption
      DEF StartIngestion, Connect, WakeUp, Disconnect, CloseCleanly, Fault, Live
    <2>5. QED BY <1>3, <2>1, <2>2, <2>3, <2>4 DEF bvars, Live, Repair, Timely
  <1>4. CASE (PublishClosed \/ PublishForming) /\ UNCHANGED bvars
    <2>1. PICK m \in Messages : Publish(m) /\ (m.closed => m.minute < now)
      <3>1. CASE PublishClosed
        <4>1. PICK n \in due : Publish([minute |-> n, closed |-> TRUE])
          BY <3>1 DEF PublishClosed
        <4>2. n \in C!Minutes /\ n < now
          BY DEF Live
        <4>3. [minute |-> n, closed |-> TRUE] \in Messages
          BY <4>2 DEF Messages
        <4>4. QED BY <4>1, <4>2, <4>3
      <3>2. CASE PublishForming
        <4>1. [minute |-> now, closed |-> FALSE] \in Messages
          BY DEF Live, Messages
        <4>2. QED BY <3>2, <4>1 DEF PublishForming
      <3>3. QED BY <1>4, <3>1, <3>2
    <2>2. due' \subseteq due
      BY <1>4 DEF PublishClosed, PublishForming
    <2>3. FirstDelay \in FirstDelay .. MaxDelay
      BY IngestionAssumption
    <2>4. QED BY <1>4, <2>1, <2>2, <2>3 DEF Publish, bvars, Live, Repair, Timely
  <1>5. CASE (Deliver \/ DropAfterRetries \/ EndIngestion) /\ UNCHANGED bvars
    <2>1. /\ buffer' \union topic' \subseteq buffer \union topic
          /\ due' \subseteq due /\ UNCHANGED <<now, table, delay>>
          /\ stream' \in {stream, "off"}
      BY <1>5 DEF Deliver, DropAfterRetries, EndIngestion
    <2>2. faults' \in 0 .. MaxFaults
      BY <1>5, IngestionAssumption DEF Deliver, DropAfterRetries, EndIngestion, Fault, Live
    <2>3. QED BY <1>5, <2>1, <2>2 DEF bvars, Live, Repair, Timely
  <1>6. CASE Consume /\ UNCHANGED bvars
    <2>1. PICK m \in topic :
            /\ topic' = topic \ {m}
            /\ IF m.closed THEN InsertCandles(Candle(m.minute, "final")) ELSE UNCHANGED table
            /\ UNCHANGED <<now, stream, delay, due, buffer, faults>>
      BY <1>6 DEF Consume
    <2>2. m.minute \in C!Minutes
      BY DEF Live, Messages
    <2>3. table' \in [C!Minutes -> C!Kinds]
      BY <2>1, <2>2, CandleTyped, InsertTyped DEF Live
    <2>4. QED BY <1>6, <2>1, <2>3 DEF bvars, Live, Repair, Timely
  <1>7. CASE StartBackfill
    BY <1>7 DEF StartBackfill, mvars, Live, Repair, Timely
  <1>8. CASE FetchPage
    <2>1. listed \subseteq C!Minutes
      BY BackfillAssumption DEF Repair
    <2>2. QED BY <1>8, <2>1, KlinesTimely DEF FetchPage, mvars, Live, Repair, Timely
  <1>9. NoCandles \in [C!Minutes -> C!Kinds] /\ \A m \in C!Minutes : NoCandles[m] = "none"
    BY DEF NoCandles, C!Kinds
  <1>10. CASE FetchNothing
    BY <1>9, <1>10 DEF FetchNothing, Advance, mvars, Live, Repair, Timely
  <1>11. CASE InsertPage
    <2>1. table' \in [C!Minutes -> C!Kinds]
      BY <1>11, InsertTyped DEF InsertPage, Repair
    <2>2. QED BY <1>9, <1>11, <2>1 DEF InsertPage, Advance, Live, Repair, Timely
  <1>12. CASE RetryPage \/ FailBackfill
    <2>1. UNCHANGED <<now, table, stream, delay, due, buffer, topic, listed>> /\ page' \in {page, NoCandles}
      BY <1>12 DEF RetryPage, FailBackfill
    <2>2. faults' \in 0 .. MaxFaults
      BY <1>12, IngestionAssumption DEF RetryPage, FailBackfill, Fault, Live
    <2>3. QED BY <1>9, <2>1, <2>2 DEF Live, Repair, Timely
  <1>13. QED
    BY <1>1, <1>2, <1>3, <1>4, <1>5, <1>6, <1>7, <1>8, <1>10, <1>11, <1>12, NextCases

LEMMA InvTheorem == BSpec => []Inv
  <1>1. QED BY InitInv, NextInv, PTL DEF BSpec

-----------------------------------------------------------------------------
(* The promise of CandleStore. *)

\* A batch of which every candle is timely only adds.
LEMMA InsertAdds ==
    ASSUME Live, NEW candles \in [C!Minutes -> C!Kinds], InsertCandles(candles), now' = now,
           \A m \in C!Minutes : /\ candles[m] # "none" => m <= now
                                /\ candles[m] = "final" => m < now
    PROVE  C!AddCandles
  <1>1. table' \in [C!Minutes -> C!Kinds]
    BY InsertTyped
  <1>2. ASSUME NEW m \in C!Minutes, table'[m] # table[m]
        PROVE  table[m] = "none" /\ m <= now /\ (table'[m] = "final" => m < now)
    BY <1>2 DEF InsertCandles
  <1>3. QED BY <1>1, <1>2 DEF C!AddCandles

LEMMA NextPromised == ASSUME Inv, [BNext]_allvars PROVE [C!CNext]_(C!cvars)
  <1>1. CASE UNCHANGED <<now, table>>
    BY <1>1 DEF C!cvars
  <1>2. CASE Tick
    BY <1>2 DEF Tick, C!CNext
  <1>3. CASE InsertPage
    <2>1. InsertCandles(page) /\ now' = now
      BY <1>3 DEF InsertPage
    <2>2. C!AddCandles
      BY <2>1, InsertAdds DEF Inv, Repair, Timely
    <2>3. QED BY <2>2 DEF C!CNext
  <1>4. CASE Consume /\ UNCHANGED bvars
    <2>1. PICK m \in topic :
            /\ IF m.closed THEN InsertCandles(Candle(m.minute, "final")) ELSE UNCHANGED table
            /\ now' = now
      BY <1>4 DEF Consume
    <2>2. m.minute \in C!Minutes /\ (m.closed => m.minute < now) /\ now \in Nat
      BY IngestionAssumption DEF Inv, Live, Timely, Messages, C!Minutes
    <2>3. CASE m.closed
      <3>1. \A n \in C!Minutes : Candle(m.minute, "final")[n] # "none" => n = m.minute
        BY DEF Candle
      <3>2. \A n \in C!Minutes : /\ Candle(m.minute, "final")[n] # "none" => n <= now
                                 /\ Candle(m.minute, "final")[n] = "final" => n < now
        BY <2>2, <2>3, <3>1, IngestionAssumption DEF C!Minutes
      <3>3. C!AddCandles
        BY <2>1, <2>2, <2>3, <3>2, CandleTyped, InsertAdds DEF Inv
      <3>4. QED BY <3>3 DEF C!CNext
    <2>4. CASE ~ m.closed
      BY <2>1, <2>4 DEF C!cvars
    <2>5. QED BY <2>3, <2>4
  <1>5. QED
    BY <1>1, <1>2, <1>3, <1>4, NextCases
    DEF allvars, mvars, bvars, StartIngestion, Connect, PublishClosed, PublishForming, Publish, WakeUp,
        Deliver, Disconnect, CloseCleanly, EndIngestion, DropAfterRetries,
        StartBackfill, FetchPage, FetchNothing, RetryPage, FailBackfill

(* Two writers and a reader: for any listing of candles, any page size and   *)
(* any faults, the candles stored by streaming/market_consumer.py and by     *)
(* tools/backfill_market.py keep the promise of CandleStore. A candle never  *)
(* changes, none is there before its minute.                                 *)
THEOREM CandleStoreTheorem == BSpec => ImplementsCandleStore
  <1>1. BInit => C!CInit
    BY DEF BInit, MInit
  <1>2. QED BY <1>1, NextPromised, InvTheorem, PTL DEF BSpec, ImplementsCandleStore, C!CSpec

-----------------------------------------------------------------------------
(* The ranges to fetch: induction, which the provers have for no predicate, *)
(* is done on sets of numbers.                                              *)

Pairs == Int \X Int

\* The order of the ranges has a last element in a finite set.
LEMMA LastToStartIsLast ==
    ASSUME NEW S \in SUBSET Pairs, IsFiniteSet(S), S # {}
    PROVE  LastToStart(S) \in S /\ \A q \in S : Starts(q, LastToStart(S))
  <1> DEFINE order == {p \in S \X S : Starts(p[1], p[2])}
  <1>1. \A q, r \in S : <<q, r>> \in order <=> Starts(q, r)
    OBVIOUS
  <1>2. \A q, r \in S : Starts(q, r) \/ Starts(r, q)
    BY DEF Starts, Pairs
  <1>3. \A p, q, r \in S : Starts(p, q) /\ Starts(q, r) => Starts(p, r)
    BY DEF Starts, Pairs
  <1> HIDE DEF order
  <1>4. \E r \in S : \A q \in S : <<q, r>> \in order
    BY <1>1, <1>2, <1>3, LastInOrder
  <1>5. \E r \in S : \A q \in S : Starts(q, r)
    BY <1>1, <1>4
  <1>6. QED BY <1>5 DEF LastToStart

Covers(c, r) == \E i \in 1 .. Len(c) : c[i][1] <= r[1] /\ r[2] <= c[i][2]

\* A list of ranges, none empty, whose starts and ends are those of given ranges.
MadeOf(c, S) ==
    /\ c \in Seq(Pairs)
    /\ \A i \in 1 .. Len(c) :
          /\ c[i][1] < c[i][2]
          /\ \E r \in S : c[i][1] = r[1]
          /\ \E r \in S : c[i][2] = r[2]

\* One step of the merge, with the range that starts last.
LEMMA JoinCovers ==
    ASSUME NEW S \in SUBSET Pairs, NEW c, MadeOf(c, S),
           NEW r \in Pairs, r[1] < r[2], \A q \in S : q[1] <= r[1],
           NEW j \in Int
    PROVE  /\ MadeOf(Join(c, r, j), S \union {r})
           /\ Join(c, r, j) # << >>
           /\ Covers(Join(c, r, j), r)
           /\ \A q \in Pairs : Covers(c, q) => Covers(Join(c, r, j), q)
  <1> DEFINE J == Join(c, r, j)
             n == Len(c)
  <1>0. c \in Seq(Pairs) /\ n \in Nat /\ \A i \in 1 .. n : c[i] \in Pairs
    BY DEF MadeOf
  <1>1. CASE c # << >> /\ r[1] - Last(c)[2] < j
    <2> DEFINE x == <<c[n][1], Larger(c[n][2], r[2])>>
    <2>1. n > 0 /\ n \in 1 .. n
      BY <1>0, <1>1
    <2>2. J = Append(SubSeq(c, 1, n - 1), x)
      BY <1>1 DEF Join, Last, Front
    <2>3. x \in Pairs /\ x[1] = c[n][1] /\ x[2] \in {c[n][2], r[2]} /\ x[2] >= c[n][2] /\ x[2] >= r[2]
      BY <1>0, <2>1 DEF Larger, Pairs
    <2>4. SubSeq(c, 1, n - 1) \in Seq(Pairs) /\ Len(SubSeq(c, 1, n - 1)) = n - 1
          /\ \A i \in 1 .. n - 1 : SubSeq(c, 1, n - 1)[i] = c[i]
      <3> DEFINE k == n - 1
      <3>1. k \in Nat /\ \A i \in 1 .. k : c[i] \in Pairs
        BY <1>0, <2>1
      <3> HIDE DEF k
      <3>2. /\ SubSeq(c, 1, k) \in Seq(Pairs) /\ Len(SubSeq(c, 1, k)) = IF 1 <= k THEN k - 1 + 1 ELSE 0
            /\ \A i \in 1 .. k - 1 + 1 : SubSeq(c, 1, k)[i] = c[1 + i - 1]
        BY <3>1, SubSeqProperties
      <3>3. Len(SubSeq(c, 1, k)) = k /\ \A i \in 1 .. k : SubSeq(c, 1, k)[i] = c[i]
        BY <3>1, <3>2
      <3>4. QED BY <3>2, <3>3 DEF k
    <2> HIDE DEF x
    <2>5. J \in Seq(Pairs) /\ Len(J) = n /\ J[n] = x /\ \A i \in 1 .. n - 1 : J[i] = c[i]
      BY <1>0, <2>1, <2>2, <2>3, <2>4
    <2> HIDE DEF J, n
    <2>6. \A i \in 1 .. n : /\ J[i] \in Pairs /\ c[i] \in Pairs
                            /\ J[i][1] = c[i][1] /\ J[i][2] >= c[i][2]
                            /\ J[i][2] \in {c[i][2], r[2]}
      <3> SUFFICES ASSUME NEW i \in 1 .. n
                   PROVE  /\ J[i] \in Pairs /\ c[i] \in Pairs
                          /\ J[i][1] = c[i][1] /\ J[i][2] >= c[i][2]
                          /\ J[i][2] \in {c[i][2], r[2]}
        OBVIOUS
      <3>1. c[i] \in Pairs /\ c[i][2] \in Int
        BY <1>0 DEF n, Pairs
      <3>2. CASE i = n
        BY <2>3, <2>5, <3>1, <3>2
      <3>3. CASE i # n
        <4>1. J[i] = c[i]
          BY <2>1, <2>5, <3>3
        <4>2. QED BY <3>1, <4>1
      <3>4. QED BY <3>2, <3>3
    <2>7. MadeOf(J, S \union {r})
      <3> SUFFICES ASSUME NEW i \in 1 .. n
                   PROVE  /\ J[i][1] < J[i][2]
                          /\ \E q \in S \union {r} : J[i][1] = q[1]
                          /\ \E q \in S \union {r} : J[i][2] = q[2]
        BY <2>5 DEF MadeOf
      <3>1. /\ c[i][1] < c[i][2] /\ \E q \in S : c[i][1] = q[1]
            /\ \E q \in S : c[i][2] = q[2]
        BY DEF MadeOf, n
      <3>2. J[i][1] < J[i][2]
        BY <2>6, <3>1 DEF Pairs
      <3>3. QED BY <2>6, <3>1, <3>2
    <2>8. Covers(J, r)
      <3>1. \E q \in S : c[n][1] = q[1]
        BY <2>1 DEF MadeOf, n
      <3>2. J[n][1] <= r[1] /\ r[2] <= J[n][2]
        BY <2>3, <2>5, <3>1
      <3>3. QED BY <2>1, <2>5, <3>2 DEF Covers
    <2>9. ASSUME NEW q \in Pairs, Covers(c, q)
          PROVE  Covers(J, q)
      <3>1. PICK i \in 1 .. n : c[i][1] <= q[1] /\ q[2] <= c[i][2]
        BY <2>9 DEF Covers, n
      <3>2. J[i][1] <= q[1] /\ q[2] <= J[i][2]
        BY <2>6, <3>1 DEF Pairs
      <3>3. QED BY <2>5, <3>2 DEF Covers
    <2>10. J # << >>
      BY <2>1, <2>5
    <2>11. QED BY <2>7, <2>8, <2>9, <2>10 DEF J
  <1>2. CASE ~ (c # << >> /\ r[1] - Last(c)[2] < j)
    <2>1. J = Append(c, r)
      BY <1>2 DEF Join
    <2>2. J \in Seq(Pairs) /\ Len(J) = n + 1 /\ J[n + 1] = r /\ \A i \in 1 .. n : J[i] = c[i]
      BY <1>0, <2>1
    <2> HIDE DEF J, n
    <2>3. MadeOf(J, S \union {r})
      <3> SUFFICES ASSUME NEW i \in 1 .. n + 1
                   PROVE  /\ J[i][1] < J[i][2]
                          /\ \E q \in S \union {r} : J[i][1] = q[1]
                          /\ \E q \in S \union {r} : J[i][2] = q[2]
        BY <2>2 DEF MadeOf
      <3>1. CASE i \in 1 .. n
        BY <2>2, <3>1 DEF MadeOf, n
      <3>2. CASE i = n + 1
        BY <2>2, <3>2
      <3>3. QED BY <1>0, <3>1, <3>2 DEF n
    <2>4. Covers(J, r)
      BY <1>0, <2>2 DEF Covers, n, Pairs
    <2>5. ASSUME NEW q \in Pairs, Covers(c, q)
          PROVE  Covers(J, q)
      <3>1. PICK i \in 1 .. n : c[i][1] <= q[1] /\ q[2] <= c[i][2]
        BY <2>5 DEF Covers, n
      <3>2. QED BY <1>0, <2>2, <3>1 DEF Covers, n
    <2>6. J # << >>
      BY <1>0, <2>2 DEF n
    <2>7. QED BY <2>3, <2>4, <2>5, <2>6 DEF J
  <1>3. QED BY <1>1, <1>2

\* The recursion behind Coalesce: the merge of the ranges of s, those of s but
\* for the last being merged in f.
MergeOf(f, s, j) ==
    IF s = {} THEN << >> ELSE Join(f[s \ {LastToStart(s)}], LastToStart(s), j)

\* There is a function that satisfies the recursion.
LEMMA MergeExists ==
    ASSUME NEW R \in SUBSET Pairs, IsFiniteSet(R), NEW j \in Int
    PROVE  \E f : f = [s \in SUBSET R |-> MergeOf(f, s, j)]
  <1> DEFINE Upto(n) == {s \in SUBSET R : Cardinality(s) <= n}
             Exists(n) == \E f : f = [s \in Upto(n) |-> MergeOf(f, s, j)]
             N == {n \in Nat : Exists(n)}
  <1>0. \A s \in SUBSET R : IsFiniteSet(s) /\ Cardinality(s) \in Nat
    BY FS_Subset, FS_CardinalityType
  <1>1. 0 \in N
    <2>1. Upto(0) = {{}}
      <3>1. \A s \in SUBSET R : Cardinality(s) <= 0 <=> s = {}
        BY <1>0, FS_EmptySet
      <3>2. QED BY <3>1
    <2> DEFINE f == [s \in Upto(0) |-> << >>]
    <2>2. f = [s \in Upto(0) |-> MergeOf(f, s, j)]
      BY <2>1 DEF MergeOf
    <2>3. Exists(0)
      BY <2>2
    <2>4. QED BY <2>3
  <1>2. ASSUME NEW n \in Nat, n \in N
        PROVE  n + 1 \in N
    <2>1. PICK f : f = [s \in Upto(n) |-> MergeOf(f, s, j)]
      BY <1>2
    <2> DEFINE g == [s \in Upto(n + 1) |-> MergeOf(f, s, j)]
    <2>2. ASSUME NEW s \in Upto(n + 1)
          PROVE  MergeOf(f, s, j) = MergeOf(g, s, j)
      <3>1. CASE s = {}
        BY <3>1 DEF MergeOf
      <3>2. CASE s # {}
        <4> DEFINE t == s \ {LastToStart(s)}
        <4>1. LastToStart(s) \in s
          BY <3>2, <1>0, LastToStartIsLast
        <4>2. Cardinality(t) = Cardinality(s) - 1 /\ t \in SUBSET R
          BY <1>0, <4>1, FS_RemoveElement
        <4>3. t \in Upto(n) /\ t \in Upto(n + 1)
          BY <4>2, <1>0
        <4> HIDE DEF t
        <4>4. g[t] = MergeOf(f, t, j) /\ f[t] = MergeOf(f, t, j)
          BY <2>1, <4>3
        <4>5. QED BY <3>2, <4>4 DEF MergeOf, t
      <3>3. QED BY <3>1, <3>2
    <2>3. g = [s \in Upto(n + 1) |-> MergeOf(g, s, j)]
      BY <2>2
    <2>4. Exists(n + 1)
      BY <2>3
    <2>5. QED BY <2>4
  <1> HIDE DEF N
  <1>3. Cardinality(R) \in N
    BY <1>0, <1>1, <1>2, Induction
  <1>4. Upto(Cardinality(R)) = SUBSET R
    BY <1>0, FS_Subset
  <1>5. QED BY <1>3, <1>4 DEF N

(* coalesce (maintenance/ranges.py:39), for every finite set of ranges and   *)
(* every distance: no range is lost, none is empty, and what is merged       *)
(* begins and ends where given ranges begin and end.                         *)
THEOREM CoalesceTheorem ==
    ASSUME NEW R \in SUBSET Pairs, IsFiniteSet(R), \A r \in R : r[1] < r[2], NEW j \in Int
    PROVE  /\ MadeOf(Coalesce(R, j), R)
           /\ R # {} => Coalesce(R, j) # << >>
           /\ \A r \in R : Covers(Coalesce(R, j), r)
  <1> DEFINE it == CHOOSE f : f = [s \in SUBSET R |-> MergeOf(f, s, j)]
  <1>1. Coalesce(R, j) = it[R]
    BY DEF Coalesce, MapThenFoldSet, MergeOf
  <1>2. it = [s \in SUBSET R |-> MergeOf(it, s, j)]
    BY MergeExists
  <1> HIDE DEF it
  <1> DEFINE Good(s) == /\ MadeOf(it[s], s)
                        /\ s # {} => it[s] # << >>
                        /\ \A r \in s : Covers(it[s], r)
             N == {n \in Nat : \A s \in SUBSET R : Cardinality(s) = n => Good(s)}
  <1>3. \A s \in SUBSET R : IsFiniteSet(s) /\ Cardinality(s) \in Nat
    BY FS_Subset, FS_CardinalityType
  <1>4. 0 \in N
    <2>1. \A s \in SUBSET R : Cardinality(s) = 0 => s = {}
      BY <1>3, FS_EmptySet
    <2>2. it[{}] = << >>
      BY <1>2 DEF MergeOf
    <2>3. Good({})
      BY <2>2 DEF MadeOf
    <2>4. QED BY <2>1, <2>3
  <1>5. ASSUME NEW n \in Nat, n \in N
        PROVE  n + 1 \in N
    <2> SUFFICES ASSUME NEW s \in SUBSET R, Cardinality(s) = n + 1
                 PROVE  Good(s)
      OBVIOUS
    <2> DEFINE r == LastToStart(s)
               t == s \ {r}
    <2>1. s # {}
      BY FS_EmptySet
    <2>2. r \in s /\ \A q \in s : Starts(q, r)
      BY <1>3, <2>1, LastToStartIsLast
    <2>3. t \in SUBSET R /\ t \in SUBSET Pairs /\ Cardinality(t) = n /\ s = t \union {r}
      <3>1. Cardinality(t) = Cardinality(s) - 1
        BY <1>3, <2>2, FS_RemoveElement
      <3>2. QED BY <2>2, <3>1
    <2>4. it[s] = Join(it[t], r, j)
      BY <1>2, <2>1 DEF MergeOf
    <2> HIDE DEF r, t
    <2>5. Good(t)
      BY <1>5, <2>3
    <2>6. r \in Pairs /\ r[1] < r[2]
      BY <2>2
    <2>7. \A q \in t : q[1] <= r[1]
      BY <2>2, <2>3, <2>6 DEF Starts, Pairs
    <2>8. /\ MadeOf(it[s], t \union {r}) /\ it[s] # << >> /\ Covers(it[s], r)
          /\ \A q \in Pairs : Covers(it[t], q) => Covers(it[s], q)
      <3> DEFINE c == it[t]
      <3>1. MadeOf(c, t)
        BY <2>5
      <3> HIDE DEF c
      <3>2. /\ MadeOf(Join(c, r, j), t \union {r}) /\ Join(c, r, j) # << >>
            /\ Covers(Join(c, r, j), r)
            /\ \A q \in Pairs : Covers(c, q) => Covers(Join(c, r, j), q)
        BY <2>3, <2>6, <2>7, <3>1, JoinCovers
      <3>3. QED BY <2>4, <3>2 DEF c
    <2>9. QED BY <2>3, <2>5, <2>8
  <1> HIDE DEF N
  <1>6. Cardinality(R) \in N
    BY <1>3, <1>4, <1>5, Induction
  <1>7. Good(R)
    BY <1>6 DEF N
  <1>8. QED BY <1>1, <1>7

-----------------------------------------------------------------------------
(* What is missing. *)

LEMMA MinMax ==
    ASSUME NEW S \in SUBSET Nat, S # {}, NEW bound \in Nat, \A n \in S : n <= bound
    PROVE  /\ Min(S) \in S /\ \A n \in S : Min(S) <= n
           /\ Max(S) \in S /\ \A n \in S : n <= Max(S)
  <1>1. IsFiniteSet(0 .. bound) /\ S \subseteq 0 .. bound
    BY FS_Interval
  <1>2. S \in SUBSET Int /\ IsFiniteSet(S)
    <2>1. IsFiniteSet(S)
      BY <1>1, FS_Subset
    <2>2. QED BY <2>1
  <1>3. \E m \in S : \A n \in S : m <= n
    BY <1>2, LeastMember
  <1>4. \E x \in S : \A y \in S : x >= y
    BY <1>2, LargestMember
  <1>5. Max(S) \in S /\ \A n \in S : Max(S) >= n
    BY <1>4 DEF Max
  <1>6. QED BY <1>3, <1>5 DEF Min

LastTime == Opens(LastMinute) + 1

Spans == (0 .. LastTime) \X (0 .. LastTime)

\* No candle of a minute that has not begun.
TableTimely == \A m \in C!Minutes : table[m] # "none" => m <= now

\* The gaps of one check: proper ranges up to the present, all that is missing
\* but for the tail within the grace.
LEMMA GapsCover ==
    ASSUME now \in C!Minutes, TableTimely
    PROVE  /\ Gaps \in SUBSET Spans
           /\ \A r \in Gaps : r[1] < r[2] /\ r[2] <= Opens(now) + 1
           /\ \A m \in C!Minutes :
                 m <= now - Grace /\ table[m] = "none"
                     => \E r \in Gaps : r[1] <= Opens(m) /\ Opens(m) < r[2]
  <1> DEFINE clock == Opens(now) + 1
             Good(r) == r \in Spans /\ r[1] < r[2] /\ r[2] <= clock
             Missing(m) == m \in C!Minutes /\ m <= now - Grace /\ table[m] = "none"
  <1>1. /\ LastMinute \in Nat /\ now \in Nat /\ 1 <= now /\ now <= LastMinute
        /\ clock = 2 * now + 1 /\ LastTime = 2 * LastMinute + 1 /\ Grace \in Nat
        /\ \A m : Opens(m) = 2 * m
    BY IngestionAssumption, BackfillAssumption DEF C!Minutes, Opens, LastTime, Minute
  <1>2. \A m \in C!Minutes : m \in Nat /\ 1 <= m /\ m <= LastMinute
    BY <1>1 DEF C!Minutes
  <1>3. /\ \A t \in Stored : \E m \in C!Minutes : t = 2 * m /\ m <= now
        /\ \A m \in C!Minutes : table[m] # "none" <=> 2 * m \in Stored
    BY <1>1, <1>2 DEF Stored, TableTimely
  <1>4. Stored \in SUBSET Nat /\ \A t \in Stored : 2 <= t /\ t <= 2 * now
    BY <1>1, <1>2, <1>3
  <1> HIDE DEF clock
  <1>5. Gaps = MarketGaps(2, clock, Stored, 2 * Grace)
    BY <1>1 DEF Gaps, clock, Minute
  <1>6. CASE Stored = {}
    <2>1. Gaps = {<<2, clock>>}
      BY <1>5, <1>6 DEF MarketGaps
    <2>2. Good(<<2, clock>>)
      BY <1>1 DEF Spans
    <2>3. \A m \in C!Minutes : 2 <= Opens(m) /\ (m <= now - Grace => Opens(m) < clock)
      BY <1>1, <1>2
    <2>4. QED BY <2>1, <2>2, <2>3 DEF clock
  <1>7. CASE Stored # {}
    <2> DEFINE lo == Min(Stored)
               hi == Max(Stored)
    <2>1. /\ lo \in Stored /\ \A t \in Stored : lo <= t
          /\ hi \in Stored /\ \A t \in Stored : t <= hi
      <3>1. 2 * now \in Nat /\ \A t \in Stored : t <= 2 * now
        BY <1>1, <1>4
      <3>2. QED BY <1>4, <1>7, <3>1, MinMax
    <2>2. Gaps = HeadGap(2, Stored) \union InternalGaps(Stored) \union TailGap(clock, Stored, 2 * Grace)
      BY <1>5, <1>7 DEF MarketGaps
    <2>3. HeadGap(2, Stored) = {r \in {<<2, lo>>} : r[2] - r[1] >= 2}
      BY DEF HeadGap, Minute
    <2>4. TailGap(clock, Stored, 2 * Grace) = {r \in {<<hi + 2, clock>>} : r[2] - r[1] > 2 * Grace}
      BY DEF TailGap, Minute
    <2> HIDE DEF lo, hi
    <2>5. lo \in Nat /\ hi \in Nat /\ 2 <= lo /\ lo <= hi /\ hi <= 2 * now
      BY <1>4, <2>1
    <2>6. \A r \in HeadGap(2, Stored) : Good(r)
      BY <1>1, <2>3, <2>5 DEF Spans
    <2>7. \A r \in TailGap(clock, Stored, 2 * Grace) : Good(r)
      <3>1. \A r \in TailGap(clock, Stored, 2 * Grace) : r = <<hi + 2, clock>> /\ clock - (hi + 2) > 2 * Grace
        BY <2>4
      <3>2. hi + 2 \in Nat /\ clock \in Nat /\ 2 * Grace >= 0 /\ clock <= LastTime
        BY <1>1, <2>5
      <3>3. QED BY <1>1, <3>1, <3>2 DEF Spans
    <2>8. \A r \in InternalGaps(Stored) : Good(r)
      <3> SUFFICES ASSUME NEW p \in Stored \X Stored, p[2] - p[1] > 2
                   PROVE  Good(<<p[1] + 2, p[2]>>)
        BY DEF InternalGaps, Minute
      <3>0. p[1] \in Stored /\ p[2] \in Stored
        OBVIOUS
      <3>1. p[1] \in Nat /\ p[2] \in Nat /\ p[2] <= 2 * now /\ p[1] + 2 < p[2]
        <4> DEFINE a == p[1]
                   b == p[2]
        <4>1. a \in Nat /\ b \in Nat /\ b <= 2 * now /\ b - a > 2
          BY <1>4, <3>0
        <4> HIDE DEF a, b
        <4>2. a + 2 < b
          BY <4>1
        <4>3. QED BY <4>1, <4>2 DEF a, b
      <3>2. QED BY <1>1, <3>1 DEF Spans
    <2>9. ASSUME NEW m \in C!Minutes, Missing(m)
          PROVE  \E r \in Gaps : r[1] <= 2 * m /\ 2 * m < r[2]
      <3>1. 2 * m \notin Stored
        BY <1>3, <2>9
      <3>2. CASE 2 * m < lo
        <4>1. PICK k \in C!Minutes : lo = 2 * k
          BY <1>3, <2>1
        <4>2. lo - 2 >= 2 /\ 2 <= 2 * m
          BY <1>2, <3>2, <4>1
        <4>3. <<2, lo>> \in HeadGap(2, Stored)
          BY <2>3, <4>2
        <4>4. QED BY <2>2, <3>2, <4>2, <4>3
      <3>3. CASE 2 * m > hi
        <4>1. PICK k \in C!Minutes : hi = 2 * k
          BY <1>3, <2>1
        <4>2. hi + 2 <= 2 * m /\ 2 * m < clock /\ clock - (hi + 2) > 2 * Grace
          BY <1>1, <1>2, <2>9, <3>3, <4>1
        <4>3. <<hi + 2, clock>> \in TailGap(clock, Stored, 2 * Grace)
          BY <2>4, <4>2
        <4>4. QED BY <2>2, <4>2, <4>3
      <3>4. CASE lo < 2 * m /\ 2 * m < hi
        <4> DEFINE before == {t \in Stored : t < 2 * m}
                   behind == {t \in Stored : t > 2 * m}
        <4>1. PICK a \in before : \A t \in before : t <= a
          <5>1. before # {} /\ before \in SUBSET Nat /\ \A t \in before : t <= 2 * now
            BY <1>4, <2>1, <3>4
          <5>2. 2 * now \in Nat
            BY <1>1
          <5>3. Max(before) \in before /\ \A t \in before : t <= Max(before)
            BY <5>1, <5>2, MinMax
          <5>4. QED BY <5>3
        <4>2. PICK b \in behind : \A t \in behind : b <= t
          <5>1. behind # {} /\ behind \in SUBSET Nat
            BY <1>4, <2>1, <3>4
          <5>2. QED BY <5>1, LeastNumber
        <4>3. PICK k \in C!Minutes, l \in C!Minutes : a = 2 * k /\ b = 2 * l
          BY <1>3
        <4>4. a + 2 <= 2 * m /\ b - a > 2 /\ 2 * m < b
          BY <1>2, <4>1, <4>2, <4>3
        <4>5. \A v \in Stored : ~ (a < v /\ v < b)
          BY <1>4, <1>2, <3>1, <4>1, <4>2
        <4>6. <<a, b>> \in {q \in Stored \X Stored :
                  q[2] - q[1] > 2 /\ \A v \in Stored : ~ (q[1] < v /\ v < q[2])}
          BY <4>4, <4>5
        <4>7. <<a + 2, b>> \in InternalGaps(Stored)
          BY <4>6 DEF InternalGaps, Minute
        <4>8. QED BY <2>2, <4>4, <4>7
      <3>5. lo # 2 * m /\ hi # 2 * m
        BY <2>1, <3>1
      <3>6. QED BY <1>2, <2>5, <3>2, <3>3, <3>4, <3>5
    <2>10. QED BY <1>1, <2>2, <2>6, <2>7, <2>8, <2>9 DEF clock
  <1>8. QED BY <1>6, <1>7

-----------------------------------------------------------------------------
(* A backfill at work: the plan, the page in hand, and what is left to do.  *)

Plan ==
    /\ job \in {"idle", "fetching", "inserting"}
    /\ attempt \in 1 .. MaxAttempts
    /\ asOf \in 0 .. now
    /\ result \in {"none", "clean", "failed"}
    /\ ranges \in Seq(Spans)
    /\ job = "idle" <=> ranges = << >>
    /\ \A i \in 1 .. Len(ranges) :
          ranges[i][1] < ranges[i][2] /\ ranges[i][2] <= Opens(asOf) + 1
    /\ cursor \in Nat
    /\ job = "idle" => cursor = 0
    /\ job # "idle" => ranges[1][1] <= cursor /\ cursor < ranges[1][2]

\* The page is from this window, and has all there is up to its last candle.
PageInHand ==
    /\ job = "inserting" <=> page # NoCandles
    /\ \A m \in C!Minutes : page[m] # "none" => cursor <= Opens(m)
    /\ \A m \in C!Minutes : page[m] = "partial" => m = asOf
    /\ \A m \in listed, n \in C!Minutes :
          page[m] = "none" /\ page[n] # "none" /\ cursor <= Opens(m) => n < m

\* The minute is in the rest of the current range or in a later one.
Ahead(m) ==
    \/ cursor <= Opens(m) /\ Opens(m) < ranges[1][2]
    \/ \E i \in 2 .. Len(ranges) : ranges[i][1] <= Opens(m) /\ Opens(m) < ranges[i][2]

NothingForgotten ==
    job # "idle" => \A m \in listed : m <= asOf - Grace => table[m] # "none" \/ Ahead(m)

AtWork == TableTimely /\ Plan /\ PageInHand /\ NothingForgotten

LEMMA InitAtWork == ASSUME BInit PROVE AtWork
  <1>1. table = [m \in C!Minutes |-> "none"] /\ page = [m \in C!Minutes |-> "none"] /\ ranges = << >>
    BY DEF BInit, MInit, C!CInit, NoCandles
  <1>2. now = 1 /\ job = "idle" /\ cursor = 0 /\ attempt = 1 /\ asOf = 0 /\ result = "none"
    BY DEF BInit, MInit, C!CInit
  <1>3. TableTimely
    BY <1>1 DEF TableTimely
  <1>4. Plan
    BY <1>1, <1>2, BackfillAssumption DEF Plan
  <1>5. PageInHand
    BY <1>1, <1>2 DEF PageInHand, NoCandles
  <1>6. QED BY <1>2, <1>3, <1>4, <1>5 DEF AtWork, NothingForgotten

\* Candles stay, and the table is timely again.
LEMMA TableStays ==
    ASSUME Inv, [BNext]_allvars, TableTimely
    PROVE  /\ TableTimely'
           /\ now \in Nat /\ now' \in Nat /\ now <= now'
           /\ \A m \in C!Minutes : table[m] # "none" => table'[m] # "none"
  <1>1. [C!CNext]_(C!cvars) /\ now' \in C!Minutes /\ now \in C!Minutes
    BY NextPromised, NextInv DEF Inv, Live
  <1>2. C!Minutes \subseteq Nat
    BY IngestionAssumption DEF C!Minutes
  <1>3. CASE UNCHANGED <<now, table>>
    BY <1>1, <1>2, <1>3 DEF TableTimely
  <1>4. CASE C!MinutePasses
    <2>1. now' = now + 1 /\ table' = table
      BY <1>4 DEF C!MinutePasses
    <2>2. \A m \in C!Minutes : m <= now => m <= now + 1
      BY <1>1, <1>2
    <2>3. QED BY <1>1, <1>2, <2>1, <2>2 DEF TableTimely
  <1>5. CASE C!AddCandles
    BY <1>1, <1>2, <1>5 DEF C!AddCandles, TableTimely
  <1>6. QED BY <1>1, <1>3, <1>4, <1>5 DEF C!CNext, C!cvars

\* What a page has, and what it does not have.
LEMMA KlinesFacts ==
    ASSUME NEW from \in Nat, NEW to \in Nat, now \in C!Minutes, listed \subseteq C!Minutes
    PROVE  /\ \A m \in C!Minutes : Klines(from, to)[m] # "none" =>
                 m \in listed /\ m <= now /\ from <= Opens(m) /\ Opens(m) <= to
           /\ \A m \in C!Minutes : Klines(from, to)[m] = "partial" => m = now
           /\ \A m \in listed, n \in C!Minutes :
                 Klines(from, to)[m] = "none" /\ Klines(from, to)[n] # "none" /\ from <= Opens(m)
                     => n < m
           /\ Klines(from, to) = NoCandles =>
                 \A m \in listed : m <= now /\ from <= Opens(m) => Opens(m) > to
  <1> DEFINE inWindow == {m \in listed : from <= Opens(m) /\ Opens(m) <= to /\ m <= now}
             Before(m) == {n \in inWindow : n < m}
             first == {m \in inWindow : Cardinality(Before(m)) < PageSize}
             K == Klines(from, to)
  <1>1. K = [m \in C!Minutes |->
            IF m \notin first THEN "none" ELSE IF m = now THEN "partial" ELSE "final"]
    BY DEF Klines
  <1>2. C!Minutes \subseteq Nat /\ now \in Nat /\ \A m : Opens(m) = 2 * m
    BY IngestionAssumption DEF C!Minutes, Opens, Minute
  <1>3. \A m \in C!Minutes : K[m] # "none" <=> m \in first
    BY <1>1
  <1>4. \A m \in C!Minutes : K[m] = "partial" => m = now
    BY <1>1
  <1>5. \A m \in inWindow : m \in Nat /\ m \in C!Minutes /\ m <= now
    BY <1>2
  <1>6. IsFiniteSet(inWindow)
    BY <1>2, <1>5, FS_BoundedSetOfNaturals
  <1>7. \A m : IsFiniteSet(Before(m)) /\ Cardinality(Before(m)) \in Nat
    BY <1>6, FS_Subset, FS_CardinalityType
  <1>8. ASSUME NEW m \in listed, NEW n \in C!Minutes, m \notin first, n \in first, from <= Opens(m)
        PROVE  n < m
    <2> SUFFICES ASSUME ~ (n < m)
                 PROVE  FALSE
      OBVIOUS
    <2>1. m \in Nat /\ n \in Nat /\ m < n /\ n <= now /\ Opens(n) <= to
      BY <1>2, <1>5, <1>8
    <2>2. m \in inWindow
      BY <1>2, <1>8, <2>1
    <2>3. Before(m) \in SUBSET Before(n)
      <3>1. \A b \in inWindow : b \in Nat
        BY <1>5
      <3>2. \A b \in inWindow : b < m => b < n
        BY <2>1, <3>1
      <3>3. QED BY <3>2
    <2>4. Cardinality(Before(m)) <= Cardinality(Before(n))
      BY <1>7, <2>3, FS_Subset
    <2>5. Cardinality(Before(m)) < PageSize
      BY <1>7, <1>8, <2>4, BackfillAssumption
    <2>6. QED BY <1>8, <2>2, <2>5
  <1>9. ASSUME K = NoCandles, NEW m \in listed, m <= now, from <= Opens(m), ~ (Opens(m) > to)
        PROVE  FALSE
    <2>1. m \in inWindow
      BY <1>2, <1>9
    <2>2. PICK a \in inWindow : \A b \in inWindow : a <= b
      BY <1>5, <2>1, LeastNumber
    <2>3. Before(a) = {}
      BY <1>5, <2>2
    <2>4. a \in first
      <3>1. Cardinality(Before(a)) = 0
        BY <2>3, FS_EmptySet
      <3>2. Cardinality(Before(a)) < PageSize
        BY <3>1, BackfillAssumption
      <3>3. QED BY <2>2, <3>2
    <2>5. K[a] # "none"
      BY <1>3, <1>5, <2>2, <2>4
    <2>6. NoCandles[a] = "none"
      BY <1>5, <2>2 DEF NoCandles
    <2>7. QED BY <1>9, <2>5, <2>6
  <1>10. \A m \in first : m \in listed /\ m <= now /\ from <= Opens(m) /\ Opens(m) <= to
    OBVIOUS
  <1> HIDE DEF first, inWindow, Before
  <1>11. \A m \in listed : m \in C!Minutes
    OBVIOUS
  <1>12. \A m \in listed, n \in C!Minutes :
                 K[m] = "none" /\ K[n] # "none" /\ from <= Opens(m) => n < m
    BY <1>3, <1>8, <1>11
  <1>13. \A m \in C!Minutes : K[m] # "none" =>
                 m \in listed /\ m <= now /\ from <= Opens(m) /\ Opens(m) <= to
    BY <1>3, <1>10
  <1>14. K = NoCandles => \A m \in listed : m <= now /\ from <= Opens(m) => Opens(m) > to
    BY <1>9
  <1> HIDE DEF K
  <1>15. QED BY <1>4, <1>12, <1>13, <1>14 DEF K

\* Going on to a later time, when what lies before it is stored.
LEMMA AdvanceAtWork ==
    ASSUME Inv, AtWork, job # "idle", NEW to \in Nat, cursor < to, Advance(to),
           TableTimely', listed' = listed, asOf' = asOf, now' = now,
           \A m \in C!Minutes : table[m] # "none" => table'[m] # "none",
           \A m \in listed : m <= asOf - Grace /\ cursor <= Opens(m) /\ Opens(m) < to
                                => table'[m] # "none"
    PROVE  /\ AtWork'
           /\ job' = "idle" => \A m \in listed : m <= asOf - Grace => table'[m] # "none"
  <1> DEFINE n == Len(ranges)
             Due(m) == m \in listed /\ m <= asOf - Grace
  <1>1. /\ ranges \in Seq(Spans) /\ n \in Nat /\ n > 0
        /\ \A i \in 1 .. n : /\ ranges[i] \in Spans /\ ranges[i][1] \in Nat /\ ranges[i][2] \in Nat
                             /\ ranges[i][1] < ranges[i][2] /\ ranges[i][2] <= Opens(asOf) + 1
        /\ cursor \in Nat /\ ranges[1][1] <= cursor /\ cursor < ranges[1][2]
    BY IngestionAssumption DEF AtWork, Plan, Spans, LastTime, Opens, Minute
  <1>2. Head(ranges) = ranges[1] /\ listed \subseteq C!Minutes
        /\ \A m \in C!Minutes : Opens(m) \in Nat
    BY <1>1, IngestionAssumption, BackfillAssumption DEF Inv, Repair, Opens, Minute, C!Minutes
  <1>3. attempt' = 1 /\ page' = NoCandles
    BY DEF Advance
  <1>4. \A m : Due(m) => table[m] # "none" \/ Ahead(m)
    BY DEF AtWork, NothingForgotten
  <1>5. 1 \in 1 .. MaxAttempts /\ asOf \in 0 .. now
    BY BackfillAssumption DEF AtWork, Plan
  <1>6. job' # "inserting" => PageInHand'
    BY <1>2, <1>3 DEF PageInHand, NoCandles
  <1>7. CASE to < Head(ranges)[2]
    <2>1. cursor' = to /\ job' = "fetching" /\ ranges' = ranges /\ result' = result
      BY <1>7 DEF Advance
    <2>2. Plan'
      BY <1>1, <1>2, <1>3, <1>5, <1>7, <2>1 DEF AtWork, Plan
    <2>3. ASSUME NEW m \in listed, m <= asOf - Grace
          PROVE  table'[m] # "none" \/ Ahead(m)'
      <3>1. CASE \E i \in 2 .. Len(ranges) : ranges[i][1] <= Opens(m) /\ Opens(m) < ranges[i][2]
        BY <2>1, <3>1 DEF Ahead, Opens
      <3>2. CASE cursor <= Opens(m) /\ Opens(m) < ranges[1][2]
        <4>1. Opens(m) < to \/ to <= Opens(m)
          BY <1>2
        <4>2. QED BY <2>1, <2>3, <3>2, <4>1 DEF Ahead, Opens
      <3>3. QED BY <1>2, <1>4, <2>3, <3>1, <3>2 DEF Ahead
    <2>4. NothingForgotten'
      BY <2>3 DEF NothingForgotten
    <2>5. QED BY <1>6, <2>1, <2>2, <2>4 DEF AtWork
  <1>8. CASE ~ (to < Head(ranges)[2])
    <2>1. ranges' = Tail(ranges)
      BY <1>8 DEF Advance
    <2>2. /\ ranges' \in Seq(Spans) /\ Len(ranges') = n - 1
          /\ \A i \in 1 .. n - 1 : ranges'[i] = ranges[i + 1]
      BY <1>1, <2>1, HeadTailProperties
    <2>3. ranges[1][2] <= to
      BY <1>1, <1>2, <1>8
    <2>4. \A i \in 1 .. Len(ranges') :
              ranges'[i][1] < ranges'[i][2] /\ ranges'[i][2] <= Opens(asOf) + 1
      <3> SUFFICES ASSUME NEW i \in 1 .. Len(ranges')
                   PROVE  ranges'[i][1] < ranges'[i][2] /\ ranges'[i][2] <= Opens(asOf) + 1
        OBVIOUS
      <3>1. i + 1 \in 1 .. n /\ ranges'[i] = ranges[i + 1]
        BY <1>1, <2>2
      <3>2. QED BY <1>1, <3>1
    <2>5. ASSUME NEW m \in listed, m <= asOf - Grace, table'[m] = "none"
          PROVE  \E i \in 2 .. n : ranges[i][1] <= Opens(m) /\ Opens(m) < ranges[i][2]
      <3>1. Ahead(m)
        BY <1>2, <1>4, <2>5
      <3>2. CASE cursor <= Opens(m) /\ Opens(m) < ranges[1][2]
        <4>1. Opens(m) < to
          BY <1>1, <1>2, <2>3, <3>2
        <4>2. QED BY <2>5, <3>2, <4>1
      <3>3. QED BY <3>1, <3>2 DEF Ahead
    <2>6. CASE ranges' = << >>
      <3>1. job' = "idle" /\ result' = "clean" /\ cursor' = 0
        BY <1>8, <2>6 DEF Advance
      <3>2. n = 1
        BY <1>1, <2>2, <2>6
      <3>3. \A m \in listed : m <= asOf - Grace => table'[m] # "none"
        BY <2>5, <3>2
      <3>4. Plan'
        BY <1>3, <1>5, <2>4, <2>6, <3>1 DEF Plan, Opens
      <3>5. QED BY <1>6, <3>1, <3>3, <3>4 DEF AtWork, NothingForgotten
    <2>7. CASE ranges' # << >>
      <3>1. job' = "fetching" /\ cursor' = Head(ranges')[1] /\ result' = result
        BY <1>8, <2>7 DEF Advance
      <3>2. n - 1 > 0 /\ Head(ranges') = ranges'[1] /\ ranges'[1] = ranges[2] /\ 2 \in 1 .. n
        BY <1>1, <2>2, <2>7
      <3>3. cursor' = ranges[2][1] /\ cursor' \in Nat
        BY <1>1, <3>1, <3>2
      <3>4. Plan'
        BY <1>1, <1>3, <1>5, <2>2, <2>4, <2>7, <3>1, <3>2, <3>3 DEF AtWork, Plan, Opens
      <3>5. ASSUME NEW m \in listed, m <= asOf - Grace, table'[m] = "none"
            PROVE  Ahead(m)'
        <4>1. PICK i \in 2 .. n : ranges[i][1] <= Opens(m) /\ Opens(m) < ranges[i][2]
          BY <2>5, <3>5
        <4>2. CASE i = 2
          BY <3>2, <3>3, <4>1, <4>2 DEF Ahead, Opens
        <4>3. CASE i # 2
          <5>1. i - 1 \in 2 .. Len(ranges') /\ ranges'[i - 1] = ranges[i]
            BY <1>1, <2>2, <4>3
          <5>2. QED BY <4>1, <5>1 DEF Ahead, Opens
        <4>4. QED BY <4>2, <4>3
      <3>6. NothingForgotten'
        BY <3>5 DEF NothingForgotten
      <3>7. QED BY <1>6, <3>1, <3>4, <3>6 DEF AtWork
    <2>8. QED BY <2>6, <2>7
  <1>9. QED BY <1>7, <1>8

\* What a backfill that begins has before it.
LEMMA StartAtWork ==
    ASSUME Inv, AtWork, StartBackfill
    PROVE  AtWork'
  <1> DEFINE j == Minute * PageSize
             all == Coalesce(Gaps, j)
  <1>1. now \in C!Minutes /\ now \in Nat /\ j \in Int /\ LastTime \in Nat
    BY IngestionAssumption, BackfillAssumption
    DEF Inv, Live, C!Minutes, Minute, LastTime, Opens
  <1>2. /\ Gaps \in SUBSET Spans
        /\ \A r \in Gaps : r[1] < r[2] /\ r[2] <= Opens(now) + 1
        /\ \A m \in C!Minutes :
              m <= now - Grace /\ table[m] = "none"
                  => \E r \in Gaps : r[1] <= Opens(m) /\ Opens(m) < r[2]
    BY <1>1, GapsCover DEF AtWork
  <1>3. IsFiniteSet(Gaps) /\ Gaps \in SUBSET Pairs
    <2>1. IsFiniteSet(0 .. LastTime)
      BY <1>1, FS_Interval
    <2>2. IsFiniteSet(Spans)
      BY <2>1, FS_Product DEF Spans
    <2>3. Spans \subseteq Pairs
      BY <1>1 DEF Spans, Pairs
    <2>4. QED BY <1>2, <2>2, <2>3, FS_Subset
  <1> HIDE DEF j
  <1>4. MadeOf(all, Gaps) /\ all # << >> /\ \A r \in Gaps : Covers(all, r)
    BY <1>1, <1>2, <1>3, CoalesceTheorem DEF StartBackfill
  <1>5. ranges' = all /\ job = "idle" /\ job' = "fetching" /\ asOf' = now /\ attempt' = 1
        /\ cursor' = Head(all)[1] /\ UNCHANGED <<mvars, listed, page, result>>
    BY DEF StartBackfill, j
  <1> HIDE DEF all
  <1>6. all \in Seq(Pairs) /\ Len(all) \in Nat /\ Len(all) > 0 /\ Head(all) = all[1]
    BY <1>4 DEF MadeOf
  <1>7. \A i \in 1 .. Len(all) : /\ all[i] \in Spans
                                 /\ all[i][1] < all[i][2] /\ all[i][2] <= Opens(now) + 1
    <2> SUFFICES ASSUME NEW i \in 1 .. Len(all)
                 PROVE  /\ all[i] \in Spans
                        /\ all[i][1] < all[i][2] /\ all[i][2] <= Opens(now) + 1
      OBVIOUS
    <2>1. all[i] \in Pairs
      BY <1>6
    <2>2. all[i][1] < all[i][2] /\ (\E r \in Gaps : all[i][1] = r[1]) /\ (\E r \in Gaps : all[i][2] = r[2])
      BY <1>4 DEF MadeOf
    <2>3. all[i][1] \in 0 .. LastTime /\ all[i][2] \in 0 .. LastTime /\ all[i][2] <= Opens(now) + 1
      BY <1>2, <2>2 DEF Spans
    <2>4. all[i] = <<all[i][1], all[i][2]>>
      BY <2>1 DEF Pairs
    <2>5. QED BY <2>2, <2>3, <2>4 DEF Spans
  <1>8. all \in Seq(Spans)
    BY <1>6, <1>7
  <1>9. all[1][1] \in Nat /\ all[1][1] < all[1][2]
    BY <1>1, <1>6, <1>7 DEF Spans
  <1>10. Plan'
    BY <1>1, <1>4, <1>5, <1>6, <1>7, <1>8, <1>9, BackfillAssumption DEF AtWork, Plan, mvars
  <1>11. page = NoCandles /\ page' = NoCandles
    BY <1>5 DEF AtWork, PageInHand
  <1>12. PageInHand'
    BY <1>5, <1>11, BackfillAssumption DEF PageInHand, NoCandles, Inv, Repair
  <1>13. NothingForgotten'
    <2> SUFFICES ASSUME NEW m \in listed, m <= now - Grace, table[m] = "none"
                 PROVE  Ahead(m)'
      BY <1>5 DEF NothingForgotten, mvars
    <2>1. m \in C!Minutes /\ Opens(m) \in Nat
      BY IngestionAssumption, BackfillAssumption DEF Inv, Repair, C!Minutes, Opens, Minute
    <2>2. PICK r \in Gaps : r[1] <= Opens(m) /\ Opens(m) < r[2]
      BY <1>2, <2>1
    <2>3. PICK i \in 1 .. Len(all) : all[i][1] <= r[1] /\ r[2] <= all[i][2]
      BY <1>4 DEF Covers
    <2>4. all[i][1] <= Opens(m) /\ Opens(m) < all[i][2]
      <3>1. all[i] \in Pairs /\ r \in Pairs
        BY <1>3, <1>6
      <3>2. QED BY <2>1, <2>2, <2>3, <3>1 DEF Pairs
    <2>5. CASE i = 1
      BY <1>5, <1>6, <2>4, <2>5 DEF Ahead, Opens
    <2>6. CASE i # 1
      BY <1>5, <1>6, <2>4, <2>6 DEF Ahead, Opens
    <2>7. QED BY <2>5, <2>6
  <1>14. TableTimely'
    BY <1>5 DEF AtWork, TableTimely, mvars
  <1>15. QED BY <1>10, <1>12, <1>13, <1>14 DEF AtWork

\* The window ends behind its beginning and within the range.
LEMMA WindowFacts ==
    ASSUME Inv, AtWork, job # "idle"
    PROVE  /\ cursor \in Nat /\ WindowEnd \in Nat /\ cursor < WindowEnd
           /\ WindowEnd <= Opens(asOf) + 1
  <1>1. /\ 1 \in 1 .. Len(ranges) /\ Head(ranges) = ranges[1]
        /\ ranges[1] \in Spans /\ ranges[1][2] <= Opens(asOf) + 1
        /\ cursor \in Nat /\ cursor < ranges[1][2]
    BY DEF AtWork, Plan
  <1>2. ranges[1][2] \in Nat /\ Opens(asOf) + 1 \in Nat
    BY <1>1, IngestionAssumption DEF Spans, LastTime, Opens, Minute, AtWork, Plan, Inv, Live, C!Minutes
  <1>3. QED BY <1>1, <1>2, BackfillAssumption DEF WindowEnd, Minute

LEMMA FetchAtWork ==
    ASSUME Inv, AtWork, FetchPage \/ FetchNothing
    PROVE  /\ AtWork'
           /\ job' = "idle" => \A m \in listed : m <= asOf - Grace => table'[m] # "none"
  <1>1. job = "fetching"
    BY DEF FetchPage, FetchNothing
  <1>2. /\ cursor \in Nat /\ WindowEnd \in Nat /\ cursor < WindowEnd
        /\ WindowEnd <= Opens(asOf) + 1
    BY <1>1, WindowFacts
  <1>3. now \in C!Minutes /\ now \in Nat /\ listed \subseteq C!Minutes /\ asOf \in Nat /\ asOf <= now
        /\ (\A m \in C!Minutes : m \in Nat) /\ (\A m : Opens(m) = 2 * m)
    BY IngestionAssumption, BackfillAssumption
    DEF Inv, Live, Repair, AtWork, Plan, C!Minutes, Opens, Minute
  <1> DEFINE K == Klines(cursor, WindowEnd)
  <1>4. /\ \A m \in C!Minutes : K[m] # "none" =>
              m \in listed /\ m <= now /\ cursor <= Opens(m) /\ Opens(m) <= WindowEnd
        /\ \A m \in C!Minutes : K[m] = "partial" => m = now
        /\ \A m \in listed, n \in C!Minutes :
              K[m] = "none" /\ K[n] # "none" /\ cursor <= Opens(m) => n < m
        /\ K = NoCandles =>
              \A m \in listed : m <= now /\ cursor <= Opens(m) => Opens(m) > WindowEnd
    BY <1>2, <1>3, KlinesFacts
  <1> HIDE DEF K
  <1>5. CASE FetchPage
    <2>1. page' = K /\ K # NoCandles /\ job' = "inserting"
          /\ UNCHANGED <<mvars, listed, ranges, cursor, attempt, asOf, result>>
      BY <1>5 DEF FetchPage, K
    <2>2. \A m \in C!Minutes : K[m] = "partial" => m = asOf
      <3> SUFFICES ASSUME NEW m \in C!Minutes, K[m] = "partial"
                   PROVE  m = asOf
        OBVIOUS
      <3>1. m = now /\ 2 * m <= 2 * asOf + 1
        BY <1>2, <1>3, <1>4
      <3>2. QED BY <1>3, <3>1
    <2>3. PageInHand'
      BY <1>4, <2>1, <2>2 DEF PageInHand, NoCandles, Opens
    <2>4. Plan'
      BY <1>1, <2>1 DEF AtWork, Plan, mvars, Opens
    <2>5. NothingForgotten'
      BY <1>1, <2>1 DEF AtWork, NothingForgotten, Ahead, mvars, Opens
    <2>6. QED BY <2>1, <2>3, <2>4, <2>5 DEF AtWork, TableTimely, mvars
  <1>6. CASE FetchNothing
    <2>1. K = NoCandles /\ Advance(WindowEnd) /\ UNCHANGED <<mvars, listed, asOf>>
      BY <1>6 DEF FetchNothing, K
    <2>2. table' = table /\ now' = now /\ TableTimely'
      BY <2>1 DEF AtWork, TableTimely, mvars
    <2>3. ASSUME NEW m \in listed, m <= asOf - Grace, cursor <= Opens(m), Opens(m) < WindowEnd
          PROVE  table'[m] # "none"
      <3>1. m <= now
        BY <1>3, <2>3, BackfillAssumption
      <3>2. QED BY <1>2, <1>3, <1>4, <2>1, <2>3, <3>1
    <2>4. QED BY <1>1, <1>2, <2>1, <2>2, <2>3, AdvanceAtWork
  <1>7. QED BY <1>5, <1>6

LEMMA InsertAtWork ==
    ASSUME Inv, AtWork, InsertPage, [BNext]_allvars
    PROVE  /\ AtWork'
           /\ job' = "idle" => \A m \in listed : m <= asOf - Grace => table'[m] # "none"
  <1> DEFINE got == {m \in C!Minutes : page[m] # "none"}
             last == Max(got)
  <1>1. job = "inserting" /\ InsertCandles(page) /\ Advance(LastOpen + Minute)
        /\ now' = now /\ listed' = listed /\ asOf' = asOf
    BY DEF InsertPage
  <1>2. (\A m \in C!Minutes : m \in Nat /\ m <= LastMinute) /\ LastMinute \in Nat
        /\ (\A m : Opens(m) = 2 * m) /\ listed \subseteq C!Minutes /\ cursor \in Nat
    BY IngestionAssumption, BackfillAssumption
    DEF Inv, Repair, AtWork, Plan, C!Minutes, Opens, Minute
  <1>3. page \in [C!Minutes -> C!Kinds] /\ page # NoCandles
    BY <1>1 DEF Inv, Repair, AtWork, PageInHand
  <1>4. got # {}
    BY <1>3 DEF NoCandles
  <1>5. last \in got /\ \A m \in got : m <= last
    <2>1. got \in SUBSET Nat /\ \A m \in got : m <= LastMinute
      BY <1>2
    <2>2. QED BY <1>2, <1>4, <2>1, MinMax
  <1>6. LastOpen = 2 * last
    BY <1>2 DEF LastOpen
  <1> HIDE DEF last
  <1>7. cursor <= 2 * last /\ last \in C!Minutes /\ page[last] # "none"
    BY <1>2, <1>5 DEF AtWork, PageInHand
  <1> DEFINE to == 2 * last + 2
  <1>8. to \in Nat /\ cursor < to /\ Advance(to)
    BY <1>1, <1>2, <1>6, <1>7 DEF Minute
  <1>9. TableTimely' /\ \A m \in C!Minutes : table[m] # "none" => table'[m] # "none"
    BY TableStays DEF AtWork
  <1>10. ASSUME NEW m \in listed, m <= asOf - Grace, cursor <= Opens(m), Opens(m) < to
         PROVE  table'[m] # "none"
    <2>1. m \in C!Minutes /\ m \in Nat /\ last \in Nat /\ m <= last
      BY <1>2, <1>7, <1>10
    <2>2. page[m] # "none"
      <3>1. page[m] = "none" => last < m
        BY <1>7, <1>10 DEF AtWork, PageInHand
      <3>2. QED BY <2>1, <3>1
    <2>3. QED BY <1>1, <2>1, <2>2 DEF InsertCandles
  <1> HIDE DEF to
  <1>11. QED BY <1>1, <1>8, <1>9, <1>10, AdvanceAtWork

LEMMA NextAtWork ==
    ASSUME Inv, AtWork, [BNext]_allvars
    PROVE  AtWork'
  <1>1. /\ TableTimely' /\ now \in Nat /\ now' \in Nat /\ now <= now'
        /\ \A m \in C!Minutes : table[m] # "none" => table'[m] # "none"
    BY TableStays DEF AtWork
  <1>2. CASE UNCHANGED bvars
    <2>1. listed \subseteq C!Minutes
      BY BackfillAssumption DEF Inv, Repair
    <2>2. asOf \in 0 .. now'
      BY <1>1 DEF AtWork, Plan
    <2>3. Plan'
      BY <1>2, <2>2 DEF bvars, AtWork, Plan, Opens
    <2>4. PageInHand'
      BY <1>2 DEF bvars, AtWork, PageInHand, NoCandles, Opens
    <2>5. NothingForgotten'
      BY <1>1, <1>2, <2>1 DEF bvars, AtWork, NothingForgotten, Ahead, Opens
    <2>6. QED BY <1>1, <2>3, <2>4, <2>5 DEF AtWork
  <1>3. CASE StartBackfill
    BY <1>3, StartAtWork
  <1>4. CASE FetchPage \/ FetchNothing
    BY <1>4, FetchAtWork
  <1>5. CASE InsertPage
    BY <1>5, InsertAtWork
  <1>6. CASE RetryPage
    <2>1. /\ attempt' \in 1 .. MaxAttempts
          /\ UNCHANGED <<now, table, listed, job, ranges, cursor, page, asOf, result>>
      BY <1>6, BackfillAssumption DEF RetryPage, AtWork, Plan
    <2>2. QED BY <1>1, <2>1
              DEF AtWork, Plan, PageInHand, NothingForgotten, Ahead, NoCandles, Opens
  <1>7. CASE FailBackfill
    <2>1. /\ job' = "idle" /\ ranges' = << >> /\ cursor' = 0 /\ attempt' = 1
          /\ page' = NoCandles /\ result' = "failed" /\ UNCHANGED <<now, table, listed, asOf>>
      BY <1>7 DEF FailBackfill
    <2>2. Plan'
      BY <2>1, BackfillAssumption DEF AtWork, Plan
    <2>3. PageInHand'
      BY <2>1, BackfillAssumption DEF PageInHand, NoCandles, Inv, Repair
    <2>4. QED BY <1>1, <2>1, <2>2, <2>3 DEF AtWork, NothingForgotten
  <1>8. QED BY <1>2, <1>3, <1>4, <1>5, <1>6, <1>7, NextCases DEF allvars

LEMMA AtWorkTheorem == BSpec => [](Inv /\ AtWork)
  <1>1. BInit => Inv /\ AtWork
    BY InitInv, InitAtWork
  <1>2. Inv /\ AtWork /\ [BNext]_allvars => (Inv /\ AtWork)'
    BY NextInv, NextAtWork
  <1>3. QED BY <1>1, <1>2, PTL DEF BSpec

-----------------------------------------------------------------------------
(* Every variable of both paths (ingestion/market/, tools/backfill_market.py)*)
(* stays in its range; a backfill has ranges and a page exactly while it     *)
(* fetches and inserts.                                                      *)
THEOREM TypeTheorem == BSpec => []TypeOK
  <1>1. Inv /\ AtWork => TypeOK
    <2> SUFFICES ASSUME Inv, AtWork
                 PROVE  TypeOK
      OBVIOUS
    <2>1. MTypeOK
      BY IngestionAssumption DEF Inv, Live, MTypeOK, C!Minutes
    <2>2. cursor \in 0 .. Opens(LastMinute) + 1
      <3>1. CASE job = "idle"
        BY <3>1, IngestionAssumption DEF AtWork, Plan, Opens, Minute
      <3>2. CASE job # "idle"
        <4>1. ranges[1] \in Spans /\ cursor \in Nat /\ cursor < ranges[1][2]
          BY <3>2 DEF AtWork, Plan
        <4>2. QED BY <4>1, IngestionAssumption DEF Spans, LastTime, Opens, Minute
      <3>3. QED BY <3>1, <3>2
    <2>3. QED BY <2>1, <2>2 DEF TypeOK, Inv, Repair, AtWork, Plan, PageInHand
  <1>2. QED BY <1>1, AtWorkTheorem, PTL

(* tools/backfill_market.py:112 for any page size and any listing: the only  *)
(* unfinished candle that enters the table is the one of the minute in which *)
(* the gaps were computed, by the backfill that computed them.               *)
THEOREM PartialTheorem == BSpec => PartialOnlyAtTheEnd
  <1> DEFINE A == \A m \in C!Minutes :
                     table[m] # "partial" /\ table'[m] = "partial" => job = "inserting" /\ m = asOf
  <1>1. Inv /\ AtWork /\ [BNext]_allvars => [A]_allvars
    <2> SUFFICES ASSUME Inv, AtWork, [BNext]_allvars, NEW m \in C!Minutes,
                        table[m] # "partial", table'[m] = "partial"
                 PROVE  job = "inserting" /\ m = asOf
      OBVIOUS
    <2>1. table' # table
      OBVIOUS
    <2>2. CASE InsertPage
      <3>1. job = "inserting" /\ page[m] = "partial"
        BY <2>2 DEF InsertPage, InsertCandles
      <3>2. QED BY <3>1 DEF AtWork, PageInHand
    <2>3. CASE Consume
      <3>1. PICK r \in topic : InsertCandles(Candle(r.minute, "final"))
        BY <2>1, <2>3 DEF Consume
      <3>2. QED BY <3>1 DEF InsertCandles, Candle
    <2>4. QED
      BY <2>1, <2>2, <2>3, NextCases
      DEF allvars, mvars, bvars, Tick, C!MinutePasses,
          StartIngestion, Connect, PublishClosed, PublishForming, Publish, WakeUp,
          Deliver, Disconnect, CloseCleanly, EndIngestion, DropAfterRetries,
          StartBackfill, FetchPage, FetchNothing, RetryPage, FailBackfill
  <1>2. QED BY <1>1, AtWorkTheorem, PTL DEF BSpec, PartialOnlyAtTheEnd

(* backfill_symbol, for any gaps, any distance within which ranges are       *)
(* merged, any page size and any windows without a candle: a backfill that   *)
(* ends clean has stored every candle Binance had when the gaps were         *)
(* computed, but for those within the grace.                                 *)
THEOREM NoGapTheorem == BSpec => CleanRunLeavesNoGap
  <1> DEFINE A == job # "idle" /\ job' = "idle" /\ result' = "clean"
                     => \A m \in listed : m <= asOf - Grace => table'[m] # "none"
  <1>1. Inv /\ AtWork /\ [BNext]_allvars => [A]_allvars
    <2> SUFFICES ASSUME Inv, AtWork, [BNext]_allvars,
                        job # "idle", job' = "idle", result' = "clean"
                 PROVE  \A m \in listed : m <= asOf - Grace => table'[m] # "none"
      OBVIOUS
    <2>1. CASE FetchPage \/ FetchNothing
      BY <2>1, FetchAtWork
    <2>2. CASE InsertPage
      BY <2>2, InsertAtWork
    <2>3. QED
      BY <2>1, <2>2, NextCases DEF allvars, bvars, StartBackfill, RetryPage, FailBackfill
  <1>2. QED BY <1>1, AtWorkTheorem, PTL DEF BSpec, CleanRunLeavesNoGap
=============================================================================
