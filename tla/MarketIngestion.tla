--------------------------- MODULE MarketIngestion ---------------------------
(***************************************************************************)
(* The live path of one symbol's candles: Binance's websocket,             *)
(* ingestion/market/, Kafka, and the market consumer's insert. A candle is *)
(* published many times while it forms and once when it has closed; only   *)
(* the closed one is stored, and it comes once: what is lost while the     *)
(* stream is down, or in the producer, is lost for this path.              *)
(***************************************************************************)
EXTENDS Integers, FiniteSets

CONSTANTS LastMinute,  \* bound: as in CandleStore
          MaxFaults,   \* bound: faults in a behaviour
          Watched,     \* bound: minutes whose open candles are followed
          FirstDelay,  \* RECONNECT_DELAY_SECONDS
          MaxDelay     \* MAX_RECONNECT_DELAY_SECONDS

ASSUME IngestionAssumption ==
    /\ LastMinute \in Nat \ {0}
    /\ MaxFaults \in Nat /\ Watched \subseteq 1 .. LastMinute
    /\ FirstDelay \in Nat \ {0} /\ MaxDelay \in Nat /\ FirstDelay <= MaxDelay

VARIABLES
    now, table,  \* as in CandleStore
    stream,      \* "off" (no process), "connecting", "open" or "sleeping"
    delay,       \* reconnect_delay
    due,         \* minutes whose closing event is on its way on the connection
    buffer,      \* messages the producer has accepted and not delivered
    topic,       \* messages in Kafka that the consumer has not handled
    faults

mvars == <<now, table, stream, delay, due, buffer, topic, faults>>

C == INSTANCE CandleStore WITH now <- now, table <- table

Messages == [minute : C!Minutes, closed : BOOLEAN]

MInit ==
    /\ C!CInit
    /\ stream = "off" /\ delay = FirstDelay
    /\ due = {} /\ buffer = {} /\ topic = {}
    /\ faults = 0

Fault == faults < MaxFaults /\ faults' = faults + 1

\* A minute ends. Binance sends its closed candle to whoever is connected now;
\* nobody connected later gets it. The stream is read at least once a minute.
Tick ==
    /\ due = {}
    /\ C!MinutePasses
    /\ due' = IF stream = "open" THEN {now} ELSE {}
    /\ UNCHANGED <<stream, delay, buffer, topic, faults>>
-----------------------------------------------------------------------------
\* An operator starts run().
StartIngestion ==
    /\ stream = "off"
    /\ stream' = "connecting" /\ delay' = FirstDelay
    /\ UNCHANGED <<now, table, due, buffer, topic, faults>>

Connect ==
    /\ stream = "connecting"
    /\ stream' = "open"
    /\ UNCHANGED <<now, table, delay, due, buffer, topic, faults>>

\* A message of the stream: publish it, reset the delay.
Publish(m) ==
    /\ stream = "open"
    /\ buffer' = buffer \union {m}
    /\ delay' = FirstDelay
    /\ UNCHANGED <<now, table, stream, topic, faults>>

PublishForming ==
    now \in Watched /\ Publish([minute |-> now, closed |-> FALSE]) /\ UNCHANGED due

PublishClosed ==
    \E m \in due : Publish([minute |-> m, closed |-> TRUE]) /\ due' = due \ {m}

\* Either except clause of run(): sleep, then twice the delay up to the limit.
\* ConnectionClosed, OSError, a handshake that fails, or publish raising: the
\* message in hand goes with the connection.
Disconnect ==
    /\ stream \in {"connecting", "open"}
    /\ Fault
    /\ stream' = "sleeping" /\ due' = {}
    /\ UNCHANGED <<now, table, delay, buffer, topic>>

WakeUp ==
    /\ stream = "sleeping"
    /\ stream' = "connecting"
    /\ delay' = IF delay * 2 <= MaxDelay THEN delay * 2 ELSE MaxDelay
    /\ UNCHANGED <<now, table, due, buffer, topic, faults>>

\* A clean close ends the generator without an exception: `while True` connects
\* again at once.
CloseCleanly ==
    /\ stream = "open"
    /\ Fault
    /\ stream' = "connecting" /\ due' = {}
    /\ UNCHANGED <<now, table, delay, buffer, topic>>

\* The process ends. A KeyboardInterrupt raised inside the loop leads to flush();
\* asyncio's own handling of Ctrl+C, a CancelledError that neither clause
\* catches, does not; and a killed process loses whatever it has not sent.
EndIngestion ==
    /\ stream # "off"
    /\ Fault
    /\ \E sent \in SUBSET buffer : topic' = topic \union sent
    /\ stream' = "off" /\ due' = {} /\ buffer' = {}
    /\ UNCHANGED <<now, table, delay>>
-----------------------------------------------------------------------------
\* The producer's thread: acknowledged, or given up after its retries. The
\* future that would say so was dropped.
Deliver ==
    \E m \in buffer :
        /\ buffer' = buffer \ {m} /\ topic' = topic \union {m}
        /\ UNCHANGED <<now, table, stream, delay, due, faults>>

DropAfterRetries ==
    \E m \in buffer :
        /\ Fault
        /\ buffer' = buffer \ {m}
        /\ UNCHANGED <<now, table, stream, delay, due, topic>>

\* INSERT ... ON CONFLICT DO UPDATE.
InsertCandles_Overwrites(candles) ==
    table' = [m \in C!Minutes |-> IF candles[m] = "none" THEN table[m] ELSE candles[m]]

\* INSERT ... ON CONFLICT DO NOTHING of a batch: Minutes -> Kinds.
InsertCandles(candles) ==
    table' = [m \in C!Minutes |-> IF table[m] = "none" THEN candles[m] ELSE table[m]]

Candle(m, kind) == [n \in C!Minutes |-> IF n = m THEN kind ELSE "none"]

\* The consumer skips a candle that is not closed. Retries, fencing and
\* restarts are the business of StorageConsumer.
Consume ==
    \E m \in topic :
        /\ topic' = topic \ {m}
        /\ IF m.closed THEN InsertCandles(Candle(m.minute, "final")) ELSE UNCHANGED table
        /\ UNCHANGED <<now, stream, delay, due, buffer, faults>>

IngestionProgress ==
    \/ StartIngestion \/ Connect \/ PublishClosed \/ WakeUp
    \/ Deliver \/ Consume

IngestionSteps == IngestionProgress \/ PublishForming

IngestionFaults ==
    Disconnect \/ CloseCleanly \/ EndIngestion \/ DropAfterRetries

MTypeOK ==
    /\ now \in C!Minutes
    /\ table \in [C!Minutes -> C!Kinds]
    /\ stream \in {"off", "connecting", "open", "sleeping"}
    /\ delay \in FirstDelay .. MaxDelay
    /\ due \subseteq 1 .. now - 1
    /\ buffer \subseteq Messages /\ topic \subseteq Messages
    /\ faults \in 0 .. MaxFaults
=============================================================================
