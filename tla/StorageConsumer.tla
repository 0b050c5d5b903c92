--------------------------- MODULE StorageConsumer ---------------------------
(***************************************************************************)
(* The consumers that move one Kafka partition into TimescaleDB            *)
(* (streaming/market_consumer.py, streaming/sentiment_consumer.py,         *)
(* streaming/resilient_writer.py): processes of one consumer group with    *)
(* manual commits, reconnecting writers, INSERT ... ON CONFLICT DO NOTHING *)
(* and fail-fast on a database that stays away.                            *)
(*                                                                         *)
(* The environment (Kafka's group coordinator, the database, the operating *)
(* system) appears as the code meets it: it may fence a consumer, lose an  *)
(* acknowledgement, go down or kill a process, MaxFaults times in all.     *)
(***************************************************************************)
EXTENDS Naturals, Sequences

CONSTANTS Instances,   \* processes running run(), restarted by the supervisor
          NoInstance,  \* the partition has no owner
          Keys,        \* primary keys of the table
          Messages,    \* what producers may publish: [key, kind] records
          MaxRetries,  \* DB_MAX_RETRIES of the writers
          MaxLog,      \* bound: messages published in a behaviour
          MaxFaults    \* bound: faults the environment injects

(* "row"       passes validation and the server accepts the row              *)
(* "rejected"  passes validation, the server always refuses the row          *)
(* "invalid"   MalformedMessageError, or a candle that is not closed         *)
(* "unhandled" validation or execute() raises something else: OverflowError  *)
(*             of float() on a large integer, ValueError of psycopg2 on a    *)
(*             string with a NUL                                             *)
Kinds == {"row", "rejected", "invalid", "unhandled"}

ASSUME ConstantsAssumption ==
    /\ NoInstance \notin Instances
    /\ Messages \subseteq [key : Keys, kind : Kinds]
    /\ MaxRetries \in Nat \ {0}
    /\ MaxLog \in Nat
    /\ MaxFaults \in Nat

VARIABLES
    log, committed, rows, skipped,  \* as in Delivery
    owner,     \* the group member the coordinator assigned the partition to
    pc,        \* "down", "polling", "writing" or "committing"
    assigned,  \* whether the process believes it owns the partition
    pos,       \* its position: messages taken from the log so far
    attempt,   \* attempt of the current write(), from 1
    conn,      \* its connection: "none", "open" or "broken" (not noticed yet)
    dbUp,
    faults     \* faults injected so far

vars == <<log, committed, rows, skipped,
          owner, pc, assigned, pos, attempt, conn, dbUp, faults>>

storeVars == <<log, committed, rows, skipped>>

D == INSTANCE Delivery

Init ==
    /\ D!DInit
    /\ owner = NoInstance
    /\ pc = [i \in Instances |-> "down"]
    /\ assigned = [i \in Instances |-> FALSE]
    /\ pos = [i \in Instances |-> 0]
    /\ attempt = [i \in Instances |-> 1]
    /\ conn = [i \in Instances |-> "none"]
    /\ dbUp = TRUE
    /\ faults = 0

Fault == faults < MaxFaults /\ faults' = faults + 1

Publish ==
    /\ Len(log) < MaxLog
    /\ \E m \in Messages : log' = Append(log, m)
    /\ UNCHANGED <<committed, rows, skipped,
                   owner, pc, assigned, pos, attempt, conn, dbUp, faults>>
-----------------------------------------------------------------------------
\* The process ends through the finally block: consumer.close() leaves the
\* group, writer.close() drops the connection. Nothing is committed.
Exit(i) ==
    /\ pc' = [pc EXCEPT ![i] = "down"]
    /\ assigned' = [assigned EXCEPT ![i] = FALSE]
    /\ owner' = IF owner = i /\ assigned[i] THEN NoInstance ELSE owner
    /\ conn' = [conn EXCEPT ![i] = "none"]

\* KafkaConsumer(...) and the writer's constructor. With the database down the
\* constructor raises before the loop and the process is gone again: no step.
Start(i) ==
    /\ pc[i] = "down"
    /\ dbUp
    /\ pc' = [pc EXCEPT ![i] = "polling"]
    /\ conn' = [conn EXCEPT ![i] = "open"]
    /\ UNCHANGED <<storeVars, owner, assigned, pos, attempt, dbUp, faults>>

\* Polling joins the group; a new assignment starts at the committed offset,
\* or at the beginning (auto_offset_reset="earliest").
Join(i) ==
    /\ pc[i] = "polling" /\ ~ assigned[i]
    /\ owner = NoInstance
    /\ owner' = i
    /\ assigned' = [assigned EXCEPT ![i] = TRUE]
    /\ pos' = [pos EXCEPT ![i] = committed]
    /\ UNCHANGED <<storeVars, pc, attempt, conn, dbUp, faults>>

\* The next poll of a fenced consumer finds out and gives the assignment up.
NoticeFenced(i) ==
    /\ pc[i] = "polling" /\ assigned[i]
    /\ owner # i
    /\ assigned' = [assigned EXCEPT ![i] = FALSE]
    /\ UNCHANGED <<storeVars, owner, pc, pos, attempt, conn, dbUp, faults>>

\* The consumer yields the next message: the position moves past it.
Take(i) ==
    /\ pc[i] = "polling" /\ assigned[i]
    /\ pos[i] < Len(log)
    /\ pos' = [pos EXCEPT ![i] = @ + 1]

Next1(i) == log[pos[i] + 1]

\* Validation accepts the message and write() begins.
TakeForWrite(i) ==
    /\ Take(i)
    /\ Next1(i).kind \in {"row", "rejected"}
    /\ pc' = [pc EXCEPT ![i] = "writing"]
    /\ attempt' = [attempt EXCEPT ![i] = 1]
    /\ UNCHANGED <<storeVars, owner, assigned, conn, dbUp, faults>>

\* A skip that forgets to commit.
TakeInvalid_NoCommit(i) ==
    /\ Take(i)
    /\ Next1(i).kind = "invalid"
    /\ UNCHANGED <<storeVars, owner, pc, assigned, attempt, conn, dbUp, faults>>

\* Malformed message or open candle: log, go straight to the commit.
TakeInvalid(i) ==
    /\ Take(i)
    /\ Next1(i).kind = "invalid"
    /\ pc' = [pc EXCEPT ![i] = "committing"]
    /\ UNCHANGED <<storeVars, owner, assigned, attempt, conn, dbUp, faults>>

\* Neither except clause of the loop catches it: the process ends.
TakeUnhandled(i) ==
    /\ Take(i)
    /\ Next1(i).kind = "unhandled"
    /\ Exit(i)
    /\ UNCHANGED <<storeVars, attempt, dbUp, faults>>
-----------------------------------------------------------------------------
\* The message in hand.
Current(i) == log[pos[i]]

\* INSERT ... ON CONFLICT DO UPDATE.
InsertRow_Overwrites(i) ==
    rows' = IF Current(i).kind = "row"
              THEN [rows EXCEPT ![Current(i).key] = pos[i]]
              ELSE rows

\* INSERT ... ON CONFLICT DO NOTHING: the first row of a key stays.
InsertRow(i) ==
    rows' = IF Current(i).kind = "row" /\ rows[Current(i).key] = 0
              THEN [rows EXCEPT ![Current(i).key] = pos[i]]
              ELSE rows

\* Treats the last failed attempt like a data error: commit and go on.
ConnectionError_GivesUp(i) ==
    /\ conn' = [conn EXCEPT ![i] = "none"]
    /\ IF attempt[i] = MaxRetries
         THEN /\ pc' = [pc EXCEPT ![i] = "committing"]
              /\ UNCHANGED <<owner, assigned, attempt>>
         ELSE /\ attempt' = [attempt EXCEPT ![i] = @ + 1]
              /\ UNCHANGED <<pc, owner, assigned>>

\* Retries without a limit.
ConnectionError_NoLimit(i) ==
    /\ conn' = [conn EXCEPT ![i] = "none"]
    /\ attempt' = [attempt EXCEPT ![i] = @ + 1]
    /\ UNCHANGED <<pc, owner, assigned>>

\* except DB_CONNECTION_ERRORS in write(): close, then sleep and retry, or
\* re-raise after the last attempt, which ends the process without a commit.
ConnectionError(i) ==
    IF attempt[i] = MaxRetries
      THEN Exit(i) /\ UNCHANGED attempt
      ELSE /\ conn' = [conn EXCEPT ![i] = "none"]
           /\ attempt' = [attempt EXCEPT ![i] = @ + 1]
           /\ UNCHANGED <<pc, owner, assigned>>

\* _connect() inside write(), when the last attempt closed the connection.
Reconnect(i) ==
    /\ pc[i] = "writing" /\ conn[i] = "none"
    /\ dbUp
    /\ conn' = [conn EXCEPT ![i] = "open"]
    /\ UNCHANGED <<storeVars, owner, pc, assigned, pos, attempt, dbUp, faults>>

ReconnectFails(i) ==
    /\ pc[i] = "writing" /\ conn[i] = "none"
    /\ ~ dbUp
    /\ ConnectionError(i)
    /\ UNCHANGED <<storeVars, pos, dbUp, faults>>

\* execute() returns: a new row or a duplicate.
Insert(i) ==
    /\ pc[i] = "writing" /\ conn[i] = "open"
    /\ Current(i).kind = "row"
    /\ InsertRow(i)
    /\ pc' = [pc EXCEPT ![i] = "committing"]
    /\ UNCHANGED <<log, committed, skipped,
                   owner, assigned, pos, attempt, conn, dbUp, faults>>

\* execute() meets a connection the server closed while nobody was looking.
InsertOnBroken(i) ==
    /\ pc[i] = "writing" /\ conn[i] = "broken"
    /\ ConnectionError(i)
    /\ UNCHANGED <<storeVars, pos, dbUp, faults>>

\* The connection dies under the INSERT: the server has run it or has not,
\* the client sees a connection error either way.
InsertAckLost(i) ==
    /\ pc[i] = "writing" /\ conn[i] = "open"
    /\ Fault
    /\ InsertRow(i) \/ UNCHANGED rows
    /\ ConnectionError(i)
    /\ UNCHANGED <<log, committed, skipped, pos, dbUp>>

\* except psycopg2.Error: the server refuses this row, log and go on.
InsertRejected(i) ==
    /\ pc[i] = "writing" /\ conn[i] = "open"
    /\ Current(i).kind = "rejected"
    /\ skipped' = skipped \union {pos[i]}
    /\ pc' = [pc EXCEPT ![i] = "committing"]
    /\ UNCHANGED <<log, committed, rows,
                   owner, assigned, pos, attempt, conn, dbUp, faults>>

\* The same clause catches what is wrong with the server and not the row: a
\* relation that does not exist yet, a read-only standby.
ServerRefuses(i) ==
    /\ pc[i] = "writing" /\ conn[i] = "open"
    /\ Current(i).kind = "row"
    /\ Fault
    /\ skipped' = skipped \union {pos[i]}
    /\ pc' = [pc EXCEPT ![i] = "committing"]
    /\ UNCHANGED <<log, committed, rows,
                   owner, assigned, pos, attempt, conn, dbUp>>
-----------------------------------------------------------------------------
\* consumer.commit() of a live member stores its position.
Commit(i) ==
    /\ pc[i] = "committing" /\ owner = i
    /\ committed' = pos[i]
    /\ pc' = [pc EXCEPT ![i] = "polling"]
    /\ UNCHANGED <<log, rows, skipped,
                   owner, assigned, pos, attempt, conn, dbUp, faults>>

\* A fenced member's commit fails: CommitFailedError ends the process.
CommitFenced(i) ==
    /\ pc[i] = "committing" /\ owner # i
    /\ Exit(i)
    /\ UNCHANGED <<storeVars, pos, attempt, dbUp, faults>>

\* The broker stores the offset or does not, and the call raises.
CommitFails(i) ==
    /\ pc[i] = "committing" /\ owner = i
    /\ Fault
    /\ committed' \in {committed, pos[i]}
    /\ Exit(i)
    /\ UNCHANGED <<log, rows, skipped, pos, attempt, dbUp>>
-----------------------------------------------------------------------------
\* A rebalance or an exceeded max.poll.interval takes the partition away.
Evict(i) ==
    /\ owner = i /\ assigned[i]
    /\ Fault
    /\ owner' = NoInstance
    /\ UNCHANGED <<storeVars, pc, assigned, pos, attempt, conn, dbUp>>

\* The session of a process that is gone times out.
ExpireSession(i) ==
    /\ owner = i /\ ~ assigned[i]
    /\ owner' = NoInstance
    /\ UNCHANGED <<storeVars, pc, assigned, pos, attempt, conn, dbUp, faults>>

\* Ctrl+C reaches the loop, which closes cleanly.
Interrupt(i) ==
    /\ pc[i] # "down"
    /\ Fault
    /\ Exit(i)
    /\ UNCHANGED <<storeVars, pos, attempt, dbUp>>

\* terminate() or a power cut: no finally block, the group finds out later.
Kill(i) ==
    /\ pc[i] # "down"
    /\ Fault
    /\ pc' = [pc EXCEPT ![i] = "down"]
    /\ assigned' = [assigned EXCEPT ![i] = FALSE]
    /\ conn' = [conn EXCEPT ![i] = "none"]
    /\ UNCHANGED <<storeVars, owner, pos, attempt, dbUp>>

DbGoesDown ==
    /\ dbUp
    /\ Fault
    /\ dbUp' = FALSE
    /\ conn' = [i \in Instances |-> IF conn[i] = "open" THEN "broken" ELSE conn[i]]
    /\ UNCHANGED <<storeVars, owner, pc, assigned, pos, attempt>>

DbComesBack ==
    /\ ~ dbUp
    /\ dbUp' = TRUE
    /\ UNCHANGED <<storeVars, owner, pc, assigned, pos, attempt, conn, faults>>
-----------------------------------------------------------------------------
\* What the code does by itself.
Run(i) ==
    \/ Start(i) \/ Join(i) \/ NoticeFenced(i)
    \/ TakeForWrite(i) \/ TakeInvalid(i) \/ TakeUnhandled(i)
    \/ Reconnect(i) \/ ReconnectFails(i)
    \/ Insert(i) \/ InsertOnBroken(i) \/ InsertRejected(i)
    \/ Commit(i) \/ CommitFenced(i)

\* What may happen to it.
Disturb(i) ==
    \/ InsertAckLost(i) \/ ServerRefuses(i) \/ CommitFails(i)
    \/ Evict(i) \/ Interrupt(i) \/ Kill(i)

Next ==
    \/ Publish
    \/ \E i \in Instances : Run(i) \/ Disturb(i) \/ ExpireSession(i)
    \/ DbGoesDown \/ DbComesBack

(* Fairness: a process that can run does (the supervisor restarts the dead   *)
(* ones, see Supervisor), the broker expires dead sessions, and an outage of *)
(* the database ends. Nothing obliges a producer or a fault.                 *)
Fairness ==
    /\ \A i \in Instances : WF_vars(Run(i)) /\ WF_vars(ExpireSession(i))
    /\ WF_vars(DbComesBack)

Spec == Init /\ [][Next]_vars

FairSpec == Spec /\ Fairness
-----------------------------------------------------------------------------
TypeOK ==
    /\ log \in Seq(Messages)
    /\ committed \in 0 .. Len(log)
    /\ rows \in [Keys -> 0 .. Len(log)]
    /\ skipped \subseteq 1 .. Len(log)
    /\ owner \in Instances \union {NoInstance}
    /\ pc \in [Instances -> {"down", "polling", "writing", "committing"}]
    /\ assigned \in [Instances -> BOOLEAN]
    /\ pos \in [Instances -> 0 .. Len(log)]
    /\ attempt \in [Instances -> 1 .. MaxRetries]
    /\ conn \in [Instances -> {"none", "open", "broken"}]
    /\ dbUp \in BOOLEAN
    /\ faults \in 0 .. MaxFaults

(* At-least-once: whatever crashes, is fenced or loses its acknowledgement,  *)
(* a committed message that carries a row has a row of its key in the table, *)
(* unless the server answered that INSERT with a data error (the message is  *)
(* then in the log file and counted). The commit follows the write in        *)
(* run() of both consumers.                                                  *)
AtLeastOnce == D!SettledUpTo(committed)

(* Exactly-once effect: redelivery, fenced writers and lost acknowledgements *)
(* leave no trace in the table. As long as no row was refused, a stored row  *)
(* is the one of the first message of its key: the table is a function of    *)
(* the log, which is what makes a restart always safe.                       *)
ReplayDeterminism ==
    \A k \in Keys :
        rows[k] # 0 =>
            /\ D!IsRow(log[rows[k]]) /\ log[rows[k]].key = k
            /\ \A n \in 1 .. rows[k] - 1 :
                  D!IsRow(log[n]) /\ log[n].key = k => n \in skipped

(* The group's offset moves one message at a time and never back, although  *)
(* several processes commit, some of them fenced, some of them restarted.   *)
OffsetAdvancesByOne == [][committed' \in {committed, committed + 1}]_vars

(* The consumers implement the abstract delivery specification.              *)
ImplementsDelivery == D!DSpec

(* Every published message is committed in the end, once the faults are      *)
(* over, unless a message before it makes validation raise an exception      *)
(* that the loop does not handle.                                            *)
EventuallyCommitted ==
    \A n \in 1 .. MaxLog :
        Len(log) >= n ~>
            \/ committed >= n
            \/ \E p \in 1 .. n : p <= Len(log) /\ log[p].kind = "unhandled"

(* streaming/market_consumer.py:5-6, "Offsets are committed manually, only   *)
(* after a candle is safely written or a message is deliberately skipped     *)
(* (partial candle / malformed)": a committed row is stored.                 *)
CommitsOnlyWritten ==
    \A n \in 1 .. committed : D!IsRow(log[n]) => rows[log[n].key] # 0

(* streaming/sentiment_consumer.py:174, "Poison messages are skipped and     *)
(* committed": no message blocks the ones behind it.                         *)
PoisonIsSkipped ==
    \A n \in 1 .. MaxLog : Len(log) >= n ~> committed >= n
=============================================================================
