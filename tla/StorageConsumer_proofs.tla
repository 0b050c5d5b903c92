------------------------ MODULE StorageConsumer_proofs ------------------------
(***************************************************************************)
(* What the storage consumers guarantee for any set of processes, keys and *)
(* messages and any number of retries and faults.                          *)
(*                                                                         *)
(* The properties are not inductive by themselves: that a commit covers    *)
(* only settled messages rests on how far each process has come (InHand),  *)
(* and that the offset moves by one rests on the position of the process   *)
(* that holds the lease (Lease). Inv is their conjunction.                 *)
(***************************************************************************)
EXTENDS StorageConsumer, TLAPS, SequenceTheorems

\* A process that works on a message has settled every earlier one, and a
\* process that is ready to commit has settled that one too.
InHandOf(i) ==
    /\ pc[i] = "down" => ~ assigned[i]
    /\ pc[i] = "polling" /\ assigned[i] => D!SettledUpTo(pos[i])
    /\ pc[i] = "writing" =>
          assigned[i] /\ pos[i] # 0 /\ D!SettledUpTo(pos[i] - 1)
    /\ pc[i] = "committing" =>
          assigned[i] /\ pos[i] # 0 /\ D!SettledUpTo(pos[i])

InHand == \A i \in Instances : InHandOf(i)

\* The lease holder works right behind the committed offset.
LeaseOf(i) ==
    owner = i /\ assigned[i] =>
        pos[i] = IF pc[i] = "polling" THEN committed ELSE committed + 1

Lease == \A i \in Instances : LeaseOf(i)

Inv == TypeOK /\ InHand /\ Lease /\ AtLeastOnce /\ ReplayDeterminism

-----------------------------------------------------------------------------
(* The five things a step can do to the log, the table and the offset.      *)

Appends == /\ \E m \in Messages : log' = Append(log, m)
           /\ UNCHANGED <<committed, rows, skipped>>

Inserts(i) == /\ pc[i] = "writing"
              /\ Current(i).kind = "row" /\ rows[Current(i).key] = 0
              /\ rows' = [rows EXCEPT ![Current(i).key] = pos[i]]
              /\ UNCHANGED <<log, committed, skipped>>

Skips(i) == /\ pc[i] = "writing"
            /\ skipped' = skipped \union {pos[i]}
            /\ UNCHANGED <<log, committed, rows>>

Commits(i) == /\ pc[i] = "committing" /\ owner = i
              /\ committed' = pos[i]
              /\ UNCHANGED <<log, rows, skipped>>

StoreStep == \/ UNCHANGED storeVars
             \/ Appends
             \/ \E i \in Instances : Inserts(i) \/ Skips(i) \/ Commits(i)

\* What the loop of a consumer does to the store.
LEMMA RunStoreStep ==
    ASSUME NEW i \in Instances, Run(i)
    PROVE  StoreStep
  <1>1. CASE Insert(i)
    <2>1. CASE rows[Current(i).key] = 0
      BY <1>1, <2>1 DEF Insert, InsertRow, Inserts, StoreStep
    <2>2. CASE rows[Current(i).key] # 0
      BY <1>1, <2>2 DEF Insert, InsertRow, storeVars, StoreStep
    <2>3. QED BY <2>1, <2>2
  <1>2. CASE InsertRejected(i)
    BY <1>2 DEF InsertRejected, Skips, StoreStep
  <1>3. CASE Commit(i)
    BY <1>3 DEF Commit, Commits, StoreStep
  <1>4. CASE Start(i) \/ Join(i) \/ NoticeFenced(i)
    BY <1>4 DEF Start, Join, NoticeFenced, StoreStep
  <1>5. CASE TakeForWrite(i) \/ TakeInvalid(i) \/ TakeUnhandled(i)
    BY <1>5 DEF TakeForWrite, TakeInvalid, TakeUnhandled, StoreStep
  <1>6. CASE Reconnect(i) \/ ReconnectFails(i) \/ InsertOnBroken(i) \/ CommitFenced(i)
    BY <1>6 DEF Reconnect, ReconnectFails, InsertOnBroken, CommitFenced, StoreStep
  <1>7. QED BY <1>1, <1>2, <1>3, <1>4, <1>5, <1>6 DEF Run

\* What a fault does to the store.
LEMMA DisturbStoreStep ==
    ASSUME NEW i \in Instances, Disturb(i)
    PROVE  StoreStep
  <1>1. CASE InsertAckLost(i)
    <2>1. CASE /\ InsertRow(i)
               /\ Current(i).kind = "row" /\ rows[Current(i).key] = 0
      BY <1>1, <2>1 DEF InsertAckLost, InsertRow, Inserts, StoreStep
    <2>2. CASE /\ InsertRow(i)
               /\ ~ (Current(i).kind = "row" /\ rows[Current(i).key] = 0)
      BY <1>1, <2>2 DEF InsertAckLost, InsertRow, storeVars, StoreStep
    <2>3. CASE UNCHANGED rows
      BY <1>1, <2>3 DEF InsertAckLost, storeVars, StoreStep
    <2>4. QED BY <1>1, <2>1, <2>2, <2>3 DEF InsertAckLost
  <1>2. CASE ServerRefuses(i)
    BY <1>2 DEF ServerRefuses, Skips, StoreStep
  <1>3. CASE CommitFails(i)
    BY <1>3 DEF CommitFails, Commits, storeVars, StoreStep
  <1>4. CASE Evict(i) \/ Interrupt(i) \/ Kill(i)
    BY <1>4 DEF Evict, Interrupt, Kill, StoreStep
  <1>5. QED BY <1>1, <1>2, <1>3, <1>4 DEF Disturb

\* Every step of the system is one of the five.
LEMMA NextStoreStep ==
    ASSUME [Next]_vars
    PROVE  StoreStep
  <1>1. CASE Publish
    BY <1>1 DEF Publish, Appends, StoreStep
  <1>2. ASSUME NEW i \in Instances, Run(i) \/ Disturb(i) \/ ExpireSession(i)
        PROVE  StoreStep
    BY <1>2, RunStoreStep, DisturbStoreStep DEF ExpireSession, StoreStep
  <1>3. CASE DbGoesDown \/ DbComesBack
    BY <1>3 DEF DbGoesDown, DbComesBack, StoreStep
  <1>4. CASE UNCHANGED vars
    BY <1>4 DEF vars, storeVars, StoreStep
  <1>5. QED BY <1>1, <1>2, <1>3, <1>4 DEF Next

-----------------------------------------------------------------------------
(* Messages stay settled: the log only grows, a row and a skip are for good. *)

Grows ==
    /\ Len(log) <= Len(log')
    /\ \A n \in 1 .. Len(log) : log'[n] = log[n]
    /\ \A k \in Keys : rows[k] # 0 => rows'[k] = rows[k]
    /\ skipped \subseteq skipped'

\* A published message has a key and a kind.
LEMMA MessageType ==
    ASSUME TypeOK, NEW n \in 1 .. Len(log)
    PROVE  log[n] \in Messages /\ log[n].key \in Keys /\ log[n].kind \in Kinds
  <1>1. log \in Seq(Messages)
    BY DEF TypeOK
  <1>2. log[n] \in Messages
    BY <1>1, ElementOfSeq
  <1>3. QED BY <1>2, ConstantsAssumption

\* No step takes anything from the log, the table or the skipped messages.
LEMMA StoreGrows ==
    ASSUME Inv, StoreStep
    PROVE  Grows
  <1> USE DEF Inv
  <1>1. CASE UNCHANGED storeVars
    BY <1>1 DEF TypeOK, storeVars, Grows
  <1>2. CASE Appends
    <2>1. PICK m \in Messages : log' = Append(log, m)
      BY <1>2 DEF Appends
    <2>2. log \in Seq(Messages)
      BY DEF TypeOK
    <2>3. Len(log') = Len(log) + 1 /\ \A n \in 1 .. Len(log) : log'[n] = log[n]
      BY <2>1, <2>2
    <2>4. Len(log) \in Nat
      BY <2>2
    <2>5. QED BY <1>2, <2>3, <2>4 DEF Appends, Grows
  <1>3. ASSUME NEW i \in Instances, Inserts(i)
        PROVE  Grows
    BY <1>3 DEF TypeOK, Inserts, Grows
  <1>4. ASSUME NEW i \in Instances, Skips(i) \/ Commits(i)
        PROVE  Grows
    BY <1>4 DEF TypeOK, Skips, Commits, Grows
  <1>5. QED BY <1>1, <1>2, <1>3, <1>4 DEF StoreStep

\* What is settled stays settled.
LEMMA SettledStays ==
    ASSUME TypeOK, Grows, NEW n \in 0 .. Len(log), D!SettledUpTo(n)
    PROVE  D!SettledUpTo(n)'
  <1>1. SUFFICES ASSUME NEW p \in 1 .. n
                 PROVE  D!Settled(p)'
    BY DEF D!SettledUpTo
  <1>2. p \in 1 .. Len(log) /\ D!Settled(p)
    BY DEF D!SettledUpTo, TypeOK
  <1>3. log[p].key \in Keys
    BY <1>2, MessageType
  <1>4. QED BY <1>2, <1>3 DEF D!Settled, D!IsRow, Grows
-----------------------------------------------------------------------------
(* Type correctness: the store, then the processes.                         *)

\* The store keeps its types.
LEMMA StoreTypes ==
    ASSUME Inv, StoreStep
    PROVE  /\ log' \in Seq(Messages)
           /\ committed' \in 0 .. Len(log')
           /\ rows' \in [Keys -> 0 .. Len(log')]
           /\ skipped' \subseteq 1 .. Len(log')
  <1> USE DEF Inv
  <1>1. CASE UNCHANGED storeVars
    BY <1>1 DEF TypeOK, storeVars
  <1>2. CASE Appends
    <2>1. PICK m \in Messages : log' = Append(log, m)
      BY <1>2 DEF Appends
    <2>2. log \in Seq(Messages) /\ Len(log) \in Nat
      BY DEF TypeOK
    <2>3. log' \in Seq(Messages) /\ Len(log') = Len(log) + 1
      BY <2>1, <2>2
    <2>4. QED BY <1>2, <2>2, <2>3 DEF Appends, TypeOK
  <1>3. ASSUME NEW i \in Instances, Inserts(i)
        PROVE  rows' \in [Keys -> 0 .. Len(log)] /\ UNCHANGED <<log, committed, skipped>>
    <2>1. pos[i] \in 1 .. Len(log)
      BY <1>3 DEF Inserts, InHand, InHandOf, TypeOK
    <2>2. QED BY <1>3, <2>1, MessageType DEF Inserts, Current, TypeOK
  <1>4. ASSUME NEW i \in Instances, Skips(i)
        PROVE  skipped' \subseteq 1 .. Len(log) /\ UNCHANGED <<log, committed, rows>>
    <2>1. pos[i] \in 1 .. Len(log)
      BY <1>4 DEF Skips, InHand, InHandOf, TypeOK
    <2>2. QED BY <1>4, <2>1 DEF Skips, TypeOK
  <1>5. ASSUME NEW i \in Instances, Commits(i)
        PROVE  committed' \in 0 .. Len(log) /\ UNCHANGED <<log, rows, skipped>>
    BY <1>5 DEF Commits, TypeOK
  <1>6. ASSUME NEW i \in Instances, Inserts(i) \/ Skips(i) \/ Commits(i)
        PROVE  /\ log' = log
               /\ committed' \in 0 .. Len(log)
               /\ rows' \in [Keys -> 0 .. Len(log)]
               /\ skipped' \subseteq 1 .. Len(log)
    BY <1>3, <1>4, <1>5, <1>6 DEF TypeOK
  <1>7. CASE \E i \in Instances : Inserts(i) \/ Skips(i) \/ Commits(i)
    BY <1>6, <1>7 DEF TypeOK
  <1>8. QED BY <1>1, <1>2, <1>7 DEF StoreStep

ProcessTypes ==
    /\ owner \in Instances \union {NoInstance}
    /\ pc \in [Instances -> {"down", "polling", "writing", "committing"}]
    /\ assigned \in [Instances -> BOOLEAN]
    /\ pos \in [Instances -> 0 .. Len(log)]
    /\ attempt \in [Instances -> 1 .. MaxRetries]
    /\ conn \in [Instances -> {"none", "open", "broken"}]
    /\ dbUp \in BOOLEAN
    /\ faults \in 0 .. MaxFaults

\* write() keeps the types when it retries and when it gives up.
LEMMA ConnectionErrorTypes ==
    ASSUME TypeOK, NEW i \in Instances, ConnectionError(i),
           UNCHANGED <<log, pos, dbUp>>, faults' \in 0 .. MaxFaults
    PROVE  ProcessTypes'
  <1>1. CASE attempt[i] = MaxRetries
    BY <1>1 DEF ConnectionError, Exit, TypeOK, ProcessTypes
  <1>2. CASE attempt[i] # MaxRetries
    <2>1. attempt[i] + 1 \in 1 .. MaxRetries
      BY <1>2, ConstantsAssumption DEF TypeOK
    <2>2. /\ conn' = [conn EXCEPT ![i] = "none"]
          /\ attempt' = [attempt EXCEPT ![i] = attempt[i] + 1]
          /\ pc' = pc /\ owner' = owner /\ assigned' = assigned
      BY <1>2 DEF ConnectionError
    <2>3. QED BY <2>1, <2>2 DEF TypeOK, ProcessTypes
  <1>3. QED BY <1>1, <1>2

\* The count of faults stays within its bound.
LEMMA FaultType ==
    ASSUME TypeOK, Fault
    PROVE  faults' \in 0 .. MaxFaults
  BY ConstantsAssumption DEF TypeOK, Fault

\* A position stays inside the log.
LEMMA TakeType ==
    ASSUME TypeOK, NEW i \in Instances, Take(i)
    PROVE  pos' \in [Instances -> 0 .. Len(log)]
  <1>1. Len(log) \in Nat
    BY DEF TypeOK
  <1>2. pos[i] + 1 \in 0 .. Len(log)
    BY <1>1 DEF Take, TypeOK
  <1>3. QED BY <1>2 DEF Take, TypeOK

\* The loop keeps the types of the process variables.
LEMMA RunTypes ==
    ASSUME TypeOK, NEW i \in Instances, Run(i)
    PROVE  ProcessTypes'
  <1> USE DEF storeVars, TypeOK, ProcessTypes
  <1>1. CASE Start(i) \/ Join(i) \/ NoticeFenced(i) \/ Reconnect(i)
    BY <1>1 DEF Start, Join, NoticeFenced, Reconnect
  <1>2. CASE TakeForWrite(i)
    <2>1. [attempt EXCEPT ![i] = 1] \in [Instances -> 1 .. MaxRetries]
      BY ConstantsAssumption
    <2>2. QED BY <1>2, <2>1, TakeType DEF TakeForWrite
  <1>3. CASE TakeInvalid(i)
    BY <1>3, TakeType DEF TakeInvalid
  <1>4. CASE TakeUnhandled(i)
    BY <1>4, TakeType DEF TakeUnhandled, Exit
  <1>5. CASE ReconnectFails(i)
    BY <1>5, ConnectionErrorTypes DEF ReconnectFails
  <1>6. CASE InsertOnBroken(i)
    BY <1>6, ConnectionErrorTypes DEF InsertOnBroken
  <1>7. CASE Insert(i) \/ InsertRejected(i) \/ Commit(i)
    BY <1>7 DEF Insert, InsertRejected, Commit
  <1>8. CASE CommitFenced(i)
    BY <1>8 DEF CommitFenced, Exit
  <1>9. QED
    BY <1>1, <1>2, <1>3, <1>4, <1>5, <1>6, <1>7, <1>8 DEF Run

\* A fault keeps the types of the process variables.
LEMMA DisturbTypes ==
    ASSUME TypeOK, NEW i \in Instances, Disturb(i)
    PROVE  ProcessTypes'
  <1>1. faults' \in 0 .. MaxFaults
    BY FaultType DEF Disturb, InsertAckLost, ServerRefuses, CommitFails,
                     Evict, Interrupt, Kill
  <1> USE <1>1 DEF storeVars, TypeOK, ProcessTypes
  <1>2. CASE InsertAckLost(i)
    BY <1>2, ConnectionErrorTypes DEF InsertAckLost
  <1>3. CASE ServerRefuses(i) \/ Evict(i) \/ Kill(i)
    BY <1>3 DEF ServerRefuses, Evict, Kill
  <1>4. CASE CommitFails(i) \/ Interrupt(i)
    BY <1>4 DEF CommitFails, Interrupt, Exit
  <1>5. QED BY <1>2, <1>3, <1>4 DEF Disturb

\* TypeOK is preserved.
LEMMA NextTypes ==
    ASSUME Inv, [Next]_vars
    PROVE  TypeOK'
  <1> USE DEF Inv
  <1>1. CASE Publish
    <2>1. Len(log') \in Nat /\ Len(log) <= Len(log')
      BY <1>1, StoreGrows, StoreTypes, NextStoreStep DEF Grows
    <2>2. Len(log) \in Nat
      BY DEF TypeOK
    <2>3. ProcessTypes'
      BY <1>1, <2>1, <2>2 DEF Publish, TypeOK, ProcessTypes
    <2>4. QED BY <2>3, StoreTypes, NextStoreStep DEF TypeOK, ProcessTypes
  <1>2. ASSUME NEW i \in Instances, Run(i) \/ Disturb(i) \/ ExpireSession(i)
        PROVE  ProcessTypes'
    <2>1. CASE ExpireSession(i)
      BY <2>1 DEF ExpireSession, storeVars, TypeOK, ProcessTypes
    <2>2. QED BY <1>2, <2>1, RunTypes, DisturbTypes
  <1>3. CASE DbGoesDown
    BY <1>3, FaultType, StoreTypes, NextStoreStep
    DEF DbGoesDown, storeVars, TypeOK, ProcessTypes
  <1>4. CASE DbComesBack
    BY <1>4 DEF DbComesBack, storeVars, TypeOK
  <1>5. CASE UNCHANGED vars
    BY <1>5 DEF vars, TypeOK
  <1>6. QED
    BY <1>1, <1>2, <1>3, <1>4, <1>5, StoreTypes, NextStoreStep
    DEF Next, TypeOK, ProcessTypes
-----------------------------------------------------------------------------
(* Settled messages: what each process has behind it.                       *)

\* A process that does not move keeps what it has in hand.
LEMMA InHandStays ==
    ASSUME Inv, Grows, NEW i \in Instances,
           pc'[i] = pc[i], assigned'[i] = assigned[i], pos'[i] = pos[i]
    PROVE  InHandOf(i)'
  BY SettledStays DEF Inv, InHand, InHandOf, TypeOK

\* The message in hand is settled as well.
LEMMA SettledNext ==
    ASSUME TypeOK, NEW n \in 1 .. Len(log), D!SettledUpTo(n - 1)', D!Settled(n)'
    PROVE  D!SettledUpTo(n)'
  BY DEF D!SettledUpTo, TypeOK

\* A process that has ended has nothing in hand.
LEMMA ExitInHand ==
    ASSUME TypeOK, NEW i \in Instances, Exit(i)
    PROVE  InHandOf(i)'
  BY DEF TypeOK, Exit, InHandOf

\* A failed attempt leaves the message in hand or ends the process.
LEMMA ConnectionErrorInHand ==
    ASSUME Inv, Grows, NEW i \in Instances, ConnectionError(i), UNCHANGED pos
    PROVE  InHandOf(i)'
  BY ExitInHand, InHandStays DEF Inv, ConnectionError

\* A settled message may be committed.
LEMMA WriteInHand ==
    ASSUME Inv, Grows, NEW i \in Instances, pc[i] = "writing",
           pc' = [pc EXCEPT ![i] = "committing"], UNCHANGED <<log, assigned, pos>>,
           D!Settled(pos[i])'
    PROVE  InHandOf(i)'
  <1>1. pos[i] \in 1 .. Len(log) /\ pos[i] - 1 \in 0 .. Len(log)
    BY DEF Inv, InHand, InHandOf, TypeOK
  <1>2. D!SettledUpTo(pos[i] - 1)'
    BY <1>1, SettledStays DEF Inv, InHand, InHandOf
  <1>3. pos'[i] = pos[i] /\ D!SettledUpTo(pos[i])'
    BY <1>1, <1>2, SettledNext DEF Inv
  <1>4. QED BY <1>1, <1>3 DEF InHandOf, Inv, InHand, TypeOK

\* InHand is preserved for the process whose loop makes the step.
LEMMA RunInHand ==
    ASSUME Inv, Grows, NEW i \in Instances, Run(i)
    PROVE  InHandOf(i)'
  <1> USE DEF Inv
  <1>1. CASE Start(i) \/ NoticeFenced(i)
    BY <1>1 DEF Start, NoticeFenced, InHand, InHandOf, TypeOK
  <1>2. CASE Join(i)
    <2>1. PICK n \in 0 .. Len(log) : n = committed /\ D!SettledUpTo(n)
      BY DEF AtLeastOnce, TypeOK
    <2>2. D!SettledUpTo(n)'
      BY <2>1, SettledStays
    <2>3. pos'[i] = n
      BY <1>2, <2>1 DEF Join, TypeOK
    <2>4. QED BY <1>2, <2>2, <2>3 DEF Join, InHandOf, TypeOK
  <1>3. CASE TakeForWrite(i)
    <2>1. PICK n \in 0 .. Len(log) : n = pos[i] /\ D!SettledUpTo(n)
      BY <1>3 DEF TakeForWrite, Take, InHand, InHandOf, TypeOK
    <2>2. D!SettledUpTo(n)'
      BY <2>1, SettledStays
    <2>3. pos'[i] = n + 1 /\ pos'[i] - 1 = n
      BY <1>3, <2>1 DEF TakeForWrite, Take, TypeOK
    <2>4. QED BY <1>3, <2>2, <2>3 DEF TakeForWrite, Take, InHandOf, TypeOK
  <1>4. CASE TakeInvalid(i)
    <2>1. PICK n \in 0 .. Len(log) : n = pos[i] /\ D!SettledUpTo(n)
      BY <1>4 DEF TakeInvalid, Take, InHand, InHandOf, TypeOK
    <2>2. D!SettledUpTo(n)'
      BY <2>1, SettledStays
    <2>3. pos'[i] = n + 1 /\ n + 1 \in 1 .. Len(log) /\ n + 1 - 1 = n
      BY <1>4, <2>1 DEF TakeInvalid, Take, TypeOK
    <2>4. D!Settled(n + 1)'
      BY <1>4, <2>1 DEF TakeInvalid, Next1, D!Settled, D!IsRow, storeVars
    <2>5. D!SettledUpTo(n + 1)'
      BY <2>2, <2>3, <2>4, SettledNext
    <2>6. QED BY <1>4, <2>3, <2>5 DEF TakeInvalid, Take, InHandOf, TypeOK
  <1>5. CASE TakeUnhandled(i) \/ CommitFenced(i)
    BY <1>5, ExitInHand DEF TakeUnhandled, CommitFenced
  <1>6. CASE Reconnect(i)
    BY <1>6, InHandStays DEF Reconnect
  <1>7. CASE ReconnectFails(i) \/ InsertOnBroken(i)
    BY <1>7, ConnectionErrorInHand DEF ReconnectFails, InsertOnBroken
  <1>8. CASE Insert(i)
    <2>1. pos[i] \in 1 .. Len(log)
      BY <1>8 DEF Insert, InHand, InHandOf, TypeOK
    <2>2. rows'[log[pos[i]].key] # 0
      BY <1>8, <2>1, MessageType DEF Insert, InsertRow, Current, TypeOK
    <2>3. D!Settled(pos[i])'
      BY <1>8, <2>2 DEF Insert, D!Settled
    <2>4. QED BY <1>8, <2>3, WriteInHand DEF Insert
  <1>9. CASE InsertRejected(i)
    <2>1. D!Settled(pos[i])'
      BY <1>9 DEF InsertRejected, D!Settled
    <2>2. QED BY <1>9, <2>1, WriteInHand DEF InsertRejected
  <1>10. CASE Commit(i)
    <2>1. D!SettledUpTo(pos[i])'
      BY <1>10, SettledStays DEF Commit, InHand, InHandOf, TypeOK
    <2>2. QED BY <1>10, <2>1 DEF Commit, InHand, InHandOf, TypeOK
  <1>11. QED
    BY <1>1, <1>2, <1>3, <1>4, <1>5, <1>6, <1>7, <1>8, <1>9, <1>10 DEF Run

\* InHand is preserved for the process a fault strikes.
LEMMA DisturbInHand ==
    ASSUME Inv, Grows, NEW i \in Instances, Disturb(i)
    PROVE  InHandOf(i)'
  <1> USE DEF Inv
  <1>1. CASE InsertAckLost(i)
    BY <1>1, ConnectionErrorInHand DEF InsertAckLost
  <1>2. CASE ServerRefuses(i)
    <2>1. D!Settled(pos[i])'
      BY <1>2 DEF ServerRefuses, D!Settled
    <2>2. QED BY <1>2, <2>1, WriteInHand DEF ServerRefuses
  <1>3. CASE CommitFails(i) \/ Interrupt(i)
    BY <1>3, ExitInHand DEF CommitFails, Interrupt
  <1>4. CASE Evict(i)
    BY <1>4, InHandStays DEF Evict
  <1>5. CASE Kill(i)
    BY <1>5 DEF Kill, InHandOf, TypeOK
  <1>6. QED BY <1>1, <1>2, <1>3, <1>4, <1>5 DEF Disturb

-----------------------------------------------------------------------------
(* The lease: a step moves one process and hands the lease to nobody else.  *)

MovesOnly(i) ==
    /\ \A j \in Instances \ {i} :
          pc'[j] = pc[j] /\ assigned'[j] = assigned[j] /\ pos'[j] = pos[j]
    /\ owner' \in {owner, i, NoInstance}
    /\ committed' # committed => owner = i

\* A step of one process leaves the others where they are.
LEMMA RunMovesOnly ==
    ASSUME TypeOK, NEW i \in Instances, Run(i) \/ Disturb(i) \/ ExpireSession(i)
    PROVE  MovesOnly(i)
  <1> USE DEF MovesOnly, TypeOK, storeVars
  <1>1. ASSUME ConnectionError(i), UNCHANGED <<committed, pos>>
        PROVE  MovesOnly(i)
    BY <1>1 DEF ConnectionError, Exit
  <1>2. CASE Start(i) \/ Join(i) \/ NoticeFenced(i) \/ Reconnect(i)
    BY <1>2 DEF Start, Join, NoticeFenced, Reconnect
  <1>3. CASE TakeForWrite(i) \/ TakeInvalid(i) \/ TakeUnhandled(i)
    BY <1>3 DEF TakeForWrite, TakeInvalid, TakeUnhandled, Take, Exit
  <1>4. CASE ReconnectFails(i) \/ InsertOnBroken(i) \/ InsertAckLost(i)
    BY <1>1, <1>4 DEF ReconnectFails, InsertOnBroken, InsertAckLost
  <1>5. CASE Insert(i) \/ InsertRejected(i) \/ ServerRefuses(i)
    BY <1>5 DEF Insert, InsertRejected, ServerRefuses
  <1>6. CASE Commit(i) \/ CommitFenced(i) \/ CommitFails(i)
    BY <1>6 DEF Commit, CommitFenced, CommitFails, Exit
  <1>7. CASE Evict(i) \/ ExpireSession(i) \/ Interrupt(i) \/ Kill(i)
    BY <1>7 DEF Evict, ExpireSession, Interrupt, Kill, Exit
  <1>8. QED BY <1>2, <1>3, <1>4, <1>5, <1>6, <1>7 DEF Run, Disturb

\* Lease is preserved for the process that makes the step.
LEMMA RunLease ==
    ASSUME Inv, NEW i \in Instances, Run(i) \/ Disturb(i) \/ ExpireSession(i)
    PROVE  LeaseOf(i)'
  <1> USE DEF Inv, Lease, LeaseOf, InHand, InHandOf, TypeOK, storeVars
  <1>1. ASSUME Exit(i) PROVE LeaseOf(i)'
    BY <1>1 DEF Exit
  <1>2. ASSUME ConnectionError(i), UNCHANGED <<committed, pos>>
        PROVE  LeaseOf(i)'
    BY <1>1, <1>2 DEF ConnectionError
  <1>3. CASE Start(i) \/ Join(i) \/ NoticeFenced(i) \/ Reconnect(i)
    BY <1>3 DEF Start, Join, NoticeFenced, Reconnect
  <1>4. CASE TakeForWrite(i) \/ TakeInvalid(i)
    BY <1>4 DEF TakeForWrite, TakeInvalid, Take
  <1>5. CASE TakeUnhandled(i) \/ CommitFenced(i) \/ CommitFails(i) \/ Interrupt(i)
    BY <1>1, <1>5 DEF TakeUnhandled, CommitFenced, CommitFails, Interrupt
  <1>6. CASE ReconnectFails(i) \/ InsertOnBroken(i) \/ InsertAckLost(i)
    BY <1>2, <1>6 DEF ReconnectFails, InsertOnBroken, InsertAckLost
  <1>7. CASE Insert(i) \/ InsertRejected(i) \/ ServerRefuses(i)
    BY <1>7 DEF Insert, InsertRejected, ServerRefuses
  <1>8. CASE Commit(i)
    BY <1>8 DEF Commit
  <1>9. CASE Evict(i) \/ ExpireSession(i) \/ Kill(i)
    BY <1>9, ConstantsAssumption DEF Evict, ExpireSession, Kill
  <1>10. QED
    BY <1>3, <1>4, <1>5, <1>6, <1>7, <1>8, <1>9 DEF Run, Disturb

\* InHand and Lease are preserved.
LEMMA NextProcesses ==
    ASSUME Inv, [Next]_vars
    PROVE  InHand' /\ Lease'
  <1>1. Grows
    BY NextStoreStep, StoreGrows
  <1>2. ASSUME UNCHANGED <<committed, owner, pc, assigned, pos>>
        PROVE  InHand' /\ Lease'
    BY <1>1, <1>2, InHandStays DEF Inv, InHand, Lease, LeaseOf
  <1>3. ASSUME NEW i \in Instances, Run(i) \/ Disturb(i) \/ ExpireSession(i)
        PROVE  InHand' /\ Lease'
    <2>1. MovesOnly(i)
      BY <1>3, RunMovesOnly DEF Inv
    <2>2. InHandOf(i)'
      <3>1. CASE ExpireSession(i)
        BY <1>1, <3>1, InHandStays DEF ExpireSession
      <3>2. QED BY <1>1, <1>3, <3>1, RunInHand, DisturbInHand
    <2>3. LeaseOf(i)'
      BY <1>3, RunLease
    <2>4. ASSUME NEW j \in Instances, j # i
          PROVE  InHandOf(j)' /\ LeaseOf(j)'
      BY <1>1, <2>1, <2>4, InHandStays, ConstantsAssumption
      DEF MovesOnly, Inv, Lease, LeaseOf
    <2>5. QED BY <2>2, <2>3, <2>4 DEF InHand, Lease
  <1>4. QED
    BY <1>2, <1>3 DEF Next, Publish, DbGoesDown, DbComesBack, storeVars, vars

-----------------------------------------------------------------------------
(* The store keeps its promises.                                            *)

\* AtLeastOnce is preserved: only settled messages are committed.
LEMMA AtLeastOnceStep ==
    ASSUME Inv, StoreStep
    PROVE  AtLeastOnce'
  <1> USE DEF Inv
  <1>1. Grows
    BY StoreGrows
  <1>2. CASE committed' = committed
    BY <1>1, <1>2, SettledStays DEF AtLeastOnce, TypeOK
  <1>3. ASSUME NEW i \in Instances, Commits(i)
        PROVE  AtLeastOnce'
    <2>1. PICK n \in 0 .. Len(log) : n = pos[i] /\ D!SettledUpTo(n)
      BY <1>3 DEF Commits, InHand, InHandOf, TypeOK
    <2>2. D!SettledUpTo(n)'
      BY <1>1, <2>1, SettledStays
    <2>3. committed' = n
      BY <1>3, <2>1 DEF Commits
    <2>4. QED BY <2>2, <2>3 DEF AtLeastOnce
  <1>4. QED
    BY <1>2, <1>3 DEF StoreStep, storeVars, Appends, Inserts, Skips

\* A new row belongs to a message whose predecessors are all settled, so an
\* earlier message of the same key was skipped or the row would exist already.
LEMMA ReplayStep ==
    ASSUME Inv, StoreStep
    PROVE  ReplayDeterminism'
  <1> USE DEF Inv
  <1>1. Grows
    BY StoreGrows
  <1>2. SUFFICES ASSUME NEW k \in Keys, rows'[k] # 0
                 PROVE  /\ log'[rows'[k]].kind = "row" /\ log'[rows'[k]].key = k
                        /\ \A n \in 1 .. rows'[k] - 1 :
                              log'[n].kind = "row" /\ log'[n].key = k => n \in skipped'
    BY DEF ReplayDeterminism, D!IsRow
  <1>3. CASE rows[k] # 0
    <2>1. rows'[k] = rows[k] /\ rows[k] \in 1 .. Len(log)
      BY <1>1, <1>3 DEF Grows, TypeOK
    <2>2. \A n \in 1 .. rows[k] - 1 : n \in 1 .. Len(log)
      BY <2>1 DEF TypeOK
    <2>3. QED BY <1>1, <1>3, <2>1, <2>2 DEF ReplayDeterminism, D!IsRow, Grows
  <1>4. CASE rows[k] = 0
    <2>1. PICK i \in Instances : Inserts(i) /\ Current(i).key = k
      BY <1>2, <1>4 DEF StoreStep, storeVars, Appends, Inserts, Skips, Commits, TypeOK
    <2>2. pos[i] \in 1 .. Len(log) /\ D!SettledUpTo(pos[i] - 1)
      BY <2>1 DEF Inserts, InHand, InHandOf, TypeOK
    <2>3. rows'[k] = pos[i] /\ log' = log /\ skipped' = skipped
      BY <2>1 DEF Inserts, TypeOK
    <2>4. log[pos[i]].kind = "row" /\ log[pos[i]].key = k
      BY <2>1 DEF Inserts, Current
    <2>5. ASSUME NEW n \in 1 .. pos[i] - 1, log[n].kind = "row", log[n].key = k
          PROVE  n \in skipped
      BY <1>4, <2>2, <2>5 DEF D!SettledUpTo, D!Settled, D!IsRow
    <2>6. QED BY <2>3, <2>4, <2>5
  <1>5. QED BY <1>3, <1>4

\* Inv holds at the start.
LEMMA InitInv == Init => Inv
  <1> SUFFICES ASSUME Init PROVE Inv
    OBVIOUS
  <1> USE ConstantsAssumption DEF Init, D!DInit
  <1>1. TypeOK
    <2>1. << >> \in Seq(Messages) /\ Len(<< >>) = 0
      OBVIOUS
    <2>2. 0 \in 0 .. MaxFaults /\ 1 \in 1 .. MaxRetries
      OBVIOUS
    <2>3. QED BY <2>1, <2>2 DEF TypeOK
  <1>2. InHand
    BY DEF InHand, InHandOf
  <1>3. Lease /\ ReplayDeterminism
    BY DEF Lease, LeaseOf, ReplayDeterminism
  <1>4. AtLeastOnce
    BY DEF AtLeastOnce, D!SettledUpTo
  <1>5. QED BY <1>1, <1>2, <1>3, <1>4 DEF Inv

\* Inv is inductive.
LEMMA NextInv == Inv /\ [Next]_vars => Inv'
  BY NextStoreStep, NextTypes, NextProcesses, AtLeastOnceStep, ReplayStep DEF Inv

(* Inv is an invariant of the storage consumers.                             *)
THEOREM Invariance == Spec => []Inv
  BY InitInv, NextInv, PTL DEF Spec

(* The variables of the storage consumers keep their types: in particular    *)
(* the committed offset and every position stay inside the log.              *)
THEOREM TypeCorrect == Spec => []TypeOK
  BY Invariance, PTL DEF Inv

(* At-least-once delivery: a committed message that carries a row has a row  *)
(* in the table or was refused by the server, whatever crashes, is fenced or *)
(* loses its acknowledgement (run() and write() of both consumers).          *)
THEOREM NothingCommittedIsLost == Spec => []AtLeastOnce
  BY Invariance, PTL DEF Inv

(* Redelivery has no effect on the table: the row of a key is the one of its *)
(* first message that the server did not refuse.                             *)
THEOREM RedeliveryIsHarmless == Spec => []ReplayDeterminism
  BY Invariance, PTL DEF Inv

(* The group's offset moves by one message at a time and never back.         *)
THEOREM OffsetMovesForward == Spec => OffsetAdvancesByOne
  <1>1. Inv /\ [Next]_vars => [committed' \in {committed, committed + 1}]_vars
    <2> SUFFICES ASSUME Inv, StoreStep
                 PROVE  committed' \in {committed, committed + 1}
      BY NextStoreStep
    <2>1. ASSUME NEW i \in Instances, Commits(i)
          PROVE  committed' = committed + 1
      BY <2>1 DEF Commits, Inv, Lease, LeaseOf, InHand, InHandOf, TypeOK
    <2>2. QED
      BY <2>1 DEF StoreStep, storeVars, Appends, Inserts, Skips
  <1>2. QED BY <1>1, Invariance, PTL DEF Spec, OffsetAdvancesByOne

(* The consumers implement Delivery: every step appends a message, stores    *)
(* one row in log order, sets one message aside, acknowledges the next       *)
(* settled message, or changes nothing that Delivery sees.                   *)
THEOREM Refinement == Spec => ImplementsDelivery
  <1>1. Init => D!DInit
    BY DEF Init
  <1>2. Inv /\ [Next]_vars => [D!DNext]_(D!dvars)
    <2> SUFFICES ASSUME Inv, StoreStep
                 PROVE  [D!DNext]_(D!dvars)
      BY NextStoreStep
    <2> USE DEF Inv
    <2>1. CASE UNCHANGED storeVars
      BY <2>1 DEF storeVars, D!dvars
    <2>2. CASE Appends
      BY <2>2 DEF Appends, D!DNext, D!AppendMessage
    <2>3. ASSUME NEW i \in Instances, Inserts(i) \/ Skips(i)
          PROVE  D!DNext
      <3>1. pos[i] \in 1 .. Len(log) /\ D!SettledUpTo(pos[i] - 1)
        BY <2>3 DEF Inserts, Skips, InHand, InHandOf, TypeOK
      <3>2. CASE Inserts(i)
        <4>1. /\ D!IsRow(log[pos[i]]) /\ rows[log[pos[i]].key] = 0
              /\ rows' = [rows EXCEPT ![log[pos[i]].key] = pos[i]]
          BY <3>2 DEF Inserts, Current, D!IsRow
        <4>2. UNCHANGED <<log, committed, skipped>>
          BY <3>2 DEF Inserts
        <4>3. D!StoreRow
          BY <3>1, <4>1, <4>2 DEF D!StoreRow
        <4>4. QED BY <4>3 DEF D!DNext
      <3>3. CASE Skips(i)
        <4>1. /\ skipped' = skipped \union {pos[i]}
              /\ UNCHANGED <<log, committed, rows>>
          BY <3>3 DEF Skips
        <4>2. D!SetAside
          BY <3>1, <4>1 DEF D!SetAside
        <4>3. QED BY <4>2 DEF D!DNext
      <3>4. QED BY <2>3, <3>2, <3>3
    <2>4. ASSUME NEW i \in Instances, Commits(i)
          PROVE  D!DNext
      <3>1. /\ committed' = committed + 1 /\ pos[i] = committed + 1
            /\ committed < Len(log) /\ committed + 1 \in 1 .. committed + 1
        BY <2>4 DEF Commits, Lease, LeaseOf, InHand, InHandOf, TypeOK
      <3>2. D!Settled(committed + 1)
        <4>1. D!SettledUpTo(committed + 1)
          BY <2>4, <3>1 DEF Commits, InHand, InHandOf
        <4>2. QED BY <3>1, <4>1 DEF D!SettledUpTo
      <3>3. UNCHANGED <<log, rows, skipped>>
        BY <2>4 DEF Commits
      <3>4. QED BY <3>1, <3>2, <3>3 DEF D!DNext, D!Acknowledge
    <2>5. QED BY <2>1, <2>2, <2>3, <2>4 DEF StoreStep
  <1>3. QED BY <1>1, <1>2, Invariance, PTL DEF Spec, ImplementsDelivery, D!DSpec
=============================================================================
