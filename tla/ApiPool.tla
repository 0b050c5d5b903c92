------------------------------- MODULE ApiPool -------------------------------
(***************************************************************************)
(* api/db.py: the worker threads of the API and the connection pool they   *)
(* share. The pool is made at start-up or, when the database was down      *)
(* then, by the first requests that find none. The global _pool is read    *)
(* anew wherever it is used, without a lock.                               *)
(***************************************************************************)
EXTENDS Integers, FiniteSets

CONSTANTS Requests,       \* worker threads, each answering one request at a time
          MinConn, MaxConn

ASSUME ApiPoolAssumption ==
    /\ IsFiniteSet(Requests)
    /\ MinConn \in Nat /\ MaxConn \in Nat \ {0} /\ MinConn <= MaxConn

VARIABLES
    dbUp,     \* the database answers
    pool,     \* _pool: 0 is None, otherwise the number of the pool
    idle,     \* pool -> connections kept in it
    used,     \* pool -> requests it has lent a connection to (_used)
    rpc,      \* request -> where it is
    heldFrom, \* request -> the pool its connection is from
    broken    \* request -> the local variable of _connection()

avars == <<dbUp, pool, idle, used, rpc, heldFrom, broken>>

\* Each request can make one pool, when there is none, and start-up one.
Pools == 1 .. Cardinality(Requests) + 1

Replies == {"200", "503", "exhausted", "unkeyed"}

Free == Replies \union {"new"}

\* lifespan(): init_pool may fail, the API starts all the same.
AInit ==
    /\ dbUp \in BOOLEAN
    /\ pool = (IF dbUp THEN 1 ELSE 0)
    /\ idle = [p \in Pools |-> IF p = pool THEN MinConn ELSE 0]
    /\ used = [p \in Pools |-> {}]
    /\ rpc = [r \in Requests |-> "new"]
    /\ heldFrom = [r \in Requests |-> 0]
    /\ broken = [r \in Requests |-> FALSE]

DbChanges ==
    /\ dbUp' = ~ dbUp
    /\ UNCHANGED <<pool, idle, used, rpc, heldFrom, broken>>

Move(r, to) == rpc' = [rpc EXCEPT ![r] = to]

\* fetch_all, _connection: `if _pool is None: init_pool()`, which looks again.
BeginRequest(r) ==
    /\ rpc[r] \in Free
    /\ Move(r, IF pool = 0 THEN "init" ELSE "get")
    /\ UNCHANGED <<dbUp, pool, idle, used, heldFrom, broken>>

PassInit(r) ==
    /\ rpc[r] = "init"
    /\ Move(r, IF pool = 0 THEN "making" ELSE "get")
    /\ UNCHANGED <<dbUp, pool, idle, used, heldFrom, broken>>

\* The constructor connects minconn times; the global is set afterwards, over
\* whatever another request has put there meanwhile. (minconn is not 0.)
MakePool(r) ==
    /\ rpc[r] = "making"
    /\ IF dbUp
         THEN /\ pool' = pool + 1
              /\ idle' = [idle EXCEPT ![pool'] = MinConn]
              /\ Move(r, "get")
         ELSE Move(r, "503") /\ UNCHANGED <<pool, idle>>
    /\ UNCHANGED <<dbUp, used, heldFrom, broken>>

Lend(r) ==
    /\ used' = [used EXCEPT ![pool] = @ \union {r}]
    /\ heldFrom' = [heldFrom EXCEPT ![r] = pool]
    /\ broken' = [broken EXCEPT ![r] = FALSE]
    /\ Move(r, "using")

\* getconn: one of the kept, or PoolError, or a new one if the database answers.
GetConn(r) ==
    /\ rpc[r] = "get"
    /\ IF idle[pool] > 0 THEN Lend(r) /\ idle' = [idle EXCEPT ![pool] = @ - 1]
       ELSE /\ UNCHANGED idle
            /\ CASE Cardinality(used[pool]) = MaxConn ->
                       Move(r, "exhausted") /\ UNCHANGED <<used, heldFrom, broken>>
                 [] Cardinality(used[pool]) < MaxConn /\ dbUp -> Lend(r)
                 [] OTHER -> Move(r, "503") /\ UNCHANGED <<used, heldFrom, broken>>
    /\ UNCHANGED <<dbUp, pool>>

\* The query. A connection whose database has gone, or was gone for a while, is
\* marked; after another error it goes back as it is.
Query(r) ==
    /\ rpc[r] = "using"
    /\ \E dead \in {TRUE, ~ dbUp} : broken' = [broken EXCEPT ![r] = dead]
    /\ Move(r, "put")
    /\ UNCHANGED <<dbUp, pool, idle, used, heldFrom>>

\* The connection is put back behind the `with`, not in a finally clause.
PutConn_OnlyIfFine(r) ==
    /\ rpc[r] = "put"
    /\ IF broken[r] THEN Move(r, "503") /\ UNCHANGED <<used, idle>>
       ELSE IF heldFrom[r] # pool THEN Move(r, "unkeyed") /\ UNCHANGED <<used, idle>>
       ELSE /\ used' = [used EXCEPT ![pool] = @ \ {r}]
            /\ idle' = [idle EXCEPT ![pool] = IF @ < MinConn THEN @ + 1 ELSE @]
            /\ Move(r, "200")
    /\ heldFrom' = [heldFrom EXCEPT ![r] = 0]
    /\ UNCHANGED <<dbUp, pool, broken>>

\* `finally: _pool.putconn(conn, close=broken)`: the pool of now. Another one
\* than the connection is from does not know it, and raises in its turn.
PutConn(r) ==
    /\ rpc[r] = "put"
    /\ IF heldFrom[r] # pool
         THEN Move(r, "unkeyed") /\ UNCHANGED <<used, idle>>
         ELSE /\ used' = [used EXCEPT ![pool] = @ \ {r}]
              /\ idle' = [idle EXCEPT ![pool] =
                             IF @ < MinConn /\ ~ broken[r] THEN @ + 1 ELSE @]
              /\ Move(r, IF broken[r] THEN "503" ELSE "200")
    /\ heldFrom' = [heldFrom EXCEPT ![r] = 0]
    /\ UNCHANGED <<dbUp, pool, broken>>

ANext ==
    \/ DbChanges
    \/ \E r \in Requests :
          BeginRequest(r) \/ PassInit(r) \/ MakePool(r) \/ GetConn(r) \/ Query(r) \/ PutConn(r)

ASpec == AInit /\ [][ANext]_avars

ATypeOK ==
    /\ dbUp \in BOOLEAN /\ pool \in Pools \union {0}
    /\ idle \in [Pools -> 0 .. MinConn]
    /\ \A p \in Pools : used[p] \subseteq Requests
    /\ \A r \in Requests :
          /\ rpc[r] \in Free \union {"init", "making", "get", "using", "put"}
          /\ heldFrom[r] \in Pools \union {0} /\ broken[r] \in BOOLEAN

(* Through outages, broken connections and two pools made at once, the pool  *)
(* in use loses no connection: what it counts as lent is in the hands of a   *)
(* request, so that the limit is met only when MaxConn requests are at work  *)
(* (api/db.py:48). That a request is refused the answer it has already read, *)
(* because the pool was replaced under it, takes two requests that both      *)
(* found none (api/db.py:46, 57).                                            *)
PoolIsConsistent ==
    /\ pool # 0 =>
          /\ used[pool] = {r \in Requests : heldFrom[r] = pool}
          /\ idle[pool] + Cardinality(used[pool]) <= MaxConn
    /\ \A r \in Requests :
          /\ rpc[r] \in {"using", "put"} <=> heldFrom[r] # 0
          /\ rpc[r] = "unkeyed" => pool > 1
=============================================================================
