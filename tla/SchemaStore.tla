------------------------------- MODULE SchemaStore -------------------------------
(* The database tools: the lazy pool of connections (internal/database/pool.go), the *)
(* schema cache of each connection (schema.go) and the calls of db_schema, db_query,  *)
(* db_list and the schema resource that use them (internal/mcp/db.go).                *)
(*                                                                                   *)
(* schemaCache.mu is held while the schema is fetched, and nothing bounds how long    *)
(* that takes.  The short sections under SchemaStore.mu and Pool.mu are parts of      *)
(* steps.  A filter by database picks from the same data and is left out.             *)
EXTENDS Naturals, FiniteSets

CONSTANTS
    Connections,   \* the configured connections
    Hanging,       \* those whose server may leave a query without an answer
    Calls,         \* the concurrent tool calls
    NoCall,
    TTL,           \* ticks that a fetched schema is served for
    MaxLag,        \* bound: ticks between a query's snapshot and its last row
    MaxAlters      \* bound: changes of the schemas

ASSUME Assumptions ==
    /\ Connections # {} /\ Hanging \subseteq Connections
    /\ NoCall \notin Calls
    /\ TTL \in Nat \ {0} /\ MaxLag \in Nat /\ MaxAlters \in Nat

VARIABLES
    version,   \* version[n]: what the schema of connection n is now
    cache,     \* cache[n]: the data, its remaining life, the time since its snapshot
    mutex,     \* mutex[n]: schemaCache.mu of n
    pool,      \* conns, and the sql.DBs made, open, and whether Close has run
    call       \* call[c]: where it is, and what it has in its hands

vars == <<version, cache, mutex, pool, call>>

\* No data, or none that is valid: Get never reads what is not.
NoData == [version |-> 0, left |-> 0, age |-> 0]

Idle == [pc |-> "idle", conn |-> CHOOSE n \in Connections : TRUE, refresh |-> FALSE,
         asked |-> 0, db |-> 0, version |-> 0, age |-> 0]

Init ==
    /\ version = [n \in Connections |-> 0]
    /\ cache = [n \in Connections |-> NoData]
    /\ mutex = [n \in Connections |-> NoCall]
    /\ pool = [conns |-> [n \in Connections |-> 0], made |-> [n \in Connections |-> 0],
               open |-> {}, closed |-> FALSE]
    /\ call = [c \in Calls |-> Idle]

Fetching == {"query", "rows"}

TypeOK ==
    /\ version \in [Connections -> 0 .. MaxAlters]
    /\ cache \in [Connections -> [version : 0 .. MaxAlters, left : 0 .. TTL, age : Nat]]
    /\ mutex \in [Connections -> Calls \cup {NoCall}]
    /\ pool \in [conns : [Connections -> Nat], made : [Connections -> Nat],
                open : SUBSET (Connections \X Nat), closed : BOOLEAN]
    /\ call \in [Calls ->
           [pc : Fetching \cup {"idle", "invalidate", "lock", "get", "run", "done"},
            conn : Connections, refresh : BOOLEAN, asked : 0 .. MaxAlters, db : Nat,
            version : 0 .. MaxAlters, age : Nat]]
    /\ \A n \in Connections, c \in Calls :
          mutex[n] = c <=> call[c].pc \in Fetching /\ call[c].conn = n

At(c, pc) == call[c].pc = pc

Over(c) == call[c].pc \in {"idle", "done"}

Goto(c, pc) == call' = [call EXCEPT ![c].pc = pc]

\* The call is over, with an error or without a schema in its answer.
End(c) == call' = [call EXCEPT ![c] = Idle]

--------------------------------------------------------------------------------
(* Pool *)

Opened(n) ==
    LET k == pool.made[n] + 1
    IN  [pool EXCEPT !.made[n] = k, !.conns[n] = k, !.open = @ \cup {<<n, k>>}]

\* Mutant of GetDb: what is there already is not looked up.
GetDbAnew(n) == Opened(n)

\* Pool.Get opens the connection on first use.  sql.Open fails only for a data source name
\* that does not parse, which ends the call as FetchFails and Run do.
GetDb(n) == IF pool.conns[n] # 0 THEN pool ELSE Opened(n)

Live(c) == <<call[c].conn, call[c].db>> \in pool.open

\* After the requests had their ten seconds to drain; some may still be there.
Close ==
    /\ ~pool.closed
    /\ pool' = [pool EXCEPT !.conns = [n \in Connections |-> 0],
                            !.open = @ \ {<<n, pool.conns[n]>> : n \in Connections},
                            !.closed = TRUE]
    /\ UNCHANGED <<version, cache, mutex, call>>

--------------------------------------------------------------------------------
(* db_schema, the schema resource *)

ArriveSchema(c, n, refresh) ==
    /\ Over(c)
    /\ call' = [call EXCEPT ![c] = [Idle EXCEPT !.pc = IF refresh THEN "invalidate" ELSE "lock",
                                               !.conn = n, !.refresh = refresh,
                                               !.asked = IF refresh THEN version[n] ELSE 0]]
    /\ UNCHANGED <<version, cache, mutex, pool>>

\* Mutant of LockOf: one mutex for all connections.
LockOfAll(n) == CHOOSE m \in Connections : TRUE

\* Each connection has a schemaCache of its own, with its mutex.
LockOf(n) == n

Free(c) == mutex[LockOf(call[c].conn)] = NoCall

Unlock(c) == mutex' = [mutex EXCEPT ![LockOf(call[c].conn)] = NoCall]

\* Mutant of Invalidate: it does not wait for the mutex.
InvalidateUnlocked(c) ==
    /\ At(c, "invalidate")
    /\ cache' = [cache EXCEPT ![call[c].conn] = NoData]
    /\ Goto(c, "lock")
    /\ UNCHANGED <<version, mutex, pool>>

Invalidate(c) ==
    /\ At(c, "invalidate") /\ Free(c)
    /\ cache' = [cache EXCEPT ![call[c].conn] = NoData]
    /\ Goto(c, "lock")
    /\ UNCHANGED <<version, mutex, pool>>

\* ~valid().
Stale(c) == cache[call[c].conn].left = 0

Answer(c, data) ==
    call' = [call EXCEPT ![c].pc = "done", ![c].version = data.version, ![c].age = data.age,
                         ![c].db = 0]

\* Get with valid data.
Hit(c) ==
    /\ At(c, "lock") /\ Free(c) /\ ~Stale(c)
    /\ Answer(c, cache[call[c].conn])
    /\ UNCHANGED <<version, cache, mutex, pool>>

\* Get without: the mutex stays locked.
Miss(c) ==
    LET n == call[c].conn
    IN  /\ At(c, "lock") /\ Free(c) /\ Stale(c)
        /\ mutex' = [mutex EXCEPT ![LockOf(n)] = c]
        /\ pool' = GetDb(n)
        /\ call' = [call EXCEPT ![c].pc = "query", ![c].db = pool'.conns[n]]
        /\ UNCHANGED <<version, cache>>

\* db.Query: the rows will show the schema of this moment.
Query(c) ==
    /\ At(c, "query") /\ Live(c)
    /\ call' = [call EXCEPT ![c].pc = "rows", ![c].version = version[call[c].conn]]
    /\ UNCHANGED <<version, cache, mutex, pool>>

\* Mutant of Life: the time that the fetch took is added to the life, not left out of it.
LifeOfHit(c) == TTL + call[c].age

\* fetchedAt is the time after the last row.
Life(c) == TTL

Fetched(c) ==
    LET data == [version |-> call[c].version, left |-> Life(c), age |-> call[c].age]
    IN  /\ At(c, "rows")
        /\ cache' = [cache EXCEPT ![call[c].conn] = data]
        /\ Answer(c, data)
        /\ Unlock(c)
        /\ UNCHANGED <<version, pool>>

\* Mutant of FetchFails: the error path leaves without an unlock.
FetchFailsLocked(c) ==
    /\ call[c].pc \in Fetching
    /\ End(c)
    /\ UNCHANGED <<version, cache, mutex, pool>>

\* The connection is closed, or the database fails: nothing is stored.
FetchFails(c) ==
    /\ call[c].pc \in Fetching
    /\ End(c) /\ Unlock(c)
    /\ UNCHANGED <<version, cache, pool>>

--------------------------------------------------------------------------------
(* db_query, db_list *)

ArriveQuery(c, n) ==
    /\ Over(c)
    /\ call' = [call EXCEPT ![c] = [Idle EXCEPT !.pc = "get", !.conn = n]]
    /\ UNCHANGED <<version, cache, mutex, pool>>

GetConnection(c) ==
    LET n == call[c].conn
    IN  /\ At(c, "get")
        /\ pool' = GetDb(n)
        /\ call' = [call EXCEPT ![c].pc = "run", ![c].db = pool'.conns[n]]
        /\ UNCHANGED <<version, cache, mutex>>

\* A statement may change the schema; it fails on a connection that is closed.
Run(c) ==
    LET n == call[c].conn
    IN  /\ At(c, "run") /\ End(c)
        /\ \/ UNCHANGED version
           \/ Live(c) /\ version[n] < MaxAlters /\ version' = [version EXCEPT ![n] = @ + 1]
        /\ UNCHANGED <<cache, mutex, pool>>

--------------------------------------------------------------------------------
\* Rows come within MaxLag: a fetch that takes longer is not followed any further.
Tick ==
    /\ \A c \in Calls : At(c, "rows") => call[c].age < MaxLag
    /\ \E n \in Connections : cache[n].left > 0 \/ \E c \in Calls : At(c, "rows")
    /\ cache' = [n \in Connections |->
                    IF cache[n].left <= 1 THEN NoData
                    ELSE [cache[n] EXCEPT !.left = @ - 1, !.age = @ + 1]]
    /\ call' = [c \in Calls |-> IF At(c, "rows") THEN [call[c] EXCEPT !.age = @ + 1] ELSE call[c]]
    /\ UNCHANGED <<version, mutex, pool>>

Next ==
    \/ \E c \in Calls :
          \/ \E n \in Connections :
                (\E refresh \in BOOLEAN : ArriveSchema(c, n, refresh)) \/ ArriveQuery(c, n)
          \/ Invalidate(c) \/ Hit(c) \/ Miss(c) \/ Query(c) \/ Fetched(c) \/ FetchFails(c)
          \/ GetConnection(c) \/ Run(c)
    \/ Close \/ Tick

Spec == Init /\ [][Next]_vars

\* sync.Mutex starves nobody.  A database answers or fails, except for those that hang.
FairSpec ==
    /\ Spec
    /\ \A c \in Calls :
          /\ SF_vars(Invalidate(c) \/ Hit(c) \/ Miss(c))
          /\ WF_vars(call[c].conn \notin Hanging
                       /\ (GetConnection(c) \/ Run(c) \/ Query(c) \/ Fetched(c) \/ FetchFails(c)))

--------------------------------------------------------------------------------
\* "refresh: Invalidate the schema cache and reload from the server before returning"
\* (internal/mcp/db.go): the answer shows every change made before the call, also when
\* another call's fetch was under way or has come in between.
RefreshIsFresh ==
    \A c \in Calls : At(c, "done") /\ call[c].refresh => call[c].version >= call[c].asked

\* "cached for 5 minutes": no answer is older than the cache's life and its fetch.
AgeBounded ==
    \A c \in Calls : At(c, "done") => call[c].age < TTL + MaxLag

\* The pool refers to every connection that is open, however first uses and Close race.
ConnectionsNotLeaked ==
    pool.open \subseteq {<<n, pool.conns[n]>> : n \in Connections}

\* A connection whose server hangs holds up its own calls only.
OthersServed ==
    \A c \in Calls :
        (~Over(c) /\ call[c].conn \notin Hanging)
            ~> Over(c)
================================================================================
