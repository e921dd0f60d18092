------------------------------- MODULE Readers -------------------------------
(***************************************************************************)
(* The two shared resources of the read side: the query cache, a directory *)
(* that several `genkei query` processes read, write and clear without a   *)
(* lock (common.cache, cli.query), and the read API's connection pool,     *)
(* which its request threads share (api.app, api.pool, common.db).         *)
(*                                                                         *)
(* Data.  An answer is the time its snapshot of the lake was taken; a key  *)
(* is one query, limit, format and database.                               *)
(***************************************************************************)
EXTENDS Naturals, FiniteSets

CONSTANTS
    Process, Key,
    Ttl,          \* seconds an entry lives
    Timeout,      \* statement_timeout of a query
    MaxTime,      \* bound: seconds
    Thread,       \* of the API's thread pool
    MaxPoolSize   \* GENKEI_API_MAX_POOL_SIZE

VARIABLES
    now,
    entry,     \* key -> the file's stored_at and value, None if there is no file
    query,     \* process -> its step, its key, the time it looked at the clock, its answer
    app,       \* the API "starting" or "up", or a "cli" command
    pool,      \* _POOL: 0, or the number of the pool
    pools,     \* pools created
    request    \* thread -> its step and the pool it uses

cacheVars   == <<now, entry, query>>
poolVars    == <<app, pool, pools, request>>
readersVars == <<cacheVars, poolVars>>

None == [stamp |-> 0, read |-> 0]
Idle == [step |-> "idle", key |-> CHOOSE k \in Key : TRUE, asked |-> 0, read |-> 0]

Init ==
    /\ now = 1
    /\ entry = [k \in Key |-> None]
    /\ query = [p \in Process |-> Idle]
    /\ app \in {"starting", "cli"} /\ pool = 0 /\ pools = 0
    /\ request = [t \in Thread |-> [step |-> "idle", pool |-> 0]]

-----------------------------------------------------------------------------
\* The cache.

\* Time passes; the server cancels a statement that runs for Timeout.
Tick ==
    /\ now < MaxTime
    /\ \A p \in Process : query[p].step = "executing" => now - query[p].read < Timeout
    /\ now' = now + 1
    /\ UNCHANGED <<entry, query, poolVars>>

Goto(p, step) == query' = [query EXCEPT ![p].step = step]

\* query_cmd: the key is made, load looks at the clock.
Ask(p, k) ==
    /\ query[p].step = "idle"
    /\ query' = [query EXCEPT ![p] = [step |-> "load", key |-> k, asked |-> now, read |-> 0]]
    /\ UNCHANGED <<now, entry, poolVars>>

\* Fault: an entry that is exactly Ttl old is still good.
ExpiredLate(p, e) == query[p].asked > e.stamp + Ttl

\* By the clock as it was before the file was read.
Expired(p, e) == query[p].asked >= e.stamp + Ttl

\* load: a fresh entry is printed, an expired one is on its way out.
Load(p) ==
    /\ query[p].step = "load"
    /\ LET e == entry[query[p].key] IN
       query' = [query EXCEPT ![p].step = IF e = None THEN "execute"
                                          ELSE IF Expired(p, e) THEN "unlink" ELSE "printed",
                              ![p].read = IF e = None \/ Expired(p, e) THEN 0 ELSE e.read]
    /\ UNCHANGED <<now, entry, poolVars>>

\* _unlink_quietly goes by name: it may hit an entry stored since.
Unlink(p) ==
    /\ query[p].step = "unlink"
    /\ entry' = [entry EXCEPT ![query[p].key] = None]
    /\ Goto(p, "execute")
    /\ UNCHANGED <<now, poolVars>>

\* execute_readonly: the transaction's snapshot is taken.
Execute(p) ==
    /\ query[p].step = "execute"
    /\ query' = [query EXCEPT ![p].step = "executing", ![p].read = now]
    /\ UNCHANGED <<now, entry, poolVars>>

\* A query error, a timeout, duplicate columns in JSON: printed, never stored.
QueryFails(p) ==
    /\ query[p].step = "executing"
    /\ query' = [query EXCEPT ![p] = Idle]
    /\ UNCHANGED <<now, entry, poolVars>>

\* store: one rename puts the answer in place, stamped with the time of storing.
Store(p) ==
    /\ query[p].step = "executing"
    /\ entry' = [entry EXCEPT ![query[p].key] = [stamp |-> now, read |-> query[p].read]]
    /\ query' = [query EXCEPT ![p] = Idle]
    /\ UNCHANGED <<now, poolVars>>

Leave(p) ==
    /\ query[p].step = "printed"
    /\ query' = [query EXCEPT ![p] = Idle]
    /\ UNCHANGED <<now, entry, poolVars>>

\* clear, one file at a time.
Clear(k) ==
    /\ entry[k] # None
    /\ entry' = [entry EXCEPT ![k] = None]
    /\ UNCHANGED <<now, query, poolVars>>

-----------------------------------------------------------------------------
\* The pool.

Move(t, step, p) == request' = [request EXCEPT ![t] = [step |-> step, pool |-> p]]

\* Fault: the app opens without a pool, the first request makes it.
ConfigurePoolLazily ==
    /\ app = "starting"
    /\ app' = "up"
    /\ UNCHANGED <<pool, pools, request, cacheVars>>

\* lifespan: configure_pool before the first request.
ConfigurePool ==
    /\ app = "starting"
    /\ app' = "up" /\ pools' = pools + 1 /\ pool' = pools + 1
    /\ UNCHANGED <<request, cacheVars>>

\* _health, _prices, _signals, _lake_health: each request borrows one connection.
\* A command has a single thread, and no pool before its first query.
Request(t) ==
    /\ request[t].step = "idle"
    /\ \/ app = "up"
       \/ app = "cli" /\ \A u \in Thread : request[u].step = "idle"
    /\ Move(t, "get", 0)
    /\ UNCHANGED <<app, pool, pools, cacheVars>>

\* get_pool looks at the global ...
GetPool(t) ==
    /\ request[t].step = "get"
    /\ IF pool = 0 THEN Move(t, "create", 0) ELSE Move(t, "wait", pool)
    /\ UNCHANGED <<app, pool, pools, cacheVars>>

\* ... and sets it, without a lock between the two.
CreatePool(t) ==
    /\ request[t].step = "create"
    /\ pools' = pools + 1 /\ pool' = pools + 1
    /\ Move(t, "wait", pools + 1)
    /\ UNCHANGED <<app, cacheVars>>

Borrowed(p) == {t \in Thread : request[t] = [step |-> "query", pool |-> p]}

\* pool.connection: at once, or when one comes back.
Borrow(t) ==
    /\ request[t].step = "wait"
    /\ Cardinality(Borrowed(request[t].pool)) < MaxPoolSize
    /\ Move(t, "query", request[t].pool)
    /\ UNCHANGED <<app, pool, pools, cacheVars>>

\* PoolTimeout: an error for a data request, "unreachable" for /health.
PoolTimeout(t) ==
    /\ request[t].step = "wait" /\ Cardinality(Borrowed(request[t].pool)) >= MaxPoolSize
    /\ Move(t, "idle", 0)
    /\ UNCHANGED <<app, pool, pools, cacheVars>>

\* The rows, an error or the statement timeout: commit or rollback, and the
\* connection goes back.
Release(t) ==
    /\ request[t].step = "query"
    /\ Move(t, "idle", 0)
    /\ UNCHANGED <<app, pool, pools, cacheVars>>

CacheNext ==
    \/ Tick
    \/ \E p \in Process :
          \/ \E k \in Key : Ask(p, k)
          \/ Load(p) \/ Unlink(p) \/ Execute(p) \/ QueryFails(p) \/ Store(p) \/ Leave(p)
    \/ \E k \in Key : Clear(k)

PoolNext ==
    \/ ConfigurePool
    \/ \E t \in Thread :
          \/ Request(t) \/ GetPool(t) \/ CreatePool(t) \/ Borrow(t) \/ PoolTimeout(t) \/ Release(t)

Next == CacheNext \/ PoolNext

Spec == Init /\ [][Next]_readersVars

-----------------------------------------------------------------------------
\* What the cache lets a query print was true of the lake less than Ttl and one
\* statement timeout before it asked, whoever stored it: a slow query may lay
\* its older answer over a newer one and stamps it anew, entries are unlinked
\* and cleared under a reader, but no answer outlives that bound.
AnswersAreRecent ==
    \A p \in Process : query[p].step = "printed" => query[p].asked < query[p].read + Ttl + Timeout

\* The API never holds more database connections than the pool's size: there is
\* one pool, however many requests come first, and it keeps its bound.
ConnectionsBounded == Cardinality({t \in Thread : request[t].step = "query"}) <= MaxPoolSize
=============================================================================
