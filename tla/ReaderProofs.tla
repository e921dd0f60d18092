------------------------------ MODULE ReaderProofs ------------------------------
(***************************************************************************)
(* What reads, of the modules that MCLake checks side by side, for any     *)
(* number of processes, threads, keys, runs, days and rows of a page: the  *)
(* query cache, the API's connection pool, notebooks and their manifests,  *)
(* the monitors, the watchlist, the loops that read a source page by page, *)
(* the parsers of a payload, and the emitters that read a table's window.  *)
(***************************************************************************)
EXTENDS MCLake, Integers, Sequences, FiniteSetTheorems, TLAPS

\* A step is one of a single module, and leaves the variables of the others alone.
LEMMA OneReader ==
    ASSUME [MCNext]_MCVars
    PROVE  /\ UNCHANGED subject
           /\ Reading!CacheNext \/ UNCHANGED Reading!cacheVars
           /\ Reading!PoolNext \/ UNCHANGED Reading!poolVars
           /\ (subject = "notebook" /\ Note!Next) \/ UNCHANGED notebookVars
           /\ (subject = "watch" /\ Monitor!Next) \/ UNCHANGED monitorVars
           /\ (subject = "paging" /\ Paging!Next) \/ UNCHANGED pagingVars
           /\ (subject = "watchlist" /\ Watching!Next) \/ UNCHANGED file
           /\ (subject = "emitter" /\ Emitting!Next) \/ UNCHANGED emitterVars
           /\ (subject = "parser" /\ Parse!Next) \/ UNCHANGED parserVars
<1> USE DEF Reading!cacheVars, Reading!poolVars, readerVars
<1>1. CASE CacheStep
  <2>1. UNCHANGED Reading!poolVars
    BY <1>1 DEF CacheStep, Reading!CacheNext, Reading!Tick, Reading!Ask, Reading!Load, Reading!Unlink,
        Reading!Execute, Reading!QueryFails, Reading!Store, Reading!Leave, Reading!Clear
  <2> QED BY <1>1, <2>1 DEF CacheStep, MCNext, MCVars
<1>2. CASE PoolStep
  <2>1. UNCHANGED Reading!cacheVars
    BY <1>2 DEF PoolStep, Reading!PoolNext, Reading!ConfigurePool, Reading!Request, Reading!GetPool,
        Reading!CreatePool, Reading!Borrow, Reading!PoolTimeout, Reading!Release
  <2> QED BY <1>2, <2>1 DEF PoolStep, MCNext, MCVars
<1> QED BY <1>1, <1>2 DEF MCNext, MCVars, SlotStep, FredStep, PagingStep, CollectorStep, BackfillStep,
    NormalizerStep, EmitterStep, StudyStep, WatchlistStep, MonitorStep, NotebookStep,
    LlamaStep, ScoreStep, ReportStep, ParserStep

-----------------------------------------------------------------------------
\* The cache. A query that is executing has not run out of its time, so what is
\* stored is no older than that when it is stamped.
Queries == [step : {"idle", "load", "unlink", "execute", "executing", "printed"},
            key : CacheKey \cup {Reading!Idle.key}, asked : Nat, read : Nat]

Sound(q, t) ==
    /\ q \in Queries
    /\ q.step # "idle" => q.key \in CacheKey
    /\ q.step = "executing" => t <= q.read + Timeout
    /\ q.step = "printed" => q.asked < q.read + Ttl + Timeout

CacheInv ==
    /\ now \in Nat
    /\ entry \in [CacheKey -> [stamp : Nat, read : Nat]]
    /\ \A k \in CacheKey : entry[k].stamp <= entry[k].read + Timeout
    /\ query \in [Process -> Queries]
    /\ \A p \in Process : Sound(query[p], now)

LEMMA CacheInit == Reading!Init => CacheInv
<1> SUFFICES ASSUME Reading!Init PROVE CacheInv
  OBVIOUS
<1>1. Sound(Reading!Idle, now)
  BY DEF Reading!Idle, Sound, Queries
<1> QED BY <1>1, ReaderBounds DEF Reading!Init, CacheInv, Reading!None, Sound

\* One process's query goes on, and the clock stands still.
LEMMA QueryGoesOn ==
    ASSUME CacheInv, NEW p \in Process, NEW q, Sound(q, now), query' = [query EXCEPT ![p] = q],
           UNCHANGED now, UNCHANGED entry
    PROVE  CacheInv'
BY DEF CacheInv, Sound

LEMMA CacheStepInv ==
    ASSUME CacheInv, Reading!CacheNext
    PROVE  CacheInv'
<1>1. CASE Reading!Tick
  BY <1>1, ReaderBounds DEF Reading!Tick, CacheInv, Sound, Queries
<1>2. ASSUME NEW p \in Process, NEW k \in CacheKey, Reading!Ask(p, k) PROVE CacheInv'
  <2>1. Sound([step |-> "load", key |-> k, asked |-> now, read |-> 0], now)
    BY DEF CacheInv, Sound, Queries
  <2> QED BY <1>2, <2>1, QueryGoesOn DEF Reading!Ask
<1>3. ASSUME NEW p \in Process, Reading!Load(p) PROVE CacheInv'
  <2> DEFINE e == entry[query[p].key]
             q == [query[p] EXCEPT !.step = IF e = Reading!None THEN "execute"
                                            ELSE IF Reading!Expired(p, e) THEN "unlink" ELSE "printed",
                                   !.read = IF e = Reading!None \/ Reading!Expired(p, e) THEN 0 ELSE e.read]
  <2>1. /\ query[p] \in Queries /\ query[p].key \in CacheKey
        /\ e.stamp \in Nat /\ e.read \in Nat /\ e.stamp <= e.read + Timeout
    BY <1>3 DEF Reading!Load, CacheInv, Sound
  <2> HIDE DEF e
  <2>2. /\ q \in Queries /\ q.key = query[p].key /\ q.asked = query[p].asked /\ q.step # "executing"
        /\ q.step = "printed" => q.read = e.read /\ ~Reading!Expired(p, e)
    BY <2>1 DEF Queries
  <2>3. query' = [query EXCEPT ![p] = q] /\ UNCHANGED now /\ UNCHANGED entry
    BY <1>3 DEF Reading!Load, CacheInv, e
  <2> HIDE DEF q
  <2>4. Sound(q, now)
    BY <2>1, <2>2, ReaderBounds DEF Sound, Reading!Expired, Queries
  <2> QED BY <2>3, <2>4, QueryGoesOn
<1>4. ASSUME NEW p \in Process, Reading!Unlink(p) PROVE CacheInv'
  BY <1>4, ReaderBounds DEF Reading!Unlink, Reading!Goto, Reading!None, CacheInv, Sound, Queries
<1>5. ASSUME NEW p \in Process, Reading!Execute(p) PROVE CacheInv'
  <2> DEFINE q == [query[p] EXCEPT !.step = "executing", !.read = now]
  <2>1. query[p] \in Queries /\ query[p].key \in CacheKey /\ now \in Nat
    BY <1>5 DEF Reading!Execute, CacheInv, Sound
  <2>2. q \in Queries /\ q.key = query[p].key /\ q.step = "executing" /\ q.read = now
    BY <2>1 DEF Queries
  <2>3. query' = [query EXCEPT ![p] = q] /\ UNCHANGED now /\ UNCHANGED entry
    BY <1>5 DEF Reading!Execute, CacheInv
  <2> HIDE DEF q
  <2>4. Sound(q, now)
    BY <2>1, <2>2, ReaderBounds DEF Sound
  <2> QED BY <2>3, <2>4, QueryGoesOn
<1>6. \A t : Sound(Reading!Idle, t)
  BY DEF Reading!Idle, Sound, Queries
<1>7. ASSUME NEW p \in Process, Reading!QueryFails(p) \/ Reading!Leave(p) PROVE CacheInv'
  BY <1>6, <1>7, QueryGoesOn DEF Reading!QueryFails, Reading!Leave
<1>8. ASSUME NEW p \in Process, Reading!Store(p) PROVE CacheInv'
  <2>1. query[p].step = "executing" /\ query[p] \in Queries /\ Sound(query[p], now)
    BY <1>8 DEF Reading!Store, CacheInv
  <2>2. now <= query[p].read + Timeout /\ query[p].key \in CacheKey /\ query[p].read \in Nat /\ now \in Nat
    BY <2>1 DEF CacheInv, Sound, Queries
  <2>3. entry' = [entry EXCEPT ![query[p].key] = [stamp |-> now, read |-> query[p].read]]
    BY <1>8 DEF Reading!Store
  <2>4. entry' \in [CacheKey -> [stamp : Nat, read : Nat]]
        /\ \A k \in CacheKey : entry'[k].stamp <= entry'[k].read + Timeout
    BY <2>2, <2>3 DEF CacheInv
  <2>5. query' \in [Process -> Queries] /\ now' = now /\ \A r \in Process : Sound(query'[r], now)
    BY <1>6, <1>8 DEF Reading!Store, CacheInv, Sound
  <2> QED BY <2>2, <2>4, <2>5 DEF CacheInv
<1>9. ASSUME NEW k \in CacheKey, Reading!Clear(k) PROVE CacheInv'
  BY <1>9, ReaderBounds DEF Reading!Clear, Reading!None, CacheInv
<1> QED BY <1>1, <1>2, <1>3, <1>4, <1>5, <1>7, <1>8, <1>9 DEF Reading!CacheNext

\* What a query prints was true less than Ttl and one statement timeout before it
\* asked, however many processes read, store, unlink and clear at once.
THEOREM CachedIsRecent == MCSpec => []AnswersAreRecent
<1>1. MCInit => CacheInv
  BY CacheInit DEF MCInit
<1>2. CacheInv /\ [MCNext]_MCVars => CacheInv'
  <2> SUFFICES ASSUME CacheInv, [MCNext]_MCVars PROVE CacheInv'
    OBVIOUS
  <2>1. CASE UNCHANGED Reading!cacheVars
    BY <2>1 DEF Reading!cacheVars, CacheInv
  <2> QED BY <2>1, CacheStepInv, OneReader
<1>3. CacheInv => AnswersAreRecent
  BY DEF CacheInv, Sound, AnswersAreRecent, Reading!AnswersAreRecent
<1> QED BY <1>1, <1>2, <1>3, PTL DEF MCSpec

-----------------------------------------------------------------------------
\* The pool. The API has made its pool before it takes a request; a command has
\* one thread, which makes it. So there is one, and whoever waits for or holds a
\* connection does so of that.
PoolInv ==
    /\ pools \in Nat /\ pool \in Nat /\ app \in {"starting", "up", "cli"}
    /\ request \in [Thread -> [step : {"idle", "get", "create", "wait", "query"}, pool : Nat]]
    /\ app = "starting" => pool = 0 /\ \A t \in Thread : request[t].step = "idle"
    /\ app = "up" => pool # 0
    /\ app = "cli" => \A t, u \in Thread : request[t].step # "idle" /\ request[u].step # "idle" => t = u
    /\ \A t \in Thread :
          /\ request[t].step = "create" => app = "cli"
          /\ request[t].step \in {"wait", "query"} => request[t].pool = pool
    /\ Cardinality(Reading!Borrowed(pool)) <= MaxPoolSize

\* The instance's own copy of the library's operator.
LEMMA SameCount == \A S : Reading!Cardinality(S) = Cardinality(S)
BY DEF Reading!Cardinality, Cardinality

\* Who holds a connection of which pool.
LEMMA BorrowedIsFinite == \A p : IsFiniteSet(Reading!Borrowed(p)) /\ Cardinality(Reading!Borrowed(p)) \in Nat
BY ReaderBounds, FS_Subset, FS_CardinalityType DEF Reading!Borrowed

\* Where the threads are when t has moved.
LEMMA OneMoves ==
    ASSUME PoolInv, NEW t \in Thread, NEW s \in {"idle", "get", "create", "wait", "query"}, NEW p \in Nat,
           Reading!Move(t, s, p)
    PROVE  /\ request' \in [Thread -> [step : {"idle", "get", "create", "wait", "query"}, pool : Nat]]
           /\ request'[t].step = s /\ request'[t].pool = p
           /\ \A u \in Thread : u # t => request'[u] = request[u]
BY DEF PoolInv, Reading!Move

\* Nobody takes a connection in a step that puts t anywhere else.
LEMMA NobodyBorrows ==
    ASSUME PoolInv, NEW t \in Thread, NEW r, r.step # "query", request' = [request EXCEPT ![t] = r],
           UNCHANGED pool
    PROVE  Cardinality(Reading!Borrowed(pool)') <= MaxPoolSize
<1>1. Reading!Borrowed(pool)' \subseteq Reading!Borrowed(pool)
  BY DEF PoolInv, Reading!Borrowed
<1>2. Cardinality(Reading!Borrowed(pool)') <= Cardinality(Reading!Borrowed(pool))
  BY <1>1, BorrowedIsFinite, FS_Subset
<1>3. Cardinality(Reading!Borrowed(pool)') \in Nat
  BY <1>1, BorrowedIsFinite, FS_Subset, FS_CardinalityType
<1> QED BY <1>2, <1>3, BorrowedIsFinite, ReaderBounds DEF PoolInv

LEMMA PoolInit == Reading!Init => PoolInv
<1> SUFFICES ASSUME Reading!Init PROVE PoolInv
  OBVIOUS
<1>1. Reading!Borrowed(pool) = {}
  BY DEF Reading!Init, Reading!Borrowed
<1>2. Cardinality(Reading!Borrowed(pool)) <= MaxPoolSize
  BY <1>1, FS_EmptySet, ReaderBounds
<1> QED BY <1>2 DEF Reading!Init, PoolInv

LEMMA PoolStepInv ==
    ASSUME PoolInv, Reading!PoolNext
    PROVE  PoolInv'
<1> DEFINE Held == Cardinality(Reading!Borrowed(pool))
<1>a. pools \in Nat /\ pool \in Nat
  BY DEF PoolInv
<1>1. CASE Reading!ConfigurePool
  <2>1. Reading!Borrowed(pool)' = {}
    BY <1>1 DEF Reading!ConfigurePool, Reading!Borrowed, PoolInv
  <2>2. Held' <= MaxPoolSize
    BY <2>1, FS_EmptySet, ReaderBounds
  <2> QED BY <1>1, <1>a, <2>2 DEF Reading!ConfigurePool, PoolInv
<1>2. ASSUME NEW t \in Thread, Reading!Request(t) PROVE PoolInv'
  <2>1. Held' <= MaxPoolSize
    BY <1>2, NobodyBorrows DEF Reading!Request, Reading!Move
  <2>2. /\ request' \in [Thread -> [step : {"idle", "get", "create", "wait", "query"}, pool : Nat]]
        /\ request'[t].step = "get"
        /\ \A u \in Thread : u # t => request'[u] = request[u]
    BY <1>2, OneMoves DEF Reading!Request
  <2> QED BY <1>2, <2>1, <2>2 DEF Reading!Request, PoolInv
<1>3. ASSUME NEW t \in Thread, Reading!GetPool(t) PROVE PoolInv'
  <2>1. Held' <= MaxPoolSize
    BY <1>3, NobodyBorrows DEF Reading!GetPool, Reading!Move
  <2>2. /\ request' \in [Thread -> [step : {"idle", "get", "create", "wait", "query"}, pool : Nat]]
        /\ \/ pool = 0 /\ request'[t].step = "create"
           \/ request'[t].step = "wait" /\ request'[t].pool = pool
        /\ \A u \in Thread : u # t => request'[u] = request[u]
    BY <1>3, <1>a, OneMoves DEF Reading!GetPool
  <2>3. /\ request[t].step = "get" /\ UNCHANGED <<app, pool, pools>>
    BY <1>3 DEF Reading!GetPool
  <2> HIDE DEF Held
  <2> QED BY <2>1, <2>2, <2>3 DEF PoolInv, Held
<1>4. ASSUME NEW t \in Thread, Reading!CreatePool(t) PROVE PoolInv'
  <2>1. /\ request[t].step = "create" /\ app = "cli" /\ UNCHANGED app
        /\ pools' = pools + 1 /\ pool' = pools + 1
    BY <1>4 DEF Reading!CreatePool, PoolInv
  <2>2. /\ request' \in [Thread -> [step : {"idle", "get", "create", "wait", "query"}, pool : Nat]]
        /\ request'[t].step = "wait" /\ request'[t].pool = pools + 1
        /\ \A u \in Thread : u # t => request'[u] = request[u]
    BY <1>4, <1>a, OneMoves DEF Reading!CreatePool
  <2>3. \A u \in Thread : u # t => request[u].step = "idle"
    BY <2>1 DEF PoolInv
  <2>4. Reading!Borrowed(pool)' = {}
    BY <2>1, <2>2, <2>3 DEF Reading!Borrowed
  <2>5. Held' <= MaxPoolSize
    BY <2>4, FS_EmptySet, ReaderBounds
  <2> HIDE DEF Held
  <2> QED BY <1>a, <2>1, <2>2, <2>3, <2>5 DEF PoolInv, Held
<1>5. ASSUME NEW t \in Thread, Reading!Borrow(t) PROVE PoolInv'
  <2>1. /\ request[t].step = "wait" /\ request[t].pool = pool /\ UNCHANGED <<app, pool, pools>>
        /\ Held < MaxPoolSize
    BY <1>5, SameCount DEF Reading!Borrow, PoolInv
  <2>2. /\ request' \in [Thread -> [step : {"idle", "get", "create", "wait", "query"}, pool : Nat]]
        /\ request'[t].step = "query" /\ request'[t].pool = pool
        /\ \A u \in Thread : u # t => request'[u] = request[u]
    BY <1>5, <1>a, <2>1, OneMoves DEF Reading!Borrow
  <2>3. Reading!Borrowed(pool)' \subseteq Reading!Borrowed(pool) \cup {t}
    BY <2>1, <2>2 DEF Reading!Borrowed
  <2>4. /\ IsFiniteSet(Reading!Borrowed(pool) \cup {t})
        /\ Cardinality(Reading!Borrowed(pool) \cup {t}) <= MaxPoolSize
    <3>1. Cardinality(Reading!Borrowed(pool) \cup {t}) \in {Held, Held + 1}
      BY BorrowedIsFinite, FS_AddElement
    <3>2. Held \in Nat
      BY BorrowedIsFinite
    <3> QED BY <2>1, <3>1, <3>2, BorrowedIsFinite, FS_AddElement, ReaderBounds
  <2>5. /\ Cardinality(Reading!Borrowed(pool)') <= Cardinality(Reading!Borrowed(pool) \cup {t})
        /\ Cardinality(Reading!Borrowed(pool)') \in Nat
        /\ Cardinality(Reading!Borrowed(pool) \cup {t}) \in Nat
    BY <2>3, <2>4, FS_Subset, FS_CardinalityType
  <2>6. Held' <= MaxPoolSize
    BY <2>4, <2>5, ReaderBounds
  <2> HIDE DEF Held
  <2> QED BY <2>1, <2>2, <2>6 DEF PoolInv, Held
<1>6. ASSUME NEW t \in Thread, Reading!PoolTimeout(t) \/ Reading!Release(t) PROVE PoolInv'
  <2>1. Held' <= MaxPoolSize
    BY <1>6, NobodyBorrows DEF Reading!PoolTimeout, Reading!Release, Reading!Move
  <2>2. /\ request' \in [Thread -> [step : {"idle", "get", "create", "wait", "query"}, pool : Nat]]
        /\ request'[t].step = "idle"
        /\ \A u \in Thread : u # t => request'[u] = request[u]
    BY <1>6, OneMoves DEF Reading!PoolTimeout, Reading!Release
  <2>3. request[t].step # "idle" /\ UNCHANGED <<app, pool, pools>>
    BY <1>6 DEF Reading!PoolTimeout, Reading!Release
  <2> HIDE DEF Held
  <2> QED BY <2>1, <2>2, <2>3 DEF PoolInv, Held
<1> QED BY <1>1, <1>2, <1>3, <1>4, <1>5, <1>6 DEF Reading!PoolNext

LEMMA PoolInvBounds == PoolInv => Reading!ConnectionsBounded
<1> SUFFICES ASSUME PoolInv PROVE Reading!ConnectionsBounded
  OBVIOUS
<1>1. {t \in Thread : request[t].step = "query"} = Reading!Borrowed(pool)
  BY DEF PoolInv, Reading!Borrowed
<1> QED BY <1>1, SameCount DEF PoolInv, Reading!ConnectionsBounded

-----------------------------------------------------------------------------
\* Notebooks. A read finds a caller's connection as it was supplied, except that an
\* idle or a read-only transaction may have failed under it.
Transactions == {"idle", "open", "readonly", "error"}

ConnectionInv ==
    /\ conn \in [txn : Transactions, readOnly : BOOLEAN, autocommit : BOOLEAN]
    /\ supplied \in [by : {"session", "caller"}, was : Note!Connections]
    /\ interrupted \in BOOLEAN
    /\ supplied.by = "session" => conn.txn = IF interrupted THEN "error" ELSE "idle"
    /\ supplied.by = "caller" =>
          /\ conn.readOnly = supplied.was.readOnly /\ conn.autocommit = supplied.was.autocommit
          /\ supplied.was.txn = "idle" => conn.txn = "idle" \/ (interrupted /\ conn.txn = "error")
    /\ Note!TransactionsAreReturned

Run == [source : Note!Source, status : {"running", "success", "failed"}]

\* Nothing a manifest says of a run that has ended can change.
ManifestInv ==
    /\ ingests \in Seq(Run)
    /\ manifest.of \in {"none", "data", "latest"}
    /\ manifest.of = "latest" => manifest.runs \subseteq DOMAIN ingests
    /\ Note!ManifestsAreExact

LEMMA NotebookInit == Note!Init => ConnectionInv /\ ManifestInv
<1> SUFFICES ASSUME Note!Init PROVE ConnectionInv /\ ManifestInv
  OBVIOUS
<1>1. ConnectionInv
  <2>1. /\ supplied.was = conn /\ supplied.by \in {"session", "caller"}
        /\ supplied.by = "session" => conn.txn = "idle"
    BY DEF Note!Init, Note!Fresh
  <2>2. conn \in Note!Connections
    <3>1. Note!Fresh \in [txn : {"idle", "open", "readonly", "error"}, readOnly : BOOLEAN, autocommit : BOOLEAN]
      BY DEF Note!Fresh
    <3>2. Note!Fresh.txn = "idle" /\ Note!Fresh.readOnly = FALSE /\ Note!Fresh.autocommit = FALSE
      BY DEF Note!Fresh
    <3>3. Note!Fresh \in Note!Connections
      BY <3>1, <3>2 DEF Note!Connections
    <3> QED BY <3>3 DEF Note!Init
  <2>3. conn \in [txn : Transactions, readOnly : BOOLEAN, autocommit : BOOLEAN]
    BY <2>2 DEF Note!Connections, Transactions
  <2>4. supplied \in [by : {"session", "caller"}, was : Note!Connections]
    <3> HIDE DEF Note!Connections
    <3> QED BY <2>2 DEF Note!Init
  <2>5. interrupted = FALSE /\ read = Note!NoData
    BY DEF Note!Init
  <2>6. conn.readOnly = supplied.was.readOnly /\ conn.autocommit = supplied.was.autocommit
    BY <2>1
  <2>7. interrupted \in BOOLEAN /\ supplied.was.txn = conn.txn /\ conn.txn \in Transactions
    BY <2>1, <2>3, <2>5
  <2>8. Note!TransactionsAreReturned
    BY <2>1, <2>5, <2>7 DEF Note!TransactionsAreReturned
  <2> QED BY <2>1, <2>3, <2>4, <2>5, <2>6, <2>7, <2>8 DEF ConnectionInv
<1>2. ManifestInv
  BY DEF Note!Init, ManifestInv, Note!ManifestsAreExact, Note!NoManifest
<1> QED BY <1>1, <1>2

\* What a guarded read leaves of a connection.
LEMMA ReadLeaves ==
    ASSUME ConnectionInv, NEW b \in BOOLEAN, Note!GuardNow.ok
    PROVE  LET c == Note!After(Note!GuardNow, Note!Succeeds(Note!GuardNow, b))
           IN  /\ c \in [txn : Transactions, readOnly : BOOLEAN, autocommit : BOOLEAN]
               /\ c.readOnly = conn.readOnly /\ c.autocommit = conn.autocommit
               /\ conn.txn = "idle" => c.txn = "idle"
               /\ conn.txn = "error" => c.txn = "error" /\ ~Note!Succeeds(Note!GuardNow, b)
               /\ conn.txn = "readonly" /\ supplied.by = "caller" => c.txn \in {"readonly", "error"}
               /\ supplied.by = "caller" => ~conn.autocommit /\ (conn.txn = "idle" \/ conn.readOnly)
<1> DEFINE ends == Note!GuardNow.ends
           c == Note!After(Note!GuardNow, Note!Succeeds(Note!GuardNow, b))
<1>1. /\ conn \in [txn : Transactions, readOnly : BOOLEAN, autocommit : BOOLEAN]
      /\ supplied.by = "session" => conn.txn \in {"idle", "error"}
      /\ supplied.by \in {"session", "caller"}
  BY DEF ConnectionInv
<1>2. CASE supplied.by = "session"
  <2>1. conn.txn = "idle" /\ Note!GuardNow.ends
    BY <1>1, <1>2 DEF Note!GuardNow, Note!SessionGuard
  <2>2. c = [conn EXCEPT !.txn = "idle"]
    BY <2>1 DEF Note!After
  <2> QED BY <1>1, <1>2, <2>1, <2>2 DEF Transactions
<1>3. CASE supplied.by = "caller"
  <2>1. Note!GuardNow = Note!Guard(conn)
    BY <1>3 DEF Note!GuardNow
  <2>2. ~conn.autocommit /\ (conn.txn = "idle" \/ conn.readOnly)
    BY <2>1 DEF Note!Guard
  <2>3. /\ Note!GuardNow.ends = (conn.txn = "idle")
        /\ Note!GuardNow.within = IF conn.txn = "error" THEN "error" ELSE "readonly"
    BY <2>1, <2>2 DEF Note!Guard
  <2>4. CASE conn.txn = "idle"
    <3>1. c = [conn EXCEPT !.txn = "idle"]
      BY <2>3, <2>4 DEF Note!After
    <3> QED BY <1>1, <2>2, <2>4, <3>1 DEF Transactions
  <2>5. CASE conn.txn = "error"
    <3>1. ~Note!Succeeds(Note!GuardNow, b)
      BY <2>3, <2>5 DEF Note!Succeeds
    <3>2. c = [conn EXCEPT !.txn = "error"]
      BY <2>3, <2>5, <3>1 DEF Note!After
    <3> QED BY <1>1, <2>2, <2>5, <3>1, <3>2 DEF Transactions
  <2>6. CASE conn.txn \notin {"idle", "error"}
    <3>1. c = [conn EXCEPT !.txn = "readonly"] \/ c = [conn EXCEPT !.txn = "error"]
      BY <2>3, <2>6 DEF Note!After
    <3> QED BY <1>1, <2>2, <2>6, <3>1 DEF Transactions
  <2> QED BY <2>4, <2>5, <2>6
<1> QED BY <1>1, <1>2, <1>3

\* The connection is as before the call, or as a guarded read leaves it.
LEMMA ConnectionKept ==
    ASSUME ConnectionInv, NEW b \in BOOLEAN, UNCHANGED <<supplied, interrupted>>,
           \/ conn' = conn /\ read' = read
           \/ /\ Note!GuardNow.ok
              /\ conn' = Note!After(Note!GuardNow, Note!Succeeds(Note!GuardNow, b))
    PROVE  ConnectionInv'
<1>1. CASE conn' = conn /\ read' = read
  BY <1>1 DEF ConnectionInv, Note!TransactionsAreReturned, Note!NoData
<1>2. CASE Note!GuardNow.ok /\ conn' = Note!After(Note!GuardNow, Note!Succeeds(Note!GuardNow, b))
  <2> HIDE DEF Note!GuardNow, Note!After, Note!Succeeds
  <2> QED BY <1>2, ReadLeaves DEF ConnectionInv, Transactions, Note!TransactionsAreReturned, Note!NoData,
        Note!Connections
<1> QED BY <1>1, <1>2

LEMMA NotebookStepInv ==
    ASSUME ConnectionInv, ManifestInv, Note!Next
    PROVE  ConnectionInv' /\ ManifestInv'
<1>1. ASSUME NEW s \in Note!Source, Note!StartRun(s) PROVE ConnectionInv' /\ ManifestInv'
  <2>1. ConnectionInv'
    BY <1>1 DEF Note!StartRun, ConnectionInv, Note!TransactionsAreReturned, Note!NoData
  <2>2. ManifestInv'
    BY <1>1 DEF Note!StartRun, ManifestInv, Run, Note!ManifestsAreExact
  <2> QED BY <2>1, <2>2
<1>2. ASSUME NEW n \in DOMAIN ingests, NEW k \in Note!Key, Note!WriteRow(n, k)
      PROVE  ConnectionInv' /\ ManifestInv'
  BY <1>2 DEF Note!WriteRow, ConnectionInv, ManifestInv, Note!TransactionsAreReturned, Note!NoData,
      Note!ManifestsAreExact
<1>3. ASSUME NEW n \in DOMAIN ingests, NEW s \in {"success", "failed"}, Note!EndRun(n, s)
      PROVE  ConnectionInv' /\ ManifestInv'
  <2>1. ConnectionInv'
    BY <1>3 DEF Note!EndRun, ConnectionInv, Note!TransactionsAreReturned, Note!NoData
  <2>2. ManifestInv'
    <3> DEFINE r == [ingests[n] EXCEPT !.status = s]
    <3>a. ingests \in Seq(Run) /\ ingests[n] \in Run
      BY DEF ManifestInv
    <3>b. r \in Run /\ r.source = ingests[n].source
      BY <3>a DEF Run
    <3>c. ingests' = [ingests EXCEPT ![n] = r] /\ ingests[n].status = "running"
      BY <1>3 DEF Note!EndRun
    <3> HIDE DEF r
    <3>1. /\ ingests' \in Seq(Run) /\ DOMAIN ingests' = DOMAIN ingests
          /\ ingests[n].status = "running"
          /\ \A m \in DOMAIN ingests : ingests'[m].source = ingests[m].source
          /\ \A m \in DOMAIN ingests : m # n => ingests'[m] = ingests[m]
      BY <3>a, <3>b, <3>c
    <3>2. UNCHANGED manifest
      BY <1>3 DEF Note!EndRun
    <3> QED BY <3>1, <3>2 DEF ManifestInv, Note!ManifestsAreExact
  <2> QED BY <2>1, <2>2
<1>4. ASSUME NEW keys \in SUBSET Note!Key, NEW b \in BOOLEAN, Note!Read(keys, b)
      PROVE  ConnectionInv' /\ ManifestInv'
  <2>1. ConnectionInv'
    <3> HIDE DEF Note!GuardNow
    <3> QED BY <1>4, ConnectionKept DEF Note!Read, Note!Succeeds
  <2>2. ManifestInv'
    BY <1>4 DEF Note!Read, ManifestInv, Note!ManifestsAreExact
  <2> QED BY <2>1, <2>2
<1>5. ASSUME NEW exact \in BOOLEAN, NEW b \in BOOLEAN, NEW sources \in {Note!Source, {1}},
             Note!WriteManifest(exact, sources, b)
      PROVE  ConnectionInv' /\ ManifestInv'
  <2>1. ConnectionInv'
    <3>1. UNCHANGED <<supplied, interrupted, read>>
      BY <1>5 DEF Note!WriteManifest
    <3>2. \/ conn' = conn
          \/ Note!GuardNow.ok /\ conn' = Note!After(Note!GuardNow, Note!Succeeds(Note!GuardNow, b))
      BY <1>5 DEF Note!WriteManifest
    <3> QED BY <3>1, <3>2, ConnectionKept
  <2>2. UNCHANGED ingests
    BY <1>5 DEF Note!WriteManifest
  <2>3. CASE UNCHANGED manifest
    BY <2>1, <2>2, <2>3 DEF ManifestInv, Note!ManifestsAreExact
  <2>4. CASE exact /\ manifest' # manifest
    <3>1. /\ manifest' = [of |-> "data", runs |-> Note!ExactRuns(Note!RunIds, sources), read |-> Note!RunIds]
          /\ Note!RunIds = {} \/ Note!ExactRuns(Note!RunIds, sources) # {}
      BY <1>5, <2>4 DEF Note!WriteManifest
    <3>2. Note!ExactRuns(Note!RunIds, sources) = Note!RunIds
      BY <3>1 DEF Note!ExactRuns
    <3> QED BY <2>1, <2>2, <3>1, <3>2 DEF ManifestInv, Note!ManifestsAreExact
  <2>5. CASE ~exact /\ manifest' # manifest
    <3>1. manifest' = [of |-> "latest", runs |-> Note!LatestUsable(sources), read |-> Note!RunIds]
      BY <1>5, <2>5 DEF Note!WriteManifest
    <3>2. /\ Note!LatestUsable(sources) \subseteq DOMAIN ingests
          /\ \A n \in Note!LatestUsable(sources) : ingests[n].status = "success"
          /\ \A n, m \in Note!LatestUsable(sources) : ingests[n].source = ingests[m].source => n <= m /\ m <= n
      <4>1. \A n \in DOMAIN ingests : ingests[n].status # "partial"
        <5>1. \A n \in DOMAIN ingests : ingests[n] \in Run
          <6> HIDE DEF Run
          <6> QED BY DEF ManifestInv
        <5> QED BY <5>1 DEF Run
      <4> QED BY <4>1 DEF Note!LatestUsable, Note!Usable
    <3>3. DOMAIN ingests \subseteq Nat
      BY DEF ManifestInv
    <3>4. \A n, m \in Note!LatestUsable(sources) : ingests[n].source = ingests[m].source => n = m
      BY <3>2, <3>3
    <3> HIDE DEF Note!LatestUsable
    <3> QED BY <2>1, <2>2, <3>1, <3>2, <3>4 DEF ManifestInv, Note!ManifestsAreExact
  <2> QED BY <2>1, <2>3, <2>4, <2>5
<1>6. CASE Note!Interrupt
  <2>1. ConnectionInv'
    BY <1>6 DEF Note!Interrupt, Note!GuardNow, Note!Guard, Note!SessionGuard, ConnectionInv, Transactions,
        Note!TransactionsAreReturned, Note!NoData, Note!Connections
  <2>2. ManifestInv'
    BY <1>6 DEF Note!Interrupt, ManifestInv, Note!ManifestsAreExact
  <2> QED BY <2>1, <2>2
<1>7. CASE Note!NewSession
  <2>1. ConnectionInv'
    BY <1>7 DEF Note!NewSession, Note!Fresh, ConnectionInv, Transactions, Note!TransactionsAreReturned,
        Note!NoData
  <2>2. ManifestInv'
    BY <1>7 DEF Note!NewSession, Note!NoManifest, ManifestInv, Note!ManifestsAreExact
  <2> QED BY <2>1, <2>2
<1> QED BY <1>1, <1>2, <1>3, <1>4, <1>5, <1>6, <1>7 DEF Note!Next

\* However its requests race for the pool that the first of them makes, the API holds
\* no more connections than the pool may have. However the collectors go on, a
\* notebook's call leaves the connection as it found it, and its manifest names the
\* runs of exactly the rows it has read.
THEOREM ReadersAreSafe == MCSpec => []ConnectionsAreKept
<1> DEFINE Inv == /\ subject = "pool" => PoolInv
                  /\ subject = "notebook" => ConnectionInv /\ ManifestInv
<1>1. MCInit => Inv
  BY PoolInit, NotebookInit DEF MCInit
<1>2. Inv /\ [MCNext]_MCVars => Inv'
  <2> SUFFICES ASSUME Inv, [MCNext]_MCVars PROVE Inv'
    OBVIOUS
  <2>1. UNCHANGED subject
    BY OneReader
  <2>2. subject = "pool" => PoolInv'
    <3>1. CASE UNCHANGED Reading!poolVars
      BY <3>1 DEF Reading!poolVars, PoolInv, Reading!Borrowed
    <3> QED BY <3>1, PoolStepInv, OneReader
  <2>3. subject = "notebook" => ConnectionInv' /\ ManifestInv'
    <3>1. CASE UNCHANGED notebookVars
      BY <3>1 DEF notebookVars, ConnectionInv, ManifestInv, Note!TransactionsAreReturned, Note!NoData,
          Note!ManifestsAreExact
    <3> QED BY <3>1, NotebookStepInv, OneReader
  <2> QED BY <2>1, <2>2, <2>3
<1>3. Inv => ConnectionsAreKept
  BY PoolInvBounds DEF ConnectionInv, ManifestInv, ConnectionsAreKept, Note!NotebooksAreSafe
<1> QED BY <1>1, <1>2, <1>3, PTL DEF MCSpec

-----------------------------------------------------------------------------
\* The monitors. What they see of a run is what it left, and a day's heartbeat comes
\* after its other hours.
MonitorClock ==
    /\ kind \in {"listed", "unlisted", "evening"} /\ spec \in {"object", "array", "none"}
    /\ watchDay \in Nat /\ hour \in {11, 14, 15, 22}

\* Everything recorded is from before n. The latest run, if it succeeded, left its
\* blob and, where it yields any, its rows.
RecordedBy(n) ==
    /\ lastRun \in [began : Nat, status : {"missing", "success", "failed"}]
    /\ lastRun.status = "missing" => lastRun = Monitor!NoRun
    /\ lastSuccess \in Nat /\ lastSuccess < n
    /\ lastRow \in Nat /\ lastRow < n
    /\ lastRun.status = "success" =>
          /\ lastRun.began # 0 /\ lastSuccess = lastRun.began
          /\ newest.at = lastRun.began /\ newest.payload \in Monitor!Payload
          /\ Monitor!Yields(newest.payload) <=> lastRow = lastRun.began

\* After the heartbeat of a day, seven hours before n, a workflow that was late for it
\* has been told of.
ToldBy(n) ==
    /\ passed \in Nat /\ passed <= lastSuccess /\ others \in Nat /\ told \in Nat
    /\ hour = 22 /\ n - 7 - passed > Monitor!Limit => told = n - 7

MonitorInv == MonitorClock /\ RecordedBy(Monitor!Now) /\ ToldBy(Monitor!Now)

LEMMA MonitorInit == Monitor!Init => MonitorInv
<1> SUFFICES ASSUME Monitor!Init PROVE MonitorInv
  OBVIOUS
<1>1. MonitorClock /\ Monitor!Now = 35
  BY DEF Monitor!Init, MonitorClock, Monitor!Morning, Monitor!Now
<1>2. RecordedBy(35)
  BY DEF Monitor!Init, RecordedBy, Monitor!NoRun, Monitor!NoBlob, Monitor!Never
<1>3. ToldBy(35)
  BY DEF Monitor!Init, ToldBy, Monitor!Never, Monitor!Morning
<1> QED BY <1>1, <1>2, <1>3 DEF MonitorInv

\* Time passes.
LEMMA HoursPass ==
    ASSUME MonitorClock, Monitor!Pass(hour, Monitor!Following[hour])
    PROVE  /\ MonitorClock' /\ kind' = kind /\ spec' = spec
           /\ Monitor!Now \in Nat \ {0} /\ Monitor!Now' \in Nat /\ Monitor!Now < Monitor!Now'
           /\ hour \in {11, 14, 22} => hour' # 22
           /\ hour = 15 => Monitor!Now = Monitor!Now' - 7
<1>1. /\ Monitor!Following[11] = 14 /\ Monitor!Following[14] = 15 /\ Monitor!Following[15] = 22
      /\ Monitor!Following[22] = 11
  BY DEF Monitor!Following, Monitor!Morning, Monitor!Check, Monitor!Beat, Monitor!Evening
<1>2. /\ hour' = Monitor!Following[hour] /\ kind' = kind /\ spec' = spec
      /\ watchDay' = IF hour = 22 THEN watchDay + 1 ELSE watchDay
  BY DEF Monitor!Pass, Monitor!Evening
<1> QED BY <1>1, <1>2 DEF MonitorClock, Monitor!Now

\* What is recorded stays so as time passes, and a step that records leaves it right.
LEMMA RecordsStay ==
    ASSUME NEW n \in Nat, NEW m \in Nat, n < m, RecordedBy(n), spec' = spec,
           UNCHANGED <<lastRun, lastSuccess, newest, lastRow>>
    PROVE  RecordedBy(m)'
<1>1. Monitor!Payload' = Monitor!Payload
  BY DEF Monitor!Payload
<1> QED BY <1>1 DEF RecordedBy

LEMMA SuccessRecords ==
    ASSUME NEW n \in Nat \ {0}, NEW m \in Nat, n < m, RecordedBy(n), spec' = spec, NEW p \in Monitor!Payload,
           lastRun' = [began |-> n, status |-> "success"], lastSuccess' = n,
           newest' = [at |-> n, payload |-> p], lastRow' = IF Monitor!Yields(p) THEN n ELSE lastRow
    PROVE  RecordedBy(m)'
<1>1. newest'.at = n /\ newest'.payload = p /\ lastRun'.began = n /\ lastRun'.status = "success"
  OBVIOUS
<1>2. lastRow' \in Nat /\ lastRow' < m /\ (Monitor!Yields(p) <=> lastRow' = n)
  BY DEF RecordedBy
<1>3. Monitor!Payload' = Monitor!Payload
  BY DEF Monitor!Payload
<1> QED BY <1>1, <1>2, <1>3 DEF RecordedBy

LEMMA FailureRecords ==
    ASSUME NEW n \in Nat, NEW m \in Nat, n < m, RecordedBy(n),
           lastRun' = [began |-> n, status |-> "failed"], UNCHANGED <<lastSuccess, lastRow>>
    PROVE  RecordedBy(m)'
BY DEF RecordedBy

\* Before the heartbeat nothing need have been told.
LEMMA NothingDue ==
    ASSUME NEW n \in Nat, NEW m \in Nat, ToldBy(n), RecordedBy(n), hour' # 22,
           passed' \in {n, passed}, others' \in {n, others}, told' \in {n, told},
           passed' = n => lastSuccess' = n, lastSuccess' \in {n, lastSuccess}
    PROVE  ToldBy(m)'
BY DEF ToldBy, RecordedBy

LEMMA MonitorStepInv ==
    ASSUME MonitorInv, Monitor!Next
    PROVE  MonitorInv'
<1> USE DEF Monitor!Morning, Monitor!Check, Monitor!Beat, Monitor!Evening, Monitor!CronHour
<1>a. PICK n : n = Monitor!Now
  OBVIOUS
<1>b. PICK m : m = Monitor!Now'
  OBVIOUS
<1>c. MonitorClock /\ RecordedBy(n) /\ ToldBy(n)
  BY <1>a DEF MonitorInv
<1>d. Monitor!Following[14] = 15 /\ Monitor!Following[15] = 22
  BY DEF Monitor!Following
<1>e. SUFFICES MonitorClock' /\ RecordedBy(m)' /\ ToldBy(m)'
  BY <1>b DEF MonitorInv, RecordedBy, ToldBy
<1>1. ASSUME NEW p \in Monitor!Payload, NEW how \in {"passed", "broken", "shell"}, Monitor!Collected(p, how)
      PROVE  MonitorClock' /\ RecordedBy(m)' /\ ToldBy(m)'
  <2>1. hour \in {11, 22} /\ Monitor!Pass(hour, Monitor!Following[hour])
    BY <1>1 DEF Monitor!Collected
  <2>2. /\ MonitorClock' /\ spec' = spec /\ n \in Nat \ {0} /\ m \in Nat /\ n < m /\ hour' # 22
    BY <1>a, <1>b, <1>c, <2>1, HoursPass
  <2>3. RecordedBy(m)'
    BY <1>1, <1>a, <1>c, <2>2, SuccessRecords DEF Monitor!Collected
  <2>4. ToldBy(m)'
    BY <1>1, <1>a, <1>c, <2>2, NothingDue DEF Monitor!Collected, Monitor!OthersRun
  <2> QED BY <2>2, <2>3, <2>4
<1>2. ASSUME NEW cancelled \in BOOLEAN, Monitor!Failed(cancelled)
      PROVE  MonitorClock' /\ RecordedBy(m)' /\ ToldBy(m)'
  <2>1. hour \in {11, 22} /\ Monitor!Pass(hour, Monitor!Following[hour])
    BY <1>2 DEF Monitor!Failed
  <2>2. /\ MonitorClock' /\ n \in Nat \ {0} /\ m \in Nat /\ n < m /\ hour' # 22
    BY <1>a, <1>b, <1>c, <2>1, HoursPass
  <2>3. RecordedBy(m)'
    BY <1>2, <1>a, <1>c, <2>2, FailureRecords DEF Monitor!Failed
  <2>4. ToldBy(m)'
    BY <1>2, <1>a, <1>c, <2>2 DEF Monitor!Failed, Monitor!OthersRun, ToldBy
  <2> QED BY <2>2, <2>3, <2>4
<1>3. ASSUME hour \in {11, 22}, Monitor!Pass(hour, Monitor!Following[hour]), NEW up \in BOOLEAN,
             Monitor!OthersRun(up), UNCHANGED <<lastRun, lastSuccess, newest, lastRow, passed>>,
             told' \in {n, told}
      PROVE  MonitorClock' /\ RecordedBy(m)' /\ ToldBy(m)'
  <2>2. /\ MonitorClock' /\ spec' = spec /\ n \in Nat \ {0} /\ m \in Nat /\ n < m /\ hour' # 22
    BY <1>a, <1>b, <1>c, <1>3, HoursPass
  <2>3. RecordedBy(m)'
    BY <1>3, <1>c, <2>2, RecordsStay
  <2>4. ToldBy(m)'
    BY <1>3, <1>a, <1>c, <2>2 DEF Monitor!OthersRun, ToldBy
  <2> QED BY <2>2, <2>3, <2>4
<1>4. CASE Monitor!Unreachable
  BY <1>3, <1>4, <1>a DEF Monitor!Unreachable
<1>5. ASSUME NEW up \in BOOLEAN, Monitor!NotStarted(up) \/ Monitor!NotDue(up)
      PROVE  MonitorClock' /\ RecordedBy(m)' /\ ToldBy(m)'
  BY <1>3, <1>5 DEF Monitor!NotStarted, Monitor!NotDue
<1>6. ASSUME NEW up \in BOOLEAN, NEW reachable \in BOOLEAN, Monitor!StalenessCheck(up, reachable)
      PROVE  MonitorClock' /\ RecordedBy(m)' /\ ToldBy(m)'
  <2>1. hour = 14 /\ Monitor!Pass(hour, Monitor!Following[hour])
    BY <1>6, <1>d DEF Monitor!StalenessCheck, Monitor!Pass
  <2>2. /\ MonitorClock' /\ spec' = spec /\ n \in Nat \ {0} /\ m \in Nat /\ n < m /\ hour' # 22
    BY <1>a, <1>b, <1>c, <2>1, HoursPass
  <2>3. RecordedBy(m)'
    BY <1>6, <1>c, <2>2, RecordsStay DEF Monitor!StalenessCheck
  <2>4. ToldBy(m)'
    BY <1>6, <1>a, <1>c, <2>2 DEF Monitor!StalenessCheck, ToldBy
  <2> QED BY <2>2, <2>3, <2>4
<1>7. CASE Monitor!Heartbeat
  <2>1. hour = 15 /\ Monitor!Pass(hour, Monitor!Following[hour])
    BY <1>7, <1>d DEF Monitor!Heartbeat, Monitor!Pass
  <2>2. /\ MonitorClock' /\ kind' = kind /\ spec' = spec /\ n \in Nat \ {0} /\ m \in Nat /\ n < m /\ n = m - 7
    BY <1>a, <1>b, <1>c, <2>1, HoursPass
  <2>3. RecordedBy(m)'
    BY <1>7, <1>c, <2>2, RecordsStay DEF Monitor!Heartbeat
  <2>4. told' \in {n, told} /\ (n - passed > Monitor!Limit => told' = n) /\ UNCHANGED <<passed, others, lastSuccess>>
    BY <1>7, <1>a DEF Monitor!Heartbeat, Monitor!MissedBeat, Monitor!Age
  <2>5. Monitor!Limit' = Monitor!Limit
    BY <2>2 DEF Monitor!Limit
  <2>6. ToldBy(m)'
    BY <1>c, <2>2, <2>4, <2>5 DEF ToldBy
  <2> QED BY <2>2, <2>3, <2>6
<1> QED BY <1>1, <1>2, <1>4, <1>5, <1>6, <1>7 DEF Monitor!Next

LEMMA MonitorStutters == MonitorInv /\ UNCHANGED monitorVars => MonitorInv'
<1> SUFFICES ASSUME MonitorInv, UNCHANGED monitorVars PROVE MonitorInv'
  OBVIOUS
<1> USE DEF monitorVars
<1>1. PICK n : n = Monitor!Now
  OBVIOUS
<1>2. Monitor!Now' = n /\ MonitorClock' /\ Monitor!Limit' = Monitor!Limit /\ Monitor!Payload' = Monitor!Payload
  BY <1>1 DEF MonitorInv, MonitorClock, Monitor!Now, Monitor!Limit, Monitor!Payload
<1>3. RecordedBy(n)'
  BY <1>1, <1>2 DEF MonitorInv, RecordedBy
<1>4. ToldBy(n)'
  BY <1>1, <1>2 DEF MonitorInv, ToldBy
<1> QED BY <1>2, <1>3, <1>4 DEF MonitorInv

LEMMA MonitorTells == MonitorInv => Monitor!TroubleIsTold
<1> SUFFICES ASSUME MonitorInv PROVE Monitor!TroubleIsTold
  OBVIOUS
<1>0. /\ MonitorClock /\ RecordedBy(Monitor!Now) /\ ToldBy(Monitor!Now) /\ Monitor!Now \in Nat
      /\ \A t : Monitor!Age(t) = Monitor!Now - t
  BY DEF MonitorInv, MonitorClock, Monitor!Now, Monitor!Age
<1>1. Monitor!StopIsTold
  BY <1>0 DEF RecordedBy, ToldBy, Monitor!StopIsTold, Monitor!ToldLately, Monitor!Evening, Monitor!Never, Monitor!Limit
<1>2. Monitor!BannerIsFlagged
  BY <1>0 DEF RecordedBy, Monitor!BannerIsFlagged, Monitor!Banner, Monitor!StatusTag, Monitor!NoRun
<1>a. \A q \in Monitor!Payload :
         /\ spec = "array" /\ ~Monitor!Drifted(q) => Monitor!Yields(q) \/ Monitor!Sample(q) = {"null"}
         /\ Monitor!Yields(q) /\ "odd" \notin Monitor!ToSet(q.items) => ~Monitor!Drifted(q)
  <2> TAKE q \in Monitor!Payload
  <2>0. PICK it : it = q.items
    OBVIOUS
  <2> DEFINE Item == {"fit", "odd", "null"}
  <2>1. it \in Seq(Item) /\ (spec = "array" => q.keys)
    <3>1. /\ {<<>>, <<"fit">>} \subseteq Seq(Item)
          /\ {<<>>, <<"fit">>, <<"odd">>, <<"null">>, <<"fit", "odd">>, <<"odd", "fit">>, <<"null", "odd">>}
               \subseteq Seq(Item)
      OBVIOUS
    <3>2. CASE spec = "array"
      BY <2>0, <3>1, <3>2 DEF Monitor!Payload
    <3>3. CASE spec # "array"
      BY <2>0, <3>1, <3>3 DEF Monitor!Payload
    <3> QED BY <3>2, <3>3
  <2>2. it # <<>> => it[1] \in Item /\ it[1] \in Monitor!ToSet(it) /\ Len(it) >= 1
    BY <2>1 DEF Monitor!ToSet
  <2>3. Monitor!ToSet(<<>>) = {}
    BY DEF Monitor!ToSet
  <2>4. it # <<>> => Monitor!Sample(q) = {it[1]}
    <3>1. ASSUME NEW s \in Seq(Item), Len(s) >= 1
          PROVE  /\ SubSeq(s, 1, 1) \in Seq(Item) /\ Len(SubSeq(s, 1, 1)) = 1
                 /\ SubSeq(s, 1, 1)[1] = s[1]
      BY <3>1
    <3>2. ASSUME NEW s \in Seq(Item), Len(s) = 1 PROVE Monitor!ToSet(s) = {s[1]}
      BY <3>2 DEF Monitor!ToSet
    <3> QED BY <2>0, <2>1, <2>2, <3>1, <3>2 DEF Monitor!Sample
  <2>5. spec \in {"object", "array", "none"}
    BY <1>0 DEF MonitorClock
  <2>6. Monitor!Drifted(q) <=> \/ spec = "object" /\ ~q.keys
                               \/ spec = "array" /\ (it = <<>> \/ "odd" \in Monitor!Sample(q))
    BY <2>0, <2>5 DEF Monitor!Drifted
  <2>7. Monitor!Yields(q) <=> q.keys /\ "fit" \in Monitor!ToSet(it)
    BY <2>0 DEF Monitor!Yields
  <2> QED BY <2>0, <2>1, <2>2, <2>3, <2>4, <2>6, <2>7
<1>3. Monitor!DriftIsSeen
  <2> SUFFICES ASSUME spec = "array", Monitor!Age(lastRow) > 84, lastRun.status = "success", ~Monitor!Unhealthy
               PROVE  Monitor!Sample(newest.payload) = {"null"}
    BY DEF Monitor!DriftIsSeen, Monitor!Days
  <2>1. Monitor!DriftTag = "OK"
    BY DEF Monitor!Unhealthy
  <2>2. Monitor!Age(newest.at) <= 72 /\ ~Monitor!Drifted(newest.payload)
    BY <1>0, <2>1 DEF Monitor!DriftTag, RecordedBy
  <2> QED BY <1>0, <1>a, <2>2 DEF RecordedBy
<1>4. Monitor!WellIsQuiet
  <2> SUFFICES ASSUME lastRun.status = "success", lastRun.began = lastRow, Monitor!Age(lastRun.began) < 24,
                      newest.at = lastRun.began, "odd" \notin Monitor!ToSet(newest.payload.items),
                      earlier = "rows"
               PROVE  ~Monitor!Unhealthy
    BY DEF Monitor!WellIsQuiet
  <2>1. Monitor!StatusTag = "OK"
    BY <1>0 DEF Monitor!StatusTag, RecordedBy, Monitor!NoRun
  <2>2. Monitor!TableTag = "OK"
    BY <1>0 DEF Monitor!TableTag, RecordedBy, Monitor!Never
  <2>3. Monitor!DriftTag = "OK"
    BY <1>0, <1>a DEF Monitor!DriftTag, RecordedBy
  <2> QED BY <2>1, <2>2, <2>3 DEF Monitor!Unhealthy
<1> QED BY <1>1, <1>2, <1>3, <1>4 DEF Monitor!TroubleIsTold

\* However often a workflow fails, is skipped or drifts, a heartbeat tells of one that is
\* late, the health check of a source whose rows have stopped, unless its items kept
\* their keys and lost their values, and of a well one neither.
THEOREM TroubleIsAlwaysTold == MCSpec => []TroubleIsTold
<1> DEFINE Inv == subject = "watch" => MonitorInv
<1>1. MCInit => Inv
  BY MonitorInit DEF MCInit
<1>2. Inv /\ [MCNext]_MCVars => Inv'
  BY MonitorStepInv, MonitorStutters, OneReader
<1>3. Inv => TroubleIsTold
  BY MonitorTells DEF TroubleIsTold
<1> QED BY <1>1, <1>2, <1>3, PTL DEF MCSpec

-----------------------------------------------------------------------------
\* Paging. The rows of d days after day o, of an endpoint with ties or without, and a
\* row's place among them.
Ties == IF tied THEN "tied" ELSE "untied"

Listable(l)     == {r \in Paging!Row : l # "tied" => r.tie = 1}
RowsOf(l, o, d) == {r \in Listable(l) : r.date \in (o + 1)..(o + d)}
Count(l, d)     == IF l = "tied" THEN 2 * d ELSE d
Place(l, r, o)  == IF l = "tied" THEN 2 * (r.date - 1 - o) + r.tie ELSE r.date - o

\* Places number the rows in their order, and as many come before one as its place says.
PlacesAre(l, o, d) ==
    /\ \A r \in RowsOf(l, o, d) : Place(l, r, o) \in 1..Count(l, d)
    /\ \A q, r \in Listable(l) : Place(l, q, o) = Place(l, r, o) => q = r
    /\ \A q, r \in RowsOf(l, o, d) : Paging!Before(q, r) <=> Place(l, q, o) < Place(l, r, o)
    /\ \A k \in 1..Count(l, d) : \E r \in RowsOf(l, o, d) : Place(l, r, o) = k

PlacesCount(l, o, d) ==
    /\ Paging!Cardinality(RowsOf(l, o, d)) = Count(l, d)
    /\ \A r \in RowsOf(l, o, d) :
          Paging!Cardinality({q \in RowsOf(l, o, d) : Paging!Before(q, r)}) = Place(l, r, o) - 1

LEMMA PlaceOrders ==
    ASSUME NEW l, NEW o \in Nat, NEW d \in Nat, o + d <= MaxDate
    PROVE  PlacesAre(l, o, d)
<1>0. \A r \in Listable(l) :
         /\ r.date \in Nat /\ (r.tie = 1 \/ r.tie = 2) /\ (l # "tied" => r.tie = 1)
         /\ r = [date |-> r.date, tie |-> r.tie]
  BY PagingBounds DEF Listable, Paging!Row
<1>1. \A r \in RowsOf(l, o, d) :
         /\ r \in Listable(l) /\ r.date \in Nat /\ o + 1 <= r.date /\ r.date <= o + d
         /\ (r.tie = 1 \/ r.tie = 2) /\ (l # "tied" => r.tie = 1)
  BY <1>0 DEF RowsOf
<1>2. \A r \in RowsOf(l, o, d) : Place(l, r, o) \in 1..Count(l, d)
  BY <1>1 DEF Place, Count
<1>3. \A q, r \in Listable(l) : Place(l, q, o) = Place(l, r, o) => q = r
  <2> SUFFICES ASSUME NEW q \in Listable(l), NEW r \in Listable(l),
                      Place(l, q, o) = Place(l, r, o)
               PROVE  q = r
    OBVIOUS
  <2>1. q.date = r.date /\ q.tie = r.tie
    <3>1. q.date \in Nat /\ r.date \in Nat /\ q.tie \in {1, 2} /\ r.tie \in {1, 2}
      BY <1>0
    <3>2. l # "tied" => q.tie = 1 /\ r.tie = 1
      BY <1>0
    <3>3. CASE l = "tied"
      BY <3>1, <3>3 DEF Place
    <3>4. CASE l # "tied"
      BY <3>1, <3>2, <3>4 DEF Place
    <3> QED BY <3>3, <3>4
  <2> QED BY <1>0, <2>1
<1>4. \A q, r \in RowsOf(l, o, d) : Paging!Before(q, r) <=> Place(l, q, o) < Place(l, r, o)
  BY <1>1 DEF Place, Paging!Before
<1>5. \A k \in 1..Count(l, d) : \E r \in RowsOf(l, o, d) : Place(l, r, o) = k
  <2> SUFFICES ASSUME NEW k \in 1..Count(l, d) PROVE \E r \in RowsOf(l, o, d) : Place(l, r, o) = k
    OBVIOUS
  <2>1. CASE l # "tied"
    <3> DEFINE r == [date |-> o + k, tie |-> 1]
    <3>1. r \in RowsOf(l, o, d)
      BY <2>1, PagingBounds DEF RowsOf, Listable, Paging!Row, Count
    <3>2. Place(l, r, o) = k
      BY <2>1 DEF Place, Count
    <3> QED BY <3>1, <3>2
  <2>2. CASE l = "tied"
    <3>1. k \in Nat /\ 1 <= k /\ k <= 2 * d
      BY <2>2 DEF Count
    <3>2. PICK h \in 1..d, t \in 1..2 : 2 * (h - 1) + t = k
      <4> DEFINE h == (k + 1) \div 2
      <4>1. h \in 1..d /\ (2 * (h - 1) + 1 = k \/ 2 * (h - 1) + 2 = k)
        BY <3>1
      <4> QED BY <4>1
    <3> DEFINE r == [date |-> o + h, tie |-> t]
    <3>3. r \in RowsOf(l, o, d)
      BY <2>2, PagingBounds DEF RowsOf, Listable, Paging!Row
    <3>4. Place(l, r, o) = k
      BY <2>2, <3>2 DEF Place
    <3> QED BY <3>3, <3>4
  <2> QED BY <2>1, <2>2
<1> QED BY <1>2, <1>3, <1>4, <1>5 DEF PlacesAre

LEMMA PlaceCounts ==
    ASSUME NEW l, NEW o \in Nat, NEW d \in Nat, o + d <= MaxDate
    PROVE  PlacesCount(l, o, d)
<1> DEFINE U == RowsOf(l, o, d)
<1>0. PlacesAre(l, o, d)
  BY PlaceOrders
<1>1. Count(l, d) \in Nat
  BY DEF Count
<1>2. \A n \in 0..Count(l, d) : Cardinality({q \in U : Place(l, q, o) <= n}) = n
  <2> SUFFICES ASSUME NEW n \in 0..Count(l, d)
               PROVE  Cardinality({q \in U : Place(l, q, o) <= n}) = n
    OBVIOUS
  <2> DEFINE V == {q \in U : Place(l, q, o) <= n}
  <2>1. n \in Nat /\ n <= Count(l, d)
    BY <1>1
  <2>2. \A q \in V : q \in U /\ Place(l, q, o) \in 1..n
    BY <1>0, <1>1, <2>1 DEF PlacesAre
  <2>3. \A k \in 1..n : \E q \in V : Place(l, q, o) = k
    <3> SUFFICES ASSUME NEW k \in 1..n PROVE \E q \in V : Place(l, q, o) = k
      OBVIOUS
    <3>1. k \in 1..Count(l, d) /\ k <= n
      BY <1>1, <2>1
    <3>2. PICK q \in U : Place(l, q, o) = k
      BY <1>0, <3>1 DEF PlacesAre
    <3> QED BY <3>1, <3>2
  <2>4. \A q, r \in V : Place(l, q, o) = Place(l, r, o) => q = r
    BY <1>0, <2>2 DEF PlacesAre, RowsOf
  <2> HIDE DEF V
  <2>5. PICK P \in [1..n -> V] : \A k \in 1..n : Place(l, P[k], o) = k
    <3> DEFINE P == [k \in 1..n |-> CHOOSE q \in V : Place(l, q, o) = k]
    <3>1. \A k \in 1..n : P[k] \in V /\ Place(l, P[k], o) = k
      BY <2>3
    <3> QED BY <3>1
  <2>6. P \in Bijection(1..n, V)
    <3>1. \A i, j \in 1..n : P[i] = P[j] => i = j
      BY <2>5
    <3>2. \A q \in V : \E k \in 1..n : P[k] = q
      <4> TAKE q \in V
      <4>1. Place(l, q, o) \in 1..n /\ P[Place(l, q, o)] \in V
        BY <2>2, <2>5
      <4> QED BY <2>4, <2>5, <4>1
    <3> QED BY <2>5, <3>1, <3>2 DEF Bijection, Injection, Surjection, IsInjective
  <2>7. IsFiniteSet(1..n) /\ Cardinality(1..n) = n
    BY <2>1, FS_Interval
  <2>8. Cardinality(V) = n
    BY <2>6, <2>7, FS_Bijection DEF ExistsBijection
  <2> QED BY <2>8 DEF V
<1>3. {q \in U : Place(l, q, o) <= Count(l, d)} = U
  BY <1>0, <1>1 DEF PlacesAre
<1>4. \A S : Paging!Cardinality(S) = Cardinality(S)
  BY DEF Paging!Cardinality, Cardinality
<1>5. Paging!Cardinality(U) = Count(l, d)
  BY <1>1, <1>2, <1>3, <1>4
<1>6. ASSUME NEW r \in U
      PROVE  Paging!Cardinality({q \in U : Paging!Before(q, r)}) = Place(l, r, o) - 1
  <2>1. Place(l, r, o) - 1 \in 0..Count(l, d)
    BY <1>0, <1>1 DEF PlacesAre
  <2>2. {q \in U : Paging!Before(q, r)} = {q \in U : Place(l, q, o) <= Place(l, r, o) - 1}
    BY <1>0, <1>1 DEF PlacesAre
  <2> QED BY <1>2, <1>4, <2>1, <2>2
<1> QED BY <1>5, <1>6 DEF PlacesCount

\* Hence the rows sorted are those rows, each in its place, or (EIA's ties) in that of
\* a row of its date.
Exactness == IF loop = "eia" /\ tied THEN "dated" ELSE "exact"

Stands(l, x, r, o, k) ==
    /\ r \in Listable(l)
    /\ \E q \in Listable(l) : Place(l, q, o) = k /\ q.date = r.date /\ (x = "exact" => q = r)

InPlace(l, x, s, o) ==
    /\ s \in Seq(Paging!Row) /\ Len(s) \in Nat /\ DOMAIN s = 1..Len(s)
    /\ \A k \in 1..Len(s) : Stands(l, x, s[k], o, k)

LEMMA SortedPlaces ==
    ASSUME NEW o \in Nat, NEW d \in Nat, o + d <= MaxDate, upstream = RowsOf(Ties, o, d),
           NEW order \in Paging!Ascending
    PROVE  InPlace(Ties, "exact", order, o) /\ Len(order) = Count(Ties, d)
<1> DEFINE U == RowsOf(Ties, o, d)
           n == Count(Ties, d)
           First(k) == CHOOSE r \in U : Paging!Cardinality({q \in U : Paging!Before(q, r)}) = k - 1
<1>0. PlacesAre(Ties, o, d) /\ PlacesCount(Ties, o, d)
  BY PlaceOrders, PlaceCounts
<1>1. n \in Nat
  BY DEF Count
<1>2. order = [k \in 1..n |-> First(k)]
  BY <1>0 DEF Paging!Ascending, Paging!Sorted, PlacesCount
<1>3. ASSUME NEW k \in 1..n
      PROVE  First(k) \in U /\ Place(Ties, First(k), o) = k
  <2>1. PICK r \in U : Place(Ties, r, o) = k
    BY <1>0 DEF PlacesAre
  <2>2. Paging!Cardinality({q \in U : Paging!Before(q, r)}) = k - 1
    BY <1>0, <2>1 DEF PlacesCount
  <2>3. First(k) \in U /\ Paging!Cardinality({q \in U : Paging!Before(q, First(k))}) = k - 1
    BY <2>2
  <2> HIDE DEF First
  <2>4. Place(Ties, First(k), o) - 1 = k - 1
    BY <1>0, <2>3 DEF PlacesCount
  <2>5. Place(Ties, First(k), o) \in 1..n
    BY <1>0, <2>3 DEF PlacesAre
  <2> QED BY <1>1, <2>3, <2>4, <2>5
<1>4. \A r \in U : r \in Listable(Ties) /\ r \in Paging!Row
  BY DEF RowsOf, Listable
<1> HIDE DEF U, n, First
<1>5. order \in [1..n -> Paging!Row] /\ \A k \in 1..n : order[k] = First(k)
  BY <1>2, <1>3, <1>4
<1>6. order \in Seq(Paging!Row) /\ Len(order) = n
  BY <1>1, <1>5
<1>7. \A k \in 1..n : Stands(Ties, "exact", order[k], o, k)
  BY <1>3, <1>4, <1>5 DEF Stands
<1> QED BY <1>1, <1>5, <1>6, <1>7 DEF n, InPlace

\* The order a loop asks for; a swap leaves a row of the same date.
Orders == IF loop = "eia" THEN Paging!AscendingByDate ELSE Paging!Ascending

LEMMA OrderPlaces ==
    ASSUME NEW o \in Nat, NEW d \in Nat, o + d <= MaxDate, upstream = RowsOf(Ties, o, d),
           NEW order \in Orders
    PROVE  InPlace(Ties, Exactness, order, o) /\ Len(order) = Count(Ties, d)
<1>1. ASSUME NEW s, InPlace(Ties, "exact", s, o)
      PROVE  InPlace(Ties, Exactness, s, o)
  BY <1>1 DEF InPlace, Stands
<1>2. CASE loop # "eia"
  BY <1>1, <1>2, SortedPlaces DEF Orders
<1>3. CASE loop = "eia"
  <2>1. PICK sorted \in Paging!Ascending :
          \E dates : order = [k \in DOMAIN sorted |-> Paging!Swapped(sorted[k], dates)]
    BY <1>3 DEF Orders, Paging!AscendingByDate, Paging!Ascending
  <2>2. InPlace(Ties, "exact", sorted, o) /\ Len(sorted) = Count(Ties, d)
    BY SortedPlaces
  <2>0. PICK dates : order = [k \in DOMAIN sorted |-> Paging!Swapped(sorted[k], dates)]
    BY <2>1
  <2>3. \A k \in DOMAIN sorted : order[k] = Paging!Swapped(sorted[k], dates)
    BY <2>0
  <2>4. \A r \in Listable(Ties) : LET q == Paging!Swapped(r, dates) IN
          q \in Listable(Ties) /\ q \in Paging!Row /\ q.date = r.date /\ (~tied => q = r)
    BY DEF Listable, Ties, Paging!Row, Paging!Swapped
  <2>5. /\ \A k \in 1..Len(sorted) : Stands(Ties, Exactness, order[k], o, k) /\ order[k] \in Paging!Row
        /\ Len(sorted) \in Nat /\ DOMAIN sorted = 1..Len(sorted)
    <3>1. \A k \in 1..Len(sorted) : /\ sorted[k] \in Listable(Ties) /\ Place(Ties, sorted[k], o) = k
                                    /\ k \in DOMAIN sorted
      BY <2>2 DEF InPlace, Stands
    <3> QED BY <1>3, <2>2, <2>3, <2>4, <3>1 DEF InPlace, Stands, Exactness
  <2>6. order \in Seq(Paging!Row) /\ Len(order) = Len(sorted) /\ DOMAIN order = 1..Len(order)
    <3>1. order \in [1..Len(sorted) -> Paging!Row]
      BY <2>0, <2>5
    <3> QED BY <2>5, <3>1
  <2> QED BY <2>2, <2>5, <2>6 DEF InPlace
<1> QED BY <1>2, <1>3

JoinIs(R, s, t) ==
    /\ s \o t \in Seq(R) /\ Len(s) \in Nat /\ Len(t) \in Nat /\ Len(s \o t) = Len(s) + Len(t)
    /\ \A k \in 1..(Len(s) + Len(t)) : (s \o t)[k] = IF k <= Len(s) THEN s[k] ELSE t[k - Len(s)]

LEMMA Joins ==
    ASSUME NEW R, NEW s \in Seq(R), NEW t \in Seq(R)
    PROVE  JoinIs(R, s, t)
<1>1. Len(s) \in Nat /\ Len(t) \in Nat
  OBVIOUS
<1> QED BY <1>1 DEF JoinIs

\* A page continues what the full pages before it brought, up to the last row.
Continues(l, x, o, s, order, p, brought) ==
    /\ InPlace(l, x, s \o brought, o) /\ Len(brought) \in Nat
    /\ Len(s \o brought) = Len(s) + Len(brought) /\ p * PageSize = Len(s) + PageSize
    /\ Len(s \o brought) = IF Len(s) + PageSize < Len(order) THEN Len(s) + PageSize ELSE Len(order)

LEMMA PageContinues ==
    ASSUME NEW l, NEW x, NEW o \in Nat, NEW s, NEW order, InPlace(l, x, s, o), InPlace(l, x, order, o),
           NEW p \in Nat \ {0}, Len(s) = (p - 1) * PageSize, Len(s) <= Len(order),
           NEW brought, brought = Paging!Rows(order, p)
    PROVE  Continues(l, x, o, s, order, p, brought)
<1> DEFINE c == Len(s)
           e == IF c + PageSize < Len(order) THEN c + PageSize ELSE Len(order)
<1>1. p * PageSize = c + PageSize
  BY PagingBounds
<1>2. c \in Nat /\ e \in Nat /\ c <= e /\ e <= Len(order) /\ Len(order) \in Nat /\ PageSize \in Nat
  BY PagingBounds DEF InPlace
<1>3. brought = SubSeq(order, c + 1, e)
  BY <1>1 DEF Paging!Rows
<1>4. order \in Seq(Paging!Row) /\ s \in Seq(Paging!Row)
  BY DEF InPlace
<1> HIDE DEF c, e
<1>5. brought \in Seq(Paging!Row) /\ Len(brought) = e - c /\ \A k \in 1..(e - c) : brought[k] = order[c + k]
  BY <1>2, <1>3, <1>4
<1>6. /\ s \o brought \in Seq(Paging!Row) /\ Len(s \o brought) = e
      /\ \A k \in 1..e : (s \o brought)[k] = IF k <= c THEN s[k] ELSE brought[k - c]
  <2>1. Len(s) = c /\ c + (e - c) = e
    BY <1>2 DEF c
  <2>2. Len(s) + Len(brought) = e
    BY <1>5, <2>1
  <2>3. JoinIs(Paging!Row, s, brought)
    BY <1>4, <1>5, Joins
  <2> QED BY <2>1, <2>2, <2>3 DEF JoinIs
<1>7. \A k \in 1..e : (s \o brought)[k] = IF k <= c THEN s[k] ELSE order[k]
  <2> TAKE k \in 1..e
  <2>1. CASE k <= c
    BY <1>6, <2>1
  <2>2. CASE ~(k <= c)
    <3>1. k - c \in 1..(e - c) /\ c + (k - c) = k
      BY <1>2, <2>2
    <3> QED BY <1>5, <1>6, <2>2, <3>1
  <2> QED BY <2>1, <2>2
<1>8. \A k \in 1..e : Stands(l, x, (s \o brought)[k], o, k)
  <2> TAKE k \in 1..e
  <2>1. k <= c => Stands(l, x, s[k], o, k)
    BY <1>2 DEF InPlace, c
  <2>2. Stands(l, x, order[k], o, k)
    BY <1>2 DEF InPlace
  <2> QED BY <1>7, <2>1, <2>2
<1>9. InPlace(l, x, s \o brought, o)
  BY <1>2, <1>6, <1>8 DEF InPlace
<1> QED BY <1>1, <1>2, <1>5, <1>6, <1>9 DEF c, e, Continues

\* The pages said are as many as the rows fill.
LEMMA PagesFill ==
    ASSUME NEW n \in Nat
    PROVE  LET t == (n + PageSize - 1) \div PageSize
           IN  t \in Nat /\ t * PageSize >= n /\ \A p \in Nat : p < t => p * PageSize < n
<1> DEFINE t == (n + PageSize - 1) \div PageSize
<1>1. PageSize \in Nat /\ PageSize > 0
  BY PagingBounds
<1>2. t \in Nat /\ PageSize * t <= n + PageSize - 1 /\ n + PageSize - 1 < PageSize * t + PageSize
  BY <1>1, SMTT(30)
<1> HIDE DEF t
<1>3. t * PageSize >= n
  BY <1>1, <1>2
<1>4. ASSUME NEW p \in Nat, p < t PROVE p * PageSize < n
  <2>1. PICK h \in Nat : t = p + 1 + h
    <3>1. t - p - 1 \in Nat /\ t = p + 1 + (t - p - 1)
      BY <1>2, <1>4
    <3> QED BY <3>1
  <2>2. PageSize * t = p * PageSize + PageSize + PageSize * h
    BY <1>1, <2>1
  <2>3. PageSize * h \in Nat /\ p * PageSize \in Nat
    BY <1>1
  <2> QED BY <1>1, <1>2, <2>2, <2>3
<1> QED BY <1>2, <1>3, <1>4 DEF t

\* Rows in their places that are as many as there were then are all of those.
LEMMA EnoughIsAll ==
    ASSUME NEW l, NEW o \in Nat, NEW n \in Nat, o + n <= MaxDate, NEW s, InPlace(l, "exact", s, o),
           Len(s) >= Count(l, n)
    PROVE  RowsOf(l, o, n) \subseteq Paging!ToSet(s) /\ Paging!IsInjective(s)
<1>1. PlacesAre(l, o, n) /\ Count(l, n) \in Nat
  BY PlaceOrders DEF Count
<1>2. \A r \in RowsOf(l, o, n) : r \in Listable(l)
  BY DEF RowsOf
<1>3. ASSUME NEW r \in RowsOf(l, o, n) PROVE \E k \in DOMAIN s : s[k] = r
  <2> PICK k : k = Place(l, r, o)
    OBVIOUS
  <2>1. k \in 1..Len(s)
    BY <1>1 DEF PlacesAre, InPlace
  <2>2. s[k] \in Listable(l) /\ Place(l, s[k], o) = Place(l, r, o)
    BY <2>1 DEF InPlace, Stands
  <2> QED BY <1>1, <1>2, <2>1, <2>2 DEF PlacesAre, InPlace
<1>4. \A i, j \in DOMAIN s : s[i] = s[j] => i = j
  BY DEF InPlace, Stands
<1> QED BY <1>3, <1>4 DEF Paging!ToSet, Paging!IsInjective

\* And by date alone, of each date as many.
OfEach(l, o, n, s) ==
    \A d : Paging!Cardinality({r \in RowsOf(l, o, n) : r.date = d})
             <= Paging!Cardinality({k \in DOMAIN s : s[k].date = d})

LEMMA EnoughOfEach ==
    ASSUME NEW l, NEW x, NEW o \in Nat, NEW n \in Nat, o + n <= MaxDate, NEW s, InPlace(l, x, s, o),
           Len(s) >= Count(l, n)
    PROVE  OfEach(l, o, n, s)
<1> SUFFICES ASSUME NEW d
             PROVE  Paging!Cardinality({r \in RowsOf(l, o, n) : r.date = d})
                      <= Paging!Cardinality({k \in DOMAIN s : s[k].date = d})
  BY DEF OfEach
<1> DEFINE A == {r \in RowsOf(l, o, n) : r.date = d}
           B == {k \in DOMAIN s : s[k].date = d}
           f == [r \in A |-> Place(l, r, o)]
<1>1. PlacesAre(l, o, n) /\ Count(l, n) \in Nat
  BY PlaceOrders DEF Count
<1>2. \A r \in RowsOf(l, o, n) : r \in Listable(l)
  BY DEF RowsOf
<1>3. ASSUME NEW r \in A PROVE Place(l, r, o) \in B
  <2> PICK k : k = Place(l, r, o)
    OBVIOUS
  <2>1. k \in 1..Len(s)
    BY <1>1 DEF PlacesAre, InPlace
  <2>2. PICK q \in Listable(l) : Place(l, q, o) = k /\ q.date = s[k].date
    BY <2>1 DEF InPlace, Stands
  <2>3. q = r
    BY <1>1, <1>2, <2>2 DEF PlacesAre
  <2> QED BY <2>1, <2>2, <2>3 DEF InPlace
<1>4. f \in Injection(A, B)
  <2>1. \A r, q \in A : f[r] = f[q] => r = q
    BY <1>1, <1>2 DEF PlacesAre
  <2>2. f \in [A -> B]
    BY <1>3
  <2> QED BY <2>1, <2>2 DEF Injection, IsInjective
<1>5. IsFiniteSet(B)
  <2>1. IsFiniteSet(1..Len(s)) /\ B \subseteq 1..Len(s)
    BY FS_Interval DEF InPlace
  <2> QED BY <2>1, FS_Subset
<1>6. Cardinality(A) <= Cardinality(B)
  <2> HIDE DEF A, B, f
  <2> QED BY <1>4, <1>5, FS_Injection
<1>7. \A S : Paging!Cardinality(S) = Cardinality(S)
  BY DEF Paging!Cardinality, Cardinality
<1> QED BY <1>6, <1>7

\* What the loop has read are full pages of the rows as they are, at least those that
\* there were when it began, and a total it was told was right then.
SoFar(o, d) ==
    /\ InPlace(Ties, Exactness, data, o)
    /\ Len(data) = (page - 1) * PageSize /\ Len(data) <= Count(Ties, d)
    /\ page > 1 => \E n \in 0..d :
          /\ atStart = RowsOf(Ties, o, n) /\ (loop = "sui" => n = d)
          /\ loop = "eia" => total \in {{}, {Count(Ties, n)}}
          /\ loop = "treasury" => total \in {{}, {(Count(Ties, n) + PageSize - 1) \div PageSize}}

PagingInv ==
    /\ loop \in Paging!Loop /\ tied \in BOOLEAN /\ page \in Nat \ {0} /\ epoch \in 1..2
    /\ loop = "sui" /\ page > 1 => began \in 1..epoch
    /\ \E o, d \in Nat :
          /\ o + d <= MaxDate /\ upstream = RowsOf(Ties, o, d) /\ (loop # "sui" => o = 0)
          /\ outcome = "running" /\ (loop = "sui" /\ page > 1 => began = epoch) => SoFar(o, d)
    /\ Paging!PagesLoseNothing

LEMMA SameTies == UNCHANGED <<loop, tied>> => Ties' = Ties /\ Exactness' = Exactness
BY DEF Ties, Exactness

LEMMA ListedIs ==
    ASSUME NEW o \in Nat, NEW d \in Nat
    PROVE  Paging!Listed((o + 1)..(o + d)) = RowsOf(Ties, o, d)
BY DEF Paging!Listed, RowsOf, Listable, Ties

LEMMA NothingRead ==
    ASSUME NEW o \in Nat, NEW d \in Nat, data = <<>>, page = 1
    PROVE  SoFar(o, d)
<1>1. Len(data) = 0 /\ data \in Seq(Paging!Row) /\ DOMAIN data = 1..0
  OBVIOUS
<1>2. Count(Ties, d) \in Nat /\ (page - 1) * PageSize = 0
  BY PagingBounds DEF Count
<1> QED BY <1>1, <1>2 DEF SoFar, InPlace

LEMMA PagingInit == Paging!Init => PagingInv
<1> SUFFICES ASSUME Paging!Init PROVE PagingInv
  OBVIOUS
<1>1. PICK d \in 0..MaxDate : upstream = Paging!Listed(1..d)
  BY DEF Paging!Init
<1>2. 0 \in Nat /\ d \in Nat /\ 0 + d <= MaxDate
  BY PagingBounds
<1>3. upstream = RowsOf(Ties, 0, d)
  <2>1. Paging!Listed((0 + 1)..(0 + d)) = RowsOf(Ties, 0, d)
    BY <1>2, ListedIs
  <2> QED BY <1>1, <1>2, <2>1
<1>4. SoFar(0, d)
  BY <1>2, NothingRead DEF Paging!Init
<1>5. loop \in Paging!Loop /\ tied \in BOOLEAN /\ page = 1 /\ epoch = 1 /\ outcome = "running"
  BY DEF Paging!Init
<1>6. Paging!PagesLoseNothing
  BY <1>5 DEF Paging!PagesLoseNothing
<1>7. page \in Nat \ {0} /\ epoch \in 1..2 /\ ~(page > 1)
  BY <1>5
<1> QED BY <1>2, <1>3, <1>4, <1>5, <1>6, <1>7 DEF PagingInv

LEMMA PublishStep == PagingInv /\ Paging!Publish => PagingInv'
<1> SUFFICES ASSUME PagingInv, Paging!Publish PROVE PagingInv'
  OBVIOUS
<1>1. /\ outcome = "running" /\ loop # "sui" /\ Paging!Latest < MaxDate
      /\ upstream' = upstream \cup Paging!Listed({Paging!Latest + 1})
      /\ UNCHANGED <<loop, tied, atStart, epoch, page, total, began, data, outcome>>
  BY DEF Paging!Publish
<1>2. PICK o \in Nat, d \in Nat :
        /\ o + d <= MaxDate /\ upstream = RowsOf(Ties, o, d) /\ (loop # "sui" => o = 0)
        /\ outcome = "running" /\ (loop = "sui" /\ page > 1 => began = epoch) => SoFar(o, d)
  BY DEF PagingInv
<1>3. o = 0 /\ SoFar(0, d)
  BY <1>1, <1>2
<1>4. Paging!Latest = d
  <2>1. \A r \in upstream : r.date \in Nat /\ r.date <= d
    BY <1>2, <1>3, PagingBounds DEF RowsOf, Listable, Paging!Row
  <2>2. CASE d = 0
    <3>1. upstream = {}
      BY <1>2, <1>3, <2>2 DEF RowsOf
    <3> QED BY <2>2, <3>1 DEF Paging!Latest
  <2>3. CASE d > 0
    <3> DEFINE r == [date |-> d, tie |-> 1]
    <3>1. r \in upstream
      BY <1>2, <1>3, <2>3, PagingBounds DEF RowsOf, Listable, Paging!Row
    <3>2. d \in 1..MaxDate /\ \E q \in upstream : q.date = d
      BY <1>2, <1>3, <2>3, <3>1, PagingBounds
    <3>3. \A e \in 1..MaxDate :
             (\E q \in upstream : q.date = e) /\ (\A q \in upstream : q.date <= e) => e = d
      <4> SUFFICES ASSUME NEW e \in 1..MaxDate, \E q \in upstream : q.date = e,
                          \A q \in upstream : q.date <= e
                   PROVE  e = d
        OBVIOUS
      <4>1. e <= d /\ d <= e
        BY <2>1, <3>1
      <4> QED BY <4>1, PagingBounds
    <3> QED BY <2>1, <3>1, <3>2, <3>3 DEF Paging!Latest
  <2> QED BY <2>2, <2>3
<1>5. upstream' = RowsOf(Ties, 0, d + 1) /\ d + 1 \in Nat /\ 0 + (d + 1) <= MaxDate
  <2>1. d < MaxDate
    BY <1>1, <1>4
  <2>2. \A x \in Nat : x \in (0 + 1)..(0 + (d + 1)) <=> x \in (0 + 1)..(0 + d) \/ x = d + 1
    OBVIOUS
  <2>3. \A r \in Listable(Ties) : r.date \in Nat
    BY PagingBounds DEF Listable, Paging!Row
  <2>4. Paging!Listed({d + 1}) = {r \in Listable(Ties) : r.date = d + 1}
    BY DEF Paging!Listed, Listable, Ties
  <2>5. RowsOf(Ties, 0, d) \cup Paging!Listed({d + 1}) = RowsOf(Ties, 0, d + 1)
    BY <2>2, <2>3, <2>4 DEF RowsOf
  <2> QED BY <1>1, <1>2, <1>3, <1>4, <2>1, <2>5, PagingBounds
<1>6. SoFar(0, d + 1)
  <2>1. Count(Ties, d) <= Count(Ties, d + 1) /\ Len(data) <= Count(Ties, d + 1)
    BY <1>3 DEF SoFar, Count, InPlace
  <2>2. \A n \in 0..d : n \in 0..(d + 1)
    OBVIOUS
  <2> QED BY <1>1, <1>3, <2>1, <2>2 DEF SoFar
<1>7. SoFar(0, d + 1)' /\ (upstream = RowsOf(Ties, 0, d + 1))'
  <2>1. SoFar(0, d + 1)' = SoFar(0, d + 1)
    BY <1>1 DEF SoFar, InPlace, Ties, Exactness
  <2> QED BY <1>1, <1>5, <1>6, <2>1, SameTies
<1>8. Paging!PagesLoseNothing'
  BY <1>1 DEF Paging!PagesLoseNothing
<1>9. 0 \in Nat /\ loop' \in Paging!Loop /\ tied' \in BOOLEAN /\ page' \in Nat \ {0} /\ epoch' \in 1..2 /\ loop' # "sui"
  BY <1>1 DEF PagingInv, Paging!Loop
<1> QED BY <1>5, <1>7, <1>8, <1>9 DEF PagingInv

LEMMA NextEpochStep == PagingInv /\ Paging!NextEpoch => PagingInv'
<1> SUFFICES ASSUME PagingInv, Paging!NextEpoch PROVE PagingInv'
  OBVIOUS
<1>1. /\ outcome = "running" /\ loop = "sui" /\ epoch = 1 /\ epoch' = 2
      /\ UNCHANGED <<loop, tied, atStart, page, total, began, data, outcome>>
  BY DEF Paging!NextEpoch
<1>2. PICK x \in 1..MaxDate : upstream' = Paging!Listed(x..MaxDate)
  BY DEF Paging!NextEpoch
<1>3. PICK o \in Nat, d \in Nat : x = o + 1 /\ o + d = MaxDate
  <2>1. x - 1 \in Nat /\ MaxDate - (x - 1) \in Nat /\ x = (x - 1) + 1 /\ (x - 1) + (MaxDate - (x - 1)) = MaxDate
    BY PagingBounds
  <2> QED BY <2>1
<1>4. upstream' = RowsOf(Ties', o, d) /\ o + d <= MaxDate
  <2>1. Paging!Listed((o + 1)..(o + d)) = RowsOf(Ties, o, d)
    BY ListedIs
  <2> QED BY <1>1, <1>2, <1>3, <2>1, SameTies, PagingBounds
<1>5. began # 2 \/ page = 1
  BY <1>1 DEF PagingInv
<1>6. page = 1 => SoFar(o, d)'
  <2> SUFFICES ASSUME page = 1 PROVE SoFar(o, d)'
    OBVIOUS
  <2>1. PICK a \in Nat, b \in Nat : SoFar(a, b)
    BY <1>1 DEF PagingInv
  <2>2. Len(data) = 0 /\ InPlace(Ties, Exactness, data, a)
    <3>1. (page - 1) * PageSize = 0
      BY PagingBounds
    <3> QED BY <2>1, <3>1 DEF SoFar
  <2>3. data = <<>>
    BY <2>2 DEF InPlace
  <2>4. SoFar(o, d)
    BY <2>3, NothingRead
  <2>5. SoFar(o, d)' = SoFar(o, d)
    BY <1>1 DEF SoFar, InPlace, Ties, Exactness
  <2> QED BY <2>4, <2>5
<1>7. Paging!PagesLoseNothing'
  BY <1>1 DEF Paging!PagesLoseNothing
<1>8. /\ loop' \in Paging!Loop /\ tied' \in BOOLEAN /\ page' \in Nat \ {0} /\ epoch' \in 1..2 /\ loop' = "sui"
      /\ page > 1 => began' \in 1..epoch'
      /\ (page' > 1 => began' = epoch') => page = 1
  BY <1>1, <1>5 DEF PagingInv
<1> QED BY <1>1, <1>4, <1>6, <1>7, <1>8 DEF PagingInv

\* What a page leaves: the rows as far as they go, and how that was at the start.
PageRead(o, d, n, brought) ==
    /\ o + d <= MaxDate /\ upstream = RowsOf(Ties, o, d) /\ (loop # "sui" => o = 0)
    /\ InPlace(Ties, Exactness, data', o) /\ Len(data') \in Nat /\ Len(brought) \in Nat
    /\ Len(data') = Len(data) + Len(brought) /\ page * PageSize \in Nat
    /\ page * PageSize = Len(data) + PageSize
    /\ Len(data') = IF page * PageSize < Count(Ties, d) THEN page * PageSize ELSE Count(Ties, d)
    /\ Count(Ties, n) \in Nat /\ Count(Ties, d) \in Nat /\ Count(Ties, n) <= Count(Ties, d)
    /\ atStart' = RowsOf(Ties, o, n) /\ (loop = "sui" \/ page = 1 => n = d)
    /\ page > 1 /\ loop = "eia" => total \in {{}, {Count(Ties, n)}}
    /\ page > 1 /\ loop = "treasury" => total \in {{}, {(Count(Ties, n) + PageSize - 1) \div PageSize}}
    /\ page' = page + 1

LEMMA PageReads ==
    ASSUME PagingInv, outcome = "running", loop = "sui" /\ page > 1 => began = epoch,
           NEW order \in Orders, Paging!Read(Paging!Rows(order, page))
    PROVE  \E o, d \in Nat : \E n \in 0..d : PageRead(o, d, n, Paging!Rows(order, page))
<1>1. PICK o \in Nat, d \in Nat :
        /\ o + d <= MaxDate /\ upstream = RowsOf(Ties, o, d) /\ (loop # "sui" => o = 0)
        /\ SoFar(o, d)
  BY DEF PagingInv
<1>2. PICK brought : brought = Paging!Rows(order, page)
  OBVIOUS
<1>3. /\ data' = data \o brought /\ page' = page + 1
      /\ atStart' = IF page = 1 THEN upstream ELSE atStart
  BY <1>2 DEF Paging!Read
<1>4. InPlace(Ties, Exactness, order, o) /\ Len(order) = Count(Ties, d)
  BY <1>1, OrderPlaces
<1>5. /\ InPlace(Ties, Exactness, data, o) /\ Len(data) = (page - 1) * PageSize
      /\ Len(data) <= Len(order) /\ page \in Nat \ {0}
  BY <1>1, <1>4 DEF SoFar, PagingInv
<1>6. /\ InPlace(Ties, Exactness, data \o brought, o) /\ Len(brought) \in Nat
      /\ Len(data \o brought) = Len(data) + Len(brought) /\ page * PageSize = Len(data) + PageSize
      /\ Len(data \o brought) = IF Len(data) + PageSize < Len(order) THEN Len(data) + PageSize ELSE Len(order)
  <2> PICK s, p : s = data /\ p = page
    OBVIOUS
  <2>1. /\ InPlace(Ties, Exactness, s, o) /\ InPlace(Ties, Exactness, order, o) /\ p \in Nat \ {0}
        /\ Len(s) = (p - 1) * PageSize /\ Len(s) <= Len(order) /\ brought = Paging!Rows(order, p)
    BY <1>2, <1>4, <1>5
  <2>2. Continues(Ties, Exactness, o, s, order, p, brought)
    BY <2>1, PageContinues
  <2> QED BY <2>2 DEF Continues
<1>7. Len(data) + PageSize \in Nat /\ Len(data \o brought) \in Nat
  BY <1>5, <1>6, PagingBounds DEF InPlace
<1>8. PICK n \in 0..d :
         /\ atStart' = RowsOf(Ties, o, n) /\ (loop = "sui" \/ page = 1 => n = d)
         /\ page > 1 /\ loop = "eia" => total \in {{}, {Count(Ties, n)}}
         /\ page > 1 /\ loop = "treasury" => total \in {{}, {(Count(Ties, n) + PageSize - 1) \div PageSize}}
  <2>1. CASE page = 1
    <3>1. d \in 0..d /\ ~(page > 1)
      BY <2>1
    <3> QED BY <1>1, <1>3, <2>1, <3>1
  <2>2. CASE page # 1
    <3>1. page > 1
      BY <1>5, <2>2
    <3> QED BY <1>1, <1>3, <2>2, <3>1 DEF SoFar
  <2> QED BY <2>1, <2>2
<1>9. Count(Ties, n) \in Nat /\ Count(Ties, d) \in Nat /\ Count(Ties, n) <= Count(Ties, d)
  BY DEF Count
<1>10. PageRead(o, d, n, brought)
  BY <1>1, <1>3, <1>4, <1>6, <1>7, <1>8, <1>9 DEF PageRead
<1> QED BY <1>2, <1>10

\* A page keeps the invariant if the loop goes on after a full page only, and returns
\* with as many rows as there were when it began.
LEMMA PageKeeps ==
    ASSUME PagingInv, NEW o \in Nat, NEW d \in Nat, NEW n \in 0..d, NEW brought, PageRead(o, d, n, brought),
           UNCHANGED <<loop, tied, upstream, epoch>>,
           outcome' = "running" => Len(data') = page * PageSize,
           outcome' = "returned" => Len(data') >= Count(Ties, n),
           loop = "eia" => total' \in {{}, {Count(Ties, n)}},
           loop = "treasury" => total' \in {{}, {(Count(Ties, n) + PageSize - 1) \div PageSize}},
           loop = "sui" => began' \in 1..epoch
    PROVE  PagingInv'
<1>1. loop' \in Paging!Loop /\ tied' \in BOOLEAN /\ page' \in Nat \ {0} /\ epoch' \in 1..2
  BY DEF PagingInv, PageRead
<1>2. ASSUME outcome' = "running" PROVE SoFar(o, d)'
  <2>1. Len(data') = (page' - 1) * PageSize /\ Len(data') <= Count(Ties', d)
    <3>1. page' - 1 = page
      BY DEF PageRead, PagingInv
    <3>2. Len(data') <= Count(Ties, d)
      BY DEF PageRead
    <3> QED BY <1>2, <3>1, <3>2, SameTies
  <2>2. InPlace(Ties', Exactness', data', o)
    BY SameTies DEF PageRead
  <2>3. page' > 1 => \E m \in 0..d :
          /\ atStart' = RowsOf(Ties', o, m) /\ (loop' = "sui" => m = d)
          /\ loop' = "eia" => total' \in {{}, {Count(Ties', m)}}
          /\ loop' = "treasury" => total' \in {{}, {(Count(Ties', m) + PageSize - 1) \div PageSize}}
    BY SameTies DEF PageRead
  <2> QED BY <2>1, <2>2, <2>3 DEF SoFar
<1>3. Paging!PagesLoseNothing'
  <2> SUFFICES ASSUME outcome' = "returned"
               PROVE  IF loop = "eia" /\ tied THEN Paging!EveryPeriodInNumber' ELSE Paging!EveryRowOnce'
    BY DEF Paging!PagesLoseNothing
  <2>1. o + n <= MaxDate /\ n \in Nat
    BY PagingBounds DEF PageRead
  <2>2. PICK s : s = data'
    OBVIOUS
  <2>3. InPlace(Ties, Exactness, s, o) /\ Len(s) >= Count(Ties, n) /\ atStart' = RowsOf(Ties, o, n)
    BY <2>2 DEF PageRead
  <2>4. CASE loop = "eia" /\ tied
    <3> SUFFICES ASSUME NEW e \in 1..MaxDate
                 PROVE  Paging!Cardinality({r \in atStart' : r.date = e})
                          <= Paging!Cardinality({k \in DOMAIN data' : data'[k].date = e})
      BY <2>4 DEF Paging!EveryPeriodInNumber
    <3>1. Paging!Cardinality({r \in RowsOf(Ties, o, n) : r.date = e})
            <= Paging!Cardinality({k \in DOMAIN s : s[k].date = e})
      <4>1. OfEach(Ties, o, n, s)
        BY <2>1, <2>3, EnoughOfEach
      <4> QED BY <4>1 DEF OfEach
    <3>2. {k \in DOMAIN s : s[k].date = e} = {k \in DOMAIN data' : data'[k].date = e}
      BY <2>2
    <3>3. {r \in atStart' : r.date = e} = {r \in RowsOf(Ties, o, n) : r.date = e}
      BY <2>3
    <3> QED BY <3>1, <3>2, <3>3
  <2>5. CASE ~(loop = "eia" /\ tied)
    <3>1. Exactness = "exact"
      BY <2>5 DEF Exactness
    <3> QED BY <2>1, <2>2, <2>3, <2>5, <3>1, EnoughIsAll DEF Paging!EveryRowOnce
  <2> QED BY <2>4, <2>5
<1>4. upstream' = RowsOf(Ties', o, d) /\ o + d <= MaxDate /\ (loop' # "sui" => o = 0)
  BY SameTies DEF PageRead
<1> QED BY <1>1, <1>2, <1>3, <1>4 DEF PagingInv

\* What a page is found to be: full if it ends before the last row, else the last.
LEMMA PageFillsOrEnds ==
    ASSUME NEW o \in Nat, NEW d \in Nat, NEW n \in 0..d, NEW brought, PageRead(o, d, n, brought)
    PROVE  /\ Len(brought) < PageSize => Len(data') >= Count(Ties, n)
           /\ ~(Len(brought) < PageSize) => Len(data') = page * PageSize
           /\ page * PageSize >= Count(Ties, n) => Len(data') >= Count(Ties, n)
           /\ page * PageSize <= Count(Ties, d) => Len(data') = page * PageSize
           /\ Len(data') < Count(Ties, n) => Len(data') = page * PageSize
BY PagingBounds DEF PageRead

LEMMA PagesCounted ==
    ASSUME NEW o \in Nat, NEW d \in Nat, NEW n, NEW brought, PageRead(o, d, n, brought)
    PROVE  Paging!Cardinality(upstream) = Count(Ties, d)
<1>1. o + d <= MaxDate /\ upstream = RowsOf(Ties, o, d)
  BY DEF PageRead
<1>2. PlacesCount(Ties, o, d)
  BY <1>1, PlaceCounts
<1> QED BY <1>1, <1>2 DEF PlacesCount

LEMMA EiaStep == PagingInv /\ Paging!EiaPage => PagingInv'
<1> SUFFICES ASSUME PagingInv, Paging!EiaPage PROVE PagingInv'
  OBVIOUS
<1>1. loop = "eia" /\ outcome = "running" /\ UNCHANGED <<loop, tied, upstream, epoch, began>>
  BY DEF Paging!EiaPage
<1>2. PICK order \in Orders, t \in Paging!Said(Paging!Cardinality(upstream)) :
         /\ Paging!Read(Paging!Rows(order, page)) /\ total' = t
         /\ Paging!Settle(IF t = {} THEN Len(Paging!Rows(order, page)) < PageSize
                          ELSE \A k \in t : Len(data) + Len(Paging!Rows(order, page)) >= k)
  BY <1>1 DEF Paging!EiaPage, Paging!EiaOrder, Orders
<1>3. PICK o \in Nat, d \in Nat : \E n \in 0..d : PageRead(o, d, n, Paging!Rows(order, page))
  BY <1>1, <1>2, PageReads
<1>4. PICK n \in 0..d : PageRead(o, d, n, Paging!Rows(order, page))
  BY <1>3
<1>5. PICK brought : brought = Paging!Rows(order, page)
  OBVIOUS
<1>6. PageRead(o, d, n, brought)
  BY <1>4, <1>5
<1>7. t \in {{}, {Count(Ties, n)}}
  <2>1. Paging!Cardinality(upstream) = Count(Ties, d)
    BY <1>6, PagesCounted
  <2>2. CASE page = 1
    BY <1>2, <1>6, <2>1, <2>2 DEF PageRead, Paging!Said
  <2>3. CASE page # 1
    <3>1. page > 1
      BY <2>3 DEF PagingInv
    <3> QED BY <1>1, <1>2, <1>6, <2>3, <3>1 DEF PageRead, Paging!Said
  <2> QED BY <2>2, <2>3
<1>8. /\ outcome' = "returned" => Len(data') >= Count(Ties, n)
      /\ outcome' = "running" => Len(data') = page * PageSize
  <2>1. CASE t = {}
    BY <1>2, <1>5, <1>6, <2>1, PageFillsOrEnds DEF Paging!Settle
  <2>2. CASE t = {Count(Ties, n)}
    <3>1. t # {} /\ ((\A k \in t : Len(data) + Len(brought) >= k) <=> Len(data') >= Count(Ties, n))
      BY <1>6, <2>2 DEF PageRead
    <3>2. /\ outcome' = "returned" => \A k \in t : Len(data) + Len(brought) >= k
          /\ outcome' = "running" => ~ \A k \in t : Len(data) + Len(brought) >= k
      BY <1>2, <1>5, <3>1 DEF Paging!Settle
    <3>3. ~(Len(data') >= Count(Ties, n)) => Len(data') < Count(Ties, n)
      BY <1>6 DEF PageRead
    <3> QED BY <1>6, <3>1, <3>2, <3>3, PageFillsOrEnds
  <2> QED BY <1>7, <2>1, <2>2
<1> QED BY <1>1, <1>2, <1>6, <1>7, <1>8, PageKeeps

LEMMA TreasuryStep == PagingInv /\ Paging!TreasuryPage => PagingInv'
<1> SUFFICES ASSUME PagingInv, Paging!TreasuryPage PROVE PagingInv'
  OBVIOUS
<1> DEFINE Pages(k) == (k + PageSize - 1) \div PageSize
<1>1. loop = "treasury" /\ outcome = "running" /\ UNCHANGED <<loop, tied, upstream, epoch, began>>
  BY DEF Paging!TreasuryPage
<1>2. PICK order \in Orders, t \in Paging!Said(Paging!PageCount) :
         /\ Paging!Read(Paging!Rows(order, page)) /\ total' = t
         /\ Paging!Settle(IF t = {} THEN Len(Paging!Rows(order, page)) < PageSize ELSE \A k \in t : page >= k)
  BY <1>1 DEF Paging!TreasuryPage, Paging!SortFields, Orders
<1>3. PICK o \in Nat, d \in Nat : \E n \in 0..d : PageRead(o, d, n, Paging!Rows(order, page))
  BY <1>1, <1>2, PageReads
<1>4. PICK n \in 0..d : PageRead(o, d, n, Paging!Rows(order, page))
  BY <1>3
<1>5. PICK brought : brought = Paging!Rows(order, page)
  OBVIOUS
<1>6. PageRead(o, d, n, brought)
  BY <1>4, <1>5
<1>7. t \in {{}, {Pages(Count(Ties, n))}}
  <2>1. Paging!PageCount = Pages(Count(Ties, d))
    <3>1. Paging!Cardinality(upstream) = Count(Ties, d)
      BY <1>6, PagesCounted
    <3> QED BY <3>1 DEF Paging!PageCount
  <2> HIDE DEF Pages
  <2>2. CASE page = 1
    BY <1>2, <1>6, <2>1, <2>2 DEF PageRead, Paging!Said
  <2>3. CASE page # 1
    <3>1. page > 1
      BY <2>3 DEF PagingInv
    <3>2. total \in {{}, {Pages(Count(Ties, n))}}
      BY <1>1, <1>6, <3>1 DEF PageRead, Pages
    <3> QED BY <1>2, <2>3, <3>2 DEF Paging!Said
  <2> QED BY <2>2, <2>3
<1>8. /\ outcome' = "returned" => Len(data') >= Count(Ties, n)
      /\ outcome' = "running" => Len(data') = page * PageSize
  <2>1. CASE t = {}
    BY <1>2, <1>5, <1>6, <2>1, PageFillsOrEnds DEF Paging!Settle
  <2>2. CASE t = {Pages(Count(Ties, n))}
    <3>1. PICK c \in Nat : c = Count(Ties, n)
      BY <1>6 DEF PageRead
    <3>2. /\ Pages(c) \in Nat /\ Pages(c) * PageSize >= c
          /\ \A p \in Nat : p < Pages(c) => p * PageSize < c
      BY PagesFill
    <3> HIDE DEF Pages
    <3>3. page \in Nat
      BY DEF PagingInv
    <3>4. page >= Pages(c) => page * PageSize >= c
      <4>1. SUFFICES ASSUME page >= Pages(c) PROVE page * PageSize >= c
        OBVIOUS
      <4>2. PICK h \in Nat : page = Pages(c) + h
        <5>1. page - Pages(c) \in Nat /\ page = Pages(c) + (page - Pages(c))
          BY <3>2, <3>3, <4>1
        <5> QED BY <5>1
      <4>3. page * PageSize = Pages(c) * PageSize + h * PageSize /\ h * PageSize \in Nat
            /\ Pages(c) * PageSize \in Nat
        BY <3>2, <4>2, PagingBounds
      <4> QED BY <3>2, <4>3
    <3>5. ~(page >= Pages(c)) => page * PageSize <= Count(Ties, d)
      <4>1. ~(page >= Pages(c)) => page * PageSize < c
        BY <3>2, <3>3
      <4> QED BY <1>6, <3>1, <4>1 DEF PageRead
    <3>6. t # {} /\ ((\A k \in t : page >= k) <=> page >= Pages(c))
      BY <2>2, <3>1
    <3>7. /\ outcome' = "returned" => page >= Pages(c)
          /\ outcome' = "running" => ~(page >= Pages(c))
      BY <1>2, <3>6 DEF Paging!Settle
    <3> QED BY <1>6, <3>1, <3>4, <3>5, <3>7, PageFillsOrEnds
  <2> QED BY <1>7, <2>1, <2>2
<1> QED BY <1>1, <1>2, <1>6, <1>7, <1>8, PageKeeps

LEMMA EtherscanStep == PagingInv /\ Paging!EtherscanPage => PagingInv'
<1> SUFFICES ASSUME PagingInv, Paging!EtherscanPage PROVE PagingInv'
  OBVIOUS
<1>1. loop = "etherscan" /\ outcome = "running" /\ UNCHANGED <<loop, tied, upstream, epoch, total, began>>
  BY DEF Paging!EtherscanPage
<1>2. PICK order \in Orders :
         /\ Paging!Read(Paging!Rows(order, page))
         /\ outcome' = IF Len(Paging!Rows(order, page)) < PageSize THEN "returned" ELSE "running"
  BY <1>1 DEF Paging!EtherscanPage, Orders
<1>3. PICK o \in Nat, d \in Nat : \E n \in 0..d : PageRead(o, d, n, Paging!Rows(order, page))
  BY <1>1, <1>2, PageReads
<1>4. PICK n \in 0..d : PageRead(o, d, n, Paging!Rows(order, page))
  BY <1>3
<1>5. /\ outcome' = "returned" => Len(data') >= Count(Ties, n)
      /\ outcome' = "running" => Len(data') = page * PageSize
  BY <1>2, <1>4, PageFillsOrEnds
<1> QED BY <1>1, <1>4, <1>5, PageKeeps

LEMMA SuiStep == PagingInv /\ Paging!SuiPage => PagingInv'
<1> SUFFICES ASSUME PagingInv, Paging!SuiPage PROVE PagingInv'
  OBVIOUS
<1>1. loop = "sui" /\ outcome = "running" /\ UNCHANGED <<loop, tied, upstream, epoch, total>>
  BY DEF Paging!SuiPage
<1>2. CASE page > 1 /\ epoch # began
  <2>1. outcome' = "raised" /\ UNCHANGED <<data, page, atStart, began>>
    BY <1>2 DEF Paging!SuiPage
  <2>2. Paging!PagesLoseNothing'
    BY <2>1 DEF Paging!PagesLoseNothing
  <2>3. \E o, d \in Nat : o + d <= MaxDate /\ upstream' = RowsOf(Ties', o, d) /\ (loop' # "sui" => o = 0)
    BY <1>1, SameTies DEF PagingInv
  <2> QED BY <1>1, <2>1, <2>2, <2>3 DEF PagingInv
<1>3. CASE ~(page > 1 /\ epoch # began)
  <2>1. PICK order \in Orders :
           /\ Paging!Read(Paging!Rows(order, page))
           /\ began' = IF page = 1 THEN epoch ELSE began
           /\ outcome' = IF page * PageSize >= Len(order) THEN "returned" ELSE "running"
    BY <1>1, <1>3 DEF Paging!SuiPage, Orders
  <2>2. PICK o \in Nat, d \in Nat : \E n \in 0..d : PageRead(o, d, n, Paging!Rows(order, page))
    BY <1>1, <1>3, <2>1, PageReads
  <2>3. PICK n \in 0..d : PageRead(o, d, n, Paging!Rows(order, page))
    BY <2>2
  <2>4. Len(order) = Count(Ties, d) /\ n = d
    BY <1>1, <2>3, OrderPlaces DEF PageRead
  <2>5. Count(Ties, d) \in Nat /\ page * PageSize \in Nat
    BY <2>3 DEF PageRead
  <2>6. /\ outcome' = "returned" => Len(data') >= Count(Ties, n)
        /\ outcome' = "running" => Len(data') = page * PageSize
    BY <2>1, <2>3, <2>4, <2>5, PageFillsOrEnds
  <2>7. began' \in 1..epoch
    <3>1. page = 1 \/ page > 1
      BY DEF PagingInv
    <3> QED BY <1>1, <1>3, <2>1, <3>1 DEF PagingInv
  <2> QED BY <1>1, <2>3, <2>6, <2>7, PageKeeps
<1> QED BY <1>2, <1>3

LEMMA FailStep == PagingInv /\ Paging!PageFails => PagingInv'
<1> SUFFICES ASSUME PagingInv, Paging!PageFails PROVE PagingInv'
  OBVIOUS
<1>1. /\ outcome = "running" /\ outcome' = "raised"
      /\ UNCHANGED <<loop, tied, upstream, atStart, epoch, page, total, began, data>>
  BY DEF Paging!PageFails
<1>2. Paging!PagesLoseNothing'
  BY <1>1 DEF Paging!PagesLoseNothing
<1>3. \E o, d \in Nat : o + d <= MaxDate /\ upstream' = RowsOf(Ties', o, d) /\ (loop' # "sui" => o = 0)
  BY <1>1, SameTies DEF PagingInv
<1> QED BY <1>1, <1>2, <1>3 DEF PagingInv

LEMMA PagingStepInv == PagingInv /\ Paging!Next => PagingInv'
BY PublishStep, NextEpochStep, EiaStep, TreasuryStep, EtherscanStep, SuiStep, FailStep DEF Paging!Next

LEMMA PagingStutters == PagingInv /\ UNCHANGED pagingVars => PagingInv'
<1> SUFFICES ASSUME PagingInv, UNCHANGED pagingVars PROVE PagingInv'
  OBVIOUS
<1>1. UNCHANGED <<loop, tied, upstream, atStart, epoch, page, total, began, data, outcome>>
  BY DEF pagingVars
<1>2. PICK o \in Nat, d \in Nat :
        /\ o + d <= MaxDate /\ upstream = RowsOf(Ties, o, d) /\ (loop # "sui" => o = 0)
        /\ outcome = "running" /\ (loop = "sui" /\ page > 1 => began = epoch) => SoFar(o, d)
  BY DEF PagingInv
<1>3. SoFar(o, d)' = SoFar(o, d)
  BY <1>1 DEF SoFar, InPlace, Ties, Exactness
<1>4. Paging!PagesLoseNothing'
  BY <1>1 DEF PagingInv, Paging!PagesLoseNothing, Paging!EveryPeriodInNumber, Paging!EveryRowOnce
<1> QED BY <1>1, <1>2, <1>3, <1>4, SameTies DEF PagingInv

\* Whatever is published, and whatever epochs turn, between two pages of any size: a
\* loop that returns has every row the server held when it began, and none twice; and of
\* EIA's periods of several rows, as many of each as there were.
THEOREM PagesAreWhole == MCSpec => []PagesLoseNothing
<1> DEFINE Inv == subject = "paging" => PagingInv
<1>1. MCInit => Inv
  BY PagingInit DEF MCInit
<1>2. Inv /\ [MCNext]_MCVars => Inv'
  <2> SUFFICES ASSUME Inv, [MCNext]_MCVars, subject' = "paging" PROVE PagingInv'
    OBVIOUS
  <2>1. PagingInv /\ subject = "paging"
    BY OneReader
  <2>2. Paging!Next \/ UNCHANGED pagingVars
    BY OneReader
  <2> QED BY <2>1, <2>2, PagingStepInv, PagingStutters
<1>3. Inv => PagesLoseNothing
  BY DEF PagesLoseNothing, PagingInv
<1> QED BY <1>1, <1>2, <1>3, PTL DEF MCSpec

-----------------------------------------------------------------------------
\* Natural numbers have a least.
LEMMA LeastNat ==
    ASSUME NEW S \in SUBSET Nat, S # {}
    PROVE  \E n \in S : \A m \in S : n <= m
<1> DEFINE R == OpToRel(<, Nat)
<1>1. \A m, n \in Nat : <<m, n>> \in R <=> m < n
  BY DEF OpToRel
<1>2. IsWellFoundedOn(R, Nat)
  BY NatLessThanWellFounded
<1> HIDE DEF R
<1>3. PICK n \in S : \A m \in S : ~ (<<m, n>> \in R)
  BY <1>2, WFMin
<1> SUFFICES ASSUME NEW m \in S PROVE n <= m
  OBVIOUS
<1>4. m \in Nat /\ n \in Nat
  OBVIOUS
<1>5. ~ (m < n)
  BY <1>1, <1>3, <1>4
<1> QED BY <1>4, <1>5

\* The watchlist file. The loop over a section is a recursive function, which
\* exists, of which Section is the last value.
PassStep(g, f, s, i) ==
    IF i = 0 THEN [seen |-> {}, kept |-> {}]
    ELSE IF f[i].section = s THEN Watching!Keep(g[i - 1], f, i) ELSE g[i - 1]

IsPass(g, f, s, n) == g = [i \in 0..n |-> PassStep(g, f, s, i)]

PassOf(f, s, n) == CHOOSE g : IsPass(g, f, s, n)

LEMMA SectionIsPass ==
    ASSUME NEW f, NEW s
    PROVE  Watching!Section(f, s) = PassOf(f, s, Len(f))[Len(f)].kept
BY DEF Watching!Section, PassOf, IsPass, PassStep

LEMMA PassExists ==
    ASSUME NEW f, NEW s, NEW m \in Nat
    PROVE  IsPass(PassOf(f, s, m), f, s, m)
<1> DEFINE Lacks == {n \in Nat : ~ \E g : IsPass(g, f, s, n)}
<1>1. Lacks = {}
  <2> SUFFICES ASSUME Lacks # {} PROVE FALSE
    OBVIOUS
  <2>1. PICK n \in Lacks : \A l \in Lacks : n <= l
    <3>1. Lacks \in SUBSET Nat
      OBVIOUS
    <3> HIDE DEF Lacks
    <3> QED BY <3>1, LeastNat
  <2>2. n \in Nat /\ ~ \E g : IsPass(g, f, s, n)
    OBVIOUS
  <2>3. CASE n = 0
    <3> DEFINE g == [i \in 0..n |-> [seen |-> {}, kept |-> {}]]
    <3>1. \A i \in 0..n : PassStep(g, f, s, i) = [seen |-> {}, kept |-> {}]
      BY <2>3 DEF PassStep
    <3>2. IsPass(g, f, s, n)
      BY <3>1 DEF IsPass
    <3> QED BY <2>2, <3>2
  <2>4. CASE n # 0
    <3>1. n - 1 \in Nat /\ ~ (n <= n - 1)
      BY <2>2, <2>4
    <3>2. PICK h : IsPass(h, f, s, n - 1)
      BY <2>1, <3>1
    <3> DEFINE g == [i \in 0..n |-> PassStep(h, f, s, i)]
    <3>3. ASSUME NEW i \in 0..n PROVE g[i] = PassStep(g, f, s, i)
      <4>1. CASE i = 0
        BY <4>1 DEF PassStep
      <4>2. CASE i # 0
        <5>1. i - 1 \in 0..(n - 1) /\ i - 1 \in 0..n
          BY <2>2, <4>2
        <5>2. h[i - 1] = PassStep(h, f, s, i - 1)
          BY <3>2, <5>1 DEF IsPass
        <5>3. g[i - 1] = h[i - 1]
          BY <5>1, <5>2
        <5>4. g[i] = PassStep(h, f, s, i)
          OBVIOUS
        <5> HIDE DEF g
        <5> QED BY <5>3, <5>4 DEF PassStep
      <4> QED BY <4>1, <4>2
    <3>4. g = [i \in 0..n |-> g[i]]
      OBVIOUS
    <3>5. IsPass(g, f, s, n)
      <4> HIDE DEF g
      <4> QED BY <3>3, <3>4 DEF IsPass
    <3> QED BY <2>2, <3>5
  <2> QED BY <2>3, <2>4
<1> QED BY <1>1 DEF PassOf

\* After n entries: what is kept is usable and of the section, what counts as seen is
\* so by an entry, and a usable entry is left out for an earlier one of its key only.
Takes(e) == e.fate = "usable" \/ (e.fate = "incomplete" /\ e.section = "etf_tickers")

KeepsRight(p, f, s, n) ==
    /\ p = [seen |-> p.seen, kept |-> p.kept]
    /\ \A j \in p.kept : j \in 1..n /\ f[j].section = s /\ f[j].fate = "usable"
    /\ \A x \in p.seen : \E j \in 1..n : f[j].section = s /\ f[j].key = x /\ Takes(f[j])
    /\ \A i \in 1..n : f[i].section = s /\ f[i].fate = "usable" =>
          \/ i \in p.kept
          \/ s \notin Watching!KeepsAll /\ \E j \in 1..(i - 1) : f[j].section = s /\ f[j].key = f[i].key /\ Takes(f[j])

LEMMA KeepStep ==
    ASSUME NEW f, NEW s, NEW n \in Nat, NEW p, KeepsRight(p, f, s, n),
           f[n + 1].fate \in {"usable", "incomplete", "unreadable"}
    PROVE  KeepsRight(IF f[n + 1].section = s THEN Watching!Keep(p, f, n + 1) ELSE p, f, s, n + 1)
<1> DEFINE e == f[n + 1]
<1>1. /\ n + 1 \in 1..(n + 1) /\ \A j : j \in 1..(n + 1) <=> j \in 1..n \/ j = n + 1
      /\ (n + 1) - 1 = n
  OBVIOUS
<1>2. CASE e.section # s
  BY <1>1, <1>2 DEF KeepsRight
<1>3. CASE e.section = s /\ ~Takes(e)
  <2>1. Watching!Keep(p, f, n + 1) = p
    BY <1>3 DEF Watching!Keep, Takes
  <2> QED BY <1>1, <1>3, <2>1 DEF KeepsRight, Takes
<1>4. CASE e.section = s /\ Takes(e) /\ s \notin Watching!KeepsAll /\ e.key \in p.seen
  <2>1. Watching!Keep(p, f, n + 1) = p
    BY <1>4 DEF Watching!Keep, Takes
  <2>2. \E j \in 1..n : f[j].section = s /\ f[j].key = e.key /\ Takes(f[j])
    BY <1>4 DEF KeepsRight
  <2> QED BY <1>1, <1>4, <2>1, <2>2 DEF KeepsRight
<1>5. CASE e.section = s /\ Takes(e) /\ ~(s \notin Watching!KeepsAll /\ e.key \in p.seen)
  <2>1. Watching!Keep(p, f, n + 1) = [seen |-> p.seen \cup {e.key},
                             kept |-> IF e.fate = "usable" THEN p.kept \cup {n + 1} ELSE p.kept]
    BY <1>5 DEF Watching!Keep, Takes
  <2>2. PICK q : q = Watching!Keep(p, f, n + 1)
    OBVIOUS
  <2>3. /\ q = [seen |-> q.seen, kept |-> q.kept] /\ q.seen = p.seen \cup {e.key}
        /\ p.kept \subseteq q.kept /\ q.kept \subseteq p.kept \cup {n + 1}
        /\ n + 1 \in q.kept => e.fate = "usable" \/ n + 1 \in p.kept
        /\ e.fate = "usable" => n + 1 \in q.kept
    BY <2>1, <2>2
  <2>4. \A j \in q.kept : j \in 1..(n + 1) /\ f[j].section = s /\ f[j].fate = "usable"
    BY <1>1, <1>5, <2>3 DEF KeepsRight
  <2>5. \A x \in q.seen : \E j \in 1..(n + 1) : f[j].section = s /\ f[j].key = x /\ Takes(f[j])
    BY <1>1, <1>5, <2>3 DEF KeepsRight
  <2>6. \A i \in 1..(n + 1) : f[i].section = s /\ f[i].fate = "usable" =>
          \/ i \in q.kept
          \/ s \notin Watching!KeepsAll /\ \E j \in 1..(i - 1) : f[j].section = s /\ f[j].key = f[i].key /\ Takes(f[j])
    BY <1>1, <2>3 DEF KeepsRight
  <2>7. KeepsRight(q, f, s, n + 1)
    BY <2>3, <2>4, <2>5, <2>6 DEF KeepsRight
  <2> QED BY <1>5, <2>2, <2>7
<1> QED BY <1>2, <1>3, <1>4, <1>5

LEMMA SectionIs ==
    ASSUME NEW f \in Seq(Watching!Entry), NEW s
    PROVE  /\ \A j \in Watching!Section(f, s) : j \in DOMAIN f /\ f[j].section = s /\ f[j].fate = "usable"
           /\ \A i \in DOMAIN f : f[i].section = s /\ f[i].fate = "usable" =>
                 \/ i \in Watching!Section(f, s)
                 \/ s \notin Watching!KeepsAll
                    /\ \E j \in 1..(i - 1) : f[j].section = s /\ f[j].key = f[i].key /\ Takes(f[j])
<1>1. Len(f) \in Nat /\ DOMAIN f = 1..Len(f)
  OBVIOUS
<1>2. \A i \in 1..Len(f) : f[i].fate \in {"usable", "incomplete", "unreadable"}
  <2> TAKE i \in 1..Len(f)
  <2>1. f[i] \in Watching!Entry
    OBVIOUS
  <2> QED BY <2>1 DEF Watching!Entry
<1>3. PICK g : g = PassOf(f, s, Len(f))
  OBVIOUS
<1>4. \A i \in 0..Len(f) : g[i] = PassStep(g, f, s, i)
  BY <1>1, <1>3, PassExists DEF IsPass
<1> DEFINE Wrong == {n \in 0..Len(f) : ~KeepsRight(g[n], f, s, n)}
<1>5. Wrong = {}
  <2> SUFFICES ASSUME Wrong # {} PROVE FALSE
    OBVIOUS
  <2>1. PICK n \in Wrong : \A l \in Wrong : n <= l
    <3>1. Wrong \in SUBSET Nat
      OBVIOUS
    <3> HIDE DEF Wrong
    <3> QED BY <3>1, LeastNat
  <2>2. n \in 0..Len(f) /\ ~KeepsRight(g[n], f, s, n)
    OBVIOUS
  <2>3. CASE n = 0
    BY <1>4, <2>2, <2>3 DEF PassStep, KeepsRight
  <2>4. CASE n # 0
    <3>1. PICK m \in Nat : n = m + 1
      <4>1. n - 1 \in Nat /\ n = (n - 1) + 1
        BY <1>1, <2>2, <2>4
      <4> QED BY <4>1
    <3>2. m \in 0..Len(f) /\ ~(n <= m) /\ n \in 1..Len(f)
      BY <1>1, <2>2, <3>1
    <3>3. KeepsRight(g[m], f, s, m)
      BY <2>1, <3>2
    <3>4. g[n] = IF f[m + 1].section = s THEN Watching!Keep(g[m], f, m + 1) ELSE g[m]
      <4>1. n # 0 /\ n - 1 = m
        BY <3>1
      <4> QED BY <1>4, <2>2, <3>1, <4>1 DEF PassStep
    <3> QED BY <1>2, <2>2, <3>1, <3>2, <3>3, <3>4, KeepStep
  <2> QED BY <2>3, <2>4
<1>6. KeepsRight(g[Len(f)], f, s, Len(f))
  BY <1>1, <1>5
<1>7. Watching!Section(f, s) = g[Len(f)].kept
  BY <1>3, SectionIsPass
<1> QED BY <1>1, <1>6, <1>7 DEF KeepsRight

\* A lookup gives the first place there is.
LEMMA FirstIs ==
    ASSUME NEW S \in SUBSET (Nat \ {0})
    PROVE  /\ Watching!First(S) = 0 <=> S = {}
           /\ S # {} => Watching!First(S) \in S /\ Watching!First(S) = Watching!Min(S) /\ \A i \in S : Watching!First(S) <= i
<1>1. CASE S = {}
  BY <1>1 DEF Watching!First, Watching!None
<1>2. CASE S # {}
  <2>1. PICK n \in S : \A m \in S : n <= m
    <3>1. S \in SUBSET Nat
      OBVIOUS
    <3> QED BY <1>2, <3>1, LeastNat
  <2>2. Watching!Min(S) \in S /\ \A m \in S : Watching!Min(S) <= m
    BY <2>1 DEF Watching!Min
  <2> QED BY <1>2, <2>2 DEF Watching!First
<1> QED BY <1>1, <1>2

LEMMA FindIs ==
    ASSUME NEW f \in Seq(Watching!Entry), NEW s, NEW k
    PROVE  /\ Watching!Has(f, s, k) <=> \E i \in Watching!Section(f, s) : f[i].key = k
           /\ Watching!Has(f, s, k) => /\ Watching!Find(f, s, k) \in Watching!Section(f, s) /\ f[Watching!Find(f, s, k)].key = k
                              /\ \A i \in Watching!Section(f, s) : f[i].key = k => Watching!Find(f, s, k) <= i
<1> DEFINE S == {i \in Watching!Section(f, s) : f[i].key = k}
<1>1. S \in SUBSET (Nat \ {0})
  BY SectionIs
<1>2. Watching!Find(f, s, k) = Watching!First(S) /\ (Watching!Has(f, s, k) <=> Watching!First(S) # 0)
  BY DEF Watching!Find, Watching!Has, Watching!None
<1>3. /\ Watching!First(S) = 0 <=> S = {}
      /\ S # {} => Watching!First(S) \in S /\ \A i \in S : Watching!First(S) <= i
  <2> HIDE DEF S
  <2> QED BY <1>1, FirstIs
<1> QED BY <1>2, <1>3

LEMMA UsableFound == file \in Seq(Watching!Entry) => Watching!UsableIsFound
<1> SUFFICES ASSUME file \in Seq(Watching!Entry), NEW s \in Watching!ToSet(Watching!Sections), NEW k \in Symbol
             PROVE LET usable == {i \in Watching!In(file, s) : file[i].key = k /\ file[i].fate = "usable"}
                   IN usable # {} =>
                         \/ Watching!Find(file, s, k) = Watching!Min(usable)
                         \/ /\ s = "etf_tickers"
                            /\ \E i \in Watching!In(file, s) :
                                  i < Watching!Min(usable) /\ file[i].key = k /\ file[i].fate = "incomplete"
  BY DEF Watching!UsableIsFound
<1> DEFINE usable == {i \in Watching!In(file, s) : file[i].key = k /\ file[i].fate = "usable"}
<1>0. Len(file) \in Nat /\ DOMAIN file = 1..Len(file)
  OBVIOUS
<1>1. \A i : i \in usable <=> i \in 1..Len(file) /\ file[i].section = s /\ file[i].key = k /\ file[i].fate = "usable"
  BY <1>0 DEF Watching!In
<1> HIDE DEF usable
<1> SUFFICES ASSUME usable # {}, Watching!Find(file, s, k) # Watching!Min(usable)
             PROVE s = "etf_tickers" /\ \E i \in Watching!In(file, s) :
                      i < Watching!Min(usable) /\ file[i].key = k /\ file[i].fate = "incomplete"
  BY DEF usable
<1>2. usable \in SUBSET (Nat \ {0})
  BY <1>0, <1>1
<1>3. PICK m : m = Watching!Min(usable)
  OBVIOUS
<1>4. m \in usable /\ \A i \in usable : m <= i
  BY <1>2, <1>3, FirstIs
<1>5. m \in 1..Len(file) /\ file[m].section = s /\ file[m].key = k /\ file[m].fate = "usable"
  BY <1>1, <1>4
<1>6. m \notin Watching!Section(file, s)
  <2> SUFFICES ASSUME m \in Watching!Section(file, s) PROVE FALSE
    OBVIOUS
  <2>1. PICK n : n = Watching!Find(file, s, k)
    OBVIOUS
  <2>2. n \in Watching!Section(file, s) /\ file[n].key = k /\ n <= m
    BY <1>5, <2>1, FindIs
  <2>3. n \in usable
    BY <1>0, <1>1, <2>2, SectionIs
  <2>4. m <= n /\ n \in Nat /\ m \in Nat
    BY <1>2, <1>4, <2>3
  <2> QED BY <1>3, <2>1, <2>2, <2>4
<1>7. PICK j \in 1..(m - 1) : file[j].section = s /\ file[j].key = k /\ Takes(file[j])
  BY <1>0, <1>5, <1>6, SectionIs
<1>8. j \in 1..Len(file) /\ j < m /\ j \in Nat
  BY <1>0, <1>5, <1>7
<1>9. j \notin usable
  BY <1>2, <1>4, <1>8
<1>10. file[j].fate = "incomplete" /\ s = "etf_tickers"
  BY <1>1, <1>7, <1>8, <1>9 DEF Takes
<1> QED BY <1>0, <1>3, <1>7, <1>8, <1>10 DEF Watching!In

LEMMA Resolved == Watching!ResolversAgree
BY DEF Watching!ResolversAgree, Watching!ApiPrices, Watching!CliPrices, Watching!Coin, Watching!OnYahoo, Watching!Has, Watching!None, Watching!Sources

-----------------------------------------------------------------------------
\* The coins that CoinGecko's collector loads.
Named(f) == UNION {Watching!Section(f, s) : s \in Watching!OfCoins}

CoinStep(g, f, i) ==
    IF i = 0 THEN {}
    ELSE IF i \in Named(f) THEN Watching!AddCoinTarget(g[i - 1], f[i]) ELSE g[i - 1]

IsCoins(g, f, n) == g = [i \in 0..n |-> CoinStep(g, f, i)]

CoinsOf(f, n) == CHOOSE g : IsCoins(g, f, n)

LEMMA CoinsAreLast ==
    ASSUME NEW f
    PROVE  Watching!Coins(f) = CoinsOf(f, Len(f))[Len(f)]
BY DEF Watching!Coins, CoinsOf, IsCoins, CoinStep, Named

LEMMA CoinsExist ==
    ASSUME NEW f, NEW m \in Nat
    PROVE  IsCoins(CoinsOf(f, m), f, m)
<1> DEFINE Lacks == {n \in Nat : ~ \E g : IsCoins(g, f, n)}
<1>1. Lacks = {}
  <2> SUFFICES ASSUME Lacks # {} PROVE FALSE
    OBVIOUS
  <2>1. PICK n \in Lacks : \A l \in Lacks : n <= l
    <3>1. Lacks \in SUBSET Nat
      OBVIOUS
    <3> HIDE DEF Lacks
    <3> QED BY <3>1, LeastNat
  <2>2. n \in Nat /\ ~ \E g : IsCoins(g, f, n)
    OBVIOUS
  <2>3. CASE n = 0
    <3> DEFINE g == [i \in 0..n |-> {}]
    <3>1. \A i \in 0..n : CoinStep(g, f, i) = {}
      BY <2>3 DEF CoinStep
    <3>2. IsCoins(g, f, n)
      BY <3>1 DEF IsCoins
    <3> QED BY <2>2, <3>2
  <2>4. CASE n # 0
    <3>1. n - 1 \in Nat /\ ~ (n <= n - 1)
      BY <2>2, <2>4
    <3>2. PICK h : IsCoins(h, f, n - 1)
      BY <2>1, <3>1
    <3> DEFINE g == [i \in 0..n |-> CoinStep(h, f, i)]
    <3>3. ASSUME NEW i \in 0..n PROVE g[i] = CoinStep(g, f, i)
      <4>1. CASE i = 0
        BY <4>1 DEF CoinStep
      <4>2. CASE i # 0
        <5>1. i - 1 \in 0..(n - 1) /\ i - 1 \in 0..n
          BY <2>2, <4>2
        <5>2. h[i - 1] = CoinStep(h, f, i - 1)
          BY <3>2, <5>1 DEF IsCoins
        <5>3. g[i - 1] = h[i - 1]
          BY <5>1, <5>2
        <5>4. g[i] = CoinStep(h, f, i)
          OBVIOUS
        <5> HIDE DEF g
        <5> QED BY <5>3, <5>4 DEF CoinStep
      <4> QED BY <4>1, <4>2
    <3>4. g = [i \in 0..n |-> g[i]]
      OBVIOUS
    <3>5. IsCoins(g, f, n)
      <4> HIDE DEF g
      <4> QED BY <3>3, <3>4 DEF IsCoins
    <3> QED BY <2>2, <3>5
  <2> QED BY <2>3, <2>4
<1> QED BY <1>1 DEF CoinsOf

\* The targets T of the entries N: one to a coin, required if an entry requires it.
Target(c, r) == [coin |-> c, required |-> r]

Requires(e) == e.section # "crypto_price_targets"

TargetsRight(T, f, N) ==
    /\ \A t \in T : /\ t = Target(t.coin, t.required)
                    /\ \E i \in N : f[i].ref = t.coin
                    /\ t.required <=> \E i \in N : f[i].ref = t.coin /\ Requires(f[i])
    /\ \A i \in N : \E t \in T : t.coin = f[i].ref
    /\ \A t, u \in T : t.coin = u.coin => t = u

LEMMA TargetStep ==
    ASSUME NEW f, NEW N, NEW T, TargetsRight(T, f, N), NEW n
    PROVE  TargetsRight(Watching!AddCoinTarget(T, f[n]), f, N \cup {n})
<1> DEFINE c == f[n].ref
           r == Requires(f[n]) \/ \E t \in T : t.coin = c /\ t.required
<1>1. Watching!AddCoinTarget(T, f[n]) = {t \in T : t.coin # c} \cup {Target(c, r)}
  BY DEF Watching!AddCoinTarget, Target, Requires
<1>2. r <=> \E i \in N \cup {n} : f[i].ref = c /\ Requires(f[i])
  BY DEF TargetsRight
<1>3. Target(c, r).coin = c /\ Target(c, r).required = r
  BY DEF Target
<1> HIDE DEF r
<1>4. \A t \in T : t.coin # c => (t.required <=> \E i \in N \cup {n} : f[i].ref = t.coin /\ Requires(f[i]))
  BY DEF TargetsRight
<1>5. PICK x : x = Target(c, r)
  OBVIOUS
<1>6. PICK U : U = {t \in T : t.coin # c} \cup {x}
  OBVIOUS
<1>7. /\ \A t \in U : (t \in T /\ t.coin # c) \/ t = x
      /\ \A t \in T : t.coin # c => t \in U
      /\ x \in U /\ x.coin = c /\ x.required = r /\ x = Target(x.coin, x.required)
  BY <1>3, <1>5, <1>6
<1>8. \A t \in U : /\ t = Target(t.coin, t.required)
                   /\ \E i \in N \cup {n} : f[i].ref = t.coin
                   /\ t.required <=> \E i \in N \cup {n} : f[i].ref = t.coin /\ Requires(f[i])
  <2> TAKE t \in U
  <2>1. CASE t = x
    BY <1>2, <1>7, <2>1
  <2>2. CASE t \in T /\ t.coin # c
    BY <1>4, <2>2 DEF TargetsRight
  <2> QED BY <1>7, <2>1, <2>2
<1>9. \A i \in N \cup {n} : \E t \in U : t.coin = f[i].ref
  BY <1>7 DEF TargetsRight
<1>10. \A t, u \in U : t.coin = u.coin => t = u
  BY <1>7 DEF TargetsRight
<1> QED BY <1>1, <1>5, <1>6, <1>8, <1>9, <1>10 DEF TargetsRight

LEMMA CoinsAre ==
    ASSUME NEW f \in Seq(Watching!Entry)
    PROVE  TargetsRight(Watching!Coins(f), f, Named(f))
<1>1. Len(f) \in Nat /\ DOMAIN f = 1..Len(f)
  OBVIOUS
<1>2. PICK g : g = CoinsOf(f, Len(f))
  OBVIOUS
<1>3. \A i \in 0..Len(f) : g[i] = CoinStep(g, f, i)
  BY <1>1, <1>2, CoinsExist DEF IsCoins
<1>4. Named(f) \subseteq 1..Len(f)
  BY <1>1, SectionIs DEF Named
<1> DEFINE Upto(n) == Named(f) \cap (1..n)
           Wrong == {n \in 0..Len(f) : ~TargetsRight(g[n], f, Upto(n))}
<1>5. Wrong = {}
  <2> SUFFICES ASSUME Wrong # {} PROVE FALSE
    OBVIOUS
  <2>1. PICK n \in Wrong : \A l \in Wrong : n <= l
    <3>1. Wrong \in SUBSET Nat
      OBVIOUS
    <3> HIDE DEF Wrong
    <3> QED BY <3>1, LeastNat
  <2>2. n \in 0..Len(f) /\ ~TargetsRight(g[n], f, Upto(n))
    OBVIOUS
  <2>3. CASE n = 0
    <3>1. g[n] = {} /\ Upto(n) = {}
      BY <1>3, <2>2, <2>3 DEF CoinStep
    <3> QED BY <2>2, <3>1 DEF TargetsRight
  <2>4. CASE n # 0
    <3>1. PICK m \in Nat : n = m + 1
      <4>1. n - 1 \in Nat /\ n = (n - 1) + 1
        BY <1>1, <2>2, <2>4
      <4> QED BY <4>1
    <3>2. m \in 0..Len(f) /\ ~(n <= m) /\ n - 1 = m
      BY <1>1, <2>2, <3>1
    <3>3. TargetsRight(g[m], f, Upto(m))
      BY <2>1, <3>2
    <3>4. g[n] = IF n \in Named(f) THEN Watching!AddCoinTarget(g[m], f[n]) ELSE g[m]
      BY <1>3, <2>2, <2>4, <3>2 DEF CoinStep
    <3>5. Upto(n) = IF n \in Named(f) THEN Upto(m) \cup {n} ELSE Upto(m)
      <4>1. \A i : i \in 1..n <=> i \in 1..m \/ i = n
        BY <3>1
      <4> QED BY <4>1
    <3> HIDE DEF Upto
    <3>6. CASE n \in Named(f)
      <4>1. TargetsRight(Watching!AddCoinTarget(g[m], f[n]), f, Upto(m) \cup {n})
        BY <3>3, TargetStep
      <4>2. g[n] = Watching!AddCoinTarget(g[m], f[n]) /\ Upto(n) = Upto(m) \cup {n}
        BY <3>4, <3>5, <3>6
      <4> QED BY <2>2, <4>1, <4>2
    <3>7. CASE n \notin Named(f)
      BY <2>2, <3>3, <3>4, <3>5, <3>7
    <3> QED BY <3>6, <3>7
  <2> QED BY <2>3, <2>4
<1>6. TargetsRight(g[Len(f)], f, Upto(Len(f)))
  <2>1. Len(f) \in 0..Len(f)
    BY <1>1
  <2>2. ASSUME NEW n \in 0..Len(f) PROVE TargetsRight(g[n], f, Upto(n))
    <3>1. n \notin Wrong
      BY <1>5
    <3> HIDE DEF Upto
    <3> QED BY <3>1
  <2> HIDE DEF Upto
  <2> QED BY <2>1, <2>2
<1>7. Upto(Len(f)) = Named(f)
  BY <1>4
<1>8. Watching!Coins(f) = g[Len(f)]
  BY <1>2, CoinsAreLast
<1> QED BY <1>6, <1>7, <1>8

LEMMA RequiredStays == file \in Seq(Watching!Entry) => Watching!RequiredStaysRequired
<1> SUFFICES ASSUME file \in Seq(Watching!Entry), NEW t \in Watching!Coins(file)
             PROVE  /\ t.required <=> \E s \in {"crypto", "protocols"} : t.coin \in Watching!Refs(file, Watching!Section(file, s))
                    /\ \A u \in Watching!Coins(file) : u.coin = t.coin => u = t
  BY DEF Watching!RequiredStaysRequired
<1>1. /\ t.required <=> \E i \in Named(file) : file[i].ref = t.coin /\ Requires(file[i])
      /\ \A u \in Watching!Coins(file) : u.coin = t.coin => u = t
  BY CoinsAre DEF TargetsRight
<1>2. (\E i \in Named(file) : file[i].ref = t.coin /\ Requires(file[i]))
        <=> \E s \in {"crypto", "protocols"} : \E i \in Watching!Section(file, s) : file[i].ref = t.coin
  BY SectionIs DEF Named, Watching!OfCoins, Requires
<1> QED BY <1>1, <1>2 DEF Watching!Refs

LEMMA ReadIsCollected == file \in Seq(Watching!Entry) => Watching!ResolvedIsCollected
<1> SUFFICES ASSUME file \in Seq(Watching!Entry), NEW k \in Symbol, NEW venue \in Watching!Sources \cup {"any"}
             PROVE LET p == Watching!ApiPrices(file, k, venue)
                   IN /\ p.source = "coingecko" => \E t \in Watching!Coins(file) : t.coin = p.id
                      /\ p.source = "coinbase" /\ Watching!CoinbaseProducts(file) # Watching!Exit =>
                            p.id \in Watching!Refs(file, Watching!CoinbaseProducts(file))
                      /\ p.source = "yahoo" /\ Watching!YahooSymbols(file) # Watching!Exit =>
                            p.id \in Watching!Keys(file, Watching!YahooSymbols(file))
  BY DEF Watching!ResolvedIsCollected
<1>1. PICK p : p = Watching!ApiPrices(file, k, venue)
  OBVIOUS
<1>2. PICK c : c = Watching!Coin(file, k)
  OBVIOUS
<1>3. c # Watching!None => c \in Watching!Section(file, "crypto") \/ c \in Watching!Section(file, "crypto_price_targets")
  BY <1>2, FindIs DEF Watching!Coin, Watching!Has
<1>4. \/ p = Watching!Refused
      \/ p = [source |-> "coingecko", id |-> file[c].ref] /\ c # Watching!None
      \/ p = [source |-> "coinbase", id |-> file[c].ref] /\ Watching!Has(file, "crypto", k) /\ file[Watching!Find(file, "crypto", k)].traded
      \/ p = [source |-> "yahoo", id |-> k] /\ Watching!OnYahoo(file, k)
  BY <1>1, <1>2 DEF Watching!ApiPrices, Watching!Read, Watching!Sources
<1>5. ASSUME p.source = "coingecko" PROVE \E t \in Watching!Coins(file) : t.coin = p.id
  <2>1. p.id = file[c].ref /\ c # Watching!None
    BY <1>4, <1>5 DEF Watching!Refused
  <2>2. c \in Named(file)
    BY <1>3, <2>1 DEF Named, Watching!OfCoins
  <2> QED BY <2>1, <2>2, CoinsAre DEF TargetsRight
<1>6. ASSUME p.source = "coinbase", Watching!CoinbaseProducts(file) # Watching!Exit
      PROVE  p.id \in Watching!Refs(file, Watching!CoinbaseProducts(file))
  <2>1. p.id = file[c].ref /\ Watching!Has(file, "crypto", k) /\ file[Watching!Find(file, "crypto", k)].traded
    BY <1>4, <1>6 DEF Watching!Refused
  <2>2. c = Watching!Find(file, "crypto", k)
    BY <1>2, <2>1 DEF Watching!Coin
  <2>3. c \in {i \in Watching!Section(file, "crypto") : file[i].traded}
    BY <2>1, <2>2, FindIs
  <2>4. Watching!CoinbaseProducts(file) = {i \in Watching!Section(file, "crypto") : file[i].traded}
    BY <1>6 DEF Watching!CoinbaseProducts
  <2> QED BY <2>1, <2>3, <2>4 DEF Watching!Refs
<1>7. ASSUME p.source = "yahoo", Watching!YahooSymbols(file) # Watching!Exit
      PROVE  p.id \in Watching!Keys(file, Watching!YahooSymbols(file))
  <2>1. p.id = k /\ Watching!OnYahoo(file, k)
    BY <1>4, <1>7 DEF Watching!Refused
  <2>2. PICK s \in {"equities", "benchmarks", "yahoo_price_targets"} : Watching!Has(file, s, k)
    BY <2>1 DEF Watching!OnYahoo
  <2>3. PICK i \in Watching!Section(file, s) : file[i].key = k
    BY <2>2, FindIs
  <2>4. Watching!YahooSymbols(file) = UNION {Watching!Section(file, x) : x \in {"equities", "benchmarks", "etf_tickers", "yahoo_price_targets"}}
    BY <1>7 DEF Watching!YahooSymbols
  <2>5. i \in Watching!YahooSymbols(file)
    BY <2>3, <2>4
  <2> QED BY <2>1, <2>3, <2>5 DEF Watching!Keys
<1> QED BY <1>1, <1>5, <1>6, <1>7

LEMMA FileType == Watching!Init => file \in Seq(Watching!Entry)
BY DEF Watching!Init

LEMMA FileTypeNext == file \in Seq(Watching!Entry) /\ Watching!Next => file' \in Seq(Watching!Entry)
BY DEF Watching!Next, Watching!Add

\* Whatever entries stand in the file, in whatever order and number: a usable entry is
\* found under its key, unless an ETF ticker without an issuer comes first; the API and
\* the command line read the same prices for a ticker; what they read a collector
\* fetches; and a coin that one section requires is required.
THEOREM FileMeansOneThing == MCSpec => []FileIsOneTruth
<1> DEFINE Inv == file \in Seq(Watching!Entry)
<1>1. MCInit => Inv
  BY FileType DEF MCInit
<1>2. Inv /\ [MCNext]_MCVars => Inv'
  <2> SUFFICES ASSUME Inv, [MCNext]_MCVars PROVE Inv'
    OBVIOUS
  <2>1. Watching!Next \/ UNCHANGED file
    BY OneReader
  <2>2. CASE Watching!Next
    BY <2>2, FileTypeNext
  <2>3. CASE UNCHANGED file
    BY <2>3 DEF Watching!Entry, Watching!ToSet, Watching!Sections
  <2> QED BY <2>1, <2>2, <2>3
<1>3. Inv => FileIsOneTruth
  BY UsableFound, Resolved, RequiredStays, ReadIsCollected DEF FileIsOneTruth, Watching!FileIsOneTruth
<1> QED BY <1>1, <1>2, <1>3, PTL DEF MCSpec
-----------------------------------------------------------------------------
\* Emitters and Parsers, with the theorems about them.
Parts == INSTANCE PartsProofs WITH
    Emitter <- {"crypto", "equity", "scoring", "tvl", "macro", "insider", "crowding", "filings", "anomaly"},
    LastDay <- EmitDays, Late <- LateDays, Slack <- SlackDays,
    Lookback <- RegimeLookback, Span <- ClusterSpan, Lag <- FilingLag,
    today <- day, rows <- history

LEMMA EmittersAssumed == Parts!EmitterAssumption
BY EmitterBounds DEF Parts!EmitterAssumption

\* The instance of the proofs speaks of the same definitions.
LEMMA SameEmitterTables ==
    /\ \A S : Parts!Cardinality(S) = Emitting!Cardinality(S)
    /\ Parts!Lateness = Emitting!Lateness
    /\ Parts!Since = Emitting!Since
    /\ Parts!Class = Emitting!Class /\ Parts!Day = Emitting!Day /\ Parts!Days = Emitting!Days
    /\ \A lo : Parts!Present(lo) = Emitting!Present(lo)
    /\ \A d, lo : Parts!Before(d, lo) = Emitting!Before(d, lo)
    /\ \A D : Parts!Reporters(D) = Emitting!Reporters(D)
    /\ Parts!Outliers(1) = Emitting!Outliers(1)
    /\ \A F : Parts!Signals(F) = Emitting!Signals(F)
    /\ Parts!Found = Emitting!Found /\ Parts!Batch = Emitting!Batch
    /\ \A E : Parts!InWindow(E) = Emitting!InWindow(E)
    /\ \A E : Parts!Upserted(E) = Emitting!Upserted(E)
    /\ \A r, n : Parts!NoGap(r, n) <=> Emitting!NoGap(r, n)
<1>1. \A S : Parts!Cardinality(S) = Emitting!Cardinality(S)
  BY DEF Parts!Cardinality, Emitting!Cardinality
<1>2. Parts!Lateness = Emitting!Lateness
  BY DEF Parts!Lateness, Emitting!Lateness
<1>3. Parts!Since = Emitting!Since
  BY <1>2
     DEF Parts!Since, Emitting!Since, Parts!Window, Emitting!Window
<1>4. Parts!Class = Emitting!Class /\ Parts!Day = Emitting!Day /\ Parts!Days = Emitting!Days
  BY DEF Parts!Class, Emitting!Class, Parts!Day, Emitting!Day, Parts!Days, Emitting!Days
<1>5. \A lo : Parts!Present(lo) = Emitting!Present(lo)
  BY DEF Parts!Present, Emitting!Present
<1>6. \A S : Parts!Latest(S) = Emitting!Latest(S)
  BY DEF Parts!Latest, Emitting!Latest
<1>7. \A d, lo : Parts!Before(d, lo) = Emitting!Before(d, lo)
  BY <1>5
     DEF Parts!Before, Emitting!Before
<1>8. \A d, lo : Parts!Prior(d, lo) = Emitting!Prior(d, lo)
  BY <1>6, <1>7
     DEF Parts!Prior, Emitting!Prior
<1>9. \A d, k, r, s : Parts!Event(d, k, r, s) = Emitting!Event(d, k, r, s)
  BY DEF Parts!Event, Emitting!Event
<1>10. Parts!Crossings(1) = Emitting!Crossings(1)
  BY DEF Parts!Crossings, Emitting!Crossings, Parts!State, Emitting!State, Parts!Present,
         Emitting!Present, Parts!Before, Emitting!Before, Parts!Prior, Emitting!Prior,
         Parts!Latest, Emitting!Latest, Parts!Event, Emitting!Event
<1>11. Parts!Bands(1) = Emitting!Bands(1)
  BY DEF Parts!Bands, Emitting!Bands, Parts!NextBand, Emitting!NextBand, Parts!Present,
         Emitting!Present, Parts!Before, Emitting!Before, Parts!Event, Emitting!Event
<1>12. Parts!Episodes(1) = Emitting!Episodes(1)
  BY DEF Parts!Episodes, Emitting!Episodes, Parts!Onsets, Emitting!Onsets, Parts!Present,
         Emitting!Present, Parts!Before, Emitting!Before, Parts!Prior, Emitting!Prior,
         Parts!Latest, Emitting!Latest, Parts!Event, Emitting!Event
<1>13. \A lo : Parts!Transitions(lo) = Emitting!Transitions(lo)
  BY DEF Parts!Transitions, Emitting!Transitions, Parts!Present, Emitting!Present,
         Parts!Before, Emitting!Before, Parts!Prior, Emitting!Prior, Parts!Latest,
         Emitting!Latest, Parts!Event, Emitting!Event
<1>14. \A D : Parts!Reporters(D) = Emitting!Reporters(D)
  BY DEF Parts!Reporters, Emitting!Reporters
<1>15. \A lo : Parts!Clusters(lo) = Emitting!Clusters(lo)
  BY DEF Parts!Clusters, Emitting!Clusters, Parts!Reporters, Emitting!Reporters,
         Parts!Cardinality, Emitting!Cardinality, Parts!Present, Emitting!Present,
         Parts!Latest, Emitting!Latest, Parts!Event, Emitting!Event
<1>16. Parts!Crowding(1) = Emitting!Crowding(1)
  BY DEF Parts!Crowding, Emitting!Crowding, Parts!Present, Emitting!Present, Parts!Before,
         Emitting!Before, Parts!Prior, Emitting!Prior, Parts!Latest, Emitting!Latest,
         Parts!Event, Emitting!Event
<1>17. Parts!Filings(1) = Emitting!Filings(1)
  BY DEF Parts!Filings, Emitting!Filings, Parts!Present, Emitting!Present, Parts!Event,
         Emitting!Event
<1>18. Parts!Outliers(1) = Emitting!Outliers(1)
  BY <1>5, <1>7
     DEF Parts!Outliers, Emitting!Outliers
<1>19. \A F : Parts!Signals(F) = Emitting!Signals(F)
  BY DEF Parts!Signals, Emitting!Signals, Parts!Event, Emitting!Event
<1>20. \A n : Parts!From(n) = Emitting!From(n)
  BY <1>3
     DEF Parts!From, Emitting!From
<1>21. \A m, t : Parts!Gives(1, m, t) = Emitting!Gives(1, m, t)
  BY <1>10, <1>11, <1>12, <1>13, <1>15, <1>16, <1>17, <1>18, <1>19
     DEF Parts!Gives, Emitting!Gives
<1>22. Parts!Found = Emitting!Found /\ Parts!Batch = Emitting!Batch
  BY <1>21, <1>20, <1>3
     DEF Parts!Found, Emitting!Found, Parts!Batch, Emitting!Batch
<1>23. \A E : Parts!InWindow(E) = Emitting!InWindow(E)
  BY <1>3
     DEF Parts!InWindow, Emitting!InWindow
<1>24. \A E : Parts!Upserted(E) = Emitting!Upserted(E)
  BY DEF Parts!Upserted, Emitting!Upserted, Parts!Key, Emitting!Key
<1>25. \A r, n : Parts!NoGap(r, n) <=> Emitting!NoGap(r, n)
  BY DEF Parts!NoGap, Emitting!NoGap
<1> QED BY <1>1, <1>2, <1>3, <1>4, <1>5, <1>7, <1>14, <1>18, <1>19, <1>22, <1>23, <1>24, <1>25

LEMMA SameEmitterNext == Emitting!Next => Parts!Next
<1>1. Emitting!NextDay => Parts!NextDay
  BY SameEmitterTables DEF Emitting!NextDay, Parts!NextDay
<1>2. Emitting!Reclassify => Parts!Reclassify
  BY DEF Emitting!Reclassify, Parts!Reclassify
<1>3. Emitting!Ran => Parts!Ran
  BY SameEmitterTables DEF Emitting!Ran, Parts!Ran
<1>4. Emitting!Emit => Parts!Emit
  BY <1>3, SameEmitterTables DEF Emitting!Emit, Parts!Emit
<1>5. Emitting!EquityDies => Parts!EquityDies
  BY SameEmitterTables DEF Emitting!EquityDies, Parts!EquityDies
<1>6. Emitting!Detect => Parts!Detect
  BY SameEmitterTables DEF Emitting!Detect, Parts!Detect
<1>7. Emitting!Project => Parts!Project
  BY <1>3, SameEmitterTables DEF Emitting!Project, Parts!Project
<1> QED BY <1>1, <1>2, <1>4, <1>5, <1>6, <1>7 DEF Emitting!Next, Parts!Next

LEMMA SameEventsOwed == Parts!EventsAreOwed => Emitting!EventsAreOwed
<1>1. Parts!PairsAreCovered => Emitting!PairsAreCovered
  BY SameEmitterTables DEF Parts!PairsAreCovered, Emitting!PairsAreCovered
<1>2. Parts!NothingIsForgotten => Emitting!NothingIsForgotten
  BY <1>1, SameEmitterTables DEF Parts!NothingIsForgotten, Emitting!NothingIsForgotten
<1>3. Parts!ReplacedIsGone => Emitting!ReplacedIsGone
  BY SameEmitterTables DEF Parts!ReplacedIsGone, Emitting!ReplacedIsGone
<1> QED BY <1>2, <1>3
     DEF Parts!EventsAreOwed, Emitting!EventsAreOwed, Parts!NothingIsInvented,
         Emitting!NothingIsInvented, Parts!Fresh, Emitting!Fresh

LEMMA EmitterInit == Emitting!Init => Parts!EmitInv
<1>1. Emitting!Init => Parts!Init
  BY DEF Emitting!Init, Parts!Init, Emitting!Day, Parts!Day
<1> QED BY <1>1, EmittersAssumed, Parts!InitInv

\* Whatever the days, the lateness of rows, the days that jobs skip and the lengths of
\* the windows' parts: over a trailing window, over late and corrected rows, the stored
\* events of each emitter are those that one pass over the whole history finds.
THEOREM EventsAreStored == MCSpec => []EventsAreOwed
<1> DEFINE Inv == subject = "emitter" => Parts!EmitInv
<1>1. MCInit => Inv
  BY EmitterInit DEF MCInit
<1>2. Inv /\ [MCNext]_MCVars => Inv'
  <2> SUFFICES ASSUME Inv, [MCNext]_MCVars, subject = "emitter" PROVE Parts!EmitInv'
    BY OneReader
  <2>1. [Parts!Next]_(Parts!emittersVars)
    BY SameEmitterNext, OneReader DEF emitterVars, Parts!emittersVars
  <2> QED BY <2>1, EmittersAssumed, Parts!NextEmitInv
<1>3. Inv => EventsAreOwed
  BY SameEventsOwed, EmittersAssumed, Parts!EmitInvTells DEF EventsAreOwed
<1> QED BY <1>1, <1>2, <1>3, PTL DEF MCSpec
-----------------------------------------------------------------------------
\* The instance of the proofs speaks of the same definitions.
LEMMA SameParsers ==
    /\ \A S : Parts!Parse!Cardinality(S) = Parse!Cardinality(S)
    /\ \A S : Parts!Parse!Min(S) = Parse!Min(S)
    /\ \A S : Parts!Parse!Max(S) = Parse!Max(S)
    /\ \A f, S : Parts!Parse!SumFunctionOnSet(f, S) = Parse!SumFunctionOnSet(f, S)
    /\ \A s : Parts!Parse!Reverse(s) = Parse!Reverse(s)
    /\ Parts!Parse!Tabular = Parse!Tabular
    /\ Parts!Parse!FirstWins = Parse!FirstWins
    /\ \A p, r : Parts!Parse!Accepts(p, r) = Parse!Accepts(p, r)
    /\ \A p, r : Parts!Parse!Key(p, r) = Parse!Key(p, r)
    /\ \A p, s : Parts!Parse!Accepted(p, s) = Parse!Accepted(p, s)
    /\ \A p, s, S : Parts!Parse!Kept(p, s, S) = Parse!Kept(p, s, S)
    /\ \A p, s : Parts!Parse!RowsOf(p, s) = Parse!RowsOf(p, s)
    /\ \A s : Parts!Parse!ChartRows(s) = Parse!ChartRows(s)
    /\ \A p, s : Parts!Parse!Rows(p, s) = Parse!Rows(p, s)
    /\ \A s : Parts!Parse!Latest(s) = Parse!Latest(s)
    /\ \A p, s : Parts!Parse!Fails(p, s) = Parse!Fails(p, s)
    /\ \A s, p, q : Parts!Parse!RowBefore(s, p, q) = Parse!RowBefore(s, p, q)
    /\ \A n, s : Parts!Parse!Transactions(n, s) = Parse!Transactions(n, s)
    /\ \A r : Parts!Parse!BitwiseAccepts(r) = Parse!BitwiseAccepts(r)
    /\ \A s : Parts!Parse!Checkpoints(s) = Parse!Checkpoints(s)
    /\ \A s, S : Parts!Parse!Moved(s, S) = Parse!Moved(s, S)
    /\ \A s, a, x, y : Parts!Parse!Flow(s, a, x, y) = Parse!Flow(s, a, x, y)
    /\ \A s : Parts!Parse!Points(s) = Parse!Points(s)
    /\ \A s, i, j : Parts!Parse!Earlier(s, i, j) = Parse!Earlier(s, i, j)
    /\ \A s, i, j : Parts!Parse!FollowedBy(s, i, j) = Parse!FollowedBy(s, i, j)
    /\ \A s : Parts!Parse!Unlocks(s) = Parse!Unlocks(s)
    /\ \A x, y, n : Parts!Parse!DateWindows(x, y, n) = Parse!DateWindows(x, y, n)
    /\ \A r : Parts!Parse!Usable(r) = Parse!Usable(r)
<1>1. \A S : Parts!Parse!Cardinality(S) = Parse!Cardinality(S)
  BY DEF Parts!Parse!Cardinality, Parse!Cardinality
<1>2. \A S : Parts!Parse!Min(S) = Parse!Min(S)
  BY DEF Parts!Parse!Min, Parse!Min
<1>3. \A S : Parts!Parse!Max(S) = Parse!Max(S)
  BY DEF Parts!Parse!Max, Parse!Max
<1>4. \A f, S : Parts!Parse!SumFunctionOnSet(f, S) = Parse!SumFunctionOnSet(f, S)
  BY DEF Parts!Parse!SumFunctionOnSet, Parse!SumFunctionOnSet, Parts!Parse!FoldFunctionOnSet,
         Parse!FoldFunctionOnSet, Parts!Parse!MapThenFoldSet, Parse!MapThenFoldSet
<1>5. \A s : Parts!Parse!Reverse(s) = Parse!Reverse(s)
  BY DEF Parts!Parse!Reverse, Parse!Reverse
<1>6. Parts!Parse!Tabular = Parse!Tabular
  BY DEF Parts!Parse!Tabular, Parse!Tabular
<1>7. Parts!Parse!FirstWins = Parse!FirstWins
  BY DEF Parts!Parse!FirstWins, Parse!FirstWins
<1>8. \A p, r : Parts!Parse!Accepts(p, r) = Parse!Accepts(p, r)
  BY DEF Parts!Parse!Accepts, Parse!Accepts, Parts!Parse!Bea, Parse!Bea, Parts!Parse!Eia,
         Parse!Eia, Parts!Parse!Treasury, Parse!Treasury, Parts!Parse!Candle, Parse!Candle,
         Parts!Parse!YahooBar, Parse!YahooBar, Parts!Parse!Cot, Parse!Cot,
         Parts!Parse!ChartPoint, Parse!ChartPoint, Parts!Parse!Rank, Parse!Rank,
         Parts!Parse!Filing, Parse!Filing, Parts!Parse!Filing13F, Parse!Filing13F,
         Parts!Parse!Fact, Parse!Fact, Parts!Parse!Vintage, Parse!Vintage,
         Parts!Parse!ScreenerFund, Parse!ScreenerFund, Parts!Parse!Pool, Parse!Pool,
         Parts!Parse!Validator, Parse!Validator
<1>9. \A p, r : Parts!Parse!Key(p, r) = Parse!Key(p, r)
  BY DEF Parts!Parse!Key, Parse!Key
<1>10. \A p, s : Parts!Parse!Accepted(p, s) = Parse!Accepted(p, s)
  BY <1>8
     DEF Parts!Parse!Accepted, Parse!Accepted
<1>11. \A p, s, S : Parts!Parse!Kept(p, s, S) = Parse!Kept(p, s, S)
  BY <1>2, <1>3, <1>7
     DEF Parts!Parse!Kept, Parse!Kept
<1>12. \A p, s : Parts!Parse!RowsOf(p, s) = Parse!RowsOf(p, s)
  BY <1>9, <1>10, <1>11
     DEF Parts!Parse!RowsOf, Parse!RowsOf
<1>13. \A s : Parts!Parse!ChartRows(s) = Parse!ChartRows(s)
  BY DEF Parts!Parse!ChartRows, Parse!ChartRows, Parts!Parse!Accepted, Parse!Accepted,
         Parts!Parse!Max, Parse!Max, Parts!Parse!Accepts, Parse!Accepts, Parts!Parse!ChartPoint, Parse!ChartPoint
<1>14. \A p, s : Parts!Parse!Rows(p, s) = Parse!Rows(p, s)
  BY <1>12, <1>13
     DEF Parts!Parse!Rows, Parse!Rows
<1>15. \A s : Parts!Parse!Latest(s) = Parse!Latest(s)
  BY <1>3
     DEF Parts!Parse!Latest, Parse!Latest
<1>16. \A p, s : Parts!Parse!Fails(p, s) = Parse!Fails(p, s)
  BY <1>10, <1>12, <1>15
     DEF Parts!Parse!Fails, Parse!Fails, Parts!Parse!BeaFails, Parse!BeaFails,
         Parts!Parse!EiaFails, Parse!EiaFails, Parts!Parse!TreasuryFails, Parse!TreasuryFails,
         Parts!Parse!PoolsFail, Parse!PoolsFail
<1>17. \A s, p, q : Parts!Parse!RowBefore(s, p, q) = Parse!RowBefore(s, p, q)
  BY DEF Parts!Parse!RowBefore, Parse!RowBefore
<1>18. \A n, s : Parts!Parse!Transactions(n, s) = Parse!Transactions(n, s)
  BY <1>17, <1>1
     DEF Parts!Parse!Transactions, Parse!Transactions
<1>19. \A r : Parts!Parse!BitwiseAccepts(r) = Parse!BitwiseAccepts(r)
  BY DEF Parts!Parse!BitwiseAccepts, Parse!BitwiseAccepts, Parts!Parse!Reconciles,
         Parse!Reconciles
<1>20. \A s : Parts!Parse!Checkpoints(s) = Parse!Checkpoints(s)
  BY <1>2
     DEF Parts!Parse!Checkpoints, Parse!Checkpoints
<1>21. \A s, S : Parts!Parse!Moved(s, S) = Parse!Moved(s, S)
  BY <1>4
     DEF Parts!Parse!Moved, Parse!Moved
<1>22. \A s, a, x, y : Parts!Parse!Flow(s, a, x, y) = Parse!Flow(s, a, x, y)
  BY <1>21, <1>1
     DEF Parts!Parse!Flow, Parse!Flow
<1>23. \A s : Parts!Parse!Points(s) = Parse!Points(s)
  BY DEF Parts!Parse!Points, Parse!Points
<1>24. \A s, i, j : Parts!Parse!Earlier(s, i, j) = Parse!Earlier(s, i, j)
  BY DEF Parts!Parse!Earlier, Parse!Earlier
<1>25. \A s, i, j : Parts!Parse!FollowedBy(s, i, j) = Parse!FollowedBy(s, i, j)
  BY <1>23, <1>24
     DEF Parts!Parse!FollowedBy, Parse!FollowedBy
<1>26. \A s : Parts!Parse!Unlocks(s) = Parse!Unlocks(s)
  BY <1>23, <1>24, <1>25
     DEF Parts!Parse!Unlocks, Parse!Unlocks
<1>27. \A x, y, n : Parts!Parse!DateWindows(x, y, n) = Parse!DateWindows(x, y, n)
  BY <1>2
     DEF Parts!Parse!DateWindows, Parse!DateWindows
<1>28. \A r : Parts!Parse!Usable(r) = Parse!Usable(r)
  BY DEF Parts!Parse!Usable, Parse!Usable
<1> QED BY <1>1, <1>2, <1>3, <1>4, <1>5, <1>6, <1>7, <1>8, <1>9, <1>10, <1>11, <1>12, <1>13,
         <1>14, <1>15, <1>16, <1>17, <1>18, <1>19, <1>20, <1>21, <1>22, <1>23, <1>24, <1>25,
         <1>26, <1>27, <1>28

LEMMA SameTables == Parts!Parse!TablesAreRight => Parse!TablesAreRight
<1>1. Parts!Parse!UsableIsStored => Parse!UsableIsStored
  BY SameParsers DEF Parts!Parse!UsableIsStored, Parse!UsableIsStored
<1>2. Parts!Parse!RowsStay => Parse!RowsStay
  BY SameParsers DEF Parts!Parse!RowsStay, Parse!RowsStay
<1>3. Parts!Parse!OrderIsNothing => Parse!OrderIsNothing
  BY SameParsers DEF Parts!Parse!OrderIsNothing, Parse!OrderIsNothing
<1>4. Parts!Parse!TreasuryIsCurrent => Parse!TreasuryIsCurrent
  BY SameParsers DEF Parts!Parse!TreasuryIsCurrent, Parse!TreasuryIsCurrent
<1>5. Parts!Parse!TransactionsAreWhole => Parse!TransactionsAreWhole
  BY SameParsers DEF Parts!Parse!TransactionsAreWhole, Parse!TransactionsAreWhole
<1>6. Parts!Parse!CheckpointsStay => Parse!CheckpointsStay
  BY SameParsers DEF Parts!Parse!CheckpointsStay, Parse!CheckpointsStay
<1>7. Parts!Parse!FundsReconcile => Parse!FundsReconcile
  BY SameParsers DEF Parts!Parse!FundsReconcile, Parse!FundsReconcile
<1>8. Parts!Parse!FlowsAddUp => Parse!FlowsAddUp
  BY SameParsers DEF Parts!Parse!FlowsAddUp, Parse!FlowsAddUp
<1>9. Parts!Parse!UnlocksAddUp => Parse!UnlocksAddUp
  BY SameParsers DEF Parts!Parse!UnlocksAddUp, Parse!UnlocksAddUp
<1>10. Parts!Parse!WindowsTile => Parse!WindowsTile
  BY SameParsers DEF Parts!Parse!WindowsTile, Parse!WindowsTile
<1> QED BY <1>1, <1>2, <1>3, <1>4, <1>5, <1>6, <1>7, <1>8, <1>9,
         <1>10 DEF Parts!Parse!TablesAreRight, Parse!TablesAreRight

LEMMA SameParserInit == Parse!Init => Parts!Parse!Init
BY SameParsers DEF Parse!Init, Parts!Parse!Init

LEMMA SameParserNext == Parse!Next => Parts!Parse!Next
<1>1. \A p : Parts!Parse!Record(p) = Parse!Record(p)
  BY DEF Parts!Parse!Record, Parse!Record, Parts!Parse!Fields, Parse!Fields
<1>2. \A r : Parse!Arrive(r) => Parts!Parse!Arrive(r)
  BY DEF Parse!Arrive, Parts!Parse!Arrive, Parse!Bound, Parts!Parse!Bound
<1> QED BY <1>1, <1>2 DEF Parse!Next, Parts!Parse!Next

\* Whatever the payload, of whatever length and order: what is usable has a row, a row
\* stays, a strict parser's verdict does not hang on the order, sums and latest dates are
\* those of the payload, Form 4's rows are numbered from 0 without a gap, checkpoints and
\* windows are each other's continuation, and unlocks and flows add up.
THEOREM PayloadsAreTables == MCSpec => []TablesAreRight
<1> DEFINE Inv == subject = "parser" => Parts!Parsed
<1>1. MCInit => Inv
  BY SameParserInit, Parts!ParsedInit DEF MCInit
<1>2. Inv /\ [MCNext]_MCVars => Inv'
  <2> SUFFICES ASSUME Inv, [MCNext]_MCVars, subject = "parser" PROVE Parts!Parsed'
    BY OneReader
  <2>1. Parse!Next \/ UNCHANGED parserVars
    BY OneReader
  <2>2. CASE Parse!Next
    BY <2>2, SameParserNext, Parts!ParsedNext
  <2>3. CASE UNCHANGED parserVars
    BY <2>3, Parts!ParsedStays DEF parserVars
  <2> QED BY <2>1, <2>2, <2>3
<1>3. Inv => TablesAreRight
  BY SameTables, Parts!ParsedTells DEF TablesAreRight
<1> QED BY <1>1, <1>2, <1>3, PTL DEF MCSpec
=============================================================================
