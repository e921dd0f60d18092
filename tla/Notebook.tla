-------------------------------- MODULE Notebook --------------------------------
(***************************************************************************)
(* Research reads of the lake while collectors write to it: a notebook's   *)
(* session on one pooled connection, helpers on a connection the caller    *)
(* supplies, and the manifest that pins an experiment to the ingest runs   *)
(* its data came from.                                                     *)
(*                                                                         *)
(* Data.  rows is a table: the run that wrote each key. A source has one   *)
(* endpoint. A query is modelled by the keys it selects, with or without   *)
(* the provenance column.                                                  *)
(***************************************************************************)
EXTENDS Integers, Sequences, FiniteSets, FiniteSetsExt

CONSTANTS
    MaxRuns     \* bound: runs of the collectors

Source == {1, 2}
Key    == {1, 2}

VARIABLES
    runs,       \* meta.ingest_runs: a sequence of [source, status]
    rows,
    conn,       \* the connection: [txn, readOnly, autocommit]
    supplied,   \* by whom, and how it was then
    interrupted,\* the kernel was interrupted during a read
    data,       \* what the experiment has read: [key, run]
    manifest

notebookVars == <<runs, rows, conn, supplied, interrupted, data, manifest>>

NoData     == {}
NoManifest == [of |-> "none", runs |-> {}, read |-> {}]

\* txn: "idle", "open", "readonly" (open and read-only) or "error". readOnly is the
\* connection's own default.
Fresh == [txn |-> "idle", readOnly |-> FALSE, autocommit |-> FALSE]

Connections == {c \in [txn : {"idle", "open", "readonly", "error"}, readOnly : BOOLEAN, autocommit : BOOLEAN] :
                   /\ c.autocommit => c.txn = "idle"
                   /\ c.txn = "open" => ~c.readOnly
                   /\ c.txn = "readonly" => c.readOnly}

Init ==
    /\ runs = <<>> /\ rows = [k \in Key |-> 0]
    /\ \/ conn = Fresh /\ supplied = [by |-> "session", was |-> conn]
       \/ conn \in Connections /\ supplied = [by |-> "caller", was |-> conn]
    /\ interrupted = FALSE /\ data = NoData /\ manifest = NoManifest

-----------------------------------------------------------------------------
\* The collectors, each row in the run's own transaction.

StartRun(s) ==
    /\ Len(runs) < MaxRuns /\ runs' = Append(runs, [source |-> s, status |-> "running"])
    /\ UNCHANGED <<rows, conn, supplied, interrupted, data, manifest>>

WriteRow(n, k) ==
    /\ runs[n].status = "running" /\ rows[k] # n
    /\ k = runs[n].source
    /\ rows' = [rows EXCEPT ![k] = n] /\ UNCHANGED <<runs, conn, supplied, interrupted, data, manifest>>

EndRun(n, status) ==
    /\ runs[n].status = "running" /\ status \in {"success", "failed"}
    /\ runs' = [runs EXCEPT ![n].status = status] /\ UNCHANGED <<rows, conn, supplied, interrupted, data, manifest>>

-----------------------------------------------------------------------------
\* The guard around a read.

\* NotebookSession._run_read_only_query sets the transaction read-only, which fails
\* in one that has failed, and ends it, whether the query succeeds or not.
SessionGuard ==
    IF conn.txn = "error" THEN [ok |-> FALSE, within |-> "error", ends |-> FALSE]
    ELSE [ok |-> TRUE, within |-> "readonly", ends |-> TRUE]

\* Fault: a transaction the caller had open is ended too.
GuardAndEnd(c) ==
    IF c.autocommit \/ (c.txn # "idle" /\ ~c.readOnly) THEN [ok |-> FALSE, within |-> c.txn, ends |-> FALSE]
    ELSE [ok |-> TRUE, within |-> "readonly", ends |-> TRUE]

\* _begin_supplied_read_only_transaction: an idle connection gets a transaction of the
\* helper's; one that is read-only by itself may be in the caller's.
Guard(c) ==
    IF c.autocommit \/ (c.txn # "idle" /\ ~c.readOnly) THEN [ok |-> FALSE, within |-> c.txn, ends |-> FALSE]
    ELSE [ok |-> TRUE, within |-> IF c.txn = "error" THEN "error" ELSE "readonly", ends |-> c.txn = "idle"]

GuardNow == IF supplied.by = "session" THEN SessionGuard ELSE Guard(conn)

\* _run_on_supplied_read_only_connection: the connection after a read. A caller's own
\* transaction stays open, in error if the query failed.
After(guard, succeeds) ==
    IF guard.ends THEN [conn EXCEPT !.txn = "idle"]
    ELSE [conn EXCEPT !.txn = IF succeeds THEN guard.within ELSE "error"]

Succeeds(guard, fails) == guard.ok /\ guard.within # "error" /\ ~fails

\* read_sql_rows, read_sql_df: what the keys hold now, joined to what was read before.
Read(keys, fails) ==
    LET guard == GuardNow
    IN  /\ conn' = IF guard.ok THEN After(guard, Succeeds(guard, fails)) ELSE conn
        /\ data' = IF Succeeds(guard, fails) THEN data \cup {[key |-> k, run |-> rows[k]] : k \in {k \in keys : rows[k] # 0}}
                   ELSE data
        /\ UNCHANGED <<runs, rows, supplied, interrupted, manifest>>

\* A KeyboardInterrupt is no Exception: nothing ends the transaction it aborts.
Interrupt ==
    /\ GuardNow.ok
    /\ conn' = [conn EXCEPT !.txn = "error"] /\ interrupted' = TRUE
    /\ UNCHANGED <<runs, rows, supplied, data, manifest>>

-----------------------------------------------------------------------------
\* Manifests.

\* _USABLE_RUN_STATES; nothing ends a run as partial.
Usable == {n \in DOMAIN runs : runs[n].status \in {"success", "partial"}}

\* Without ids: the latest usable run of each source.
LatestUsable(sources) ==
    {n \in Usable : runs[n].source \in sources /\ \A m \in Usable : runs[m].source = runs[n].source => m <= n}

\* ingest_run_ids_from_data
RunIds == {d.run : d \in data}

\* Fault: ids that are not found are left out.
FoundOf(ids, sources) == {n \in ids : runs[n].source \in sources}

\* _snapshot_manifest_on_connection with ids: all of them, or none.
ExactRuns(ids, sources) ==
    LET found == {n \in ids : runs[n].source \in sources}
    IN  IF ids \ found # {} THEN {} ELSE found

\* write_manifest, of the data's runs or the latest. The former takes no session: it
\* has a connection of its own unless one is supplied, and without ids asks nothing.
WriteManifest(exact, sources, fails) ==
    LET own == supplied.by = "session" /\ exact
        guard == IF own THEN [ok |-> TRUE, within |-> "readonly", ends |-> TRUE] ELSE GuardNow
        asks == ~exact \/ RunIds # {}
        of == IF exact THEN ExactRuns(RunIds, sources) ELSE LatestUsable(sources)
        missing == exact /\ asks /\ of = {}
        done == ~asks \/ (Succeeds(guard, fails) /\ ~missing)
    IN  /\ conn' = IF asks /\ ~own /\ guard.ok THEN After(guard, Succeeds(guard, fails)) ELSE conn
        /\ manifest' = IF done THEN [of |-> IF exact THEN "data" ELSE "latest", runs |-> of, read |-> RunIds]
                       ELSE manifest
        /\ UNCHANGED <<runs, rows, supplied, interrupted, data>>

\* get_session: another session on a connection of the pool, and other data.
NewSession ==
    /\ supplied.by = "session" /\ (data # NoData \/ interrupted)
    /\ conn' = Fresh /\ interrupted' = FALSE /\ data' = NoData /\ manifest' = NoManifest
    /\ UNCHANGED <<runs, rows, supplied>>

Next ==
    \/ \E s \in Source : StartRun(s)
    \/ \E n \in DOMAIN runs : (\E k \in Key : WriteRow(n, k)) \/ (\E status \in {"success", "failed"} : EndRun(n, status))
    \/ \E keys \in SUBSET Key, fails \in BOOLEAN : Read(keys, fails)
    \/ \E exact, fails \in BOOLEAN, sources \in {Source, {1}} : WriteManifest(exact, sources, fails)
    \/ Interrupt \/ NewSession

Spec == Init /\ [][Next]_notebookVars

-----------------------------------------------------------------------------
\* A call leaves no transaction of its own behind, unless it was interrupted, and
\* ends none of the caller's. What is read is read in a read-only transaction.
TransactionsAreReturned ==
    IF supplied.by = "session" THEN conn.txn = IF interrupted THEN "error" ELSE "idle"
    ELSE /\ ~interrupted /\ supplied.was.txn = "idle" => conn.txn = "idle"
         /\ supplied.was.txn \in {"open", "error"} => conn.txn = supplied.was.txn
         /\ supplied.was.txn = "readonly" => conn.txn \in {"readonly", "error"}
         /\ data # NoData => ~supplied.was.autocommit /\ (supplied.was.txn = "idle" \/ supplied.was.readOnly)

\* However the collectors went on in between, a manifest by data names the run of
\* every row that was read; one by latest run names only runs that have succeeded,
\* one to a source.
ManifestsAreExact ==
    /\ manifest.of = "data" => manifest.runs = manifest.read
    /\ manifest.of = "latest" =>
          /\ \A n \in manifest.runs : runs[n].status = "success"
          /\ \A n, m \in manifest.runs : runs[n].source = runs[m].source => n = m

NotebooksAreSafe == TransactionsAreReturned /\ ManifestsAreExact
=============================================================================
