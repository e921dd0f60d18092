----------------------------- MODULE Normalizers -----------------------------
(***************************************************************************)
(* The normalizers that read the blobs of one collector run and upsert     *)
(* them in one transaction: which run they take, what they check of it     *)
(* against the watchlist of the moment, and CoinGecko's ranks, a day of    *)
(* which is deleted and written again while a second normalizer may run.   *)
(*                                                                         *)
(* Data.  A series stands for a table line, a product, a ticker, a coin.   *)
(* A payload parses, or makes the parser raise.                            *)
(***************************************************************************)
EXTENDS Naturals, Sequences, FiniteSets

CONSTANTS
    Series,
    MaxCollects     \* bound: collector runs

Strict  == {"bea", "eia", "treasury"}
Candles == {"coinbase", "yahoo"}
Feeds   == Strict \cup Candles \cup {"coingecko", "sec"}

VARIABLES
    feed,
    watched,    \* the series the watchlist names now
    runs,       \* meta.ingest_runs of the feed, in the order they started
    tables,     \* series -> run its rows come from, 0 if none
    last,       \* the last normalization: its run and the watchlist it read
    \* The rank table and two normalizers that write one day of it.
    rank,       \* coin -> run, committed
    holder,     \* who holds the table lock, 0 if nobody
    tx          \* normalizer -> its transaction

normalizerVars == <<feed, watched, runs, tables, last, rank, holder, tx>>

Nobody == 0
Writer == {1, 2}
Coin   == 1..3
\* The top list of each run: they share one coin.
Top    == <<{1, 2}, {2, 3}>>

Init ==
    /\ feed \in Feeds
    /\ watched \in SUBSET Series \ {{}}
    /\ runs = <<>> /\ tables = [s \in Series |-> 0] /\ last = [run |-> 0, watched |-> {}]
    /\ rank = [c \in Coin |-> 0] /\ holder = Nobody
    /\ tx = [w \in Writer |-> [step |-> "idle", deleted |-> {}]]

rankVars == <<rank, holder, tx>>
runVars  == <<watched, runs, tables, last>>

\* watchlists.yml is edited between a collect and its normalizer.
EditWatchlist ==
    /\ \E w \in SUBSET Series \ {{}, watched} : watched' = w
    /\ UNCHANGED <<feed, runs, tables, last, rankVars>>

\* A collector run of CollectorRuns: strict ones and the candles fail with any
\* failure, CoinGecko succeeds without an optional endpoint.
Collect(endpoint) ==
    /\ Len(runs) < MaxCollects
    /\ endpoint = "backfill" => feed \in Candles
    /\ \E stored \in SUBSET watched, odd \in SUBSET Series :
          /\ odd \subseteq stored
          /\ runs' = Append(runs,
                [endpoint |-> endpoint, blobs |-> stored, odd |-> odd,
                 partial |-> watched \ stored,
                 status |-> IF stored = watched \/ (feed = "coingecko" /\ stored # {})
                            THEN "success" ELSE "failed"])
    /\ UNCHANGED <<feed, watched, tables, last, rankVars>>

-----------------------------------------------------------------------------
Succeeded(endpoints) == {r \in DOMAIN runs : runs[r].status = "success" /\ runs[r].endpoint \in endpoints}

\* latest_collector_run_id: the latest to start among those that succeeded.
LatestCollectorRunId(endpoints) == {r \in Succeeded(endpoints) : \A q \in Succeeded(endpoints) : q <= r}

\* _validate_source_run_row: the run has the right endpoint, succeeded, and
\* names no endpoint it missed.
ValidateSourceRunRow(r) ==
    runs[r].endpoint = "collect" /\ runs[r].status = "success" /\ runs[r].partial = {}

\* Fault: a series the run never asked for is passed over.
ValidateBlobCoverageNot(r) == TRUE

\* _validate_blob_coverage: every series watched now has a blob in the run.
ValidateBlobCoverage(r) == watched \subseteq runs[r].blobs

\* The run's blobs of these series in one transaction.
Write(r, series) ==
    /\ tables' = [s \in Series |-> IF s \in series THEN r ELSE tables[s]]
    /\ last' = [run |-> r, watched |-> watched]
    /\ UNCHANGED <<feed, watched, runs, rankVars>>

\* A watched series that does not parse fails the normalizer's run.
StrictNormalize(f, r) ==
    /\ feed = f
    /\ ValidateSourceRunRow(r) /\ ValidateBlobCoverage(r)
    /\ runs[r].odd \cap watched = {}
    /\ Write(r, watched \cap runs[r].blobs)

\* bea, eia and treasury normalize, of the run asked for or the latest.
BeaNormalize(r)      == StrictNormalize("bea", r)
EiaNormalize(r)      == StrictNormalize("eia", r)
TreasuryNormalize(r) == StrictNormalize("treasury", r)

\* Every blob of the run that its prefix names and that parses.
BlobsNormalize(f, r, endpoints) ==
    /\ feed = f
    /\ r \in LatestCollectorRunId(endpoints)
    /\ runs[r].blobs # {}
    /\ Write(r, runs[r].blobs \ runs[r].odd)

\* coinbase, yahoo normalize: a collect or a backfill, whichever started last.
CoinbaseNormalize(r) == BlobsNormalize("coinbase", r, {"collect", "backfill"})
YahooNormalize(r)    == BlobsNormalize("yahoo", r, {"collect", "backfill"})

\* sec normalize.
SecNormalize(r) == BlobsNormalize("sec", r, {"collect"})

\* coingecko normalize, but for the ranks.
CoinGeckoNormalize(r) == BlobsNormalize("coingecko", r, {"collect"})

-----------------------------------------------------------------------------
\* coingecko normalize, its ranks: lock, delete the day, upsert, commit.

Step(w, step) == tx[w].step = step

\* Fault: no lock.
LockRanksNot(w) ==
    /\ feed = "coingecko" /\ runs = <<>> /\ Step(w, "idle")
    /\ tx' = [tx EXCEPT ![w].step = "locked"]
    /\ UNCHANGED <<feed, rank, holder, runVars>>

\* LOCK TABLE ... IN SHARE ROW EXCLUSIVE MODE waits for the other's commit.
LockRanks(w) ==
    /\ feed = "coingecko" /\ runs = <<>> /\ Step(w, "idle") /\ holder = Nobody
    /\ holder' = w
    /\ tx' = [tx EXCEPT ![w].step = "locked"]
    /\ UNCHANGED <<feed, rank, runVars>>

\* DELETE sees what is committed when it starts.
DeleteDay(w) ==
    /\ Step(w, "locked")
    /\ tx' = [tx EXCEPT ![w] = [step |-> "deleted", deleted |-> {c \in Coin : rank[c] # 0}]]
    /\ UNCHANGED <<feed, rank, holder, runVars>>

\* bulk_upsert of this run's list, and the commit.
UpsertRanks(w) ==
    /\ Step(w, "deleted")
    /\ rank' = [c \in Coin |-> IF c \in Top[w] THEN w
                               ELSE IF c \in tx[w].deleted THEN 0 ELSE rank[c]]
    /\ holder' = Nobody
    /\ tx' = [tx EXCEPT ![w] = [step |-> "idle", deleted |-> {}]]
    /\ UNCHANGED <<feed, runVars>>

\* The process dies: its transaction leaves nothing.
Abort(w) ==
    /\ ~Step(w, "idle")
    /\ holder' = Nobody
    /\ tx' = [tx EXCEPT ![w] = [step |-> "idle", deleted |-> {}]]
    /\ UNCHANGED <<feed, rank, runVars>>

Next ==
    \/ EditWatchlist
    \/ \E endpoint \in {"collect", "backfill"} : Collect(endpoint)
    \/ \E r \in DOMAIN runs :
          BeaNormalize(r) \/ EiaNormalize(r) \/ TreasuryNormalize(r) \/ CoinbaseNormalize(r)
          \/ YahooNormalize(r) \/ SecNormalize(r) \/ CoinGeckoNormalize(r)
    \/ \E w \in Writer : LockRanks(w) \/ DeleteDay(w) \/ UpsertRanks(w) \/ Abort(w)

Spec == Init /\ [][Next]_normalizerVars

-----------------------------------------------------------------------------
\* What a strict normalizer leaves behind is one whole snapshot: every series
\* the watchlist named when it ran has its rows from the run it read, although
\* the watchlist was edited since the run was collected and some runs were
\* partial.  And the ranks of a day are always the list of one run, two
\* normalizers at once or not: a coin that fell out of the list does not stay.
SnapshotsAreOfOneRun ==
    /\ feed \in Strict => \A s \in last.watched : tables[s] = last.run
    /\ \/ \A c \in Coin : rank[c] = 0
       \/ \E w \in Writer : {c \in Coin : rank[c] # 0} = Top[w] /\ \A c \in Top[w] : rank[c] = w
=============================================================================
