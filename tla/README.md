# Formal models of the Genkei research platform

TLA+ models of the parts of Genkei whose correctness depends on order, failure,
concurrency or boundaries: how data gets from a provider into the lake, how
HTTP requests are paced and repeated, how stored rows become signals, studies,
scores and reports, how signals become alerts, and who notices when a source
stops. TLC checks the models on small instances; TLAPS proves the most important
invariants for every value of the constants.

Paths below are relative to the repository; `db.py` and the like are under
`src/genkei/`.

## 1. Inventory

Genkei is a Python package (`src/genkei`), scheduled by GitHub workflows on one
self-hosted runner, around one Postgres database. No process stays up except the
read API and the MCP server; everything else is a short job that reads and writes
Postgres. There is no lock between jobs, and only one of them
(`alerts-daily.yml`) has a concurrency group.

| Component | State it keeps | Operations | Interacts with | Module |
|---|---|---|---|---|
| Run accounting and blobs (`common/db.py`) | `meta.ingest_runs`, `meta.raw_blobs`, the process-wide pool | `ingest_run`, `store_raw_blob`, `record_partial_endpoints`, `bulk_upsert`, read-only connections | every job | IngestPipeline, Readers |
| HTTP client (`common/http.py`) | the limiter's deque, the attempt loop | `request`, `get_json` | providers | HttpClient |
| `scripts/ci/retry.sh` | attempt counter | run, back off, give up | collectors, alert engine | IngestPipeline |
| DefiLlama (`ingest/defillama.py`, `normalize/defillama`) | runs, blobs, `defillama.*` | collect, normalize, backfill | db | IngestPipeline, BackfillResume, DefiLlamaTables |
| FRED (`ingest/fred.py`, `normalize/fred.py`) | vintage intervals in `fred.observations` | incremental window, boundary filter, full history, upsert | FRED | FredVintages |
| On-chain staking (`ingest/onchain_staking.py`) | `onchain.staking_events` | resume from `max(block)`, walk chunks, insert per chunk | Etherscan | BlockCursor |
| GDELT (`ingest/gdelt.py`) | blobs per slot, `gdelt.gkg` | window of slots, cached slots | GDELT | SlotWindow |
| SEC documents (`*/sec_form4.py`, `*/sec_form13f.py`) | which filings are dealt with | fetch the newest unmarked, normalize, mark | SEC submissions | FilingBacklog |
| The other collectors (`ingest/*`) | a run, its blobs, some a table of their own | `collect`, `--backfill` | HTTP client, db | CollectorRuns, Paging, Parsers |
| The other normalizers (`normalize/*`) | their lake tables | choose a run, check it, parse, upsert or replace | db | Normalizers, Parsers |
| Signal store and correlator (`experiments/signal_store.py`) | `meta.signal_events` | emit (upsert), query, detect stacks | emitters, alert engine | Correlator |
| Alert engine and webhook (`experiments/alert_*.py`) | `meta.alerts` with `notified_at` | correlate, insert by fingerprint, post in batches, stamp | signal store, Discord | AlertEngine |
| Detectors and emitters (`experiments/*`, `emitters/*`) | `meta.anomalies`, `meta.signal_events` | find events in a trailing window, upsert | lake, signal store | Emitters |
| Studies: event study, backtest, benchmarks | none | windows and returns over stored series | lake | Studies |
| Watchlist scores (`watchlist_scoring.py`) | `meta.signals` | load inputs, score, persist | lake, watchlist | Scoring |
| Watchlist file (`common/watchlist.py`) | one YAML file | load, look up | every collector, both price resolvers | Watchlist |
| Query cache, API, notebook | cache files, a pool of four, sessions, manifests | read-only queries | db | Readers, Notebook |
| Reports of the command line, digest | none | compute over a loaded stretch of rows | lake | Reports |
| Failure alert, staleness check, heartbeat, drift canary, banner | GitHub issues | read run accounting and workflow history | every source | Monitoring |
| MCP server, backups, migrations | none; dump files; schema | forward; shell; DDL | Postgres | none |

What is hard in it:

- **failure between transactions.** A job is a sequence of transactions. A process
  dies, a statement fails, or a commit succeeds and the client never hears of it,
  between any two; the marks of success and failure are transactions too.
- **overlap.** A schedule, a manual dispatch and a shell can run the same source at
  once, each choosing "the latest successful run" or `max(block)` for itself.
- **retry of what was already done.** `retry.sh` repeats a command whose first
  attempt may have committed; the HTTP client repeats requests; the alert engine
  posts again what it could not stamp; backfills resume from one another's blobs.
- **late, corrected and clipped data.** Events arrive late or change, FRED clips
  intervals at the request's boundary, an indexer lags behind the head, lists grow
  while they are paged.
- **sliding windows.** Emitters, the alert engine and most reports see a trailing
  stretch of the rows; what they compute may look back further.
- **partial failure.** Fifteen collectors have nearly as many ways to answer one
  failed request out of many, and some twenty parsers as many rules for a bad record.
- **boundaries.** A permit exactly a window old, a revision on the boundary day, a
  chunk that ends at the head, a holiday beside a weekend.

What makes each part correct is stated as the properties of section 3. The
hazards, at their lines, with the properties that cover them or the reason none
does, are in `PROJECT.json`.

## 2. Modules

| Module | Models |
|---|---|
| `IngestPipeline` | one source's daily job: `retry.sh`, `ingest_run`, `collect`, `normalize`; refines `LakePublication` |
| `LakePublication` | what a source promises its readers, without processes |
| `HttpClient` | limiter and attempt loop of threads that share a client |
| `Correlator` | `detect_stacks` for one asset as operators, and what it owes its reader |
| `AlertEngine`, `AlertReplay` | daily engine runs, the webhook, the emitters; the same with the history of events already read |
| `FredVintages` | one FRED series: upstream revisions, collector, normalizer |
| `BlockCursor` | staking collector runs over a growing chain |
| `SlotWindow` | GDELT collector runs over the slots GDELT publishes |
| `FilingBacklog` | Form 4 and 13F: the backlog, the documents, the marks |
| `CollectorRuns` | one run of each of fifteen collectors: requests, failures, what is stored and noted |
| `Paging` | the four paging loops over a list that grows |
| `BackfillResume` | DefiLlama backfills that resume from stored blobs |
| `Normalizers` | which run a normalizer takes and what it checks; the day of ranks that is replaced |
| `DefiLlamaTables` | what successive DefiLlama runs, whole or partial, leave in the tables |
| `Parsers` | from a payload's records to the rows of a table, by source |
| `Readers` | query cache of several processes, pool of several threads |
| `Notebook` | notebook sessions and manifests while collectors write |
| `Emitters` | nine emitters and the anomaly detector over a trailing window |
| `Studies` | which rows the studies' statistics are computed from |
| `Scoring` | the score command, its rubric and the rows behind it |
| `Watchlist` | the file, its loader, the collectors' targets, the price resolvers |
| `Reports` | reports whose numbers depend on rows that are not shown |
| `Monitoring` | the workflows and the banner that watch one source |
| `MCAlertEngine`, `MCBlockCursor`, `MCServices`, `MCLake` | values and compositions for TLC |
| `IngestPipelineProofs`, `AlertEngineProofs`, `BlockCursorProofs`, `FredVintagesProofs` | theorems about the module named, the second about `Correlator` too |
| `PartsProofs` | theorems about `Emitters` and `Parsers`, apart from the other variables of `MCLake` |
| `ServicesProofs` | theorems about `MCServices`: limiter, attempt loop, filing backlog |
| `LakeProofs`, `ReaderProofs` | theorems about subjects of `MCLake`: GDELT, backfills, normalizers, DefiLlama's tables, FRED, studies, scores; cache, pool, notebook, monitors, paging loops, watchlist file, emitters, parsers |

**Compositions by subject.** `MCLake` and `MCServices` put several modules side by
side that share no variable. A constant variable `subject`, chosen by `Init`, says
which of them moves; the variables of the others stand still, and each property
reads `subject = ... => ...`. The state spaces add up instead of multiplying, and
one run checks them all. It claims nothing about interaction: where parts
interact, one module holds them (`IngestPipeline`: wrapper, collector, normalizer;
`AlertEngine`: emitters, correlator, engine, webhook; `Monitoring`: a source and
four watchers; `Watchlist`: file, collectors, resolvers).

**IngestPipeline.** `pc[j]` is where job `j` is: collecting (`open`, `fetch`,
`record`, `succeed`, `raise`), between attempts (`retry`), or normalizing
(`normalize`, `upsert`, `nsucceed`, `nraise`). `cur` is `IngestRun.id`, `out` the
id the collector prints, `todo` and `lost` the loop's position and `partial` list.
`status`, `label`, `partial`, `sourceOf` are columns of `meta.ingest_runs`; `blob`
is `meta.raw_blobs`; `lake` and `lakeRun` are a lake table with one row per
endpoint. Each transaction is an action, and beside it stands its failure, with
both outcomes of a commit whose answer is lost (`OpenRunError`,
`RecordPartialError`, `MarkSuccessError`, `UpsertRaise`, ...). `Kill` may strike
any live process. A payload is the upstream version it was fetched at.

**HttpClient.** A permit is one `acquire` that returned; `held` is the deque.
Timestamps are kept as ages and sleeps as time left, because nothing in the code
depends on absolute time; ages stop at the window. The lock's critical section is
one action (`Grant` or `Wait`), the sleep outside it is another.

**Correlator and AlertEngine.** `Scan` is `_scan_asset_events`; `Covers`, `Apart`
and `Real` say without scanning what its result must be. A timestamp is a day; a
decaying rule has a half-life of one day and scores scaled to stay whole. An alert
is its fingerprint. `open` and `notified` are `meta.alerts` by `notified_at`,
`paged` is what the channel has shown. The emitters are an environment that may
add, correct or turn any event at any time. `calm` is the absence of faults.

**FredVintages.** `revision[d][s]` is the value FRED published for observation `d`
on day `s`; `value` and `end` are `fred.observations` by date and
`realtime_start`. `Response` is FRED's clipped window, `Filtered` the boundary
filter, `FullHistory` the chunked vintage fetch. `Drop` is a run the normalizer
never takes. FRED keeps one vintage a day.

**BlockCursor.** `logs[p]` are the blocks with principal events of pool `p`,
`stored[p]` those in the table; each runner has a `head`, a `cursor` and the
`rows` in hand. The chain grows by `Mine`; the provider serves logs up to
`indexed`, at most `Lag` behind. `Exit` drops a runner's variables.

**SlotWindow.** `latest` is the slot `lastupdate.txt` names, `skipped` those GDELT
left out, `blobs` and `rows` the slots in `meta.raw_blobs` and `gdelt.gkg`. A run
walks `at[r]` up to `last[r]`; `reach` is the end of the latest incremental window
walked to its end. `MaxAdvance` says how far GDELT gets between such runs.

**Collecting.** `CollectorRuns` gives a run a list of requests (a target and a
part) and an answer to each; `Fetch` is a collector's loop body, `Ends` what it
does after the loop, one operator per source because no two agree. `Paging` has
one action per page and loop; `Publish` adds a period's rows between two pages; where an endpoint lists two rows to one (`tied`),
the order of those is what its sort leaves it, again for each page. `FilingBacklog`
follows filings from the submissions list to their table, with documents that are
gone, do not parse, or parse to no row, 13F filings without a period of report, and
notices, which have no document. An answer of `CollectorRuns` may also be a 200 with
nothing usable in it (`hollow`), of collectors that parse what they fetch. `BackfillResume` keeps of a blob the day
it says it was fetched and the day it really was.

**Normalizing.** `Normalizers` chooses the run, checks it against the watchlist of
the moment and writes; the three steps of a rank replacement are actions of their
own with the table lock between two writers. `Parsers` enumerates payloads of up
to three records, each with a key, a date, and a value that may be null or
missing; a row is the set of records it comes from, so that lost, doubled and
invented rows can be seen. `DefiLlamaTables` keeps of a value the run that
supplied it.

**Reading and computing.** `Readers`, `Notebook`, `Scoring` have one action per
transaction or, in `Scoring`, per statement that sees a moment of its own: a run
reads its macro series one after the other (`LoadMacro`), then each asset. An asset's
own components are data; their rubric and the rows they come from are operators. `Studies` and `Reports` are mostly operators over a table that grows
one row at a time: a statistic is modelled by the rows it is computed from, so
that two ways to ask can be compared without arithmetic. `Emitters` abstracts a day's
row to the class its detector puts it in; rows may land a day late or be
corrected, runs may be missed, and `owed` collects what one pass over the whole
history would have found.

**Watching.** `Monitoring` follows one source hour by hour through collection, its
failure, a runner that is away, the staleness check and the heartbeat; `told` is
when an issue, comment or ping was last made. A payload's items are fit, odd (the
keys the schema expects are missing) or null (the keys are there, the values not):
the first give rows, and the drift canary sees only the second.

Operators commented "Fault:" are deliberate errors of the kind a change to the
code might introduce. No specification uses them; substituted for the definition
they follow, each makes one named property fail (`PROJECT.json`, "mutants"), which
shows that the property can.

## 3. What is checked

| Run | Instance | Properties |
|---|---|---|
| `ingest_serial` | two jobs one after the other, two attempts each, latest-success source | `NormalizedIsVisible`, `ConsumesOwnRun`, `NoRegress`, `JobEnds` |
| `ingest_overlap` | two jobs at once, pinned source, one required and one optional target | `IInv`, `SuccessIsComplete`, `LakeTraceable`, `FinishedIsFinal`, `ImplementsPublication` |
| `services` | two threads, two permits per three ticks, three attempts; beside it three filings, two documents a run, one death | `WindowRespected`, `SentBounded`, `PauseHonoured`, `NeverSpins`, `CallEnds`; `MarkedIsStored`, `FilingsArrive` |
| `alert_engine` | three days, four events (two share a natural event), a flat and a fading rule, one alert per message | `StacksAreRight`, `NotifiedWasPaged`, `NeverRepaged`, `NewAlertHasCause`, `AlertsGetThrough` |
| `block_cursor` | two runners, two pools, chunks of two, three blocks | `NoGap`, `WalkedIsStored`, `EventsArrive` |
| `lake` | seventeen subjects, see below | sixteen, see below |
| `alert_ping` | as `alert_engine` | `FailedPingIsNotFatal` **fails** |
| `alert_replay` | three events, a lookback of four days | `ReplayIsQuiet` **fails** |
| `fred_twice` | values revised twice around a boundary | `VintagesAreImmutable` **fails** |
| `gdelt_drift` | one runner, `MaxAdvance` two slots beyond the window | `NoSlotMissed` **fails** |
| `stack_lookahead` | eleven days with a Monday holiday | `ReturnsStartKnown` **fails** |
| `insider_rerun` | five days, one emitter | `RerunIsNoOp` **fails** |

The run `lake`, by subject:

| Property | Module | Instance |
|---|---|---|
| `NoSlotMissed` | SlotWindow | two runners, windows and days of two slots, five slots, `MaxAdvance` one slot beyond the window |
| `HistoryIsRight`, `NoPseudoVintages`, `ClosedIsFinal` | FredVintages | two observations, two values, four days |
| `PagesLoseNothing` | Paging | pages of three, at most three pages, five dates, one or two rows to a date |
| `RunsAreHonest` | CollectorRuns | fifteen collectors, up to four requests, each usable, lost, refused, of the wrong shape or hollow |
| `ResumeIsWholeAndTrue` | BackfillResume | two URLs, two runs, three days, a resume window of one day |
| `SnapshotsAreOfOneRun` | Normalizers; DefiLlamaTables | seven feeds, two series, two collector runs; two writers of one day's ranks; six tables, two days of two points, two or three runs |
| `TablesAreRight` | Parsers | twenty parsers and the date windows, payloads of three records (`MaxRecords`) |
| `AnswersAreRecent` | Readers | two processes, one key, a life of two ticks, a timeout of one |
| `ConnectionsAreKept` | Readers; Notebook | three threads; two ingest runs, one session or supplied connection |
| `EventsAreOwed` | Emitters | nine emitters, five days, rows one day late, one missed run |
| `StudiesAreSound` | Studies; Scoring | eight days, a holiday, gaps of less than four days; two score processes, two macro series (`MacroSeries`), two assets, two days, five quarters, seven rows of a series |
| `FileIsOneTruth` | Watchlist | three entries of fourteen sections, two keys, two coins |
| `TroubleIsTold` | Monitoring | three days by the hour of each workflow |
| `ReportsAgree` | Reports | five days, three quarters, four rows of the wide tables, lookbacks of one and two rows |

What they show:

- **The lake is never torn.** `ImplementsPublication`: however jobs interleave,
  fail and die, a lake only moves by laying one whole successful run over it, and a
  published run never changes. `LakeTraceable`: the provenance columns are true.
  `SuccessIsComplete`: success never hides a missing target. With one job at a time
  the normalizer consumes its own job's run and the lake never goes back. Two
  unpinned jobs that overlap can break the last two, and no document promises
  otherwise.
- **Collectors are honest.** A success accounts for every request, a healthy target
  arrives although another fails, and only what is required fails a run. Exceptions
  the code has, written into the property: CFTC, ETF shares, iShares and Sui staking
  let a 200 with nothing usable in it pass as a success without a word; a payload of
  the wrong shape ends a run of CFTC, ETF shares or SEC, and an HTTP error one of the
  whale flows, whatever other targets answered. Paging returns every row there was
  when it began, once; of an EIA series with several rows to a period, only as many
  rows of each period as there were (divergence 8). A backfill resumed any number of
  times ends with every URL that could be had, and never passes an old payload off
  as new.
- **Normalizers write snapshots.** A strict feed's tables are all of one run; a
  day's ranks are one writer's, whole, although two run at once and die; a DefiLlama
  outage erases nothing that an earlier run stored.
- **Parsers** neither lose, double nor invent rows; a sum counts each amount once;
  adjacent windows share no transaction. Two exceptions are written into the property because the code
  has them: `normalize/sec.py` marks an accession as seen before it looks at the
  rest of the record, so an unfit record hides a good one of the same accession; and
  `sec_etf_shares.py` drops older checkpoints when a preferred concept appears.
- **The limiter holds its cap** with several threads sleeping outside the lock, at
  the exact window boundary, and without spinning; a server's pause survives the
  queue at the limiter.
- **Filings** that can be had reach their table, as long as fewer documents than a
  run's limit are hopeless: those are asked for again in every run, newest first.
- **Alerts.** The greedy scan neither loses nor makes up a stack for any stored set
  of events; a new alert has its cause in what the run read; only what reached the
  channel is stamped; an undelivered alert still inside the lookback gets through
  once faults stop.
- **Signals.** Emitters that see a trailing window, skip days and meet late rows
  store the events one pass over the whole history finds. Of insider clusters, whose
  detector tiles, only that every two insiders within a span of each other are covered
  by a cluster that ends between the first trade and a span after it (see finding 6). An
  event is judged against every history there was: emitters only upsert, so a
  correction leaves the event of the earlier row in place.
- **Studies and scores.** A statistic of the past never changes as days arrive, does
  not depend on what else was asked for, and training rows see nothing of the test
  rows. A run's scores share one macro component and one day, by a rubric that is
  monotone. The component may mix moments: each macro series is read by a statement
  of its own, and each asset on a connection of its own; nothing promises otherwise.
  No change is of a newer row with an older; how far apart the rows of a TVL change
  are depends on its source (divergence 9).
- **Reports** say the same of a row however they are asked; where a change is
  counted from a row older than what was loaded it is left out, never wrong. The
  exceptions written into the property: `cli/crowding.py` shows a CUSIP as new when
  it was held before the one earlier period loaded; `holdings` without flags sums an
  original and its amendment; the digest may tile differently when events stand in
  the window before those loaded.
- **The watchlist.** A usable entry is found whatever stands beside it, what the two
  price resolvers read is the same and is collected, and what some section requires
  is required, a coin being one target. An ETF ticker may be lost to an earlier entry
  without an issuer, and
  an unfit whale address stops every program.
- **FRED history.** For every day before the last normalized collection the stored
  intervals say what FRED said, in every mix of skipped days, lost runs and
  backfills, provided no observation is revised late on a boundary day and again
  before the next request (`Twice = FALSE`).
- **Staking.** Resuming at `max(block) + 1` leaves no hole although runs overlap
  and die between chunks, provided the log index is at most one block behind.
- **GDELT.** Nothing up to the last complete window is missing as long as the
  schedule drifts by one slot at most.
- **Watching.** A source that stops or drifts is told of by one of the workflows
  that watch it, and a healthy one by none, while the staleness check itself runs.
  With one exception: `check_payload` looks at an item's keys, so items whose values
  have become null or unreadable yield no rows, and nobody is told.

Where documents and code disagree, with the run that shows it (7 to 9 have no run
of their own: a passing run shows what the code does instead):

1. `alert_ping`: `alert_notify.py:140` "never raises". Only `URLError` is caught;
   an answer that times out or is cut off ends the run and forgets what was
   delivered.
2. `alert_replay`: `alerts-daily.yml:12` "inserts nothing and notifies nothing for
   stacks already seen". When the rolling window drops a stack's anchor, the rest
   of its events tile into stacks with new fingerprints.
3. `fred_twice`: `fred.py:233` "vintages are immutable". A value revised after the
   boundary day's collection and again before the next one arrives as one closed
   row, which the filter moves onto the older stored vintage.
4. `gdelt_drift`: `gdelt-daily.yml:12` "cron drift doesn't double-fetch or miss
   slots". The window reaches 24 hours back from the latest file, not to the last
   slot collected.
5. `stack_lookahead`: `stack_backtest.py:30` "never backward". Dates are rolled over
   weekends only; on an exchange holiday the return starts at the close before.
6. `insider_rerun`: `sec-daily.yml:114` "re-emitting them is a no-op". When the
   window slides past a cluster's first trades, the rest tile into another cluster.
7. `services`: `ingest/sec_form13f.py:30-34` "the normalizer still marks" 13F-NT
   notices. It marks only accessions with an XML blob
   (`normalize/sec_form13f.py:550-573`), and a notice never has one; what keeps the
   collector from asking for it again is its form. `MarkedIsStored` admits a mark
   without rows only for a document that was read or could not be.
8. `lake`: `ingest/eia.py:165` "page boundaries cannot duplicate or skip rows". The
   sort is by period alone (`eia.py:175`), while `normalize/eia.py:159-163` expects
   several facet projections and intra-period revisions, which share a period. Two
   periods of two rows and a page of three: the second page may begin with the row
   that ended the first, and its twin is lost while the total adds up.
   `PagesLoseNothing` says `EveryPeriodInNumber` of that case; with `EveryRowOnce` TLC
   finds the loss in three states.
9. `lake`: `watchlist_scoring.py:49` and `:237` "chain or protocol TVL 30d change". A
   chain's is between the ends of its newest 35 rows, 34 days when rows are daily; the
   statement for protocols (`:601-622`) has no LIMIT and compares rows up to 40 days
   apart, against the same thresholds. `TvlIsInOrder` says which.

**Bounds.** `MaxRuns`, `MaxJobs`, `MaxClock`, `MaxCalls`, `MaxPermits`, `MaxDay`,
`LastDay`, `MaxBlock`, `MaxTime`, `MaxEntries`, `MaxRecords`, `MaxRows` and the like
stop what grows without end. They are large enough for the cases that matter to
meet: two jobs with every combination of failures, four revisions of one
observation, a thread that retries while another waits for the same place, an
alert that fails on its day and is delivered by a later run, a backfill overtaken
by an incremental run inside a short last chunk, a blob that outlives its resume
window, an episode cut in two by a window with a late row in it, a fourth watchlist
entry that could only repeat a section's rule on a third, an expired entry that is
replaced before it is unlinked. Days, quarters and windows are scaled down together:
the 7 and 30 rows of a stablecoin change are 1 and 2, the margin 3, the snapshot
4, and the 30 and 45 days of the macro inputs are 3 and 5 (`Month`, `MacroReach`), a
chain's 35 rows, 40 days of TVL and 35 of volume are 4, 5 and 4 (`TvlRows`,
`TvlReach`, `VolumeReach`), the four macro series two (`MacroSeries`: each may be
read before or after a write, two are enough to differ), so that rows fall inside, on
and outside each. The exception is the rubric, whose thresholds are the
code's own numbers, sampled on both sides of each. Runners are few because every
property is about one run against the rest of the world; the theorems remove the
bound where they apply. The bounds of modules with theorems are constants of their
.cfg; those of the others stand where `MCLake` instantiates them. `MaxAdvance`, `Lag`, `Late`, `Slack` and the number of
hopeless filings are no bounds but assumptions about the world; GDELT's two runs
differ in the first. Deadlock is checked for IngestPipeline (through `AllEnded`),
the services and the alert engine; the others stop when their days, blocks or slots
run out.

**Fairness.** `JobEnds` assumes that a live process runs on: every HTTP call and
every database call has a timeout and the workflow has `timeout-minutes`.
`CallEnds` assumes time passes and threads are scheduled (httpx has a timeout).
`FilingsArrive` assumes the daily job comes round, and that a document that can be
had and is asked for again and again comes in the end. `AlertsGetThrough` assumes
that runs end and that the daily schedule comes round again, and faults must stop
for good. `EventsArrive` assumes that the index catches up, that there are moments
when no run is active, and that again and again a run reaches its end; nothing in
the code guarantees the last, a run that always fails on its first pool starves the
others.

## 4. What is proved

All for every value of the constants that satisfies the named assumptions.

**IngestPipelineProofs.** `IInv` is inductive. Besides types it says: rows exist
exactly up to `nextId` (`RowsExist`); a process inside `ingest_run` holds a running
row of the right label (`OwnsRun`) that no other process holds (`OwnsAlone`); every
target of its loop is still to do, stored, or noted (`LoopCovers`); and what a
normalizer reads is a successful collector run (`SourcesAreGood`). None of the
properties is inductive alone: `SuccessIsComplete` needs `LoopCovers` at the moment
of the success mark, `LakeTraceable` needs finished blobs to stay, which needs
`OwnsRun`. There is one lemma per action. From `Inductive` follow `TypeCorrect`,
`SuccessComplete`, `Traceable`, `FinishedFinal`, and `Implements`: each step is a
publication, a laying, or a stutter of `LakePublication`. Assumptions: the bounds
are naturals, `PinRun` a Boolean, `Required` and `Optional` disjoint.

Three more say when a job publishes what it collected. `ConsumesOwn` holds when the
source run is pinned or when one job runs at a time (`OneJob`), because then the run
it collects is the last row of the table (`CollectsLastRow`). `NormalizedVisible`
and `NeverRegresses` need `OneJob`: what the job is about to lay is not older than
the lake (`LakeCatchesUp`), which two overlapping jobs would break, pinned or not.

**ServicesProofs.** `RateIsLimited`: permits younger than the window are all in
the deque (`held` only loses aged ones), and the deque never exceeds `Requests`.
`AttemptsAreBounded` and `PausesAreHonoured` from the loop's own invariants.
`AcquireNeverSpins`: a thread that must wait computes its sleep from a permit that
eviction has left, so younger than the window, so the sleep is not zero.
`MarksAreTrue` of the filing backlog: a run never asks for a 13F notice, so what it
stores is a document that parses, to rows or to none, or one that does not
(`BacklogInv`), and what a normalizer marks it has either written or found to be one
of the others; a 13F without a period of report it passes over.

**AlertEngineProofs.** `StampMeansPaged`: what is counted as delivered has been
paged. `StampedStaysQuiet`: with one runner, queued alerts are open. Neither needs
anything of the correlator. `StacksFound` is about it alone: `Scan` is a recursive
function over the set of events not yet passed, and its meaning (`Covers`, `Apart`,
`Real`) is proved for every set by induction along the strict subset relation,
which is well founded on finite sets; the step is the greedy one, where the stack
found swallows the window it starts. The library's induction theorems take an
operator and cannot be used; the least counterexample is taken from
`WFMin` instead, for a set of counterexamples. `AlertsHaveCauses` joins it to the
engine: what a run correlates is what it read (`EventsRead`). Assumption
`EventsAreDated`: events are finitely many and have a day, windows are naturals.

**BlockCursorProofs.** `CursorInv` joins the types, that logs lie between
deployment and tip, that a fetched chunk holds every event up to the index as far
as it reaches, `NoGap` and `WalkedIsStored`. The two are inductive only together: a
resume at `max(block) + 1` is safe because of `NoGap`, and inserting a chunk keeps
`NoGap` because of what lies behind the cursor. `LagIsAtMostOne` is essential: with
a larger lag the claim is false.

**FredVintagesProofs.** `FredInv` joins the types, that upstream's revisions each
change the value (`Upstream`), that the stored table is right as of the last
collection, and that the waiting rows would make it right as of their own and touch
no closed interval. A table is `Right` when it holds vintages only, all those of
earlier days, closed where they ended and where the next one is stored, open
nowhere else; a vintage it lacks on a day where it has one of another observation
is the last of its series. That last clause is what makes the boundary filter
sound: a clipped row that closes an interval then belongs to the vintage the table
holds open, and one that opens an interval either repeats it or replaces it.
`WindowIsExact` shows by cases over the boundary row (`BoundaryRow`) that the
filtered window brings exactly the vintages that are not already stored as they
are, hence `StoresTheHistory`, `StoresVintagesOnly` and `KeepsClosedVintages`. All
are stated under `FredAssumption`: at least one day, 0 is no value, and
`Twice = FALSE`. Without the last the clause fails, which is finding 3.

**PartsProofs.** `EmittersKeepUp` says `EventsAreOwed` of all nine emitters, for any
number of days, lateness of rows, days that jobs skip, spans and lookbacks. The
invariant (`EmitInv`) turns on one day, `Pending`: the first whose row may have
changed since the last complete run. What the runs have covered before it is stored
(`Stored`), and however late the next run comes (`RunsInTime`) its window reaches back
to it (`SinceIs`): that is why the windows must be as long as they are. Between the
runs, what was stored stays owed because an event is told by the rows of its day and
before (`PastBatch`, one lemma per kind of event); `NothingIsInvented`, that corrected
flags are taken back (`FlagsFollow`) and that a stock's events change benchmark
(`PeersReplaced`) are inductive with it. `FoundIsBatch` is the one place where the
regimes' lookback counts: with no gap longer than it (`NoGap`) the regime before the
window is loaded. Score bands and insider clusters are recursive functions over days
and sets of days; that they exist and agree on equal histories is proved by least
counterexample (`BandExists`, `BandsAgree`, `ScanExists`, `ScanTells`), and
`ClustersCover` is the greedy argument: the scan that starts at or before a trade has
a cluster over the span from it. `EmitterAssumption` takes the bounds to be naturals
and one thing more, `Lag \leq Late`: a period's holdings are told on a day on which no
filing of it can land any more, because the window of 120 days exceeds the 45 days
filers have (`sec-daily.yml:122`).

Of the parsers it holds for payloads of any length. Nothing is kept between two
payloads, so the invariant (`Parsed`) only says that a payload is a sequence of the
parser's records; the work is in what the ten parts of `TablesAreRight` say of such
sequences, one lemma each (`UsableRows` to `WindowsDoTile`), joined in `ParsedTells`.
The first or last record of a key is found by the least number principle (`RowsAre`);
a reversed payload has the same records at other places (`Shuffled`); Form 4's row
numbers are the ranks of a total order, onto an initial stretch of the naturals
because ranks differ and are below the number of rows (`RanksAreWhole`); a quarter's
checkpoint is told by its first filing, which later filings leave alone
(`CheckpointIs`). Sums over sets of records are `SumFunctionOnSet`, a fold; the
library's fold induction cannot be instantiated, so that a sum exists and splits over
disjoint sets is proved by a smallest set for which it would not (`SmallestSet`,
`TotalExists`, `TotalAdds`, `TotalUnion`), and the unlocks of a growing series by the
earliest date up to which they would not add up.

**LakeProofs** states its theorems of `MCLake`, as the run `lake` checks them: a
step of the composition is a step of one subject (`OneSubject`), whose invariant
carries over. `FredHistoryIsRight`, `FredHasNoPseudoVintages` and `FredKeepsClosed`
are the three above by instance (`FredP`), where `Twice` is FALSE and `FredBounds`
gives the rest.

`NothingMissed`, of GDELT: `SlotInv` joins the types, that what a run parses is
stored, and that an incremental run has nothing missing behind it (`Walked`). It
assumes `Overlaps`: the latest file advances between complete runs by the window and
one slot at most. Then a window starts no later than after the slot the last one
reached, which is the step where the claim would fail.

`BackfillsResume`: every blob says when it was fetched; what the current run is to
reach of a URL it has reached within the window, and until retention overtakes it
the blob is still there (`BackfillInv`).

`SnapshotsAreWhole` has three parts. A strict normalizer's tables are those of its
last run for every name it was given (`SnapshotInv`). A rank writer past its lock
holds it, and what it has deleted is all there was (`RankInv`), so that putting it
back after a failure restores one writer's snapshot. DefiLlama's tables
(`LlamaInv`) relate each kind of table to the log of what runs were given: fees and
revenue of a day carry the greatest number of a run that had them, each by its own
endpoint; a listed protocol is never a stub; a day has one row, no older than the
last run that gave a point of it. That a maximum over the log exists, and moves with the log, is
proved from the least number principle (`LeastNat`, `LastIsMax`).

`StudiesAreFinal` has two parts. Of the studies it holds for any number of days, any windows and any calendar. The
lookups are characterised first, as the last row on or before a day and the first on
or after it (`BeforeIs`, `AfterIs`): a new day's row is later than both, so nothing
computed changes. That a batch loads what each member needs is the delicate half. A
stretch of a series serves a window when it reaches beyond both its ends by the
cushion (`StretchServes`), because by `StudyInv` a gap is no longer than that; then
every event, stack and filter that shares a load is shown to stay inside it, with
the weekday arithmetic of the availability dates done modulo seven. `StudyBounds`
states what the code relies on: a gap is at most a cushion long, the
exchange opens within any seven days, windows are positive.

Of the scores it holds for any number of processes, macro series, assets and days.
`ScoreInv`: a process computes for its own beginning and only with every macro series
read, none of which it reads twice; rows are written with the day and the macro
component of the run that wrote them; and there is one row to an asset and a day,
because persisting replaces by that key; a run that dies has written all or nothing.
That the rubric is monotone and that no series turns its verdict round are proved of
the code's own thresholds. The windows need three facts of the constants
(`ScoreBounds`), all true of the code's 30 of 45 days, 35 rows in 40 days and eight rows
of revenue: what is loaded reaches as far back as what is compared. The newest row of any window is
found by the least number principle (`ScoreNewest`), the n newest by counting
(`TvlIsWhole`). Of a TVL change the chain's rows and the protocols' stand-in, with and
without a zero at an end, are cases of their own.

**ReaderProofs**, of `MCLake` as well. `CachedIsRecent`: a stored answer was stamped
at most one statement timeout after it was true (`CacheInv`), with any number of
processes. `ReadersAreSafe`: there is one pool, because the API makes its own before
it serves and a command has one thread (`PoolInv`), and those in it never exceed
its size, by counting; a notebook finds a connection as it was supplied, but for a
transaction that failed under it (`ConnectionInv`), and its manifest names the runs
of the rows read (`ManifestInv`), which collectors can only add to.
`TroubleIsAlwaysTold`: the record of the latest run agrees with what it left (`RecordedBy`), everything in it is
earlier than now, and after a heartbeat a late workflow has been told of
(`ToldBy`). That a blob which gave no row is seen to drift needs an item in its sample
that is not merely nulled; the statement says so. The hours of the workflows are the code's and fixed; the days are not
bounded.

`PagesAreWhole` takes each of the four loops over a list that grows. A row's place
among those of its days (`Place`) is shown to be one more than the number of rows
before it, by a bijection (`PlaceCounts`), so a sorted list is the one in which each
row is in its place (`OrderPlaces`), whatever has been appended since. `PagingInv`
says that a running loop has read full pages of rows in their places and what the first page
said of the total; a loop ends on a short page, on the total, on the number of pages
(`PagesFill`, the only division) or on a cursor, and each is shown to lie no earlier
than the last row there was when it began. Sui's rows are of one epoch or the run is
over. Ties keep their places up to a swap within their date, which leaves the number
of rows of each date what it was: that is all that holds of EIA's.

`FileMeansOneThing` says `FileIsOneTruth` of a file of any length, over any symbols and
coins, and needs no assumption. The loops of a section and of the coins are
recursive functions over places in the file; that they exist, and their loop
invariants (`KeepsRight`: a usable entry so far is kept, unless an earlier one of its
key was taken; `TargetsRight`: a coin has one target, required if an entry so far
requires it), are proved by the least place where they would fail. From
them follow what `Find` returns (`FindIs`), that a usable entry is found
(`UsableFound`), and, by cases over the source asked for, that both resolvers agree and what they
read is on some collector's list (`Resolved`, `ReadIsCollected`).

`EventsAreStored` and `PayloadsAreTables` are `EmittersKeepUp` and `ParsedTells` by
instance (`Parts`): `SameEmitterTables`, `SameParsers` and the like show that the two
instances of a module speak of the same definitions. The first is under
`EmitterBounds`, the second needs no assumption.

Other assumptions of these two modules: `ResumeBounds`, `LlamaBounds`, `PagingBounds`
and `ReaderBounds` say that bounds are naturals, a page has at least one row and
threads are finitely many.

Only model-checked:

- liveness (`JobEnds`, `CallEnds`, `FilingsArrive`, `AlertsGetThrough`,
  `EventsArrive`): the prover handles neither fairness nor ENABLED;
- `RunsAreHonest`: fifteen finite tables of requests and answers without a constant
  to generalise; TLC's check is already every case of the model;
- `ReportsAgree`: it compares operators over all small tables, in which sums, sorts
  and windows by row count are computed.

## 5. Not modelled

Formatting, field by field mapping, SQL and YAML text, XML and HTML parsing,
configuration from the environment; arithmetic on decimals (returns, averages,
z-scores, t-statistics), of which the models keep which rows enter; chain
reorganisations; several assets, asset classes and directions in one alert engine;
`rows_written`; the commands that print rows as they are stored (`filings`,
`insiders`, `whales`, `cot`, `zcash`, ...); authentication and serialisation of the
API; the retention sweep of GDELT and the one-time repair scripts; the notebook's
validation of SQL text. The MCP server forwards to queries and keeps no state.
Backups are shell around other programs; migrations are a declarative schema whose
unique keys are the keys of functions here. `PROJECT.json` lists every component
with its status.

## 6. What is left

1. Several assets, asset classes and directions in `AlertEngine`: the fingerprint
   holds neither of the last two.
2. Two unpinned DefiLlama jobs with an abstract specification of what still holds.
3. The monitors' own monitors: the staleness check is not on the heartbeat's list.
4. The momentum view's refresh and the whale flows' calendar walk.
5. Proofs: of the reports, those that only look rows up.
