-------------------------------- MODULE MCLake --------------------------------
(***************************************************************************)
(* The parts of the lake that do not touch each other's tables, checked    *)
(* side by side: collectors, normalizers, readers, emitters. A behaviour   *)
(* is one of the module that subject names, and the variables of the       *)
(* others stand still.                                                     *)
(***************************************************************************)
EXTENDS SlotWindow, FiniteSets

\* The constants of the modules that LakeProofs and ReaderProofs prove about;
\* those of the others are given below.
CONSTANTS
    Obs, Value, MaxDay,                                 \* FredVintages
    PageSize, MaxPages, MaxDate,                        \* Paging
    Url, ResumeWindow, RetentionDays, BackfillDays, BackfillRuns,   \* BackfillResume
    SeriesIds, MaxCollects,                             \* Normalizers
    Process, CacheKey, Ttl, Timeout, MaxTime,           \* Readers, its cache
    Thread, MaxPoolSize,                                \* and its pool
    LlamaDays, LlamaRuns, MaxPoints,                    \* DefiLlamaTables
    NotebookRuns,                                       \* Notebook
    MonitorDays,                                        \* Monitoring
    StudyDays, Holidays, MaxGap, Back, Ahead, Cushion,  \* Studies
    EmitDays, LateDays, SlackDays, RegimeLookback, ClusterSpan, FilingLag,   \* Emitters
    Symbol, CoinRef, MaxEntries,                        \* Watchlist
    MaxRecords,                                         \* Parsers
    Scorer, Assets, ScoreDays, ScoreRuns, MacroSeries, Month, MacroReach,   \* Scoring
    TvlRows, TvlReach, VolumeReach, RevenueRows, Quarters, RowDays

ASSUME PagingBounds == PageSize \in Nat \ {0} /\ MaxDate \in Nat
ASSUME FredBounds == MaxDay \in Nat \ {0} /\ 0 \notin Value
ASSUME ResumeBounds == ResumeWindow \in Nat /\ RetentionDays \in Nat
ASSUME ReaderBounds ==
    /\ Ttl \in Nat /\ Timeout \in Nat /\ MaxPoolSize \in Nat
    /\ IsFiniteSet(Thread)
ASSUME LlamaBounds == LlamaDays \in Nat /\ MaxPoints \in Nat
ASSUME StudyBounds ==
    /\ StudyDays \in Nat /\ Back \in Nat \ {0} /\ Ahead \in Nat \ {0} /\ Cushion \in Nat
    /\ MaxGap \in Nat \ {0} /\ MaxGap <= Cushion + 1
    /\ \A d \in 1..(StudyDays + 1) : \E t \in d..(d + 6) : (t - 1) % 7 < 5 /\ t \notin Holidays
\* A period's holdings are told once no filing of it is due any more.
ASSUME EmitterBounds ==
    /\ EmitDays \in Nat /\ LateDays \in Nat /\ SlackDays \in Nat
    /\ RegimeLookback \in Nat /\ ClusterSpan \in Nat
    /\ FilingLag \in Nat /\ FilingLag <= LateDays
\* The stretches loaded are longer than what is compared.
ASSUME ScoreBounds ==
    /\ Assets \in Nat /\ MacroSeries \in Nat /\ ScoreDays \in Nat \ {0} /\ Quarters \in Nat /\ RowDays \in Nat
    /\ MacroReach \in Nat /\ Month \in 0..MacroReach
    /\ TvlReach \in Nat /\ TvlRows \in 1..(TvlReach + 1) /\ VolumeReach \in Nat
    /\ RevenueRows \in Nat /\ RevenueRows > 4

VARIABLES
    subject,
    today, revision, value, end, blob, fetched, asOf,
    loop, tied, upstream, atStart, epoch, page, total, began, data, outcome,
    source, answer, todo, stored, staged, written, failures, partial, status,
    date, rawBlobs, runNo, reachedOn, missed, succeeded,
    feed, watched, runs, tables, normalized, rank, holder, tx,
    now, entry, query, app, pool, pools, request,
    emitter, day, history, peer, flags, events, ran, first, dirty, owed,
    marketDay, series,
    file,
    kind, spec, watchDay, hour, lastRun, lastSuccess, newest, lastRow, earlier, passed, others, told,
    parser, payload,
    report, reported,
    scoreDay, macro, scoring, begun, scores,
    llamaTable, llamaRows, log,
    ingests, lakeRows, conn, supplied, interrupted, read, manifest

Fred == INSTANCE FredVintages WITH Twice <- FALSE
Paging == INSTANCE Paging
Collector == INSTANCE CollectorRuns WITH
    blobs <- stored, rows <- written, run <- status
Backfills == INSTANCE BackfillResume WITH
    Keep <- RetentionDays, LastDay <- BackfillDays, LastRun <- BackfillRuns,
    today <- date, status <- succeeded
Normalizer == INSTANCE Normalizers WITH Series <- SeriesIds, last <- normalized
Reading == INSTANCE Readers WITH Key <- CacheKey
Emitting == INSTANCE Emitters WITH
    Emitter <- {"crypto", "equity", "scoring", "tvl", "macro", "insider", "crowding", "filings", "anomaly"},
    LastDay <- EmitDays, Late <- LateDays, Slack <- SlackDays,
    Lookback <- RegimeLookback, Span <- ClusterSpan, Lag <- FilingLag,
    today <- day, rows <- history
Study == INSTANCE Studies WITH
    LastDay <- StudyDays, Holiday <- Holidays, Sampling <- 2,
    today <- marketDay
Watching == INSTANCE Watchlist WITH
    Key <- Symbol, Ref <- CoinRef
Monitor == INSTANCE Monitoring WITH
    LastDay <- MonitorDays, StaleHours <- 36, DriftHours <- 72, HeartbeatHours <- 48, WeeklyHours <- 60,
    ArraySample <- 1,
    day <- watchDay, run <- lastRun, success <- lastSuccess, blob <- newest, row <- lastRow
Parse == INSTANCE Parsers WITH
    Tolerance <- 2, MaxSkew <- 3
Report == INSTANCE Reports WITH
    LastDay <- 5, LastPeriod <- 3, MaxRows <- 4, Short <- 1, Long <- 2, Margin <- 3, Snapshot <- 4,
    Window <- 2, Back <- 2, RegimeMargin <- 1, Pool <- 3, rows <- reported
Score == INSTANCE Scoring WITH
    Process <- Scorer, LastDay <- ScoreDays, MaxRuns <- ScoreRuns,
    day <- scoreDay, run <- scoring, signals <- scores
Llama == INSTANCE DefiLlamaTables WITH
    LastDay <- LlamaDays, MaxRuns <- LlamaRuns, table <- llamaTable, rows <- llamaRows
Note == INSTANCE Notebook WITH
    MaxRuns <- NotebookRuns, runs <- ingests, rows <- lakeRows, data <- read

fredVars       == <<today, revision, value, end, blob, fetched, asOf>>
pagingVars     == <<loop, tied, upstream, atStart, epoch, page, total, began, data, outcome>>
collectorVars  == <<source, answer, todo, stored, staged, written, failures, partial, status>>
backfillVars   == <<date, rawBlobs, runNo, reachedOn, missed, succeeded>>
normalizerVars == <<feed, watched, runs, tables, normalized, rank, holder, tx>>
readerVars     == <<now, entry, query, app, pool, pools, request>>
emitterVars    == <<emitter, day, history, peer, flags, events, ran, first, dirty, owed>>
studyVars      == <<marketDay, series>>
monitorVars    == <<kind, spec, watchDay, hour, lastRun, lastSuccess, newest, lastRow,
                    earlier, passed, others, told>>
parserVars     == <<parser, payload>>
reportVars     == <<report, reported>>
scoreVars      == <<scoreDay, macro, scoring, begun, scores>>
llamaVars      == <<llamaTable, llamaRows, log>>
notebookVars   == <<ingests, lakeRows, conn, supplied, interrupted, read, manifest>>

MCVars == <<subject, vars, fredVars, pagingVars, collectorVars, backfillVars, normalizerVars,
            readerVars, emitterVars, studyVars, file, monitorVars, parserVars, reportVars, scoreVars, llamaVars, notebookVars>>

Absent == 0

NoPaging ==
    /\ loop = Absent /\ tied = Absent /\ upstream = Absent /\ atStart = Absent /\ epoch = Absent /\ page = Absent
    /\ total = Absent /\ began = Absent /\ data = Absent /\ outcome = Absent

NoCollector ==
    /\ source = Absent /\ answer = Absent /\ todo = Absent /\ stored = Absent /\ staged = Absent
    /\ written = Absent /\ failures = Absent /\ partial = Absent /\ status = Absent

NoNormalizer ==
    /\ feed = Absent /\ watched = Absent /\ runs = Absent /\ tables = Absent
    /\ normalized = Absent /\ rank = Absent /\ holder = Absent /\ tx = Absent

NoEmitter ==
    /\ emitter = Absent /\ day = Absent /\ history = Absent /\ peer = Absent /\ flags = Absent
    /\ events = Absent /\ ran = Absent /\ first = Absent /\ dirty = Absent /\ owed = Absent

NoMonitor ==
    /\ kind = Absent /\ spec = Absent /\ watchDay = Absent /\ hour = Absent /\ lastRun = Absent
    /\ lastSuccess = Absent /\ newest = Absent /\ lastRow = Absent /\ earlier = Absent
    /\ passed = Absent /\ others = Absent /\ told = Absent

NoScore ==
    /\ scoreDay = Absent /\ macro = Absent
    /\ scoring = Absent /\ begun = Absent /\ scores = Absent

NoLlama == llamaTable = Absent /\ llamaRows = Absent /\ log = Absent

NoNotebook ==
    /\ ingests = Absent /\ lakeRows = Absent /\ conn = Absent /\ supplied = Absent
    /\ interrupted = Absent /\ read = Absent /\ manifest = Absent

MCInit ==
    /\ subject \in {"gdelt", "fred", "paging", "collector", "backfill", "normalizer",
                    "cache", "pool", "emitter", "study", "watchlist", "watch", "parser", "report", "score", "llama", "notebook"}
    /\ Init /\ Fred!Init /\ Backfills!Init /\ Study!Init /\ Watching!Init
    /\ Reading!Init /\ (subject # "pool" => app = "starting")
    /\ IF subject = "paging" THEN Paging!Init ELSE NoPaging
    /\ IF subject = "collector" THEN Collector!Init ELSE NoCollector
    /\ IF subject = "normalizer" THEN Normalizer!Init ELSE NoNormalizer
    /\ IF subject = "emitter" THEN Emitting!Init ELSE NoEmitter
    /\ IF subject = "watch" THEN Monitor!Init ELSE NoMonitor
    /\ IF subject = "parser" THEN Parse!Init ELSE parser = Absent /\ payload = <<>>
    /\ IF subject = "score" THEN Score!Init ELSE NoScore
    /\ IF subject = "llama" THEN Llama!Init ELSE NoLlama
    /\ IF subject = "notebook" THEN Note!Init ELSE NoNotebook
    /\ IF subject = "report" THEN Report!Init ELSE report = Absent /\ reported = {}

SlotStep == Next /\ UNCHANGED <<fredVars, pagingVars, collectorVars, backfillVars, normalizerVars, readerVars, emitterVars, studyVars, file, monitorVars, parserVars, reportVars, scoreVars, llamaVars, notebookVars>>
FredStep == Fred!Next /\ UNCHANGED <<vars, pagingVars, collectorVars, backfillVars, normalizerVars, readerVars, emitterVars, studyVars, file, monitorVars, parserVars, reportVars, scoreVars, llamaVars, notebookVars>>
PagingStep == Paging!Next /\ UNCHANGED <<vars, fredVars, collectorVars, backfillVars, normalizerVars, readerVars, emitterVars, studyVars, file, monitorVars, parserVars, reportVars, scoreVars, llamaVars, notebookVars>>
CollectorStep == Collector!Next /\ UNCHANGED <<vars, fredVars, pagingVars, backfillVars, normalizerVars, readerVars, emitterVars, studyVars, file, monitorVars, parserVars, reportVars, scoreVars, llamaVars, notebookVars>>
BackfillStep == Backfills!Next /\ UNCHANGED <<vars, fredVars, pagingVars, collectorVars, normalizerVars, readerVars, emitterVars, studyVars, file, monitorVars, parserVars, reportVars, scoreVars, llamaVars, notebookVars>>
NormalizerStep == Normalizer!Next /\ UNCHANGED <<vars, fredVars, pagingVars, collectorVars, backfillVars, readerVars, emitterVars, studyVars, file, monitorVars, parserVars, reportVars, scoreVars, llamaVars, notebookVars>>
CacheStep == Reading!CacheNext /\ UNCHANGED <<vars, fredVars, pagingVars, collectorVars, backfillVars, normalizerVars, emitterVars, studyVars, file, monitorVars, parserVars, reportVars, scoreVars, llamaVars, notebookVars>>
PoolStep == Reading!PoolNext /\ UNCHANGED <<vars, fredVars, pagingVars, collectorVars, backfillVars, normalizerVars, emitterVars, studyVars, file, monitorVars, parserVars, reportVars, scoreVars, llamaVars, notebookVars>>
EmitterStep == Emitting!Next /\ UNCHANGED <<vars, fredVars, pagingVars, collectorVars, backfillVars, normalizerVars, readerVars, studyVars, file, monitorVars, parserVars, reportVars, scoreVars, llamaVars, notebookVars>>
StudyStep == Study!Next /\ UNCHANGED <<vars, fredVars, pagingVars, collectorVars, backfillVars, normalizerVars, readerVars, emitterVars, file, monitorVars, parserVars, reportVars, scoreVars, llamaVars, notebookVars>>
WatchlistStep == Watching!Next /\ UNCHANGED <<vars, fredVars, pagingVars, collectorVars, backfillVars, normalizerVars, readerVars, emitterVars, studyVars, monitorVars, parserVars, reportVars, scoreVars, llamaVars, notebookVars>>
MonitorStep == Monitor!Next /\ UNCHANGED <<vars, fredVars, pagingVars, collectorVars, backfillVars, normalizerVars, readerVars, emitterVars, studyVars, file, parserVars, reportVars, scoreVars, llamaVars, notebookVars>>
NotebookStep == Note!Next /\ UNCHANGED <<vars, fredVars, pagingVars, collectorVars, backfillVars, normalizerVars, readerVars, emitterVars, studyVars, file, parserVars, reportVars, scoreVars, llamaVars, monitorVars>>
LlamaStep == Llama!Next /\ UNCHANGED <<vars, fredVars, pagingVars, collectorVars, backfillVars, normalizerVars, readerVars, emitterVars, studyVars, file, parserVars, reportVars, scoreVars, monitorVars, notebookVars>>
ScoreStep == Score!Next /\ UNCHANGED <<vars, fredVars, pagingVars, collectorVars, backfillVars, normalizerVars, readerVars, emitterVars, studyVars, file, parserVars, reportVars, monitorVars, llamaVars, notebookVars>>
ReportStep == Report!Next /\ UNCHANGED <<vars, fredVars, pagingVars, collectorVars, backfillVars, normalizerVars, readerVars, emitterVars, studyVars, file, parserVars, monitorVars, scoreVars, llamaVars, notebookVars>>
ParserStep == Parse!Next /\ UNCHANGED <<vars, fredVars, pagingVars, collectorVars, backfillVars, normalizerVars, readerVars, emitterVars, studyVars, file, monitorVars, reportVars, scoreVars, llamaVars, notebookVars>>

MCNext ==
    /\ UNCHANGED subject
    /\ \/ subject = "gdelt" /\ SlotStep
       \/ subject = "fred" /\ FredStep
       \/ subject = "paging" /\ PagingStep
       \/ subject = "collector" /\ CollectorStep
       \/ subject = "backfill" /\ BackfillStep
       \/ subject = "normalizer" /\ NormalizerStep
       \/ subject = "cache" /\ CacheStep
       \/ subject = "pool" /\ PoolStep
       \/ subject = "emitter" /\ EmitterStep
       \/ subject = "study" /\ StudyStep
       \/ subject = "watchlist" /\ WatchlistStep
       \/ subject = "watch" /\ MonitorStep
       \/ subject = "parser" /\ ParserStep
       \/ subject = "report" /\ ReportStep
       \/ subject = "score" /\ ScoreStep
       \/ subject = "llama" /\ LlamaStep
       \/ subject = "notebook" /\ NotebookStep

MCSpec == MCInit /\ [][MCNext]_MCVars

-----------------------------------------------------------------------------
\* FredVintages: the stored intervals say of every past day what FRED said.
HistoryIsRight == subject = "fred" => Fred!HistoryIsRight

\* FredVintages: a start clipped by the request never becomes a key.
NoPseudoVintages == subject = "fred" => Fred!NoPseudoVintages

\* FredVintages: a closed vintage never changes.
ClosedIsFinal == Fred!ClosedIsFinal

\* Paging: a loop that returns has every row there was when it began, once, or of
\* rows that EIA does not tell apart as many as there were.
PagesLoseNothing == subject = "paging" => Paging!PagesLoseNothing

\* CollectorRuns: a success accounts for every request, one target's trouble
\* is its own, and only what is required fails a run.
RunsAreHonest == subject = "collector" => Collector!RunsAreHonest

\* BackfillResume: runs that resume from one another lose no URL and pass no
\* old payload off as new.
ResumeIsWholeAndTrue == subject = "backfill" => Backfills!ResumeIsWholeAndTrue

\* Normalizers, DefiLlamaTables: tables hold whole snapshots of one run, and runs
\* that follow one another, whole or in part, leave the latest of each thing.
SnapshotsAreOfOneRun ==
    /\ subject = "normalizer" => Normalizer!SnapshotsAreOfOneRun
    /\ subject = "llama" => Llama!TablesKeepUp

\* Readers: an answer out of the cache is younger than its time to live and one
\* statement timeout.
AnswersAreRecent == subject = "cache" => Reading!AnswersAreRecent

\* Readers, Notebook: however its first requests race, the API holds no more
\* connections than its pool may have; a notebook's reads are read-only, leave no
\* transaction behind, and are pinned to the runs of their rows.
ConnectionsAreKept ==
    /\ subject = "pool" => Reading!ConnectionsBounded
    /\ subject = "notebook" => Note!NotebooksAreSafe

\* Emitters: over a trailing window, late and corrected rows, the stored events
\* are those one pass over the whole history finds.
EventsAreOwed == subject = "emitter" => Emitting!EventsAreOwed

\* Studies, Scoring: a statistic of the past never changes as days arrive and is the
\* same whatever else was asked for with it; the scores of a run are of one regime,
\* as it read it, and one day, by a monotone rubric.
StudiesAreSound ==
    /\ subject = "study" => Study!StatisticsAreFinal /\ Study!BatchDoesNotMatter
    /\ subject = "score" => Score!ScoresAreSound

\* Watchlist: the file means the same to everyone who reads it.
FileIsOneTruth == subject = "watchlist" => Watching!FileIsOneTruth

\* Monitoring: a source that stops or drifts is told of, one that is well is not.
TroubleIsTold == subject = "watch" => Monitor!TroubleIsTold

\* Parsers: no parser loses, repeats or invents a row.
TablesAreRight == subject = "parser" => Parse!TablesAreRight

\* Reports: what a report says of a row does not depend on how it was asked.
ReportsAgree == subject = "report" => Report!ReportsAgree
=============================================================================
