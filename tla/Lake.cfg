\* Two GDELT runners, the latest file at most one slot beyond what a window
\* reaches back to (MaxAdvance = Hours + 1), over two days and a half; then the
\* bounds of the modules with proofs. Those of the others are in MCLake.
SPECIFICATION MCSpec
CONSTANTS
    Runner = {r1, r2}
    Hours = 2
    DaySlots = 2
    MaxAdvance = 3
    MaxSlot = 5
    Obs = {1, 2}
    Value = {1, 2}
    MaxDay = 4
    PageSize = 3
    MaxPages = 3
    MaxDate = 5
    Url = {1, 2}
    ResumeWindow = 1
    RetentionDays = 2
    BackfillDays = 3
    BackfillRuns = 2
    SeriesIds = {1, 2}
    MaxCollects = 2
    Process = {1, 2}
    CacheKey = {1}
    Ttl = 2
    Timeout = 1
    MaxTime = 5
    Thread = {1, 2, 3}
    MaxPoolSize = 2
    LlamaDays = 2
    LlamaRuns = 3
    MaxPoints = 2
    NotebookRuns = 2
    MonitorDays = 3
    StudyDays = 8
    Holidays = {8}
    MaxGap = 4
    Back = 2
    Ahead = 2
    Cushion = 3
    EmitDays = 5
    LateDays = 1
    SlackDays = 1
    RegimeLookback = 1
    ClusterSpan = 1
    FilingLag = 1
    Symbol = {1, 2}
    CoinRef = {1, 2}
    MaxEntries = 3
    MaxRecords = 3
    Scorer = {1, 2}
    Assets = 2
    ScoreDays = 2
    ScoreRuns = 2
    MacroSeries = 2
    Month = 3
    MacroReach = 5
    TvlRows = 4
    TvlReach = 5
    VolumeReach = 4
    RevenueRows = 8
    Quarters = 5
    RowDays = 7
INVARIANTS
    NoSlotMissed
    HistoryIsRight NoPseudoVintages
    PagesLoseNothing RunsAreHonest ResumeIsWholeAndTrue SnapshotsAreOfOneRun
    AnswersAreRecent ConnectionsAreKept
    EventsAreOwed
    StudiesAreSound FileIsOneTruth TroubleIsTold TablesAreRight ReportsAgree
PROPERTIES
    ClosedIsFinal
CHECK_DEADLOCK FALSE
