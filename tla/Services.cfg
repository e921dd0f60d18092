\* Two threads, a window of two permits per three time units, three attempts; three
\* filings, two documents to a run, one job that dies half way.
SPECIFICATION MCSpec
CONSTANTS
    Thread = {1, 2}
    Requests = 2
    Window = 3
    MaxAttempts = 3
    InitialBackoff = 1
    Multiplier = 2
    MaxBackoff = 2
    MaxJitter = 1
    MaxRetryAfter = 3
    MaxCalls = 1
    MaxPermits = 6
    Filings = 3
    Limit = 2
    MaxDeaths = 1
    Kinds = {"form4", "form13f"}
INVARIANTS WindowRespected SentBounded PauseHonoured MarkedIsStored
PROPERTIES NeverSpins CallEnds FilingsArrive
