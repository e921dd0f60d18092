\* Two jobs one after the other, normalize takes the latest success.
SPECIFICATION FairSpec
CONSTANTS
    Job = {1}
    Required = {r1}
    Optional = {}
    MaxAttempts = 2
    PinRun = FALSE
    MaxRuns = 6
    MaxJobs = 2
    MaxClock = 2
INVARIANTS NormalizedIsVisible ConsumesOwnRun
PROPERTIES NoRegress JobEnds
