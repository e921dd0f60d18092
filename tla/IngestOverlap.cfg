\* Two overlapping jobs, source run pinned.
SPECIFICATION Spec
CONSTANTS
    Job = {1, 2}
    Required = {r1}
    Optional = {o1}
    MaxAttempts = 1
    PinRun = TRUE
    MaxRuns = 4
    MaxJobs = 2
    MaxClock = 2
INVARIANTS IInv SuccessIsComplete LakeTraceable
PROPERTIES FinishedIsFinal ImplementsPublication
