\* Two pools, one deployed at block 3, two runs that overlap; chunks of two blocks.
SPECIFICATION FairSpec
CONSTANTS
    Runner = {r1, r2}
    Pools = 2
    Deployment <- MCDeployment
    ChunkSize = 2
    Lag = 1
    MaxBlock = 3
INVARIANTS
    NoGap
    WalkedIsStored
PROPERTIES
    EventsArrive
CHECK_DEADLOCK FALSE
