\* One engine at a time, three days, events late and corrected.
SPECIFICATION FairSpec
CONSTANTS
    Weight <- MCWeight
    Rule <- MCRule
    Pager <- MCPager
    Event <- MCEvent
    Runner = {r1}
    Lookback = 2
    BatchSize = 1
    MaxAttempts = 2
    MaxDay = 3
INVARIANTS StacksAreRight NotifiedWasPaged NeverRepaged
PROPERTIES NewAlertHasCause AlertsGetThrough
