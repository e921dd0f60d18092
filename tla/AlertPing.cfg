\* What alert_notify.py says of a failed POST.
SPECIFICATION Spec
CONSTANTS
    Weight <- MCWeight
    Rule <- MCRule
    Pager <- MCPager
    Event <- MCEvent
    Runner = {r1}
    Lookback = 2
    BatchSize = 1
    MaxAttempts = 2
    MaxDay = 3
PROPERTIES FailedPingIsNotFatal
