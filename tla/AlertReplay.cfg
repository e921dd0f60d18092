\* What alerts-daily.yml says of a re-run: three events, a lookback of four days.
SPECIFICATION SpecReplay
CONSTANTS
    Weight <- MCWeight
    Rule <- OneRule
    Pager <- OnePager
    Event <- ThreeEvents
    Runner = {r1}
    Lookback = 4
    BatchSize = 1
    MaxAttempts = 2
    MaxDay = 6
PROPERTIES ReplayIsQuiet
