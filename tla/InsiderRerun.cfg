\* One emitter, the insiders' clusters, over five days.
SPECIFICATION Spec
CONSTANTS
    Emitter = {"insider"}
    LastDay = 5
    Late = 1
    Slack = 1
    Lookback = 1
    Span = 1
    Lag = 1
PROPERTIES RerunIsNoOp
CHECK_DEADLOCK FALSE
