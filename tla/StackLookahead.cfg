\* Eleven days from a Monday; the second Monday, day 8, is a holiday.
SPECIFICATION Spec
CONSTANTS
    LastDay = 11
    Holiday = {8}
    MaxGap = 4
    Back = 2
    Ahead = 2
    Cushion = 3
    Sampling = 2
INVARIANTS ReturnsStartKnown
CHECK_DEADLOCK FALSE
