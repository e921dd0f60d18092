\* A value revised late on the boundary day may be revised again.
SPECIFICATION Spec
CONSTANTS
    Obs = {d1, d2}
    Value = {1, 2}
    MaxDay = 4
    Twice = TRUE
PROPERTIES
    VintagesAreImmutable
CHECK_DEADLOCK FALSE
