\* The latest file two slots further on than the window reaches back.
SPECIFICATION Spec
CONSTANTS
    Runner = {r1}
    Hours = 2
    DaySlots = 2
    MaxAdvance = 4
    MaxSlot = 5
INVARIANTS NoSlotMissed
CHECK_DEADLOCK FALSE
