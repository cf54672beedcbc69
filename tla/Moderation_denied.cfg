\* One published item that only the test of an item matches: no sweep takes it down.
CONSTANTS
    a = a
    Items = {a}
    Twins = {}
    DeniedBySweep = {}
    DeniedByItem = {a}
    NoItem = NoItem
    BatchSize = 1
    MaxEvents = 0
SPECIFICATION Spec
CHECK_DEADLOCK FALSE
PROPERTY AllDeniedLeaveSite
