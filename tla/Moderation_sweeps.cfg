\* Two twins, one of them denied later, and two sweeps: an item more than a
\* sweep takes, so that rows wait for the next one.
CONSTANTS
    a = a
    b = b
    Items = {a, b}
    Twins = {a, b}
    DeniedBySweep = {b}
    DeniedByItem = {a}
    NoItem = NoItem
    BatchSize = 1
    MaxEvents = 2
SPECIFICATION Spec
CHECK_DEADLOCK FALSE
INVARIANT OneTwinAutoPublished
PROPERTIES DecisionsStand DeniedLeavesSite EveryItemIsModerated
