SPECIFICATION MCSpec
CONSTANTS
    Last = 2
    Fleets <- Fleet
    MaxKeys = 3
    MaxOutside = 1
    SnapVMs = {a, b}
    Tags = {s, t}
    NoTag = none
    MaxPresses = 6
    MaxOthers = 1
INVARIANTS DetailTicks
CHECK_DEADLOCK FALSE
