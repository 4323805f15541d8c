CONSTANTS
    PortIds = {p1}
    d1 = d1
    d2 = d2
    Detectors = {d1, d2}
    PortOf <- OnePort
    Readings <- SomeReadings
    PageChoices <- TwoPages
    MaxAlarms = 2
    MaxQueued = 1
SPECIFICATION ViewFairSpec
INVARIANTS ViewFollowsSnapshot
PROPERTIES PagesCatchUp DisposedGoesQuiet
CHECK_DEADLOCK FALSE
