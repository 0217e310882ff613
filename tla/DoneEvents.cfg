SPECIFICATION FairSpec
CONSTANTS
    Tasks = {t1, t2}
    MaxRetries = 2
    QueueMax = 2
    MaxFaults = 4
    MaxBreaks = 1
CHECK_DEADLOCK FALSE
INVARIANTS
    NothingVanishes
    RepeatsArePaid
PROPERTIES
    SettlesOrStops
