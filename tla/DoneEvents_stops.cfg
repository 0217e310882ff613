SPECIFICATION FairSpec
CONSTANTS
    Tasks = {t1, t2}
    MaxRetries = 1
    QueueMax = 3
    MaxFaults = 2
    MaxBreaks = 0
CHECK_DEADLOCK FALSE
PROPERTIES
    EveryEventSettles
