SPECIFICATION Spec
CONSTANTS
    t1 = t1
    t2 = t2
    t3 = t3
    r1 = r1
    r2 = r2
    w1 = w1
    w2 = w2
    Tasks = {t1, t2, t3}
    Requests = {r1, r2}
    RequestOf <- MCRequestOf
    Workers = {w1, w2}
    NoTask = NoTask
    QueueMax = 1
    EnqueueRetryMax = 2
    InputRetryMax = 2
    PublishRetryMax = 2
    MaxFaults = 2
CHECK_DEADLOCK FALSE
INVARIANTS
    AtMostOneExecution
    ReportsAreFinal
    PendingHasCarrier
    RunningHasOwner
    FinishedIsReported
PROPERTIES
    LifecycleSpec
    EveryTaskSettles
