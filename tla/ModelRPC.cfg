SPECIFICATION FairSpec
CONSTANTS
    c1 = c1  c2 = c2  w1 = w1  w2 = w2  minute = minute  day = day
    Calls = {c1, c2}
    Workers = {w1, w2}
    Images <- MCImages
    Buckets = {minute, day}
    Capacity <- MCCapacity
    Refill <- MCRefill
    Need <- MCNeed
    Window = 2
    QueueMax = 1
    MaxFaults = 1
INVARIANTS RateIsKept WaitingIsServed ImagesAreClaimed
PROPERTIES LimitEnds
