SPECIFICATION FairSpec
CONSTANTS
    ws = ws
    consumer = consumer
    Streams = {s1, s2}
    Publishers = {ws, consumer}
    Scripts <- MCScripts
    RecentMax = 3
    Cap = 2
    MaxLeaves = 1
CHECK_DEADLOCK FALSE
INVARIANTS
    NothingTwice
    NothingLost
PROPERTIES
    FinalEventEndsStream
