SPECIFICATION FairRoomSpec
CONSTANTS
    Senders = {s1, s2}
    MaxRetries = 2
    MaxPosts = 2
    MaxFaults = 1
CHECK_DEADLOCK FALSE
INVARIANTS
    SequenceIsGapless
    StoredOnce
    DropsArePaid
    SentInOwnOrder
PROPERTIES
    LogSpec
    EverySaveReturns
