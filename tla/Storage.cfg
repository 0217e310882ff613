SPECIFICATION StorageSpec
CONSTANTS
    r1 = r1  r2 = r2  u1 = u1  u2 = u2
    Runs = {r1, r2}
    Arrivals <- MCArrivals
    MaxSeq = 3
    MaxBatches = 1
    MaxFaults = 1
    SegmentGap = 0  MaxChars = 3  MaxMessages = 2  Overlap = 1
    Handlers = {u1, u2}
    MaxFiles = 3
    RetryCount = 2
    MaxFilesFaults = 1
CHECK_DEADLOCK FALSE
INVARIANTS CursorIsCovered RowsMatchPoints ObjectsMatchRows AvatarIsThere OneAvatar
SYMMETRY Symmetry
