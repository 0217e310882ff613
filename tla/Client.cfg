SPECIFICATION ClientSpec
CONSTANTS
    c1 = c1  c2 = c2  a1 = a1  a2 = a2
    Calls = {c1, c2}
    MaxSessions = 3
    MaxFaults = 1
    Senders = {a1, a2}
    MaxMessages = 3
    HistoryLimit = 2
    SendBuffer = 2
    MaxBreaks = 1
    MaxErrors = 1
    MaxCloses = 1
    Authors = {a1, a2}
    MaxRows = 4
    PageSize = 2
    MaxTime = 4
    PerSecond = 2
    MaxMoves = 2
    MaxShown = 4
CHECK_DEADLOCK FALSE
INVARIANTS SessionsAgree NothingSlipsPast ScreenShowsStored HistoryIsWhole
SYMMETRY Symmetry
