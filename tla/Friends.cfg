SPECIFICATION Spec
CONSTANTS
    a = a  b = b  c1 = c1  c2 = c2
    Pair = {a, b}
    Calls = {c1, c2}
    MaxRequests = 2
    MaxFaults = 1
CHECK_DEADLOCK FALSE
INVARIANTS OneDirectRoom StaleFriendshipIsPaid 
SYMMETRY Symmetry
