SPECIFICATION RouterSpec
CONSTANTS
    n1 = n1  n2 = n2  a = a  b = b  room = room
    a2 = a2  b1 = b1  b2 = b2  msg = msg
    Nodes = {n1, n2}
    Users = {a, b}
    Rooms = {room}
    Conns = {a2, b1, b2}
    Messages = {msg}
    NodeOf <- MCNodeOf
    UserOf <- MCUserOf
    Routes <- MCRoutes
    FirstMembers <- MCFirstMembers
    MaxRouterFaults = 1
CHECK_DEADLOCK FALSE
INVARIANTS Reachable NoDuplicates Delivered
SYMMETRY Symmetry
