---------------------------- MODULE MCHubRouter ----------------------------
EXTENDS HubRouter, TLC

CONSTANTS n1, n2, a, b, room, a2, b1, b2, msg

MCNodeOf == [c \in Conns |-> IF c = a2 THEN n2 ELSE n1]
MCUserOf == [c \in Conns |-> IF c = a2 THEN a ELSE b]

\* From a, on one node, to b or to the room, and an event for b on the other.
MCRoutes == {
    [node |-> n2, kind |-> "broadcast", room |-> room],
    [node |-> n2, kind |-> "direct", from |-> a, to |-> b],
    [node |-> n1, kind |-> "system", to |-> b]}

MCFirstMembers == room :> {a}

Symmetry == Permutations({b1, b2})
=============================================================================
