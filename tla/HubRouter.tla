----------------------------- MODULE HubRouter -----------------------------
(***************************************************************************)
(* WebSocket connections of several API nodes: each node's Hub, its        *)
(* HubRouter with counts of local connections, and the node sets in Redis  *)
(* by which messages find the other nodes.                                 *)
(*                                                                         *)
(* The counts are changed under a mutex, the Redis sets after it is        *)
(* released, so the writes of two connections can pass each other.         *)
(***************************************************************************)
EXTENDS Naturals, Sequences, FiniteSets

CONSTANTS
    Nodes, Users, Rooms,
    Conns,       \* connections; each is opened at most once
    NodeOf,      \* the node a connection is accepted by
    UserOf,      \* its user
    Messages,    \* messages to route
    Routes,      \* where a message may come from and go to
    FirstMembers,\* room -> its members at the start
    MaxRouterFaults    \* bound on failing Redis calls, full send channels and restarts

ASSUME RouterAssumption ==
    /\ IsFiniteSet(Conns) /\ Nodes # {}
    /\ Users \cap Rooms = {}
    /\ NodeOf \in [Conns -> Nodes] /\ UserOf \in [Conns -> Users]
    /\ Routes \subseteq [node : Nodes, kind : {"direct"}, from : Users, to : Users]
                 \cup [node : Nodes, kind : {"broadcast"}, room : Rooms]
                 \cup [node : Nodes, kind : {"system"}, to : Users]
    /\ FirstMembers \in [Rooms -> SUBSET Users]
    /\ MaxRouterFaults \in Nat

VARIABLES
    stage,       \* where a connection's goroutines are
    rooms,       \* connection -> rooms read by Handle
    retract,     \* connection -> what OnDisconnect decided to remove from Redis
    clients,     \* node -> Hub.clients
    got,         \* connection -> how often a message was put into its send channel
    userConns, roomCount, userRooms,   \* the HubRouter's local maps, per node
    userNodes, roomNodes,              \* the Redis sets
    members,     \* room -> members, in the database
    routing,     \* message -> its phase, and the nodes still to be sent to
    wire,        \* node -> payloads published to its channel
    owed,        \* history: connections that were to get the message
    lapsed,      \* history: <<node, user or room>> removed or never added by a race or a fault
    routerFaults

hubVars == <<clients, got>>
localVars == <<userConns, roomCount, userRooms>>
redisVars == <<userNodes, roomNodes>>
routeVars == <<routing, wire, owed>>
routerVars == <<stage, rooms, retract, hubVars, localVars, redisVars, members, routeVars,
          lapsed, routerFaults>>

Stages == {"new", "counted", "live", "uncounted", "gone"}
Routings == [phase : {"idle", "routing", "done"}, node : Nodes, users : SUBSET Users,
             targets : SUBSET Nodes, selfLast : BOOLEAN]
Payloads == [users : SUBSET Users, msg : Messages]
Nothing == [user |-> FALSE, rooms |-> {}]
Unrouted == [phase |-> "idle", node |-> CHOOSE n \in Nodes : TRUE, users |-> {},
             targets |-> {}, selfLast |-> FALSE]

RouterTypeOK ==
    /\ stage \in [Conns -> Stages]
    /\ rooms \in [Conns -> SUBSET Rooms]
    /\ retract \in [Conns -> [user : BOOLEAN, rooms : SUBSET Rooms]]
    /\ clients \in [Nodes -> SUBSET Conns]
    /\ got \in [Conns -> [Messages -> Nat]]
    /\ userConns \in [Nodes -> [Users -> Nat]]
    /\ roomCount \in [Nodes -> [Rooms -> Nat]]
    /\ userRooms \in [Nodes -> [Users -> SUBSET Rooms]]
    /\ userNodes \in [Users -> SUBSET Nodes]
    /\ roomNodes \in [Rooms -> SUBSET Nodes]
    /\ members \in [Rooms -> SUBSET Users]
    /\ routing \in [Messages -> Routings]
    /\ wire \in [Nodes -> Seq(Payloads)]
    /\ owed \in [Messages -> SUBSET Conns]
    /\ lapsed \subseteq Nodes \X (Users \cup Rooms)
    /\ routerFaults \in 0..MaxRouterFaults

RouterInit ==
    /\ stage = [c \in Conns |-> "new"]
    /\ rooms = [c \in Conns |-> {}]
    /\ retract = [c \in Conns |-> Nothing]
    /\ clients = [n \in Nodes |-> {}]
    /\ got = [c \in Conns |-> [m \in Messages |-> 0]]
    /\ userConns = [n \in Nodes |-> [u \in Users |-> 0]]
    /\ roomCount = [n \in Nodes |-> [r \in Rooms |-> 0]]
    /\ userRooms = [n \in Nodes |-> [u \in Users |-> {}]]
    /\ userNodes = [u \in Users |-> {}]
    /\ roomNodes = [r \in Rooms |-> {}]
    /\ members = FirstMembers
    /\ routing = [m \in Messages |-> Unrouted]
    /\ wire = [n \in Nodes |-> <<>>]
    /\ owed = [m \in Messages |-> {}]
    /\ lapsed = {}
    /\ routerFaults = 0

Goto(c, from, to) == stage[c] = from /\ stage' = [stage EXCEPT ![c] = to]

RouterFault == routerFaults < MaxRouterFaults /\ routerFaults' = routerFaults + 1

-----------------------------------------------------------------------------
(* A connection is opened and closed. What it does under a mutex or by one    *)
(* channel operation is a step; its Redis calls of one direction are one      *)
(* step, since they are on different keys.                                    *)

\* Handle: hub.register, the user's rooms are read, and OnConnect holds its
\* mutex: a room is counted once per connection.
Connect(c) ==
    LET n == NodeOf[c]  u == UserOf[c]  mine == {r \in Rooms : u \in members[r]} IN
    /\ Goto(c, "new", "counted")
    /\ clients' = [clients EXCEPT ![n] = @ \cup {c}]
    /\ rooms' = [rooms EXCEPT ![c] = mine]
    /\ userConns' = [userConns EXCEPT ![n][u] = @ + 1]
    /\ userRooms' = [userRooms EXCEPT ![n][u] = @ \cup mine]
    /\ roomCount' = [roomCount EXCEPT ![n] =
                        [r \in Rooms |-> IF r \in mine THEN @[r] + 1 ELSE @[r]]]
    /\ UNCHANGED <<retract, got, redisVars, members, routeVars, lapsed, routerFaults>>

\* OnConnect: SADD user_nodes, and room_nodes of each room; readLoop starts.
Announce(c) ==
    LET n == NodeOf[c]  u == UserOf[c] IN
    /\ Goto(c, "counted", "live")
    /\ userNodes' = [userNodes EXCEPT ![u] = @ \cup {n}]
    /\ roomNodes' = [r \in Rooms |-> roomNodes[r] \cup (IF r \in rooms[c] THEN {n} ELSE {})]
    /\ lapsed' = lapsed \ ({<<n, u>>} \cup {<<n, r>> : r \in rooms[c]})
    /\ UNCHANGED <<rooms, retract, hubVars, localVars, members, routeVars, routerFaults>>

\* OnConnect ignores what Redis answers.
AnnounceFails(c) ==
    LET n == NodeOf[c]  u == UserOf[c] IN
    /\ RouterFault
    /\ Goto(c, "counted", "live")
    /\ \/ /\ userNodes' = [userNodes EXCEPT ![u] = @ \cup {n}]
          /\ lapsed' = (lapsed \ {<<n, u>>}) \cup {<<n, r>> : r \in rooms[c]}
       \/ /\ UNCHANGED userNodes
          /\ lapsed' = lapsed \cup {<<n, u>>} \cup {<<n, r>> : r \in rooms[c]}
    /\ UNCHANGED <<rooms, retract, hubVars, localVars, roomNodes, members, routeVars>>

\* Mutant of Uncount: the last connection is not told from the others.
UncountEach(c) ==
    LET n == NodeOf[c]  u == UserOf[c] IN
    /\ userConns' = [userConns EXCEPT ![n][u] = @ - 1]
    /\ userRooms' = userRooms
    /\ roomCount' = [roomCount EXCEPT ![n] =
                        [r \in Rooms |-> IF r \in userRooms[n][u] THEN @[r] - 1 ELSE @[r]]]
    /\ retract' = [retract EXCEPT ![c] =
            [user |-> TRUE, rooms |-> {r \in userRooms[n][u] : roomCount[n][r] <= 1}]]

\* OnDisconnect, under its mutex: rooms are uncounted once per user, when the
\* user's last connection to this node goes.
Uncount(c) ==
    LET n == NodeOf[c]
        u == UserOf[c]
        userGone == userConns[n][u] <= 1
        left == IF userGone THEN userRooms[n][u] ELSE {}
        goneRooms == {r \in left : roomCount[n][r] <= 1}
    IN
    /\ userConns' = [userConns EXCEPT ![n][u] = IF userGone THEN 0 ELSE @ - 1]
    /\ userRooms' = [userRooms EXCEPT ![n][u] = IF userGone THEN {} ELSE @]
    /\ roomCount' = [roomCount EXCEPT ![n] =
          [r \in Rooms |-> IF r \in goneRooms THEN 0 ELSE IF r \in left THEN @[r] - 1 ELSE @[r]]]
    /\ retract' = [retract EXCEPT ![c] = [user |-> userGone, rooms |-> goneRooms]]

\* The client goes away: the deferred function of readLoop, up to OnDisconnect.
Leave(c) ==
    /\ Goto(c, "live", "uncounted")
    /\ clients' = [clients EXCEPT ![NodeOf[c]] = @ \ {c}]
    /\ Uncount(c)
    /\ UNCHANGED <<rooms, got, redisVars, members, routeVars, lapsed, routerFaults>>

\* The hub has dropped the client: writeLoop drains the closed channel and
\* closes the socket, which ends readLoop; unregister then finds nothing.
LeaveDropped(c) ==
    /\ c \notin clients[NodeOf[c]]
    /\ Goto(c, "live", "uncounted")
    /\ Uncount(c)
    /\ UNCHANGED <<rooms, hubVars, redisVars, members, routeVars, lapsed, routerFaults>>

\* OnDisconnect: SREM user_nodes and room_nodes, as decided while the mutex was
\* held; another connection may have been counted since.
Retract(c) ==
    LET n == NodeOf[c]  u == UserOf[c]  r == retract[c] IN
    /\ Goto(c, "uncounted", "gone")
    /\ userNodes' = [userNodes EXCEPT ![u] = IF r.user THEN @ \ {n} ELSE @]
    /\ roomNodes' = [x \in Rooms |-> roomNodes[x] \ (IF x \in r.rooms THEN {n} ELSE {})]
    /\ lapsed' = lapsed \cup {<<n, v>> : v \in {w \in {u} : r.user /\ userConns[n][w] > 0}}
                        \cup {<<n, x>> : x \in {y \in r.rooms : roomCount[n][y] > 0}}
    /\ retract' = [retract EXCEPT ![c] = Nothing]
    /\ UNCHANGED <<rooms, hubVars, localVars, members, routeVars, routerFaults>>

\* SREM fails: the node stays in the sets and gets messages for nobody.
RetractFails(c) ==
    /\ RouterFault
    /\ Goto(c, "uncounted", "gone")
    /\ retract' = [retract EXCEPT ![c] = Nothing]
    /\ UNCHANGED <<rooms, hubVars, localVars, redisVars, members, routeVars, lapsed>>

-----------------------------------------------------------------------------
(* Membership, as far as it touches the node sets: group_handler.go. *)

\* AddMembers: the user's nodes join the room's nodes; no local map is told.
AddMember(r, u) ==
    /\ members[r] # {} /\ u \notin members[r]
    /\ members' = [members EXCEPT ![r] = @ \cup {u}]
    /\ roomNodes' = [roomNodes EXCEPT ![r] = @ \cup userNodes[u]]
    /\ UNCHANGED <<stage, rooms, retract, hubVars, localVars, userNodes, routeVars, lapsed, routerFaults>>

\* DismissGroup: nobody is a member, and the room's nodes are deleted.
Dismiss(r) ==
    /\ members[r] # {}
    /\ members' = [members EXCEPT ![r] = {}]
    /\ roomNodes' = [roomNodes EXCEPT ![r] = {}]
    /\ UNCHANGED <<stage, rooms, retract, hubVars, localVars, userNodes, routeVars, lapsed, routerFaults>>

-----------------------------------------------------------------------------
(* A message is routed. *)

\* Users whose connections a node's hub sends the message to.
Recipients(r) ==
    CASE r.kind = "direct" -> {r.from, r.to}
      [] r.kind = "broadcast" -> members[r.room]
      [] r.kind = "system" -> {r.to}

\* The nodes Redis names for them; SendSystemEventToUsers asks only its own hub.
Named(r) ==
    CASE r.kind = "direct" -> userNodes[r.to]
      [] r.kind = "broadcast" -> roomNodes[r.room]
      [] r.kind = "system" -> {}

\* Hub.run: a client whose channel is full is dropped. How full it is of other
\* traffic is not modelled: any of them may be. p is a payload.
Deliver(n, p) ==
    \E full \in SUBSET clients[n] :
        LET to == {c \in clients[n] : UserOf[c] \in p.users} IN
        /\ full \subseteq to
        /\ IF full = {} THEN UNCHANGED routerFaults ELSE RouterFault
        /\ clients' = [clients EXCEPT ![n] = @ \ full]
        /\ got' = [c \in Conns |-> IF c \in to \ full
                                    THEN [got[c] EXCEPT ![p.msg] = @ + 1] ELSE got[c]]

\* Mutant of Start: the sender's own node is forgotten when Redis names others.
StartForgetsSelf(m) ==
    /\ routing[m].phase = "idle"
    /\ \E r \in Routes, failed \in BOOLEAN :
        LET nodes == IF failed THEN {} ELSE Named(r)
            targets == nodes \cup {r.node}
        IN
        /\ IF failed THEN RouterFault ELSE UNCHANGED routerFaults
        /\ routing' = [routing EXCEPT ![m] = [phase |-> "routing", node |-> r.node,
              users |-> Recipients(r), targets |-> IF nodes = {} THEN targets ELSE nodes,
              selfLast |-> nodes = {}]]
        /\ owed' = [owed EXCEPT ![m] = {c \in UNION {clients[n] : n \in targets} :
                                          UserOf[c] \in Recipients(r)}]
    /\ UNCHANGED <<stage, rooms, retract, hubVars, localVars, redisVars, members, wire, lapsed>>

\* RouteDirectMessage, RouteBroadcast: SMEMBERS, or an error, which like an
\* empty set leaves only the node itself. It comes last if it was not named.
Start(m) ==
    /\ routing[m].phase = "idle"
    /\ \E r \in Routes, failed \in BOOLEAN :
        LET nodes == IF failed THEN {} ELSE Named(r)
            targets == nodes \cup {r.node}
        IN
        /\ IF failed THEN RouterFault ELSE UNCHANGED routerFaults
        /\ routing' = [routing EXCEPT ![m] = [phase |-> "routing", node |-> r.node,
              users |-> Recipients(r), targets |-> targets, selfLast |-> r.node \notin nodes]]
        /\ owed' = [owed EXCEPT ![m] = {c \in UNION {clients[n] : n \in targets} :
                                          UserOf[c] \in Recipients(r)}]
    /\ UNCHANGED <<stage, rooms, retract, hubVars, localVars, redisVars, members, wire, lapsed>>

Payload(m) == [users |-> routing[m].users, msg |-> m]

\* Target n of message m is next; the others are still to be sent to.
NextTarget(m, n) ==
    /\ n \in routing[m].targets
    /\ n = routing[m].node /\ routing[m].selfLast => routing[m].targets = {n}
    /\ routing' = [routing EXCEPT ![m].targets = @ \ {n},
                                       ![m].phase = IF routing[m].targets = {n} THEN "done" ELSE @]

\* Mutant of SendLocal: the node publishes to its own channel as well.
SendLocalTwice(m) ==
    LET n == routing[m].node IN
    /\ NextTarget(m, n)
    /\ Deliver(n, Payload(m))
    /\ wire' = [wire EXCEPT ![n] = Append(@, Payload(m))]
    /\ UNCHANGED <<stage, rooms, retract, localVars, redisVars, members, owed, lapsed>>

\* The node's own hub gets the message.
SendLocal(m) ==
    /\ NextTarget(m, routing[m].node)
    /\ Deliver(routing[m].node, Payload(m))
    /\ UNCHANGED <<stage, rooms, retract, localVars, redisVars, members, wire, owed, lapsed>>

\* PUBLISH to another node's channel; an error is only logged.
Publish(m, n) ==
    /\ n # routing[m].node
    /\ NextTarget(m, n)
    /\ \/ /\ wire' = [wire EXCEPT ![n] = Append(@, Payload(m))]
          /\ UNCHANGED <<owed, routerFaults>>
       \/ /\ RouterFault
          /\ owed' = [owed EXCEPT ![m] = @ \ {c \in Conns : NodeOf[c] = n}]
          /\ UNCHANGED wire
    /\ UNCHANGED <<stage, rooms, retract, hubVars, localVars, redisVars, members, lapsed>>

\* StartSubscriber: a payload of another node goes to the hub.
Receive(n) ==
    /\ wire[n] # <<>>
    /\ wire' = [wire EXCEPT ![n] = Tail(@)]
    /\ Deliver(n, Head(wire[n]))
    /\ UNCHANGED <<stage, rooms, retract, localVars, redisVars, members, routing, owed, lapsed>>

\* A node ends and starts again: its memory is gone, the Redis sets stay.
Restart(n) ==
    LET here == {c \in Conns : NodeOf[c] = n /\ stage[c] \notin {"new", "gone"}} IN
    /\ RouterFault
    /\ stage' = [c \in Conns |-> IF c \in here THEN "gone" ELSE stage[c]]
    /\ retract' = [c \in Conns |-> IF c \in here THEN Nothing ELSE retract[c]]
    /\ clients' = [clients EXCEPT ![n] = {}]
    /\ userConns' = [userConns EXCEPT ![n] = [u \in Users |-> 0]]
    /\ roomCount' = [roomCount EXCEPT ![n] = [r \in Rooms |-> 0]]
    /\ userRooms' = [userRooms EXCEPT ![n] = [u \in Users |-> {}]]
    /\ routing' = [m \in Messages |->
                    IF routing[m].node = n /\ routing[m].phase = "routing"
                    THEN [routing[m] EXCEPT !.phase = "done", !.targets = {}] ELSE routing[m]]
    /\ owed' = [m \in Messages |->
                    IF routing[m].node = n /\ routing[m].phase = "routing" THEN {} ELSE owed[m]]
    /\ wire' = [wire EXCEPT ![n] = <<>>]
    /\ UNCHANGED <<rooms, got, redisVars, members, lapsed>>

-----------------------------------------------------------------------------
Connection(c) ==
    \/ Connect(c) \/ Announce(c) \/ AnnounceFails(c) \/ Leave(c) \/ LeaveDropped(c)
    \/ Retract(c) \/ RetractFails(c)

Membership(r) == Dismiss(r) \/ \E u \in Users : AddMember(r, u)

Routing(m) == Start(m) \/ SendLocal(m) \/ \E n \in Nodes : Publish(m, n)

RouterNext ==
    \/ \E c \in Conns : Connection(c)
    \/ \E r \in Rooms : Membership(r)
    \/ \E m \in Messages : Routing(m)
    \/ \E n \in Nodes : Receive(n) \/ Restart(n)

RouterSpec == RouterInit /\ [][RouterNext]_routerVars

-----------------------------------------------------------------------------
\* A connection that is set up can be found by the other nodes, for direct
\* messages and for the rooms it was opened with, unless the SREM of an older
\* connection came after its SADD, or Redis failed.
Reachable ==
    \A c \in Conns : stage[c] = "live" =>
        LET n == NodeOf[c]  u == UserOf[c] IN
        /\ n \in userNodes[u] \/ <<n, u>> \in lapsed
        /\ \A r \in rooms[c] :
              n \in roomNodes[r] \/ <<n, r>> \in lapsed \/ members[r] = {}

\* No connection gets a message twice, although its user may be the sender and
\* the receiver's nodes may include the one that routes.
NoDuplicates == \A c \in Conns, m \in Messages : got[c][m] <= 1

\* A message that is neither on its way nor on the wire has reached each
\* connection that was open on the nodes it was sent to and still is: only a
\* hub that drops the client keeps it from one.
Delivered ==
    \A m \in Messages :
        (routing[m].phase = "done" /\ \A n \in Nodes : \A i \in DOMAIN wire[n] : wire[n][i].msg # m) =>
            \A c \in owed[m] : c \in clients[NodeOf[c]] => got[c][m] > 0
=============================================================================
