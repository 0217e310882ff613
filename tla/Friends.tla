------------------------------ MODULE Friends -------------------------------
(***************************************************************************)
(* Two users: their friend requests, their friendship, their direct room,  *)
(* the Redis entries about them, and the requests of both that run beside  *)
(* each other. A handler is a sequence of statements; only the acceptance  *)
(* of a request is one transaction, at PostgreSQL's READ COMMITTED.        *)
(*                                                                         *)
(* Left out: the third users a list contains, what is answered, the room's *)
(* member rows, and the notices to the clients.                            *)
(***************************************************************************)
EXTENDS Naturals

CONSTANTS
    Pair,        \* the two users
    Calls,       \* what handles HTTP requests and frames, one after the other
    MaxRequests, \* bound on rows of friend_requests
    MaxFaults    \* bound on statements and Redis calls that fail

ASSUME FriendsAssumption ==
    /\ \E a, b \in Pair : a # b /\ Pair = {a, b}
    /\ MaxRequests \in Nat /\ MaxFaults \in Nat

VARIABLES
    request,     \* row -> from whom, and its status
    friends,     \* the row of friendships is there
    rooms,       \* number of direct rooms of the two
    known,       \* Redis, friendship: "none", or "1" or "0"
    roomKey,     \* Redis, direct_room is set
    listed,      \* Redis, friend_ids of one: "none", or "1" if it has the other, or "0"
    call,        \* what a call is, what it has read, what it does next
    excused,     \* history: entries filled after they were outdated, or not deleted
                 \* because Redis failed
    faults

dbVars == <<request, friends, rooms>>
cacheVars == <<known, roomKey, listed>>
vars == <<dbVars, cacheVars, call, excused, faults>>

RequestIds == 1..MaxRequests
Other(u) == CHOOSE v \in Pair : v # u
NoRow == [from |-> CHOOSE u \in Pair : TRUE, status |-> "none"]
Statuses == {"none", "pending", "accepted", "rejected"}
Bit(b) == IF b THEN "1" ELSE "0"
Phases == {"idle", "insert", "reject", "begin", "row", "friend", "commit", "delIds", "delKeys",
           "fill", "room", "list"}

NewCall == [phase |-> "idle", by |-> CHOOSE u \in Pair : TRUE, id |-> 0, saw |-> FALSE, room |-> FALSE]

TypeOK ==
    /\ request \in [RequestIds -> [from : Pair, status : Statuses]]
    /\ friends \in BOOLEAN
    /\ rooms \in Nat
    /\ known \in {"none", "0", "1"} /\ listed \in {"none", "0", "1"}
    /\ roomKey \in BOOLEAN
    /\ call \in [Calls -> [phase : Phases, by : Pair, id : 0..MaxRequests,
                           saw : BOOLEAN, room : BOOLEAN]]
    /\ excused \in SUBSET {"known", "listed"}
    /\ faults \in 0..MaxFaults

Init ==
    /\ request = [i \in RequestIds |-> NoRow]
    /\ friends = FALSE /\ rooms = 0
    /\ known = "none" /\ roomKey = FALSE /\ listed = "none"
    /\ call = [c \in Calls |-> NewCall]
    /\ excused = {}
    /\ faults = 0

Fault == faults < MaxFaults /\ faults' = faults + 1

Enter(c, r) == call[c].phase = "idle" /\ call' = [call EXCEPT ![c] = r]

Goto(c, from, to) ==
    /\ call[c].phase = from
    /\ call' = [call EXCEPT ![c] = IF to = "idle" THEN NewCall ELSE [@ EXCEPT !.phase = to]]

\* The unique index (from, to, status): another row from u has this status.
Taken(u, status) == \E i \in RequestIds : request[i] = [from |-> u, status |-> status]

-----------------------------------------------------------------------------
(* AddFriend. *)

\* Two queries: are they friends, and is a request of either one pending?
AddFriend(c, u) ==
    /\ \/ /\ friends
          /\ Enter(c, NewCall)
          /\ listed' = "none"
          /\ excused' = excused \ {"listed"}
       \/ /\ ~friends
          /\ ~Taken(u, "pending") /\ ~Taken(Other(u), "pending")
          /\ Enter(c, [NewCall EXCEPT !.phase = "insert", !.by = u])
          /\ UNCHANGED <<listed, excused>>
    /\ UNCHANGED <<dbVars, known, roomKey, faults>>

\* The insert; the index refuses a second one from the same user.
InsertRequest(c) ==
    LET u == call[c].by  free == {i \in RequestIds : request[i].status = "none"} IN
    /\ Goto(c, "insert", "idle")
    /\ free # {}
    /\ request' = IF Taken(u, "pending") THEN request
                  ELSE [request EXCEPT ![CHOOSE i \in free : \A j \in free : i <= j] =
                                            [from |-> u, status |-> "pending"]]
    /\ UNCHANGED <<friends, rooms, cacheVars, excused, faults>>

-----------------------------------------------------------------------------
(* RespondFriendRequest: the row is read, and answered by its id alone. *)

Respond(c, u, i) ==
    /\ request[i] = [from |-> Other(u), status |-> "pending"]
    /\ \E next \in {"reject", "begin"} :
          Enter(c, [NewCall EXCEPT !.phase = next, !.by = u, !.id = i])
    /\ UNCHANGED <<dbVars, cacheVars, excused, faults>>

\* Rows locked by a transaction that accepts one of them.
Locked(i) == \E c \in Calls : call[c].phase \in {"row", "friend", "commit"} /\
                              request[call[c].id].from = request[i].from

\* The index refuses a second rejected row from the same user: then the request
\* stays pending, and the call is answered with an error.
Reject(c) ==
    LET i == call[c].id  r == request[i] IN
    /\ Goto(c, "reject", "idle")
    /\ ~Locked(i)
    /\ IF r.status = "none" \/ Taken(r.from, "rejected")
       THEN UNCHANGED request
       ELSE request' = [request EXCEPT ![i].status = "rejected"]
    /\ UNCHANGED <<friends, rooms, cacheVars, excused, faults>>

\* The transaction begins: it updates the row, and waits for another one that
\* holds a row of the same user.
AcceptRow(c) ==
    /\ Goto(c, "begin", "row")
    /\ ~Locked(call[c].id)
    /\ UNCHANGED <<dbVars, cacheVars, excused, faults>>

\* Is there a friendship?
AcceptLook(c) ==
    /\ call[c].phase = "row"
    /\ call' = [call EXCEPT ![c].saw = friends, ![c].phase = "friend"]
    /\ UNCHANGED <<dbVars, cacheVars, excused, faults>>

\* A transaction that has inserted the friendship and has not ended.
Inserting == \E c \in Calls : call[c].phase = "commit" /\ ~call[c].saw

\* The friendship is inserted unless it was seen: the unique index makes it
\* wait for another insert, and fail if there is one. Then the room is looked for.
AcceptFriend(c) ==
    /\ call[c].phase = "friend"
    /\ call[c].saw \/ ~Inserting
    /\ call' = [call EXCEPT ![c] = IF ~@.saw /\ friends THEN NewCall
                                   ELSE [@ EXCEPT !.room = rooms > 0, !.phase = "commit"]]
    /\ UNCHANGED <<dbVars, cacheVars, excused, faults>>

\* Mutant of AcceptCommit: the room is left to the first message.
AcceptCommitLazily(c) ==
    LET i == call[c].id IN
    /\ Goto(c, "commit", "delIds")
    /\ request' = [request EXCEPT ![i].status = "accepted"]
    /\ friends' = TRUE
    /\ UNCHANGED <<rooms, cacheVars, excused, faults>>

\* Earlier accepted rows of the same user go, the room is created if none was
\* seen, and all of it becomes visible.
AcceptCommit(c) ==
    LET i == call[c].id IN
    /\ Goto(c, "commit", "delIds")
    /\ request' = [j \in RequestIds |->
            IF j = i THEN (IF request[i].status = "none" THEN request[i]
                           ELSE [request[i] EXCEPT !.status = "accepted"])
            ELSE IF request[j] = [from |-> request[i].from, status |-> "accepted"]
                 THEN NoRow ELSE request[j]]
    /\ friends' = (friends \/ ~call[c].saw)
    /\ rooms' = IF call[c].room THEN rooms ELSE rooms + 1
    /\ UNCHANGED <<cacheVars, excused, faults>>

\* A statement fails and the transaction is rolled back.
AcceptFails(c) ==
    /\ Fault
    /\ \/ Goto(c, "row", "idle") \/ Goto(c, "friend", "idle") \/ Goto(c, "commit", "idle")
    /\ UNCHANGED <<dbVars, cacheVars, excused>>

-----------------------------------------------------------------------------
(* RemoveFriend, and the deletion of the entries after a change. *)

RemoveFriend(c, u) ==
    /\ Enter(c, [NewCall EXCEPT !.phase = "delIds", !.by = u])
    /\ friends' = FALSE
    /\ UNCHANGED <<request, rooms, cacheVars, excused, faults>>

InvalidateFriendIDs(c) ==
    /\ Goto(c, "delIds", "delKeys")
    /\ listed' = "none"
    /\ excused' = excused \ {"listed"}
    /\ UNCHANGED <<dbVars, known, roomKey, faults>>

\* Mutant of InvalidateFriendship: only the room's entry is deleted.
InvalidateRoomOnly(c) ==
    /\ Goto(c, "delKeys", "idle")
    /\ roomKey' = FALSE
    /\ UNCHANGED <<dbVars, known, listed, excused, faults>>

InvalidateFriendship(c) ==
    /\ Goto(c, "delKeys", "idle")
    /\ known' = "none" /\ roomKey' = FALSE
    /\ excused' = excused \ {"known"}
    /\ UNCHANGED <<dbVars, listed, faults>>

InvalidateFails(c) ==
    /\ Fault
    /\ \/ Goto(c, "delIds", "delKeys") /\ excused' = excused \cup {"listed"}
       \/ Goto(c, "delKeys", "idle") /\ excused' = excused \cup {"known"}
    /\ UNCHANGED <<dbVars, cacheVars>>

-----------------------------------------------------------------------------
(* A direct message: areFriends, then ensureDirectRoom. A miss reads the       *)
(* database and fills the entry in a later step.                               *)

AreFriends(c, u) ==
    /\ IF known # "none"
       THEN Enter(c, IF known = "1" THEN [NewCall EXCEPT !.phase = "room", !.by = u] ELSE NewCall)
       ELSE Enter(c, [NewCall EXCEPT !.phase = "fill", !.by = u, !.saw = friends])
    /\ UNCHANGED <<dbVars, cacheVars, excused, faults>>

FillFriendship(c) ==
    LET saw == call[c].saw IN
    /\ Goto(c, "fill", IF saw THEN "room" ELSE "idle")
    /\ \/ /\ known' = Bit(saw)
          /\ excused' = IF saw # friends THEN excused \cup {"known"} ELSE excused \ {"known"}
          /\ UNCHANGED faults
       \/ Fault /\ UNCHANGED <<known, excused>>
    /\ UNCHANGED <<dbVars, roomKey, listed>>

\* The room of the entry or of the database is used; one is created only if
\* none was seen, in a later step.
EnsureDirectRoom(c) ==
    /\ call[c].phase = "room"
    /\ IF rooms > 0 \/ call[c].room
       THEN /\ call' = [call EXCEPT ![c] = NewCall]
            /\ roomKey' = TRUE
            /\ rooms' = IF call[c].room THEN rooms + 1 ELSE rooms
       ELSE /\ call' = [call EXCEPT ![c].room = TRUE]
            /\ UNCHANGED <<rooms, roomKey>>
    /\ UNCHANGED <<request, friends, known, listed, excused, faults>>

\* listFriendIDs, called when a connection comes or goes: a miss.
ListFriendIDs(c) ==
    /\ listed = "none"
    /\ Enter(c, [NewCall EXCEPT !.phase = "list", !.saw = friends])
    /\ UNCHANGED <<dbVars, cacheVars, excused, faults>>

FillFriendIDs(c) ==
    LET saw == call[c].saw IN
    /\ Goto(c, "list", "idle")
    /\ listed' = Bit(saw)
    /\ excused' = IF saw # friends THEN excused \cup {"listed"} ELSE excused \ {"listed"}
    /\ UNCHANGED <<dbVars, known, roomKey, faults>>

\* Ten and fifteen minutes, and a day, are over.
Expire ==
    /\ \/ known # "none" /\ known' = "none" /\ UNCHANGED <<roomKey, listed>>
          /\ excused' = excused \ {"known"}
       \/ listed # "none" /\ listed' = "none" /\ UNCHANGED <<known, roomKey>>
          /\ excused' = excused \ {"listed"}
       \/ roomKey /\ roomKey' = FALSE /\ UNCHANGED <<known, listed, excused>>
    /\ UNCHANGED <<dbVars, call, faults>>

-----------------------------------------------------------------------------
Handler(c) ==
    \/ \E u \in Pair : \/ AddFriend(c, u) \/ RemoveFriend(c, u) \/ AreFriends(c, u)
                       \/ \E i \in RequestIds : Respond(c, u, i)
    \/ InsertRequest(c) \/ Reject(c)
    \/ AcceptRow(c) \/ AcceptLook(c) \/ AcceptFriend(c) \/ AcceptCommit(c) \/ AcceptFails(c)
    \/ InvalidateFriendIDs(c) \/ InvalidateFriendship(c) \/ InvalidateFails(c)
    \/ FillFriendship(c) \/ EnsureDirectRoom(c) \/ ListFriendIDs(c) \/ FillFriendIDs(c)

Next == Expire \/ \E c \in Calls : Handler(c)

Spec == Init /\ [][Next]_vars

-----------------------------------------------------------------------------
\* Two users have at most one direct room, although ensureDirectRoom looks and
\* then creates with nothing between that excludes a second one: whoever may
\* send finds the room that was created with the friendship, also when what
\* lets him send is an entry of a friendship that has ended.
OneDirectRoom == rooms <= 1

\* A cached friendship or friend list that disagrees with the database is about
\* to be deleted, unless the deletion failed or the entry was filled by one who
\* had read before the change.
StaleFriendshipIsPaid ==
    /\ (known # "none" /\ known # Bit(friends)) =>
          \/ \E c \in Calls : call[c].phase \in {"delIds", "delKeys"}
          \/ "known" \in excused
    /\ (listed # "none" /\ listed # Bit(friends)) =>
          \/ \E c \in Calls : call[c].phase = "delIds"
          \/ "listed" \in excused
=============================================================================
