---------------------------- MODULE FriendsProofs ----------------------------
(***************************************************************************)
(* Theorems about Friends: its types, that two users have at most one      *)
(* direct room, and that their cached friendship is only stale when it is  *)
(* accounted for, for any number of calls, requests and faults.            *)
(***************************************************************************)
EXTENDS Friends, TLAPS

USE FriendsAssumption

CallType == [phase : Phases, by : Pair, id : 0..MaxRequests, saw : BOOLEAN, room : BOOLEAN]

-----------------------------------------------------------------------------
(* Types. *)

LEMMA TwoUsers ==
  /\ \E u \in Pair : TRUE
  /\ \A u \in Pair : Other(u) \in Pair /\ Other(u) # u
  BY DEF Other

LEMMA NewCallType == NewCall \in CallType
  BY TwoUsers DEF NewCall, CallType, Phases

LEMMA NoRowType == NoRow \in [from : Pair, status : Statuses]
  BY TwoUsers DEF NoRow, Statuses

\* A call goes on, with what it has read.
LEMMA CallChanged ==
  ASSUME NEW r \in CallType, NEW p \in Phases
  PROVE  /\ [r EXCEPT !.phase = p] \in CallType
         /\ \A u \in Pair, i \in 0..MaxRequests : [r EXCEPT !.phase = p, !.by = u, !.id = i] \in CallType
         /\ \A u \in Pair, b \in BOOLEAN : [r EXCEPT !.phase = p, !.by = u, !.saw = b] \in CallType
         /\ \A u \in Pair : [r EXCEPT !.phase = p, !.by = u] \in CallType
         /\ \A b \in BOOLEAN : /\ [r EXCEPT !.saw = b, !.phase = p] \in CallType
                               /\ [r EXCEPT !.phase = p, !.saw = b] \in CallType
                               /\ [r EXCEPT !.room = b, !.phase = p] \in CallType
                               /\ [r EXCEPT !.room = b] \in CallType
  BY DEF CallType

LEMMA GotoType ==
  ASSUME TypeOK, NEW c \in Calls, NEW from, NEW to \in Phases, Goto(c, from, to)
  PROVE  call' \in [Calls -> CallType]
  <1>1. call \in [Calls -> CallType]
    BY DEF TypeOK, CallType
  <1>2. [call[c] EXCEPT !.phase = to] \in CallType
    BY <1>1, CallChanged
  <1>3. call' = [call EXCEPT ![c] = IF to = "idle" THEN NewCall ELSE [call[c] EXCEPT !.phase = to]]
    BY <1>1 DEF Goto
  <1> QED
    BY <1>1, <1>2, <1>3, NewCallType

LEMMA EnterType ==
  ASSUME TypeOK, NEW c \in Calls, NEW r \in CallType, Enter(c, r)
  PROVE  call' \in [Calls -> CallType]
  BY DEF TypeOK, Enter, CallType


LEMMA InitTypes == Init => TypeOK
  <1> SUFFICES ASSUME Init PROVE TypeOK
    OBVIOUS
  <1>1. call \in [Calls -> CallType]
    BY NewCallType DEF Init
  <1>2. request \in [RequestIds -> [from : Pair, status : Statuses]]
    BY NoRowType DEF Init
  <1>3. /\ friends \in BOOLEAN /\ rooms \in Nat
        /\ known \in {"none", "0", "1"} /\ listed \in {"none", "0", "1"} /\ roomKey \in BOOLEAN
        /\ excused \in SUBSET {"known", "listed"}
    BY DEF Init
  <1>4. faults \in 0..MaxFaults
    BY DEF Init
  <1> QED
    BY <1>1, <1>2, <1>3, <1>4 DEF TypeOK, CallType

LEMMA NextCallType == TypeOK /\ [Next]_vars => call' \in [Calls -> CallType]
  <1> SUFFICES ASSUME TypeOK, [Next]_vars PROVE call' \in [Calls -> CallType]
    OBVIOUS
  <1>0. call \in [Calls -> CallType] /\ friends \in BOOLEAN
    BY DEF TypeOK, CallType
  <1>1. CASE Expire \/ UNCHANGED vars
    BY <1>0, <1>1 DEF Expire, vars
  <1>2. ASSUME NEW c \in Calls, Handler(c) PROVE call' \in [Calls -> CallType]
    <2>1. ASSUME NEW to \in {"idle", "row", "delIds", "delKeys"}, NEW from, Goto(c, from, to)
          PROVE  call' \in [Calls -> CallType]
      <3>1. to \in Phases
        BY DEF Phases
      <3> QED
        BY <2>1, <3>1, GotoType
    <2>2. CASE InsertRequest(c) \/ Reject(c) \/ AcceptRow(c) \/ AcceptCommit(c) \/ AcceptFails(c)
      BY <2>1, <2>2 DEF InsertRequest, Reject, AcceptRow, AcceptCommit, AcceptFails
    <2>3. CASE InvalidateFriendIDs(c) \/ InvalidateFriendship(c) \/ InvalidateFails(c) \/ FillFriendIDs(c)
      BY <2>1, <2>3 DEF InvalidateFriendIDs, InvalidateFriendship, InvalidateFails, FillFriendIDs
    <2>4. ASSUME NEW u \in Pair, AddFriend(c, u) \/ RemoveFriend(c, u) \/ AreFriends(c, u)
          PROVE  call' \in [Calls -> CallType]
      <3>1. \A p \in {"insert", "delIds", "room"} : [NewCall EXCEPT !.phase = p, !.by = u] \in CallType
        BY NewCallType, CallChanged DEF Phases
      <3>2. [NewCall EXCEPT !.phase = "fill", !.by = u, !.saw = friends] \in CallType
        BY <1>0, NewCallType, CallChanged DEF Phases
      <3>3. \E r \in CallType : Enter(c, r)
        BY <2>4, <3>1, <3>2, NewCallType DEF AddFriend, RemoveFriend, AreFriends
      <3> QED
        BY <3>3, EnterType
    <2>5. ASSUME NEW u \in Pair, NEW i \in RequestIds, Respond(c, u, i)
          PROVE  call' \in [Calls -> CallType]
      <3>1. i \in 0..MaxRequests
        BY DEF RequestIds
      <3>2. \A p \in {"reject", "begin"} : [NewCall EXCEPT !.phase = p, !.by = u, !.id = i] \in CallType
        BY <3>1, NewCallType, CallChanged DEF Phases
      <3> QED
        BY <2>5, <3>2, EnterType DEF Respond
    <2>6. CASE ListFriendIDs(c)
      <3>1. [NewCall EXCEPT !.phase = "list", !.saw = friends] \in CallType
        BY <1>0, NewCallType DEF CallType, Phases
      <3> QED
        BY <2>6, <3>1, EnterType DEF ListFriendIDs
    <2>7. CASE AcceptLook(c)
      <3>1. [call[c] EXCEPT !.saw = friends, !.phase = "friend"] \in CallType
        BY <1>0, CallChanged DEF Phases
      <3>2. call' = [call EXCEPT ![c] = [call[c] EXCEPT !.saw = friends, !.phase = "friend"]]
        BY <1>0, <2>7 DEF AcceptLook
      <3> QED
        BY <1>0, <3>1, <3>2
    <2>8. CASE AcceptFriend(c)
      <3>1. [call[c] EXCEPT !.room = rooms > 0, !.phase = "commit"] \in CallType
        <4>1. (rooms > 0) \in BOOLEAN /\ "commit" \in Phases
          BY DEF Phases
        <4> QED
          BY <1>0, <4>1 DEF CallType
      <3>2. call' = [call EXCEPT ![c] = IF ~call[c].saw /\ friends THEN NewCall
                                       ELSE [call[c] EXCEPT !.room = rooms > 0, !.phase = "commit"]]
        BY <1>0, <2>8 DEF AcceptFriend
      <3> QED
        BY <1>0, <3>1, <3>2, NewCallType
    <2>9. CASE FillFriendship(c)
      <3>1. \E to \in {"room", "idle"} : Goto(c, "fill", to)
        BY <2>9 DEF FillFriendship
      <3> QED
        BY <3>1, GotoType DEF Phases
    <2>10. CASE EnsureDirectRoom(c)
      <3>1. [call[c] EXCEPT !.room = TRUE] \in CallType
        BY <1>0, CallChanged DEF Phases
      <3> QED
        BY <1>0, <2>10, <3>1, NewCallType DEF EnsureDirectRoom
    <2> QED
      BY <1>2, <2>2, <2>3, <2>4, <2>5, <2>6, <2>7, <2>8, <2>9, <2>10 DEF Handler
  <1> QED
    BY <1>1, <1>2 DEF Next

LEMMA NextTypes == TypeOK /\ [Next]_vars => TypeOK'
  <1> SUFFICES ASSUME TypeOK, [Next]_vars PROVE TypeOK'
    OBVIOUS
  <1>0. call' \in [Calls -> [phase : Phases, by : Pair, id : 0..MaxRequests,
                             saw : BOOLEAN, room : BOOLEAN]]
    BY NextCallType DEF CallType
  <1>1. CASE Expire \/ UNCHANGED vars
    BY <1>0, <1>1 DEF Expire, vars, dbVars, cacheVars, TypeOK
  <1>2. ASSUME NEW c \in Calls, Handler(c) PROVE TypeOK'
    <2>0. call[c].by \in Pair /\ call[c].id \in 0..MaxRequests /\ call[c].saw \in BOOLEAN
      BY DEF TypeOK
    <2> USE <1>0
    <2>1. ASSUME NEW u \in Pair, AddFriend(c, u) \/ RemoveFriend(c, u) \/ AreFriends(c, u)
          PROVE  TypeOK'
      BY <2>1 DEF AddFriend, RemoveFriend, AreFriends, dbVars, cacheVars, TypeOK
    <2>2. ASSUME NEW u \in Pair, NEW i \in RequestIds, Respond(c, u, i) PROVE TypeOK'
      BY <2>2 DEF Respond, dbVars, cacheVars, TypeOK
    <2>3. CASE InsertRequest(c)
      <3> DEFINE row == [from |-> call[c].by, status |-> "pending"]
      <3>1. row \in [from : Pair, status : Statuses]
        BY <2>0 DEF Statuses
      <3> HIDE DEF row
      <3>2. request' \in [RequestIds -> [from : Pair, status : Statuses]]
        BY <2>3, <3>1 DEF InsertRequest, TypeOK, row
      <3> QED
        BY <2>3, <3>2 DEF InsertRequest, cacheVars, TypeOK
    <2>4. CASE Reject(c)
      <3>1. request' \in [RequestIds -> [from : Pair, status : Statuses]]
        BY <2>4 DEF Reject, TypeOK, Statuses
      <3> QED
        BY <2>4, <3>1 DEF Reject, cacheVars, TypeOK
    <2>5. CASE AcceptRow(c) \/ AcceptLook(c) \/ AcceptFriend(c) \/ AcceptFails(c)
      BY <2>5 DEF AcceptRow, AcceptLook, AcceptFriend, AcceptFails, dbVars, cacheVars, TypeOK, Fault
    <2>6. CASE AcceptCommit(c)
      <3> DEFINE i == call[c].id
      <3>1. request' \in [RequestIds -> [from : Pair, status : Statuses]]
        <4> SUFFICES ASSUME NEW j \in RequestIds
                     PROVE  /\ request'[j] \in [from : Pair, status : Statuses]
          BY <2>6 DEF AcceptCommit
        <4>1. request[j] \in [from : Pair, status : Statuses] /\ "accepted" \in Statuses
          BY DEF TypeOK, Statuses
        <4>2. request'[j] \in {request[j], NoRow, [request[j] EXCEPT !.status = "accepted"]}
          BY <2>6 DEF AcceptCommit
        <4> QED
          BY <4>1, <4>2, NoRowType
      <3>2. rooms' \in Nat
        BY <2>6 DEF AcceptCommit, TypeOK
      <3> QED
        BY <2>0, <2>6, <3>1, <3>2 DEF AcceptCommit, cacheVars, TypeOK
    <2>7. CASE InvalidateFriendIDs(c) \/ InvalidateFriendship(c) \/ InvalidateFails(c)
      <3>1. /\ known' \in {"none", known} /\ listed' \in {"none", listed}
            /\ roomKey' \in {FALSE, roomKey}
        BY <2>7 DEF InvalidateFriendIDs, InvalidateFriendship, InvalidateFails, cacheVars
      <3>2. UNCHANGED <<request, friends, rooms>>
        BY <2>7 DEF InvalidateFriendIDs, InvalidateFriendship, InvalidateFails, dbVars
      <3>3. excused' \in SUBSET {"known", "listed"}
        BY <2>7 DEF InvalidateFriendIDs, InvalidateFriendship, InvalidateFails, TypeOK
      <3>4. faults' \in 0..MaxFaults
        BY <2>7 DEF InvalidateFriendIDs, InvalidateFriendship, InvalidateFails, TypeOK, Fault
      <3> QED
        BY <3>1, <3>2, <3>3, <3>4 DEF TypeOK
    <2>8. CASE FillFriendship(c)
      <3>1. known' \in {"none", "0", "1"}
        BY <2>8 DEF FillFriendship, Bit, TypeOK
      <3>2. excused' \in SUBSET {"known", "listed"}
        BY <2>8 DEF FillFriendship, TypeOK
      <3>3. UNCHANGED <<request, friends, rooms, roomKey, listed>>
        BY <2>8 DEF FillFriendship, dbVars
      <3>4. faults' \in 0..MaxFaults
        BY <2>8 DEF FillFriendship, TypeOK, Fault
      <3> QED
        BY <3>1, <3>2, <3>3, <3>4 DEF TypeOK
    <2>9. CASE EnsureDirectRoom(c)
      <3>1. rooms' \in {rooms, rooms + 1} /\ roomKey' \in {TRUE, roomKey}
        BY <2>9 DEF EnsureDirectRoom
      <3> QED
        <4>1. UNCHANGED <<request, friends, known, listed, excused, faults>>
          BY <2>9 DEF EnsureDirectRoom
        <4>2. rooms' \in Nat
          BY <3>1 DEF TypeOK
        <4>3. roomKey' \in BOOLEAN
          BY <3>1, Zenon DEF TypeOK
        <4> QED
          BY <4>1, <4>2, <4>3 DEF TypeOK
    <2>10. CASE ListFriendIDs(c) \/ FillFriendIDs(c)
      BY <2>0, <2>10 DEF ListFriendIDs, FillFriendIDs, Bit, dbVars, cacheVars, TypeOK
    <2> QED
      BY <1>2, <2>1, <2>2, <2>3, <2>4, <2>5, <2>6, <2>7, <2>8, <2>9, <2>10 DEF Handler
  <1> QED
    BY <1>1, <1>2 DEF Next

\* Whatever the two do, rows, entries and calls keep their form.
THEOREM FriendsTypeCorrect == Spec => []TypeOK
  BY InitTypes, NextTypes, PTL DEF Spec

-----------------------------------------------------------------------------
(* One room. Who may look for the room without a friendship's lock knows of a *)
(* friendship, past or present, and every friendship has come with a room. So *)
(* a room is only created in the transaction that inserts the first           *)
(* friendship, and of those the unique index lets one pass at a time.         *)

Befriended ==
    /\ rooms <= 1
    /\ (friends \/ known = "1") => rooms = 1
    /\ \A c \in Calls :
          /\ call[c].phase \in {"fill", "friend", "commit"} /\ call[c].saw => rooms = 1
          /\ call[c].phase = "fill" => ~call[c].room
          /\ call[c].phase = "room" => rooms = 1 /\ ~call[c].room
          /\ call[c].phase = "commit" => (call[c].room <=> rooms = 1)
    /\ \A c, d \in Calls :
          call[c].phase = "commit" /\ ~call[c].saw /\ call[d].phase = "commit" /\ ~call[d].saw => c = d

LEMMA NextBefriended == TypeOK /\ Befriended /\ [Next]_vars => Befriended'
  <1> SUFFICES ASSUME TypeOK, Befriended, [Next]_vars PROVE Befriended'
    OBVIOUS
  <1> USE DEF Befriended
  <1>0. /\ call \in [Calls -> CallType]
        /\ rooms \in Nat /\ friends \in BOOLEAN
    BY DEF TypeOK, CallType
  <1> HIDE DEF Befriended
  <1>1. CASE Expire \/ UNCHANGED vars
    BY <1>1 DEF Expire, vars, dbVars, cacheVars, Befriended
  \* A call that begins, ends or goes on to where nothing is asked of it.
  <1>2. ASSUME NEW c \in Calls, NEW r, call' = [call EXCEPT ![c] = r], rooms' = rooms,
               friends' => friends, known' = "1" => known = "1" \/ rooms = 1,
               r.phase \notin {"commit", "room"},
               r.phase \in {"fill", "friend"} => (r.saw => rooms = 1),
               r.phase = "fill" => ~r.room
        PROVE  Befriended'
    BY <1>0, <1>2 DEF Befriended
  <1>3. ASSUME NEW c \in Calls, NEW from, NEW to \in {"idle", "row", "delIds", "delKeys"}, Goto(c, from, to),
               rooms' = rooms, friends' = friends, known' = "1" => known = "1"
        PROVE  Befriended'
    <2> DEFINE r == IF to = "idle" THEN NewCall ELSE [call[c] EXCEPT !.phase = to]
    <2>1. call' = [call EXCEPT ![c] = r]
      BY <1>0, <1>3 DEF Goto
    <2>2. r.phase = to
      BY <1>0 DEF NewCall, CallType
    <2> HIDE DEF r
    <2> QED
      BY <1>2, <1>3, <2>1, <2>2
  <1>4. ASSUME NEW c \in Calls, NEW p, NEW u, Enter(c, [NewCall EXCEPT !.phase = p, !.by = u]),
               rooms' = rooms, friends' => friends, known' = "1" => known = "1",
               p \in {"insert", "delIds"} \/ (p = "room" /\ rooms = 1)
        PROVE  Befriended'
    BY <1>0, <1>4 DEF Enter, NewCall, Befriended
  <1>5. ASSUME NEW c \in Calls, NEW u \in Pair, AddFriend(c, u) PROVE Befriended'
    <2>1. CASE Enter(c, NewCall)
      BY <1>0, <1>2, <1>5, <2>1 DEF AddFriend, Enter, NewCall, dbVars
    <2>2. CASE Enter(c, [NewCall EXCEPT !.phase = "insert", !.by = u])
      BY <1>4, <1>5, <2>2 DEF AddFriend, dbVars
    <2> QED
      BY <1>5, <2>1, <2>2 DEF AddFriend
  <1>6. ASSUME NEW c \in Calls, NEW u \in Pair, RemoveFriend(c, u) PROVE Befriended'
    BY <1>4, <1>6 DEF RemoveFriend, cacheVars
  <1>7. ASSUME NEW c \in Calls, NEW u \in Pair, AreFriends(c, u) PROVE Befriended'
    <2>1. rooms' = rooms /\ friends' = friends /\ known' = known
      BY <1>7 DEF AreFriends, dbVars, cacheVars
    <2>2. CASE known = "1"
      <3>1. rooms = 1
        BY <2>2 DEF Befriended
      <3>2. Enter(c, [NewCall EXCEPT !.phase = "room", !.by = u])
        BY <1>7, <2>2 DEF AreFriends
      <3> QED
        BY <1>4, <2>1, <3>1, <3>2
    <2>3. CASE known # "1" /\ known # "none"
      BY <1>0, <1>2, <1>7, <2>1, <2>3 DEF AreFriends, Enter, NewCall
    <2>4. CASE known = "none"
      <3> DEFINE r == [NewCall EXCEPT !.phase = "fill", !.by = u, !.saw = friends]
      <3>1. r.phase = "fill" /\ r.saw = friends /\ r.room = FALSE
        BY DEF NewCall
      <3>2. call' = [call EXCEPT ![c] = r]
        BY <1>7, <2>4 DEF AreFriends, Enter
      <3>3. friends => rooms = 1
        BY DEF Befriended
      <3> HIDE DEF r
      <3> QED
        BY <1>2, <2>1, <3>1, <3>2, <3>3
    <2> QED
      BY <2>2, <2>3, <2>4
  <1>8. ASSUME NEW c \in Calls, NEW u \in Pair, NEW i \in RequestIds, Respond(c, u, i)
        PROVE  Befriended'
    <2>1. PICK p \in {"reject", "begin"} : Enter(c, [NewCall EXCEPT !.phase = p, !.by = u, !.id = i])
      BY <1>8 DEF Respond
    <2> DEFINE r == [NewCall EXCEPT !.phase = p, !.by = u, !.id = i]
    <2>2. r.phase = p /\ call' = [call EXCEPT ![c] = r]
      BY <2>1 DEF Enter, NewCall
    <2> HIDE DEF r
    <2> QED
      BY <1>2, <1>8, <2>2 DEF Respond, dbVars, cacheVars
  <1>9. ASSUME NEW c \in Calls, InsertRequest(c) \/ Reject(c) \/ AcceptRow(c) PROVE Befriended'
    BY <1>3, <1>9 DEF InsertRequest, Reject, AcceptRow, dbVars, cacheVars
  <1>10. ASSUME NEW c \in Calls, AcceptFails(c) \/ InvalidateFails(c) PROVE Befriended'
    BY <1>3, <1>10 DEF AcceptFails, InvalidateFails, dbVars, cacheVars
  <1>11. ASSUME NEW c \in Calls, InvalidateFriendIDs(c) \/ InvalidateFriendship(c) \/ FillFriendIDs(c)
         PROVE  Befriended'
    BY <1>3, <1>11 DEF InvalidateFriendIDs, InvalidateFriendship, FillFriendIDs, dbVars
  <1>12. ASSUME NEW c \in Calls, ListFriendIDs(c) PROVE Befriended'
    <2> DEFINE r == [NewCall EXCEPT !.phase = "list", !.saw = friends]
    <2>1. r.phase = "list" /\ call' = [call EXCEPT ![c] = r]
      BY <1>12 DEF ListFriendIDs, Enter, NewCall
    <2> HIDE DEF r
    <2> QED
      BY <1>2, <1>12, <2>1 DEF ListFriendIDs, dbVars, cacheVars
  <1>13. ASSUME NEW c \in Calls, AcceptLook(c) PROVE Befriended'
    <2> DEFINE r == [call[c] EXCEPT !.saw = friends, !.phase = "friend"]
    <2>1. r.phase = "friend" /\ r.saw = friends
      BY <1>0 DEF CallType
    <2>2. call' = [call EXCEPT ![c] = r]
      BY <1>0, <1>13 DEF AcceptLook
    <2>3. friends => rooms = 1
      BY DEF Befriended
    <2> HIDE DEF r
    <2> QED
      BY <1>2, <1>13, <2>1, <2>2, <2>3 DEF AcceptLook, dbVars, cacheVars
  <1>14. ASSUME NEW c \in Calls, AcceptFriend(c) PROVE Befriended'
    <2>1. rooms' = rooms /\ friends' = friends /\ known' = known /\ call[c].phase = "friend"
      BY <1>14 DEF AcceptFriend, dbVars, cacheVars
    <2>2. CASE ~call[c].saw /\ friends
      BY <1>0, <1>2, <1>14, <2>1, <2>2 DEF AcceptFriend, NewCall
    <2>3. CASE call[c].saw \/ ~friends
      <3>1. /\ call'[c].phase = "commit" /\ call'[c].saw = call[c].saw
            /\ call'[c].room = (rooms > 0)
            /\ \A d \in Calls \ {c} : call'[d] = call[d]
        BY <1>0, <1>14, <2>3 DEF AcceptFriend, CallType
      <3>2. call[c].saw \/ \A d \in Calls : call[d].phase = "commit" => call[d].saw
        BY <1>14 DEF AcceptFriend, Inserting
      <3>3. rooms > 0 <=> rooms = 1
        BY <1>0 DEF Befriended
      <3> QED
        BY <1>0, <2>1, <3>1, <3>2, <3>3 DEF Befriended
    <2> QED
      BY <2>2, <2>3
  <1>15. ASSUME NEW c \in Calls, AcceptCommit(c) PROVE Befriended'
    <2>1. /\ call[c].phase = "commit" /\ call'[c].phase = "delIds"
          /\ \A d \in Calls \ {c} : call'[d] = call[d]
          /\ known' = known
      BY <1>0, <1>15 DEF AcceptCommit, Goto, CallType, cacheVars
    <2>2. rooms' = 1
      BY <1>0, <1>15, <2>1 DEF AcceptCommit, Befriended
    <2>3. \A d \in Calls \ {c} : call[d].phase = "commit" => rooms = 1
      <3> SUFFICES ASSUME NEW d \in Calls \ {c}, call[d].phase = "commit", rooms # 1 PROVE FALSE
        OBVIOUS
      <3>1. ~call[d].saw /\ ~call[c].saw
        BY <2>1 DEF Befriended
      <3> QED
        BY <2>1, <3>1 DEF Befriended
    <2> QED
      BY <1>0, <2>1, <2>2, <2>3 DEF Befriended
  <1>16. ASSUME NEW c \in Calls, FillFriendship(c) PROVE Befriended'
    <2>1. /\ call[c].phase = "fill" /\ rooms' = rooms /\ friends' = friends
          /\ known' = known \/ known' = Bit(call[c].saw)
      BY <1>16 DEF FillFriendship, dbVars, Goto
    <2>2. known' = "1" => rooms = 1
      BY <2>1 DEF Befriended, Bit
    <2>3. CASE ~call[c].saw
      BY <1>0, <1>2, <1>16, <2>1, <2>2, <2>3 DEF FillFriendship, Goto, NewCall
    <2>4. CASE call[c].saw
      <3>1. call'[c] = [call[c] EXCEPT !.phase = "room"] /\ \A d \in Calls \ {c} : call'[d] = call[d]
        BY <1>0, <1>16, <2>4 DEF FillFriendship, Goto
      <3>2. call'[c].phase = "room" /\ ~call'[c].room /\ rooms = 1
        BY <1>0, <2>1, <2>4, <3>1 DEF CallType, Befriended
      <3> QED
        BY <2>1, <2>2, <3>1, <3>2 DEF Befriended
    <2> QED
      BY <2>3, <2>4
  <1>17. ASSUME NEW c \in Calls, EnsureDirectRoom(c) PROVE Befriended'
    <2>1. rooms = 1 /\ ~call[c].room
      BY <1>17 DEF EnsureDirectRoom, Befriended
    <2>2. rooms' = rooms /\ friends' = friends /\ known' = known /\ call' = [call EXCEPT ![c] = NewCall]
      BY <1>0, <1>17, <2>1 DEF EnsureDirectRoom
    <2> QED
      BY <1>2, <2>2 DEF NewCall
  <1> QED
    BY <1>1, <1>5, <1>6, <1>7, <1>8, <1>9, <1>10, <1>11, <1>12, <1>13, <1>14, <1>15, <1>16, <1>17
    DEF Next, Handler

\* However many messages, answers and removals of the two run beside each other,
\* they never have two direct rooms.
THEOREM OneRoom == Spec => []OneDirectRoom
  <1>1. Init => Befriended
    BY DEF Init, Befriended, NewCall
  <1>2. Befriended => OneDirectRoom
    BY DEF Befriended, OneDirectRoom
  <1> QED
    BY <1>1, <1>2, NextBefriended, FriendsTypeCorrect, PTL DEF Spec

-----------------------------------------------------------------------------
(* The entries. A change of the friendship leaves its call where it still has *)
(* to delete both entries, and a call leaves there only by deleting them or   *)
(* with an excuse: the property is inductive as it stands.                    *)

LEMMA NextPaid == TypeOK /\ StaleFriendshipIsPaid /\ [Next]_vars => StaleFriendshipIsPaid'
  <1> SUFFICES ASSUME TypeOK, StaleFriendshipIsPaid, [Next]_vars PROVE StaleFriendshipIsPaid'
    OBVIOUS
  <1>0. call \in [Calls -> CallType] /\ friends \in BOOLEAN
    BY DEF TypeOK, CallType
  <1> DEFINE KnownPaid == (known # "none" /\ known # Bit(friends)) =>
                            \/ \E c \in Calls : call[c].phase \in {"delIds", "delKeys"}
                            \/ "known" \in excused
             ListPaid == (listed # "none" /\ listed # Bit(friends)) =>
                            \/ \E c \in Calls : call[c].phase = "delIds"
                            \/ "listed" \in excused
  <1>a. KnownPaid /\ ListPaid
    BY DEF StaleFriendshipIsPaid
  <1>b. SUFFICES KnownPaid' /\ ListPaid'
    BY DEF StaleFriendshipIsPaid
  \* A step that changes neither the friendship nor an entry, by a call that has
  \* nothing to delete.
  <1>1. ASSUME NEW c \in Calls, UNCHANGED <<friends, known, listed, excused>>,
               call[c].phase \notin {"delIds", "delKeys"},
               \A d \in Calls \ {c} : call'[d] = call[d]
        PROVE  KnownPaid' /\ ListPaid'
    BY <1>a, <1>1
  <1>2. ASSUME NEW c \in Calls, NEW from, NEW to, Goto(c, from, to)
        PROVE  /\ call[c].phase = from /\ \A d \in Calls \ {c} : call'[d] = call[d]
               /\ call'[c].phase = to
    BY <1>0, <1>2 DEF Goto, NewCall, CallType
  <1>3. ASSUME NEW c \in Calls, NEW r, Enter(c, r)
        PROVE  call[c].phase = "idle" /\ call'[c] = r /\ \A d \in Calls \ {c} : call'[d] = call[d]
    BY <1>0, <1>3 DEF Enter
  <1>4. CASE Expire \/ UNCHANGED vars
    BY <1>a, <1>4 DEF Expire, vars, dbVars, cacheVars
  <1>5. ASSUME NEW c \in Calls, NEW u \in Pair, AddFriend(c, u) PROVE KnownPaid' /\ ListPaid'
    <2>1. /\ friends' = friends /\ known' = known
          /\ \/ listed' = "none" /\ excused' = excused \ {"listed"}
             \/ listed' = listed /\ excused' = excused
          /\ call[c].phase = "idle" /\ \A d \in Calls \ {c} : call'[d] = call[d]
      BY <1>3, <1>5 DEF AddFriend, dbVars
    <2> QED
      BY <1>a, <2>1
  <1>6. ASSUME NEW c \in Calls, NEW u \in Pair, RemoveFriend(c, u) PROVE KnownPaid' /\ ListPaid'
    <2>1. call'[c].phase = "delIds"
      <3>1. [NewCall EXCEPT !.phase = "delIds", !.by = u].phase = "delIds"
        BY DEF NewCall
      <3> QED
        BY <1>3, <1>6, <3>1 DEF RemoveFriend
    <2> QED
      BY <2>1
  <1>7. ASSUME NEW c \in Calls, NEW u \in Pair, AreFriends(c, u) PROVE KnownPaid' /\ ListPaid'
    BY <1>1, <1>3, <1>7 DEF AreFriends, dbVars, cacheVars
  <1>8. ASSUME NEW c \in Calls, NEW u \in Pair, NEW i \in RequestIds, Respond(c, u, i)
        PROVE  KnownPaid' /\ ListPaid'
    BY <1>1, <1>3, <1>8 DEF Respond, dbVars, cacheVars
  <1>9. ASSUME NEW c \in Calls, InsertRequest(c) \/ Reject(c) \/ AcceptRow(c) PROVE KnownPaid' /\ ListPaid'
    BY <1>1, <1>2, <1>9 DEF InsertRequest, Reject, AcceptRow, dbVars, cacheVars
  <1>10. ASSUME NEW c \in Calls, AcceptLook(c) \/ AcceptFriend(c) \/ EnsureDirectRoom(c)
         PROVE  KnownPaid' /\ ListPaid'
    <2>1. /\ UNCHANGED <<friends, known, listed, excused>>
          /\ call[c].phase \notin {"delIds", "delKeys"}
      BY <1>10 DEF AcceptLook, AcceptFriend, EnsureDirectRoom, dbVars, cacheVars
    <2>2. \A d \in Calls \ {c} : call'[d] = call[d]
      BY <1>0, <1>10 DEF AcceptLook, AcceptFriend, EnsureDirectRoom
    <2> QED
      BY <1>1, <2>1, <2>2
  <1>11. ASSUME NEW c \in Calls, AcceptCommit(c) PROVE KnownPaid' /\ ListPaid'
    <2>1. call'[c].phase = "delIds"
      BY <1>2, <1>11 DEF AcceptCommit
    <2> QED
      BY <2>1
  <1>12. ASSUME NEW c \in Calls, AcceptFails(c) PROVE KnownPaid' /\ ListPaid'
    <2>1. \E from \in {"row", "friend", "commit"} : Goto(c, from, "idle")
      BY <1>12 DEF AcceptFails
    <2>2. UNCHANGED <<friends, known, listed, excused>>
      BY <1>12 DEF AcceptFails, dbVars, cacheVars
    <2> QED
      BY <1>1, <1>2, <2>1, <2>2
  <1>13. ASSUME NEW c \in Calls, InvalidateFriendIDs(c) PROVE KnownPaid' /\ ListPaid'
    <2>1. call'[c].phase = "delKeys"
      BY <1>2, <1>13 DEF InvalidateFriendIDs
    <2>2. listed' = "none"
      BY <1>13 DEF InvalidateFriendIDs
    <2> QED
      BY <2>1, <2>2
  <1>14. ASSUME NEW c \in Calls, InvalidateFriendship(c) PROVE KnownPaid' /\ ListPaid'
    <2>1. call[c].phase = "delKeys" /\ \A d \in Calls \ {c} : call'[d] = call[d]
      BY <1>2, <1>14 DEF InvalidateFriendship
    <2>2. known' = "none" /\ excused' = excused \ {"known"} /\ listed' = listed /\ friends' = friends
      BY <1>14 DEF InvalidateFriendship, dbVars
    <2> QED
      BY <1>a, <2>1, <2>2
  <1>15. ASSUME NEW c \in Calls, InvalidateFails(c) PROVE KnownPaid' /\ ListPaid'
    <2>1. \/ call[c].phase = "delIds" /\ call'[c].phase = "delKeys" /\ excused' = excused \cup {"listed"}
          \/ call[c].phase = "delKeys" /\ excused' = excused \cup {"known"}
      BY <1>2, <1>15 DEF InvalidateFails
    <2>2. UNCHANGED <<friends, known, listed>> /\ \A d \in Calls \ {c} : call'[d] = call[d]
      BY <1>2, <1>15 DEF InvalidateFails, dbVars, cacheVars
    <2> QED
      BY <1>a, <2>1, <2>2
  <1>16. ASSUME NEW c \in Calls, FillFriendship(c) PROVE KnownPaid' /\ ListPaid'
    <2>1. call[c].phase = "fill" /\ \A d \in Calls \ {c} : call'[d] = call[d]
      BY <1>2, <1>16 DEF FillFriendship
    <2>2. listed' = listed /\ friends' = friends
      BY <1>16 DEF FillFriendship, dbVars
    <2>3. \/ /\ known' = Bit(call[c].saw)
             /\ excused' = IF call[c].saw # friends THEN excused \cup {"known"} ELSE excused \ {"known"}
          \/ known' = known /\ excused' = excused
      BY <1>16 DEF FillFriendship
    <2> QED
      BY <1>a, <2>1, <2>2, <2>3
  <1>17. ASSUME NEW c \in Calls, ListFriendIDs(c) PROVE KnownPaid' /\ ListPaid'
    BY <1>1, <1>3, <1>17 DEF ListFriendIDs, dbVars, cacheVars
  <1>18. ASSUME NEW c \in Calls, FillFriendIDs(c) PROVE KnownPaid' /\ ListPaid'
    <2>1. call[c].phase = "list" /\ \A d \in Calls \ {c} : call'[d] = call[d]
      BY <1>2, <1>18 DEF FillFriendIDs
    <2>2. known' = known /\ friends' = friends
      BY <1>18 DEF FillFriendIDs, dbVars
    <2>3. /\ listed' = Bit(call[c].saw)
          /\ excused' = IF call[c].saw # friends THEN excused \cup {"listed"} ELSE excused \ {"listed"}
      BY <1>18 DEF FillFriendIDs
    <2> QED
      BY <1>a, <2>1, <2>2, <2>3
  <1> QED
    BY <1>4, <1>5, <1>6, <1>7, <1>8, <1>9, <1>10, <1>11, <1>12, <1>13, <1>14, <1>15, <1>16, <1>17, <1>18
    DEF Next, Handler

\* An entry about the friendship that disagrees with the database is about to be
\* deleted, could not be deleted, or was filled by one who had read too early.
THEOREM StalePaid == Spec => []StaleFriendshipIsPaid
  <1>1. Init => StaleFriendshipIsPaid
    BY DEF Init, StaleFriendshipIsPaid
  <1> QED
    BY <1>1, NextPaid, FriendsTypeCorrect, PTL DEF Spec
=============================================================================
