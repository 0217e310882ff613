---------------------------- MODULE GroupsProofs -----------------------------
(***************************************************************************)
(* Theorems about Groups: its types, that the owner keeps his seat, that   *)
(* who may post sees the group, and that a stale entry is accounted for,   *)
(* for any number of users, requests, messages and faults.                 *)
(***************************************************************************)
EXTENDS Groups, TLAPS

USE GroupsAssumption

CallType == [op : Ops, by : Users, to : Users, phase : CallPhases, saw : BOOLEAN]
PostType == [by : Users, phase : PostPhases, saw : BOOLEAN, users : SUBSET Users]

-----------------------------------------------------------------------------
(* Types, and what it means to go on or to begin. *)

LEMMA NewTypes == NewCall \in CallType /\ NewPost \in PostType /\ NoRow \in Rows
  BY DEF NewCall, NewPost, NoRow, CallType, PostType, Rows, Ops, CallPhases, PostPhases

LEMMA RowTypes == \A role \in {"none", "owner", "admin", "member"} : Row(role) \in Rows
  BY DEF Row, Rows

LEMMA Goes ==
  ASSUME TypeOK, NEW c \in Calls, NEW from, NEW to, Goto(c, from, to)
  PROVE  /\ call[c].phase = from /\ call'[c].phase = to
         /\ \A d \in Calls \ {c} : call'[d] = call[d]
         /\ to \notin {"idle", "delIds"} =>
               /\ call'[c].op = call[c].op /\ call'[c].by = call[c].by
               /\ call'[c].to = call[c].to /\ call'[c].saw = call[c].saw
         /\ to \in CallPhases => call' \in [Calls -> CallType]
  <1>1. call \in [Calls -> CallType]
    BY DEF TypeOK, CallType
  <1>2. call' = [call EXCEPT ![c] = IF to \in {"idle", "delIds"} THEN [NewCall EXCEPT !.phase = to]
                                   ELSE [call[c] EXCEPT !.phase = to]]
    BY <1>1 DEF Goto
  <1>3. CASE to \in {"idle", "delIds"}
    <2> DEFINE r == [NewCall EXCEPT !.phase = to]
    <2>1. r.phase = to /\ (to \in CallPhases => r \in CallType)
      BY NewTypes DEF NewCall, CallType
    <2>2. call' = [call EXCEPT ![c] = r]
      BY <1>2, <1>3
    <2> HIDE DEF r
    <2> QED
      BY <1>1, <1>3, <2>1, <2>2 DEF Goto
  <1>4. CASE to \notin {"idle", "delIds"}
    <2> DEFINE r == [call[c] EXCEPT !.phase = to]
    <2>1. /\ r.phase = to /\ (to \in CallPhases => r \in CallType)
          /\ r.op = call[c].op /\ r.by = call[c].by /\ r.to = call[c].to /\ r.saw = call[c].saw
      BY <1>1 DEF CallType
    <2>2. call' = [call EXCEPT ![c] = r]
      BY <1>2, <1>4
    <2> HIDE DEF r
    <2> QED
      BY <1>1, <2>1, <2>2 DEF Goto
  <1> QED
    BY <1>3, <1>4

LEMMA Begins ==
  ASSUME TypeOK, NEW c \in Calls, NEW op \in Ops, NEW by \in Users, NEW to \in Users,
         NEW phase \in CallPhases, Enter(c, op, by, to, phase)
  PROVE  /\ call[c].phase = "idle"
         /\ call'[c] = [op |-> op, by |-> by, to |-> to, phase |-> phase, saw |-> FALSE]
         /\ \A d \in Calls \ {c} : call'[d] = call[d]
         /\ call' \in [Calls -> CallType]
  BY DEF TypeOK, Enter, CallType

LEMMA Looks ==
  ASSUME TypeOK, NEW c \in Calls, Look(c)
  PROVE  /\ call[c].phase = "look"
         /\ \A d \in Calls \ {c} : call'[d] = call[d]
         /\ call' \in [Calls -> CallType]
         /\ \/ call'[c].phase = "idle"
            \/ /\ call'[c].phase = "write" /\ call'[c].op = call[c].op
               /\ call'[c].by = call[c].by /\ call'[c].to = call[c].to
               /\ call'[c].saw = Present(call[c].to)
  <1>1. call \in [Calls -> CallType]
    BY DEF TypeOK, CallType
  <1>2. CASE call' = [call EXCEPT ![c] = NewCall]
    <2>1. NewCall.phase = "idle"
      BY DEF NewCall
    <2> QED
      BY <1>1, <1>2, <2>1, NewTypes DEF Look
  <1>3. CASE call' = [call EXCEPT ![c] = [@ EXCEPT !.saw = Present(call[c].to), !.phase = "write"]]
    <2> DEFINE r == [call[c] EXCEPT !.saw = Present(call[c].to), !.phase = "write"]
    <2>1. Present(call[c].to) \in BOOLEAN /\ "write" \in CallPhases
      BY DEF Present, CallPhases
    <2>2. /\ r \in CallType /\ r.phase = "write" /\ r.op = call[c].op /\ r.by = call[c].by
          /\ r.to = call[c].to /\ r.saw = Present(call[c].to)
      BY <1>1, <2>1 DEF CallType
    <2>3. call' = [call EXCEPT ![c] = r]
      BY <1>1, <1>3
    <2> HIDE DEF r
    <2> QED
      BY <1>1, <2>2, <2>3 DEF Look
  <1> QED
    BY <1>1, <1>2, <1>3 DEF Look

LEMMA PostGoes ==
  ASSUME TypeOK, NEW p \in Posts, NEW to \in PostPhases, PostGoto(p, to)
  PROVE  /\ post'[p].phase = to /\ \A q \in Posts \ {p} : post'[q] = post[q]
         /\ post' \in [Posts -> PostType]
  <1>1. post \in [Posts -> PostType]
    BY DEF TypeOK, PostType
  <1> DEFINE r == IF to = "idle" THEN NewPost ELSE [post[p] EXCEPT !.phase = to]
  <1>2. r \in PostType /\ r.phase = to
    BY <1>1, NewTypes DEF PostType, NewPost
  <1>3. post' = [post EXCEPT ![p] = r]
    BY <1>1 DEF PostGoto
  <1> HIDE DEF r
  <1> QED
    BY <1>1, <1>2, <1>3

\* The actions by what they write: only calls, rows, or entries.
Asks(c) ==
    \/ CreateFails(c) \/ WriteFails(c) \/ Look(c) \/ DismissGroup(c)
    \/ \E by, to \in Users : RemoveMember(c, by, to)
    \/ \E u \in Users : AddMembers(c, u) \/ LeaveGroup(c, u) \/ AddAdmins(c, u)

Writes(c) ==
    CreateOwner(c) \/ CreateMembers(c) \/ Join(c) \/ Depart(c) \/ DismissRows(c) \/ Promote(c)

Deletes(c) == InvalidatePermission(c) \/ InvalidateIds(c) \/ InvalidateFails(c)

LEMMA HandlerCases ==
  \A c \in Calls : Handler(c) <=>
      CreateRoom(c) \/ Dismiss(c) \/ Asks(c) \/ Writes(c) \/ Deletes(c)
  BY DEF Handler, Asks, Writes, Deletes

LEMMA AsksLeaves ==
  ASSUME NEW c \in Calls, Asks(c)
  PROVE  UNCHANGED <<room, row, perm, ids, post, excused, excusedIds, rowsLost, lateJoins, ownerOut>>
  BY DEF Asks, CreateFails, WriteFails, Look, DismissGroup, RemoveMember, AddMembers,
         LeaveGroup, AddAdmins, cacheVars, histories

LEMMA WritesLeaves ==
  ASSUME NEW c \in Calls, Writes(c)
  PROVE  UNCHANGED <<room, perm, ids, post, excused>>
  BY DEF Writes, CreateOwner, CreateMembers, Join, Depart, DismissRows, Promote, cacheVars, histories

LEMMA AsksMoves ==
  ASSUME TypeOK, NEW c \in Calls, Asks(c)
  PROVE  /\ call[c].phase \notin {"rows", "delPerm", "delIds"}
         /\ \A d \in Calls \ {c} : call'[d] = call[d]
  <1>0. call \in [Calls -> CallType]
    BY DEF TypeOK, CallType
  <1>1. \/ \E from \in {"owner", "members", "write"} : \E to : Goto(c, from, to)
        \/ Look(c)
        \/ \E op, by, to, phase : Enter(c, op, by, to, phase)
    BY DEF Asks, CreateFails, WriteFails, DismissGroup, RemoveMember, AddMembers, LeaveGroup, AddAdmins
  <1>2. ASSUME NEW op, NEW by, NEW to, NEW phase, Enter(c, op, by, to, phase)
        PROVE  call[c].phase = "idle" /\ \A d \in Calls \ {c} : call'[d] = call[d]
    BY <1>0, <1>2 DEF Enter
  <1> QED
    BY <1>1, <1>2, Goes, Looks

LEMMA DeletesMoves ==
  ASSUME TypeOK, NEW c \in Calls, Deletes(c)
  PROVE  /\ call[c].phase \in {"delPerm", "delIds"}
         /\ \A d \in Calls \ {c} : call'[d] = call[d]
  <1>1. \E from \in {"delPerm", "delIds"} : \E to : Goto(c, from, to)
    BY DEF Deletes, InvalidatePermission, InvalidateIds, InvalidateFails
  <1> QED
    BY <1>1, Goes

LEMMA DeletesLeaves ==
  ASSUME NEW c \in Calls, Deletes(c)
  PROVE  /\ UNCHANGED <<room, row, post, rowsLost, lateJoins, ownerOut>>
         /\ perm' = perm \/ \E S : perm' = [u \in Users |-> IF u \in S THEN "none" ELSE perm[u]]
         /\ ids' \in {ids, NoIds}
  BY DEF Deletes, InvalidatePermission, InvalidateIds, InvalidateFails, cacheVars

LEMMA PostsLeave ==
  ASSUME NEW p \in Posts, Poster(p)
  PROVE  UNCHANGED <<room, row, call, rowsLost, lateJoins, ownerOut>>
  BY DEF Poster, CheckPermission, FillPermission, ListMembers, FillIds, cacheVars, histories

LEMMA ExpireLeaves ==
  ASSUME Expire
  PROVE  UNCHANGED <<room, row, call, post, rowsLost, lateJoins, ownerOut, faults>>
  BY DEF Expire, ExpireIds, ExpirePermission

LEMMA NextCallType == TypeOK /\ [Next]_vars => call' \in [Calls -> CallType]
  <1> SUFFICES ASSUME TypeOK, [Next]_vars PROVE call' \in [Calls -> CallType]
    OBVIOUS
  <1>0. call \in [Calls -> CallType]
    BY DEF TypeOK, CallType
  <1>1. ASSUME NEW c \in Calls, NEW from,
               NEW to \in {"idle", "members", "rows", "delPerm", "delIds"}, Goto(c, from, to)
        PROVE  call' \in [Calls -> CallType]
    <2>1. to \in CallPhases
      BY DEF CallPhases
    <2> QED
      BY <1>1, <2>1, Goes
  <1>2. ASSUME NEW c \in Calls, NEW op \in Ops, NEW by \in Users, NEW to \in Users,
               NEW phase \in {"owner", "look", "write"}, Enter(c, op, by, to, phase)
        PROVE  call' \in [Calls -> CallType]
    <2>1. phase \in CallPhases
      BY DEF CallPhases
    <2> QED
      BY <1>2, <2>1, Begins
  <1> HIDE DEF Ops
  <1>3. {"create", "add", "remove", "leave", "dismiss", "admin"} = Ops
    BY DEF Ops
  <1>4. ASSUME NEW c \in Calls, CreateRoom(c) \/ Dismiss(c) PROVE call' \in [Calls -> CallType]
    BY <1>1, <1>2, <1>3, <1>4 DEF CreateRoom, Dismiss
  <1>5. ASSUME NEW c \in Calls, Asks(c) PROVE call' \in [Calls -> CallType]
    <2>1. CASE CreateFails(c) \/ WriteFails(c)
      BY <1>1, <2>1 DEF CreateFails, WriteFails
    <2>2. CASE Look(c)
      BY <2>2, Looks
    <2>3. CASE DismissGroup(c)
      BY <1>2, <1>3, <2>3 DEF DismissGroup
    <2>4. ASSUME NEW by \in Users, NEW to \in Users, RemoveMember(c, by, to)
          PROVE  call' \in [Calls -> CallType]
      BY <1>2, <1>3, <2>4 DEF RemoveMember
    <2>5. ASSUME NEW u \in Users, AddMembers(c, u) \/ LeaveGroup(c, u) \/ AddAdmins(c, u)
          PROVE  call' \in [Calls -> CallType]
      BY <1>2, <1>3, <2>5 DEF AddMembers, LeaveGroup, AddAdmins
    <2> QED
      BY <1>5, <2>1, <2>2, <2>3, <2>4, <2>5 DEF Asks
  <1>6. ASSUME NEW c \in Calls, Writes(c) PROVE call' \in [Calls -> CallType]
    BY <1>1, <1>6 DEF Writes, CreateOwner, CreateMembers, Join, Depart, DismissRows, Promote
  <1>7. ASSUME NEW c \in Calls, Deletes(c) PROVE call' \in [Calls -> CallType]
    BY <1>1, <1>7 DEF Deletes, InvalidatePermission, InvalidateIds, InvalidateFails
  <1>8. ASSUME UNCHANGED call PROVE call' \in [Calls -> CallType]
    BY <1>0, <1>8
  <1> QED
    BY <1>4, <1>5, <1>6, <1>7, <1>8, HandlerCases, PostsLeave, ExpireLeaves DEF Next, vars

LEMMA InitTypes == Init => TypeOK
  <1> SUFFICES ASSUME Init PROVE TypeOK
    OBVIOUS
  <1>1. call \in [Calls -> CallType] /\ post \in [Posts -> PostType] /\ row \in [Users -> Rows]
    BY NewTypes DEF Init
  <1>2. /\ room \in {"none", "alive", "dismissed"}
        /\ perm \in [Users -> {"none", "in", "left"}]
        /\ ids \in [cached : BOOLEAN, users : SUBSET Users]
        /\ excused \in SUBSET Users /\ excusedIds \in BOOLEAN /\ rowsLost \in BOOLEAN
        /\ lateJoins \in SUBSET Users /\ ownerOut \in BOOLEAN
    BY DEF Init, NoIds
  <1>3. faults \in 0..MaxFaults
    BY DEF Init
  <1> QED
    BY <1>1, <1>2, <1>3 DEF TypeOK, CallType, PostType

LEMMA NextRows == TypeOK /\ [Next]_vars => row' \in [Users -> Rows] /\ faults' \in 0..MaxFaults
  <1> SUFFICES ASSUME TypeOK, [Next]_vars
               PROVE  row' \in [Users -> Rows] /\ faults' \in 0..MaxFaults
    OBVIOUS
  <1>0. row \in [Users -> Rows] /\ faults \in 0..MaxFaults
    BY DEF TypeOK
  <1>1. \A u \in Users : /\ [row[u] EXCEPT !.left = TRUE] \in Rows
                         /\ [row[u] EXCEPT !.left = FALSE] \in Rows
                         /\ [row[u] EXCEPT !.role = "admin"] \in Rows
    BY <1>0 DEF Rows
  <1>2. row' \in [Users -> Rows]
    <2>1. ASSUME NEW c \in Calls, Writes(c) PROVE row' \in [Users -> Rows]
      <3>0. call[c].to \in Users
        BY DEF TypeOK
      <3>1. CASE CreateOwner(c)
        BY <1>0, <3>1, RowTypes DEF CreateOwner
      <3>2. CASE CreateMembers(c)
        BY <1>0, <3>2, RowTypes DEF CreateMembers
      <3>3. CASE Join(c)
        <4>1. row' = [row EXCEPT ![call[c].to] =
                          IF call[c].saw THEN [row[call[c].to] EXCEPT !.left = FALSE]
                          ELSE IF Present(call[c].to) THEN row[call[c].to] ELSE Row("member")]
          BY <1>0, <3>0, <3>3 DEF Join
        <4> QED
          BY <1>0, <1>1, <3>0, <4>1, RowTypes
      <3>4. CASE Depart(c)
        <4>1. row' = [row EXCEPT ![call[c].to] = [row[call[c].to] EXCEPT !.left = TRUE]]
          BY <1>0, <3>0, <3>4 DEF Depart
        <4> QED
          BY <1>0, <1>1, <3>0, <4>1
      <3>5. CASE DismissRows(c)
        BY <1>0, <1>1, <3>5 DEF DismissRows
      <3>6. CASE Promote(c)
        <4>1. row' \in {row, [row EXCEPT ![call[c].to] = [row[call[c].to] EXCEPT !.role = "admin"]]}
          <5>1. row' = [row EXCEPT ![call[c].to] = [row[call[c].to] EXCEPT !.role =
                            IF Active(call[c].to) /\ call[c].to # call[c].by THEN "admin"
                            ELSE row[call[c].to].role]]
            BY <1>0, <3>0, <3>6 DEF Promote
          <5>2. [row EXCEPT ![call[c].to] = [row[call[c].to] EXCEPT !.role = row[call[c].to].role]] = row
            BY <1>0, <3>0 DEF Rows
          <5> QED
            BY <5>1, <5>2
        <4> QED
          BY <1>0, <1>1, <3>0, <4>1
      <3> QED
        BY <2>1, <3>1, <3>2, <3>3, <3>4, <3>5, <3>6 DEF Writes
    <2>2. ASSUME NEW c \in Calls, CreateRoom(c) \/ Dismiss(c) PROVE row' = row
      BY <2>2 DEF CreateRoom, Dismiss
    <2>3. CASE UNCHANGED vars
      BY <1>0, <2>3 DEF vars
    <2> QED
      BY <1>0, <2>1, <2>2, <2>3, HandlerCases, AsksLeaves, DeletesLeaves, PostsLeave, ExpireLeaves
      DEF Next
  <1>3. faults' = faults \/ Fault
    <2>1. ASSUME NEW c \in Calls, CreateRoom(c) \/ Dismiss(c) \/ Deletes(c) \/ Writes(c)
          PROVE  faults' = faults \/ Fault
      BY <2>1 DEF CreateRoom, Dismiss, Deletes, InvalidatePermission, InvalidateIds, InvalidateFails,
                  Writes, CreateOwner, CreateMembers, Join, Depart, DismissRows, Promote
    <2>2. ASSUME NEW c \in Calls, Asks(c) PROVE faults' = faults \/ Fault
      BY <2>2 DEF Asks, CreateFails, WriteFails, Look, DismissGroup, RemoveMember, AddMembers,
                  LeaveGroup, AddAdmins
    <2>3. ASSUME NEW p \in Posts, Poster(p) PROVE faults' = faults \/ Fault
      BY <2>3 DEF Poster, CheckPermission, FillPermission, ListMembers, FillIds
    <2>4. CASE UNCHANGED vars
      BY <2>4 DEF vars
    <2> QED
      BY <2>1, <2>2, <2>3, <2>4, HandlerCases, ExpireLeaves DEF Next
  <1> QED
    BY <1>0, <1>2, <1>3 DEF Fault

LEMMA NextPosts == TypeOK /\ [Next]_vars => post' \in [Posts -> PostType]
  <1> SUFFICES ASSUME TypeOK, [Next]_vars PROVE post' \in [Posts -> PostType]
    OBVIOUS
  <1>0. /\ post \in [Posts -> PostType] /\ row \in [Users -> Rows]
        /\ \A u \in Users : row[u].left \in BOOLEAN
    BY DEF TypeOK, PostType, Rows
  <1>1. ASSUME NEW p \in Posts, NEW to \in {"idle", "saving"}, PostGoto(p, to)
        PROVE  post' \in [Posts -> PostType]
    BY <1>1, PostGoes DEF PostPhases
  <1>2. ASSUME NEW p \in Posts, Poster(p) PROVE post' \in [Posts -> PostType]
    <2>1. ASSUME NEW u \in Users, CheckPermission(p, u) PROVE post' \in [Posts -> PostType]
      <3>1. CASE perm[u] # "none" \/ ~Present(u)
        BY <1>1, <2>1, <3>1 DEF CheckPermission
      <3>2. CASE ~(perm[u] # "none" \/ ~Present(u))
        <4> DEFINE r == [NewPost EXCEPT !.by = u, !.saw = row[u].left, !.phase = "filling"]
        <4>1. r \in PostType
          BY <1>0, NewTypes DEF PostType, PostPhases
        <4>2. post' = [post EXCEPT ![p] = r]
          BY <2>1, <3>2 DEF CheckPermission
        <4> HIDE DEF r
        <4> QED
          BY <1>0, <4>1, <4>2
      <3> QED
        BY <3>1, <3>2
    <2>2. CASE ListMembers(p)
      <3> DEFINE r == [NewPost EXCEPT !.users = ActiveMembers, !.phase = "listing"]
      <3>1. r \in PostType
        BY NewTypes DEF PostType, PostPhases, ActiveMembers
      <3>2. PostGoto(p, "idle") \/ post' = [post EXCEPT ![p] = r]
        BY <2>2 DEF ListMembers
      <3> HIDE DEF r
      <3> QED
        BY <1>0, <1>1, <3>1, <3>2
    <2>3. CASE FillPermission(p) \/ FillIds(p)
      BY <1>1, <2>3 DEF FillPermission, FillIds
    <2> QED
      BY <1>2, <2>1, <2>2, <2>3 DEF Poster
  <1>3. ASSUME NEW c \in Calls, CreateRoom(c) \/ Dismiss(c) PROVE post' = post
    BY <1>3 DEF CreateRoom, Dismiss
  <1>4. CASE UNCHANGED vars
    BY <1>0, <1>4 DEF vars
  <1> QED
    BY <1>0, <1>2, <1>3, <1>4, HandlerCases, AsksLeaves, WritesLeaves, DeletesLeaves, ExpireLeaves
    DEF Next

LEMMA NextEntries ==
  TypeOK /\ [Next]_vars =>
      /\ perm' \in [Users -> {"none", "in", "left"}]
      /\ ids' \in [cached : BOOLEAN, users : SUBSET Users]
      /\ excused' \in SUBSET Users /\ excusedIds' \in BOOLEAN
  <1> DEFINE Kept == /\ perm' \in [Users -> {"none", "in", "left"}]
                     /\ ids' \in [cached : BOOLEAN, users : SUBSET Users]
                     /\ excused' \in SUBSET Users /\ excusedIds' \in BOOLEAN
  <1> SUFFICES ASSUME TypeOK, [Next]_vars PROVE Kept
    OBVIOUS
  <1>0. /\ perm \in [Users -> {"none", "in", "left"}]
        /\ ids \in [cached : BOOLEAN, users : SUBSET Users] /\ ids.cached \in BOOLEAN
        /\ excused \in SUBSET Users /\ excusedIds \in BOOLEAN
        /\ NoIds \in [cached : BOOLEAN, users : SUBSET Users]
        /\ \A c \in Calls : Invalidated(c) \subseteq Users
    BY DEF TypeOK, NoIds, Invalidated
  <1>1. ASSUME UNCHANGED <<perm, ids, excused, excusedIds>> PROVE Kept
    BY <1>0, <1>1
  <1>2. ASSUME NEW c \in Calls, CreateRoom(c) \/ Dismiss(c) PROVE Kept
    BY <1>1, <1>2 DEF CreateRoom, Dismiss, cacheVars, histories
  <1>3. ASSUME NEW c \in Calls, Writes(c) PROVE Kept
    <2>1. excusedIds' \in {excusedIds, excusedIds \/ ids.cached}
      BY <1>3 DEF Writes, CreateOwner, CreateMembers, Join, Depart, DismissRows, Promote, histories
    <2>2. excusedIds' \in BOOLEAN
      BY <1>0, <2>1
    <2> QED
      BY <1>0, <1>3, <2>2, WritesLeaves
  <1>4. ASSUME NEW c \in Calls, Deletes(c) PROVE Kept
    <2>1. perm' \in [Users -> {"none", "in", "left"}] /\ ids' \in [cached : BOOLEAN, users : SUBSET Users]
      BY <1>0, <1>4, DeletesLeaves
    <2>2. excused' \in {excused, excused \ Invalidated(c), excused \cup Invalidated(c)}
          /\ excusedIds' \in {excusedIds, TRUE, FALSE}
      BY <1>4 DEF Deletes, InvalidatePermission, InvalidateIds, InvalidateFails
    <2> QED
      BY <1>0, <2>1, <2>2
  <1>5. ASSUME NEW p \in Posts, Poster(p) PROVE Kept
    <2>0. post[p].by \in Users /\ post[p].users \in SUBSET Users
      BY DEF TypeOK
    <2>1. ASSUME NEW u \in Users, CheckPermission(p, u) PROVE Kept
      BY <1>1, <2>1 DEF CheckPermission, cacheVars, histories
    <2>2. CASE FillPermission(p)
      <3>1. perm' = perm \/ perm' = [perm EXCEPT ![post[p].by] = IF post[p].saw THEN "left" ELSE "in"]
        BY <2>2 DEF FillPermission
      <3>2. excused' \in {excused, excused \cup {post[p].by}, excused \ {post[p].by}}
        BY <2>2 DEF FillPermission
      <3> QED
        BY <1>0, <2>0, <2>2, <3>1, <3>2 DEF FillPermission
    <2>3. CASE ListMembers(p)
      BY <1>1, <2>3 DEF ListMembers, cacheVars, histories
    <2>4. CASE FillIds(p)
      <3>1. [cached |-> TRUE, users |-> post[p].users] \in [cached : BOOLEAN, users : SUBSET Users]
        BY <2>0
      <3>2. ids' \in [cached : BOOLEAN, users : SUBSET Users] /\ excusedIds' \in BOOLEAN
        BY <1>0, <2>4, <3>1 DEF FillIds
      <3> QED
        BY <1>0, <2>4, <3>2 DEF FillIds
    <2> QED
      BY <1>5, <2>1, <2>2, <2>3, <2>4 DEF Poster
  <1>6. CASE Expire
    <2>1. ASSUME NEW u \in Users, ExpirePermission(u) PROVE Kept
      BY <1>0, <2>1 DEF ExpirePermission
    <2>2. CASE ExpireIds
      BY <1>0, <2>2 DEF ExpireIds
    <2> QED
      BY <1>6, <2>1, <2>2 DEF Expire
  <1>7. CASE UNCHANGED vars
    BY <1>1, <1>7 DEF vars, cacheVars, histories
  <1>8. ASSUME NEW c \in Calls, Asks(c) PROVE Kept
    BY <1>1, <1>8, AsksLeaves
  <1> HIDE DEF Kept
  <1> QED
    BY <1>2, <1>3, <1>4, <1>5, <1>6, <1>7, <1>8, HandlerCases DEF Next

LEMMA NextTypes == TypeOK /\ [Next]_vars => TypeOK'
  <1> SUFFICES ASSUME TypeOK, [Next]_vars PROVE TypeOK'
    OBVIOUS
  <1> DEFINE Kept == /\ room' \in {"none", "alive", "dismissed"} /\ rowsLost' \in BOOLEAN
                     /\ lateJoins' \in SUBSET Users /\ ownerOut' \in BOOLEAN
  <1>0. /\ room \in {"none", "alive", "dismissed"} /\ rowsLost \in BOOLEAN
        /\ lateJoins \in SUBSET Users /\ ownerOut \in BOOLEAN
    BY DEF TypeOK
  <1>1. ASSUME UNCHANGED <<room, rowsLost, lateJoins, ownerOut>> PROVE Kept
    BY <1>0, <1>1
  <1>2. ASSUME NEW c \in Calls, CreateRoom(c) \/ Dismiss(c) PROVE Kept
    BY <1>0, <1>2 DEF CreateRoom, Dismiss, histories
  <1>3. ASSUME NEW c \in Calls, Writes(c) PROVE Kept
    <2>0. call[c].to \in Users
      BY DEF TypeOK
    <2>1. rowsLost' \in {rowsLost, TRUE}
      BY <1>3 DEF Writes, CreateOwner, CreateMembers, Join, Depart, DismissRows, Promote, histories
    <2>2. lateJoins' \in {lateJoins, {}, lateJoins \cup {call[c].to}, lateJoins \cup {},
                          lateJoins \ {call[c].to}}
      BY <1>3 DEF Writes, CreateOwner, CreateMembers, Join, Depart, DismissRows, Promote, histories
    <2>3. ownerOut' \in BOOLEAN
      BY <1>0, <1>3 DEF Writes, CreateOwner, CreateMembers, Join, Depart, DismissRows, Promote, histories
    <2> QED
      BY <1>0, <1>3, <2>0, <2>1, <2>2, <2>3, WritesLeaves
  <1>4. ASSUME UNCHANGED vars PROVE Kept
    <2>1. UNCHANGED <<room, rowsLost, lateJoins, ownerOut>>
      BY <1>4 DEF vars, histories
    <2> QED
      BY <1>1, <2>1
  <1>5. Kept
    <2>1. ASSUME NEW c \in Calls, Asks(c) \/ Deletes(c) PROVE Kept
      BY <1>1, <2>1, AsksLeaves, DeletesLeaves
    <2>2. ASSUME NEW p \in Posts, Poster(p) PROVE Kept
      BY <1>1, <2>2, PostsLeave
    <2>3. CASE Expire
      BY <1>1, <2>3, ExpireLeaves
    <2> HIDE DEF Kept
    <2> QED
      BY <1>2, <1>3, <1>4, <2>1, <2>2, <2>3, HandlerCases DEF Next
  <1>6. call' \in [Calls -> CallType] /\ post' \in [Posts -> PostType]
    BY NextCallType, NextPosts
  <1>7. row' \in [Users -> Rows] /\ faults' \in 0..MaxFaults
    BY NextRows
  <1>8. /\ perm' \in [Users -> {"none", "in", "left"}]
        /\ ids' \in [cached : BOOLEAN, users : SUBSET Users]
        /\ excused' \in SUBSET Users /\ excusedIds' \in BOOLEAN
    BY NextEntries
  <1> QED
    BY <1>5, <1>6, <1>7, <1>8 DEF TypeOK, CallType, PostType

\* Whatever is asked and posted, rows, entries, requests and messages keep their
\* form.
THEOREM GroupsTypeCorrect == Spec => []TypeOK
  BY InitTypes, NextTypes, PTL DEF Spec

-----------------------------------------------------------------------------
(* How a group begins, and what every request in it can rely on: before the  *)
(* owner's row is there nobody can ask anything, so that no request and no    *)
(* entry is older than that row; a request knows what it has checked, and a   *)
(* row is never removed.                                                      *)

Unfounded ==
    /\ \A u \in Users : row[u] = NoRow /\ perm[u] = "none"
    /\ ~ids.cached
    /\ \A c \in Calls : call[c].phase \in {"idle", "owner"}
    /\ \A p \in Posts : post[p].phase = "idle"
    /\ room # "dismissed"

Writing(c) ==
    /\ call[c].op = "remove" => Present(call[c].to) /\ (call[c].to = Owner => call[c].by = Owner)
    /\ call[c].op = "leave" => Present(call[c].to) /\ call[c].to # Owner
    /\ call[c].op = "admin" => call[c].by = Owner
    /\ call[c].op = "add" => (call[c].saw => Present(call[c].to))

Founded ==
    /\ Present(Owner) => row[Owner].role = "owner" /\ room # "none"
    /\ ~Present(Owner) => Unfounded
    /\ \A u \in Users : row[u].role = "owner" => u = Owner
    /\ \A u \in Users : ~Present(u) => row[u] = NoRow
    /\ room = "none" => \A c \in Calls : call[c].phase = "idle"
    /\ \A c \in Calls : call[c].phase = "owner" => ~Present(Owner)
    /\ \A c, d \in Calls : call[c].phase = "owner" /\ call[d].phase = "owner" => c = d
    /\ \A c \in Calls : call[c].phase = "rows" => room = "dismissed" /\ call[c].op = "dismiss"
    /\ \A c \in Calls : call[c].phase = "look" => call[c].op = "add"
    /\ \A c \in Calls : call[c].phase = "write" => Writing(c)

\* A row that is there stays, an owner's role too, and nobody else gets it.
LEMMA RowsStay ==
  ASSUME TypeOK, Founded, [Next]_vars
  PROVE  \A u \in Users : /\ Present(u) => Present(u)'
                          /\ row'[u].role = "owner" => u = Owner
                          /\ ~Present(u)' => row'[u] = NoRow
                          /\ u = Owner /\ Present(u) => row'[u].role = "owner"
                          /\ ~Present(Owner) /\ Present(u)' =>
                                \E c \in Calls : CreateOwner(c) /\ u = Owner
  <1>0. row \in [Users -> Rows] /\ \A c \in Calls : call[c].to \in Users
    BY DEF TypeOK
  <1> SUFFICES ASSUME NEW u \in Users
               PROVE  /\ Present(u) => Present(u)'
                      /\ row'[u].role = "owner" => u = Owner
                      /\ ~Present(u)' => row'[u] = NoRow
                      /\ u = Owner /\ Present(u) => row'[u].role = "owner"
                      /\ ~Present(Owner) /\ Present(u)' =>
                            \E c \in Calls : CreateOwner(c) /\ u = Owner
    OBVIOUS
  <1>1. CASE row'[u] = row[u]
    BY <1>1 DEF Founded, Unfounded, Present, NoRow
  <1>2. ASSUME NEW c \in Calls, CreateOwner(c) PROVE row'[u] = row[u] \/ (u = Owner /\ row'[u] = Row("owner"))
    <2>1. row' = [row EXCEPT ![Owner] = Row("owner")]
      BY <1>2 DEF CreateOwner
    <2> QED
      BY <1>0, <2>1
  <1>3. ASSUME NEW c \in Calls, CreateMembers(c) \/ Join(c) \/ Depart(c) \/ DismissRows(c) \/ Promote(c)
        PROVE  /\ Present(Owner)
               /\ \/ row'[u] = row[u]
                  \/ ~Present(u) /\ row'[u] = Row("member")
                  \/ Present(u) /\ row'[u].role = row[u].role
                  \/ Present(u) /\ u # Owner /\ row'[u].role = "admin"
    <2>1. call[c].phase \in {"members", "write", "rows"}
      BY <1>3 DEF CreateMembers, Join, Depart, DismissRows, Promote, Goto
    <2>2. Present(Owner)
      BY <2>1 DEF Founded, Unfounded
    <2>3. CASE CreateMembers(c)
      <3>1. \/ row' = row
            \/ ~Present(call[c].to) /\ row' = [row EXCEPT ![call[c].to] = Row("member")]
        BY <2>3 DEF CreateMembers
      <3> QED
        BY <1>0, <2>2, <3>1
    <2>4. CASE Join(c)
      <3>1. call[c].phase = "write" /\ call[c].op = "add"
        BY <2>4 DEF Join, Goto
      <3>2. call[c].saw => Present(call[c].to)
        BY <3>1 DEF Founded, Writing
      <3> DEFINE to == call[c].to
                 new == IF call[c].saw THEN [row[to] EXCEPT !.left = FALSE]
                        ELSE IF Present(to) THEN row[to] ELSE Row("member")
      <3>3. row' = [row EXCEPT ![to] = new]
        BY <1>0, <2>4 DEF Join
      <3>4. \/ Present(to) /\ new.role = row[to].role
            \/ ~Present(to) /\ new = Row("member")
        BY <1>0, <3>2 DEF Rows
      <3> HIDE DEF new
      <3> QED
        BY <1>0, <2>2, <3>3, <3>4
    <2>5. CASE Depart(c)
      <3>1. call[c].phase = "write" /\ call[c].op \in {"remove", "leave"}
        BY <2>5 DEF Depart, Goto
      <3>2. Present(call[c].to)
        BY <3>1 DEF Founded, Writing
      <3> QED
        BY <1>0, <2>2, <2>5, <3>2 DEF Depart, Rows
    <2>6. CASE DismissRows(c)
      BY <1>0, <2>2, <2>6 DEF DismissRows, Rows
    <2>7. CASE Promote(c)
      <3>1. call[c].phase = "write" /\ call[c].op = "admin"
        BY <2>7 DEF Promote, Goto
      <3>2. call[c].by = Owner
        BY <3>1 DEF Founded, Writing
      <3>3. row'[u] = row[u] \/ u = call[c].to
        BY <1>0, <2>7 DEF Promote
      <3>4. CASE u = call[c].to
        BY <1>0, <2>2, <2>7, <3>2, <3>4 DEF Promote, Active, Rows
      <3> QED
        BY <2>2, <3>3, <3>4
    <2> QED
      BY <1>3, <2>2, <2>3, <2>4, <2>5, <2>6, <2>7
  <1>4. ASSUME NEW c \in Calls, CreateRoom(c) \/ Dismiss(c) PROVE row' = row
    BY <1>4 DEF CreateRoom, Dismiss
  <1>5. CASE UNCHANGED vars
    BY <1>1, <1>5 DEF vars
  <1>6. ASSUME NEW c \in Calls, CreateOwner(c) PROVE Present(u) => u = Owner /\ row[u].role = "owner"
    <2>1. ~Present(Owner)
      BY <1>6 DEF CreateOwner, Goto, Founded
    <2> QED
      BY <2>1 DEF Founded, Unfounded, Present, NoRow
  <1> QED
    <2>1. CASE \E c \in Calls : CreateOwner(c)
      BY <1>1, <1>2, <1>6, <2>1 DEF Present, Row
    <2>2. CASE \E c \in Calls : CreateMembers(c) \/ Join(c) \/ Depart(c) \/ DismissRows(c) \/ Promote(c)
      BY <1>1, <1>3, <2>2 DEF Present, Row, Founded
    <2> QED
      BY <1>1, <1>4, <1>5, <2>1, <2>2, HandlerCases, AsksLeaves, DeletesLeaves, PostsLeave, ExpireLeaves
      DEF Next, Writes

\* Before the owner's row is there, three steps are possible.
LEMMA UnfoundedSteps ==
  ASSUME TypeOK, Founded, [Next]_vars, ~Present(Owner)
  PROVE  \/ \E c \in Calls : CreateRoom(c) \/ CreateOwner(c) \/ (Goto(c, "owner", "idle") /\ CreateFails(c))
         \/ /\ UNCHANGED <<room, row, perm, ids, call>>
            /\ \A p \in Posts : post'[p].phase = "idle"
  <1> USE DEF Founded, Unfounded
  <1>0. /\ \A u \in Users : ~Present(u) /\ row[u].role = "none" /\ perm[u] = "none"
        /\ \A c \in Calls : call[c].phase \in {"idle", "owner"}
    BY DEF Present, NoRow
  <1>1. ASSUME NEW c \in Calls, Asks(c) PROVE Goto(c, "owner", "idle") /\ CreateFails(c)
    BY <1>0, <1>1 DEF Asks, CreateFails, WriteFails, Look, DismissGroup, RemoveMember, AddMembers,
                      LeaveGroup, AddAdmins, Goto
  <1>2. ASSUME NEW c \in Calls, Writes(c) PROVE CreateOwner(c)
    BY <1>0, <1>2 DEF Writes, CreateMembers, Join, Depart, DismissRows, Promote, Goto
  <1>3. ASSUME NEW c \in Calls, Dismiss(c) \/ Deletes(c) PROVE FALSE
    BY <1>0, <1>3 DEF Dismiss, Deletes, InvalidatePermission, InvalidateIds, InvalidateFails, Goto
  <1>4. ASSUME NEW p \in Posts, Poster(p)
        PROVE  UNCHANGED <<room, row, perm, ids, call>> /\ \A q \in Posts : post'[q].phase = "idle"
    <2>1. PICK u \in Users : CheckPermission(p, u)
      BY <1>4 DEF Poster, FillPermission, ListMembers, FillIds
    <2>2. PostGoto(p, "idle")
      BY <1>0, <2>1 DEF CheckPermission
    <2>3. \A q \in Posts : post'[q].phase = "idle"
      BY <2>2, PostGoes DEF PostPhases
    <2> QED
      BY <2>1, <2>3 DEF CheckPermission, cacheVars
  <1>5. ASSUME Expire PROVE FALSE
    BY <1>0, <1>5 DEF Expire, ExpireIds, ExpirePermission
  <1>6. CASE UNCHANGED vars
    BY <1>6 DEF vars, cacheVars
  <1> HIDE DEF Founded, Unfounded
  <1> QED
    BY <1>1, <1>2, <1>3, <1>4, <1>5, <1>6, HandlerCases DEF Next

\* Afterwards, what a request c does to itself.
LEMMA FoundedMoves ==
  ASSUME TypeOK, Founded, Present(Owner), NEW c \in Calls, Handler(c)
  PROVE  /\ \A d \in Calls \ {c} : call'[d] = call[d]
         /\ call'[c].phase # "owner"
         /\ call'[c].phase = "rows" => room' = "dismissed" /\ call'[c].op = "dismiss"
         /\ call'[c].phase = "look" => call'[c].op = "add"
         /\ call'[c].phase = "write" => (Writing(c)' \/ ~(\A u \in Users : Present(u) => Present(u)'))
         /\ room' \in {room, "dismissed"}
  <1>0. \A u \in Users : row[u].role = "owner" => u = Owner
    BY DEF Founded
  <1>1. CASE CreateRoom(c)
    BY <1>1 DEF CreateRoom, Founded
  <1>2. CASE Dismiss(c)
    BY <1>2, Goes DEF Dismiss
  <1>3. ASSUME NEW from, NEW to \in {"idle", "members", "delPerm", "delIds"}, Goto(c, from, to),
               room' = room
        PROVE  /\ \A d \in Calls \ {c} : call'[d] = call[d]
               /\ call'[c].phase \notin {"owner", "rows", "look", "write"}
               /\ room' \in {room, "dismissed"}
    BY <1>3, Goes
  <1>4. CASE Writes(c)
    BY <1>3, <1>4, WritesLeaves DEF Writes, CreateOwner, CreateMembers, Join, Depart, DismissRows, Promote
  <1>5. CASE Deletes(c)
    BY <1>3, <1>5, DeletesLeaves DEF Deletes, InvalidatePermission, InvalidateIds, InvalidateFails
  <1>6. ASSUME NEW op \in {"add", "remove", "leave", "dismiss", "admin"}, NEW by \in Users,
               NEW to \in Users, NEW phase \in {"look", "write"}, Enter(c, op, by, to, phase)
        PROVE  /\ call'[c] = [op |-> op, by |-> by, to |-> to, phase |-> phase, saw |-> FALSE]
               /\ \A d \in Calls \ {c} : call'[d] = call[d]
    <2>1. op \in Ops /\ phase \in CallPhases
      BY DEF Ops, CallPhases
    <2> QED
      BY <1>6, <2>1, Begins
  <1>7. CASE Asks(c)
    <2>0. room' = room /\ row' = row
      BY <1>7, AsksLeaves
    <2>1. CASE CreateFails(c) \/ WriteFails(c)
      BY <1>3, <2>0, <2>1 DEF CreateFails, WriteFails
    <2>2. CASE Look(c)
      <3>1. call[c].phase = "look" /\ \A d \in Calls \ {c} : call'[d] = call[d]
        BY <2>2, Looks
      <3>2. CASE call'[c].phase = "idle"
        BY <2>0, <3>1, <3>2
      <3>3. CASE call'[c].phase = "write"
        <4>1. call'[c].op = "add"
          BY <2>2, <3>1, <3>3, Looks DEF Founded
        <4>2. call'[c].saw = Present(call'[c].to)
          BY <2>2, <3>3, Looks
        <4> QED
          BY <2>0, <3>1, <3>3, <4>1, <4>2 DEF Writing, Present
      <3> QED
        BY <2>2, <3>2, <3>3, Looks
    <2>3. CASE DismissGroup(c)
      <3>1. /\ call'[c] = [op |-> "dismiss", by |-> Owner, to |-> Owner, phase |-> "write", saw |-> FALSE]
            /\ \A d \in Calls \ {c} : call'[d] = call[d]
        BY <1>6, <2>3 DEF DismissGroup
      <3> QED
        BY <2>0, <3>1 DEF Writing
    <2>4. ASSUME NEW by \in Users, NEW to \in Users, RemoveMember(c, by, to)
          PROVE  /\ \A d \in Calls \ {c} : call'[d] = call[d]
                 /\ call'[c].phase = "write" /\ Writing(c)'
      <3>1. Present(to) /\ CanKick(row[by].role, row[to].role) /\ Enter(c, "remove", by, to, "write")
        BY <2>4 DEF RemoveMember
      <3>2. to = Owner => by = Owner
        <4> SUFFICES ASSUME to = Owner PROVE by = Owner
          OBVIOUS
        <4>1. row[to].role = "owner"
          BY DEF Founded
        <4> QED
          BY <1>0, <3>1, <4>1 DEF CanKick
      <3>3. /\ call'[c] = [op |-> "remove", by |-> by, to |-> to, phase |-> "write", saw |-> FALSE]
            /\ \A d \in Calls \ {c} : call'[d] = call[d]
        BY <1>6, <3>1
      <3> QED
        BY <2>0, <3>1, <3>2, <3>3 DEF Writing, Present
    <2>5. ASSUME NEW u \in Users, AddMembers(c, u)
          PROVE  /\ \A d \in Calls \ {c} : call'[d] = call[d]
                 /\ call'[c].phase = "look" /\ call'[c].op = "add"
      <3>1. /\ call'[c] = [op |-> "add", by |-> u, to |-> u, phase |-> "look", saw |-> FALSE]
            /\ \A d \in Calls \ {c} : call'[d] = call[d]
        BY <1>6, <2>5 DEF AddMembers
      <3> QED
        BY <3>1
    <2>6. ASSUME NEW u \in Users, LeaveGroup(c, u)
          PROVE  /\ \A d \in Calls \ {c} : call'[d] = call[d]
                 /\ call'[c].phase = "write" /\ Writing(c)'
      <3>1. Present(u) /\ u # Owner
        BY <2>6 DEF LeaveGroup, Founded
      <3>2. /\ call'[c] = [op |-> "leave", by |-> u, to |-> u, phase |-> "write", saw |-> FALSE]
            /\ \A d \in Calls \ {c} : call'[d] = call[d]
        BY <1>6, <2>6 DEF LeaveGroup
      <3> QED
        BY <2>0, <3>1, <3>2 DEF Writing, Present
    <2>7. ASSUME NEW u \in Users, AddAdmins(c, u)
          PROVE  /\ \A d \in Calls \ {c} : call'[d] = call[d]
                 /\ call'[c].phase = "write" /\ Writing(c)'
      <3>1. /\ call'[c] = [op |-> "admin", by |-> Owner, to |-> u, phase |-> "write", saw |-> FALSE]
            /\ \A d \in Calls \ {c} : call'[d] = call[d]
        BY <1>6, <2>7 DEF AddAdmins
      <3> QED
        BY <3>1 DEF Writing
    <2> QED
      BY <1>7, <2>0, <2>1, <2>2, <2>3, <2>4, <2>5, <2>6, <2>7 DEF Asks
  <1> QED
    BY <1>1, <1>2, <1>4, <1>5, <1>7, HandlerCases

LEMMA NextFounded == TypeOK /\ Founded /\ [Next]_vars => Founded'
  <1> SUFFICES ASSUME TypeOK, Founded, [Next]_vars PROVE Founded'
    OBVIOUS
  <1>1. /\ \A u \in Users : Present(u) => Present(u)'
        /\ \A u \in Users : row'[u].role = "owner" => u = Owner
        /\ \A u \in Users : ~Present(u)' => row'[u] = NoRow
        /\ Present(Owner) => row'[Owner].role = "owner"
    BY RowsStay
  <1>2. CASE Present(Owner)
    <2>1. room # "none" /\ Present(Owner)' /\ row'[Owner].role = "owner"
      BY <1>1, <1>2 DEF Founded
    <2>2. /\ room' \in {room, "dismissed"}
          /\ \A c \in Calls :
                /\ call'[c].phase # "owner"
                /\ call'[c].phase = "rows" => room' = "dismissed" /\ call'[c].op = "dismiss"
                /\ call'[c].phase = "look" => call'[c].op = "add"
                /\ call'[c].phase = "write" => Writing(c)'
      <3>1. ASSUME NEW c \in Calls, call'[c] = call[c], room' \in {room, "dismissed"}
            PROVE  /\ call'[c].phase # "owner"
                   /\ call'[c].phase = "rows" => room' = "dismissed" /\ call'[c].op = "dismiss"
                   /\ call'[c].phase = "look" => call'[c].op = "add"
                   /\ call'[c].phase = "write" => Writing(c)'
        <4>1. call[c].to \in Users
          BY DEF TypeOK
        <4> QED
          BY <1>1, <1>2, <3>1, <4>1 DEF Founded, Writing
      <3>2. CASE \E c \in Calls : Handler(c)
        <4>1. PICK c \in Calls : Handler(c)
          BY <3>2
        <4>2. /\ \A d \in Calls \ {c} : call'[d] = call[d]
              /\ call'[c].phase # "owner"
              /\ call'[c].phase = "rows" => room' = "dismissed" /\ call'[c].op = "dismiss"
              /\ call'[c].phase = "look" => call'[c].op = "add"
              /\ call'[c].phase = "write" => Writing(c)'
              /\ room' \in {room, "dismissed"}
          BY <1>1, <1>2, <4>1, FoundedMoves
        <4> QED
          BY <3>1, <4>2
      <3>3. CASE ~(\E c \in Calls : Handler(c))
        <4>1. room' = room /\ call' = call
          BY <3>3, PostsLeave, ExpireLeaves DEF Next, vars
        <4> QED
          BY <3>1, <4>1
      <3> QED
        BY <3>2, <3>3
    <2>3. room' # "none"
      BY <2>1, <2>2
    <2> QED
      BY <1>1, <2>1, <2>2, <2>3 DEF Founded
  <1>3. CASE ~Present(Owner)
    <2>0. /\ \A u \in Users : row[u] = NoRow /\ perm[u] = "none"
          /\ ~ids.cached /\ room # "dismissed"
          /\ \A c \in Calls : call[c].phase \in {"idle", "owner"}
          /\ \A p \in Posts : post[p].phase = "idle"
          /\ room = "none" => \A c \in Calls : call[c].phase = "idle"
          /\ \A c, d \in Calls : call[c].phase = "owner" /\ call[d].phase = "owner" => c = d
      BY <1>3 DEF Founded, Unfounded
    <2>1. ASSUME NEW c \in Calls, CreateRoom(c) PROVE Founded'
      <3>1. PICK u \in Users : Enter(c, "create", Owner, u, "owner")
        BY <2>1 DEF CreateRoom
      <3>2. call'[c].phase = "owner" /\ \A d \in Calls \ {c} : call'[d] = call[d]
        <4>1. "create" \in Ops /\ "owner" \in CallPhases
          BY DEF Ops, CallPhases
        <4>2. call'[c] = [op |-> "create", by |-> Owner, to |-> u, phase |-> "owner", saw |-> FALSE]
              /\ \A d \in Calls \ {c} : call'[d] = call[d]
          BY <3>1, <4>1, Begins
        <4> QED
          BY <4>2
      <3>3. room = "none" /\ room' = "alive" /\ UNCHANGED <<row, perm, ids, post>>
        BY <2>1 DEF CreateRoom, cacheVars
      <3> QED
        BY <1>1, <1>3, <2>0, <3>2, <3>3 DEF Founded, Unfounded, Present
    <2>2. ASSUME NEW c \in Calls, CreateOwner(c) PROVE Founded'
      <3>1. /\ call[c].phase = "owner" /\ call'[c].phase = "members"
            /\ \A d \in Calls \ {c} : call'[d] = call[d]
        BY <2>2, Goes DEF CreateOwner
      <3>2. room' = room /\ room # "none"
        BY <2>0, <2>2, <3>1 DEF CreateOwner
      <3>3. \A d \in Calls : call'[d].phase \in {"idle", "members"}
        BY <2>0, <3>1
      <3>4. row'[Owner].role = "owner" /\ Present(Owner)'
        <4>1. row' = [row EXCEPT ![Owner] = Row("owner")] /\ row \in [Users -> Rows]
          BY <2>2 DEF CreateOwner, TypeOK
        <4> QED
          BY <4>1 DEF Row, Present
      <3> QED
        BY <1>1, <3>2, <3>3, <3>4 DEF Founded
    <2>3. ASSUME NEW c \in Calls, Goto(c, "owner", "idle"), CreateFails(c) PROVE Founded'
      <3>1. /\ call[c].phase = "owner" /\ call'[c].phase = "idle"
            /\ \A d \in Calls \ {c} : call'[d] = call[d]
        BY <2>3, Goes
      <3>2. UNCHANGED <<room, row, perm, ids, post>>
        BY <2>3 DEF CreateFails, cacheVars
      <3>3. \A d \in Calls : call'[d].phase \in {"idle", "owner"} /\ (call'[d].phase = "owner" => call[d].phase = "owner")
        BY <2>0, <3>1
      <3> QED
        BY <1>1, <1>3, <2>0, <3>1, <3>2, <3>3 DEF Founded, Unfounded, Present
    <2>4. CASE /\ UNCHANGED <<room, row, perm, ids, call>>
               /\ \A p \in Posts : post'[p].phase = "idle"
      BY <1>1, <1>3, <2>0, <2>4 DEF Founded, Unfounded, Present
    <2> QED
      BY <1>3, <2>1, <2>2, <2>3, <2>4, UnfoundedSteps
  <1> QED
    BY <1>2, <1>3

LEMMA GroupsFounded == Spec => [](TypeOK /\ Founded)
  <1>1. Init => Founded
    BY DEF Init, Founded, Unfounded, Present, NoRow, NewCall, NewPost, NoIds
  <1> QED
    BY <1>1, InitTypes, NextTypes, NextFounded, PTL DEF Spec

\* The owner of a living group has his role and, unless he removed himself, his
\* seat, whatever admins, removals, departures and rejoins do at the same time.
THEOREM OwnerSeated == Spec => []OwnerKeepsHisSeat
  <1> DEFINE Seated == room # "dismissed" /\ row[Owner].left => ownerOut
  <1>1. Init => Seated
    BY DEF Init, NoRow
  <1>2. TypeOK /\ Founded /\ Seated /\ [Next]_vars => Seated'
    <2> SUFFICES ASSUME TypeOK, Founded, Seated, [Next]_vars PROVE Seated'
      OBVIOUS
    <2>0. row \in [Users -> Rows] /\ \A c \in Calls : call[c].to \in Users
      BY DEF TypeOK
    <2>1. ASSUME UNCHANGED <<room, row, ownerOut>> PROVE Seated'
      BY <2>1
    <2>2. ASSUME NEW c \in Calls, CreateRoom(c) \/ Dismiss(c) PROVE Seated'
      BY <2>2 DEF CreateRoom, Dismiss, histories
    <2>3. ASSUME NEW c \in Calls, Depart(c) PROVE Seated'
      <3>1. call[c].phase = "write" /\ Writing(c)
        BY <2>3 DEF Depart, Goto, Founded
      <3>2. CASE call[c].to = Owner
        <4>1. call[c].op = "remove" /\ call[c].by = Owner
          BY <2>3, <3>1, <3>2 DEF Depart, Writing
        <4>2. {call[c].by, call[c].to} = {Owner}
          BY <3>2, <4>1
        <4> QED
          BY <2>3, <4>1, <4>2 DEF Depart
      <3>3. CASE call[c].to # Owner
        BY <2>0, <2>3, <3>3 DEF Depart
      <3> QED
        BY <3>2, <3>3
    <2>4. ASSUME NEW c \in Calls, DismissRows(c) PROVE Seated'
      BY <2>4 DEF DismissRows, Goto, Founded
    <2>5. ASSUME NEW c \in Calls, CreateOwner(c) \/ CreateMembers(c) \/ Join(c) \/ Promote(c)
          PROVE  Seated'
      <3>1. room' = room /\ ownerOut' = ownerOut
        BY <2>5 DEF CreateOwner, CreateMembers, Join, Promote, histories
      <3>2. row'[Owner].left => row[Owner].left
        <4>1. CASE CreateOwner(c)
          BY <2>0, <4>1 DEF CreateOwner, Row
        <4>2. CASE CreateMembers(c)
          BY <2>0, <4>2 DEF CreateMembers, Row
        <4>3. CASE Join(c)
          BY <2>0, <4>3 DEF Join, Row, Rows
        <4>4. CASE Promote(c)
          BY <2>0, <4>4 DEF Promote, Rows
        <4> QED
          BY <2>5, <4>1, <4>2, <4>3, <4>4
      <3> QED
        BY <3>1, <3>2
    <2>6. ASSUME NEW c \in Calls, Asks(c) \/ Deletes(c) PROVE Seated'
      BY <2>1, <2>6, AsksLeaves, DeletesLeaves
    <2>7. ASSUME NEW p \in Posts, Poster(p) PROVE Seated'
      BY <2>1, <2>7, PostsLeave
    <2>8. CASE Expire
      BY <2>1, <2>8, ExpireLeaves
    <2>9. CASE UNCHANGED vars
      BY <2>1, <2>9 DEF vars, histories
    <2> HIDE DEF Seated
    <2> QED
      BY <2>2, <2>3, <2>4, <2>5, <2>6, <2>7, <2>8, <2>9, HandlerCases DEF Next, Writes
  <1>3. Founded /\ Seated => OwnerKeepsHisSeat
    BY DEF Founded, OwnerKeepsHisSeat
  <1> QED
    BY <1>1, <1>2, <1>3, GroupsFounded, PTL DEF Spec

-----------------------------------------------------------------------------
(* The rows after a dismissal. It marks everybody as left, and who is active *)
(* after it has a row that was written after it, which the request that wrote *)
(* it answers for.                                                            *)

Seen == \A u \in Users :
            (room = "dismissed" /\ Active(u)) =>
                (\E c \in Calls : call[c].phase = "rows") \/ rowsLost \/ u \in lateJoins

LEMMA NextSeen == TypeOK /\ Founded /\ Seen /\ [Next]_vars => Seen'
  <1> SUFFICES ASSUME TypeOK, Founded, Seen, [Next]_vars, NEW u \in Users
               PROVE  (room = "dismissed" /\ Active(u))' =>
                          (\E c \in Calls : call'[c].phase = "rows") \/ rowsLost' \/ u \in lateJoins'
    BY DEF Seen
  <1> DEFINE New == (room = "dismissed" /\ Active(u))' =>
                        (\E c \in Calls : call'[c].phase = "rows") \/ rowsLost' \/ u \in lateJoins'
  <1>0. row \in [Users -> Rows] /\ \A c \in Calls : call[c].to \in Users
    BY DEF TypeOK
  <1>1. (room = "dismissed" /\ Active(u)) =>
            (\E c \in Calls : call[c].phase = "rows") \/ rowsLost \/ u \in lateJoins
    BY DEF Seen
  \* A request that is not about to write the rows of a dismissed group.
  <1>2. ASSUME NEW c \in Calls, \A d \in Calls \ {c} : call'[d] = call[d], call[c].phase # "rows",
               room' = room, rowsLost' = rowsLost, Active(u)' => Active(u),
               u \in lateJoins => u \in lateJoins' \/ ~Active(u)'
        PROVE  New
    BY <1>1, <1>2
  <1>3. ASSUME UNCHANGED <<room, row, call, rowsLost, lateJoins>> PROVE New
    BY <1>1, <1>3 DEF Active, Present
  <1>4. ASSUME NEW c \in Calls, CreateRoom(c) PROVE New
    BY <1>4 DEF CreateRoom
  <1>5. ASSUME NEW c \in Calls, Dismiss(c) PROVE New
    <2>1. call'[c].phase = "rows"
      BY <1>5, Goes DEF Dismiss
    <2> QED
      BY <2>1
  <1>6. ASSUME NEW c \in Calls, Asks(c) PROVE New
    <2>1. UNCHANGED <<room, row, rowsLost, lateJoins>>
      BY <1>6, AsksLeaves
    <2>2. call[c].phase # "rows" /\ \A d \in Calls \ {c} : call'[d] = call[d]
      BY <1>6, AsksMoves
    <2> QED
      BY <1>2, <2>1, <2>2 DEF Active, Present
  <1>7. ASSUME NEW c \in Calls, Deletes(c) PROVE New
    <2>1. UNCHANGED <<room, row, rowsLost, lateJoins>>
      BY <1>7, DeletesLeaves
    <2>2. call[c].phase # "rows" /\ \A d \in Calls \ {c} : call'[d] = call[d]
      BY <1>7, DeletesMoves
    <2> QED
      BY <1>2, <2>1, <2>2 DEF Active, Present
  <1>8. ASSUME NEW c \in Calls, CreateOwner(c) PROVE New
    <2>1. room' = room /\ call[c].phase = "owner"
      BY <1>8 DEF CreateOwner, Goto
    <2> QED
      BY <2>1 DEF Founded, Unfounded
  <1>9. ASSUME NEW c \in Calls, CreateMembers(c) PROVE New
    <2>1. /\ call[c].phase = "members" /\ \A d \in Calls \ {c} : call'[d] = call[d]
          /\ room' = room /\ rowsLost' = rowsLost
      BY <1>9, Goes DEF CreateMembers
    <2>2. CASE Present(call[c].to)
      BY <1>2, <1>9, <2>1, <2>2 DEF CreateMembers, Active, Present
    <2>3. CASE ~Present(call[c].to)
      <3>1. row' = [row EXCEPT ![call[c].to] = Row("member")]
            /\ lateJoins' = lateJoins \cup (IF room = "dismissed" THEN {call[c].to} ELSE {})
        BY <1>9, <2>3 DEF CreateMembers
      <3>2. CASE u = call[c].to
        BY <2>1, <3>1, <3>2
      <3>3. CASE u # call[c].to
        <4>1. row'[u] = row[u]
          BY <1>0, <3>1, <3>3
        <4> QED
          BY <1>2, <2>1, <3>1, <4>1 DEF Active, Present
      <3> QED
        BY <3>2, <3>3
    <2> QED
      BY <2>2, <2>3
  <1>10. ASSUME NEW c \in Calls, Join(c) PROVE New
    <2>1. /\ call[c].phase = "write" /\ \A d \in Calls \ {c} : call'[d] = call[d]
          /\ room' = room /\ rowsLost' = rowsLost
      BY <1>10, Goes DEF Join
    <2>2. lateJoins' = lateJoins \cup (IF room = "dismissed" /\ row'[call[c].to] # row[call[c].to]
                                       THEN {call[c].to} ELSE {})
      BY <1>10 DEF Join
    <2>3. row'[u] = row[u] \/ u = call[c].to
      BY <1>0, <1>10 DEF Join
    <2>4. CASE row'[u] = row[u]
      BY <1>2, <2>1, <2>2, <2>4 DEF Active, Present
    <2>5. CASE row'[u] # row[u]
      BY <2>1, <2>2, <2>3, <2>5
    <2> QED
      BY <2>4, <2>5
  <1>11. ASSUME NEW c \in Calls, Depart(c) PROVE New
    <2>1. /\ call[c].phase = "write" /\ \A d \in Calls \ {c} : call'[d] = call[d]
          /\ room' = room /\ rowsLost' = rowsLost /\ lateJoins' = lateJoins \ {call[c].to}
      BY <1>11, Goes DEF Depart, histories
    <2>2. IF u = call[c].to THEN row'[u].left = TRUE ELSE row'[u] = row[u]
      BY <1>0, <1>11 DEF Depart, Rows
    <2> QED
      BY <1>2, <2>1, <2>2 DEF Active, Present
  <1>12. ASSUME NEW c \in Calls, DismissRows(c) PROVE New
    <2>1. CASE rowsLost' = TRUE
      BY <2>1
    <2>2. CASE row' = [v \in Users |-> IF Present(v) THEN [row[v] EXCEPT !.left = TRUE] ELSE row[v]]
      <3>1. ~Active(u)'
        BY <1>0, <2>2 DEF Active, Present, Rows
      <3> QED
        BY <3>1
    <2> QED
      BY <1>12, <2>1, <2>2 DEF DismissRows
  <1>13. ASSUME NEW c \in Calls, Promote(c) PROVE New
    <2>1. /\ call[c].phase = "write" /\ \A d \in Calls \ {c} : call'[d] = call[d]
          /\ UNCHANGED <<room, rowsLost, lateJoins>>
      BY <1>13, Goes DEF Promote, histories
    <2>2. Active(u)' => Active(u)
      BY <1>0, <1>13 DEF Promote, Active, Present, Rows
    <2> QED
      BY <1>2, <2>1, <2>2
  <1>14. ASSUME NEW p \in Posts, Poster(p) PROVE New
    BY <1>3, <1>14, PostsLeave
  <1>15. CASE Expire
    BY <1>3, <1>15, ExpireLeaves
  <1>16. CASE UNCHANGED vars
    BY <1>3, <1>16 DEF vars, histories
  <1> HIDE DEF New
  <1> QED
    BY <1>4, <1>5, <1>6, <1>7, <1>8, <1>9, <1>10, <1>11, <1>12, <1>13, <1>14, <1>15, <1>16, HandlerCases
    DEF Next, Writes, New

-----------------------------------------------------------------------------
(* The entries. Who has changed a row still has to delete the entries filled *)
(* from it, and goes on only by deleting them or with an excuse; and whose    *)
(* permission a dismissal deletes are those with a row, which stay.           *)

PermPaid(u) ==
    (perm[u] # "none" /\ (perm[u] = "left") # row[u].left) =>
        WillDeletePermission(u) \/ u \in excused

IdsPaid == (ids.cached /\ ids.users # ActiveMembers) => WillDeleteIds \/ excusedIds

\* Requests that do not end a deletion keep what is to be deleted.
LEMMA StillToDelete ==
  ASSUME TypeOK, Founded, [Next]_vars, NEW c \in Calls,
         \A d \in Calls \ {c} : call'[d] = call[d],
         call[c].phase \notin {"delPerm", "delIds"}
  PROVE  /\ \A u \in Users : WillDeletePermission(u) => WillDeletePermission(u)'
         /\ WillDeleteIds => WillDeleteIds'
  <1>1. ASSUME NEW u \in Users, WillDeletePermission(u) PROVE WillDeletePermission(u)'
    <2>1. PICK d \in Calls : call[d].phase = "delPerm" /\ u \in Invalidated(d)
      BY <1>1 DEF WillDeletePermission
    <2>2. call'[d] = call[d]
      BY <2>1
    <2>3. u \in Invalidated(d)'
      BY <2>1, <2>2, RowsStay DEF Invalidated
    <2> QED
      BY <2>1, <2>2, <2>3 DEF WillDeletePermission
  <1>2. WillDeleteIds => WillDeleteIds'
    BY DEF WillDeleteIds
  <1> QED
    BY <1>1, <1>2

LEMMA NextPermPaid ==
  ASSUME TypeOK, Founded, [Next]_vars, NEW u \in Users, PermPaid(u)
  PROVE  PermPaid(u)'
  <1>0. row \in [Users -> Rows] /\ perm \in [Users -> {"none", "in", "left"}]
        /\ \A c \in Calls : call[c].to \in Users
    BY DEF TypeOK
  <1>1. ASSUME NEW c \in Calls, \A d \in Calls \ {c} : call'[d] = call[d],
               call[c].phase \notin {"delPerm", "delIds"},
               perm' = perm, excused' = excused, row'[u].left = row[u].left
        PROVE  PermPaid(u)'
    BY <1>1, StillToDelete DEF PermPaid
  <1>2. ASSUME NEW c \in Calls, CreateRoom(c) \/ Dismiss(c) PROVE PermPaid(u)'
    <2>1. UNCHANGED <<row, perm, excused>>
      BY <1>2 DEF CreateRoom, Dismiss, cacheVars, histories
    <2>2. /\ \A d \in Calls \ {c} : call'[d] = call[d]
          /\ call[c].phase \notin {"delPerm", "delIds"}
      <3>1. call \in [Calls -> CallType]
        BY DEF TypeOK, CallType
      <3> QED
        BY <1>2, <3>1, Goes DEF CreateRoom, Dismiss, Enter
    <2> QED
      BY <1>1, <2>1, <2>2
  <1>3. ASSUME NEW c \in Calls, Asks(c) PROVE PermPaid(u)'
    BY <1>1, <1>3, AsksLeaves, AsksMoves
  <1>4. ASSUME NEW c \in Calls, CreateOwner(c) \/ CreateMembers(c) \/ Promote(c) PROVE PermPaid(u)'
    <2>1. perm' = perm /\ excused' = excused
      BY <1>4, WritesLeaves DEF Writes
    <2>2. /\ call[c].phase \in {"owner", "members", "write"}
          /\ \A d \in Calls \ {c} : call'[d] = call[d]
      BY <1>4, Goes DEF CreateOwner, CreateMembers, Promote
    <2>3. row'[u].left = row[u].left
      <3>0. NoRow.left = FALSE /\ \A role : Row(role).left = FALSE
        BY DEF NoRow, Row
      <3>1. CASE CreateOwner(c)
        <4>1. row[Owner] = NoRow /\ row' = [row EXCEPT ![Owner] = Row("owner")]
          BY <3>1 DEF CreateOwner, Goto, Founded, Unfounded
        <4> QED
          BY <1>0, <3>0, <4>1
      <3>2. CASE CreateMembers(c)
        <4>1. \/ row' = row
              \/ /\ row[call[c].to] = NoRow
                 /\ row' = [row EXCEPT ![call[c].to] = Row("member")]
          BY <1>0, <3>2 DEF CreateMembers, Founded
        <4> QED
          BY <1>0, <3>0, <4>1
      <3>3. CASE Promote(c)
        BY <1>0, <3>3 DEF Promote, Rows
      <3> QED
        BY <1>4, <3>1, <3>2, <3>3
    <2> QED
      BY <1>1, <2>1, <2>2, <2>3
  <1>5. ASSUME NEW c \in Calls, Join(c) \/ Depart(c) PROVE PermPaid(u)'
    <2>1. perm' = perm /\ excused' = excused
      BY <1>5, WritesLeaves DEF Writes
    <2>2. /\ call[c].phase = "write" /\ call[c].op \in {"add", "remove", "leave"}
          /\ \A d \in Calls \ {c} : call'[d] = call[d]
      BY <1>5, Goes DEF Join, Depart
    <2>3. CASE row'[u].left = row[u].left
      BY <1>1, <2>1, <2>2, <2>3
    <2>4. CASE row'[u].left # row[u].left
      <3>1. u = call[c].to
        BY <1>0, <1>5, <2>4 DEF Join, Depart
      <3>2. Goto(c, "write", "delPerm")
        <4>1. CASE Depart(c)
          BY <4>1 DEF Depart
        <4>2. CASE Join(c) /\ ~(Present(u) /\ ~call[c].saw)
          BY <3>1, <4>2 DEF Join
        <4>3. CASE Join(c) /\ Present(u) /\ ~call[c].saw
          <5>1. row' = [row EXCEPT ![u] = row[u]]
            BY <1>0, <3>1, <4>3 DEF Join
          <5> QED
            BY <1>0, <2>4, <5>1
        <4> QED
          BY <1>5, <4>1, <4>2, <4>3
      <3>3. call'[c].phase = "delPerm" /\ call'[c].op = call[c].op /\ call'[c].to = u
        BY <3>1, <3>2, Goes
      <3>4. u \in Invalidated(c)'
        BY <2>2, <3>3 DEF Invalidated
      <3> QED
        BY <3>3, <3>4 DEF PermPaid, WillDeletePermission
    <2> QED
      BY <2>3, <2>4
  <1>6. ASSUME NEW c \in Calls, DismissRows(c) PROVE PermPaid(u)'
    <2>1. /\ perm' = perm /\ excused' = excused
      BY <1>6, WritesLeaves DEF Writes
    <2>2. /\ call[c].phase = "rows" /\ call[c].op = "dismiss"
          /\ call'[c].phase = "delPerm" /\ call'[c].op = call[c].op
          /\ \A d \in Calls \ {c} : call'[d] = call[d]
      BY <1>6, Goes DEF DismissRows, Founded
    <2>3. CASE row'[u].left = row[u].left
      BY <1>1, <2>1, <2>2, <2>3
    <2>4. CASE row'[u].left # row[u].left
      <3>1. Present(u)
        BY <1>0, <1>6, <2>4 DEF DismissRows
      <3>2. u \in Invalidated(c)'
        BY <2>2, <3>1, RowsStay DEF Invalidated
      <3> QED
        BY <2>2, <3>2 DEF PermPaid, WillDeletePermission
    <2> QED
      BY <2>3, <2>4
  <1>7. ASSUME NEW c \in Calls, Deletes(c) PROVE PermPaid(u)'
    <2>0. UNCHANGED row /\ \A d \in Calls \ {c} : call'[d] = call[d]
      BY <1>7, DeletesLeaves, DeletesMoves
    <2>1. ASSUME ~(call[c].phase = "delPerm" /\ u \in Invalidated(c)), perm'[u] \in {perm[u], "none"},
                 u \in excused => u \in excused'
          PROVE  PermPaid(u)'
      <3>1. WillDeletePermission(u) => WillDeletePermission(u)'
        BY <2>0, <2>1 DEF WillDeletePermission, Invalidated, Present
      <3> QED
        BY <2>0, <2>1, <3>1 DEF PermPaid
    <2>2. CASE InvalidatePermission(c)
      <3>1. CASE u \in Invalidated(c)
        BY <2>2, <3>1 DEF InvalidatePermission, PermPaid
      <3>2. CASE u \notin Invalidated(c)
        BY <2>1, <2>2, <3>2 DEF InvalidatePermission
      <3> QED
        BY <3>1, <3>2
    <2>3. CASE InvalidateIds(c)
      BY <2>1, <2>3 DEF InvalidateIds, Goto
    <2>4. CASE InvalidateFails(c)
      <3>1. perm' = perm
        BY <2>4 DEF InvalidateFails, cacheVars
      <3>2. \/ call[c].phase = "delPerm" /\ excused' = excused \cup Invalidated(c)
            \/ call[c].phase = "delIds" /\ excused' = excused
        BY <2>4 DEF InvalidateFails, Goto
      <3>3. CASE call[c].phase = "delPerm" /\ u \in Invalidated(c)
        BY <3>2, <3>3 DEF PermPaid
      <3>4. CASE ~(call[c].phase = "delPerm" /\ u \in Invalidated(c))
        BY <2>1, <3>1, <3>2, <3>4
      <3> QED
        BY <3>3, <3>4
    <2> QED
      BY <1>7, <2>2, <2>3, <2>4 DEF Deletes
  <1>8. ASSUME UNCHANGED <<row, call>>, perm'[u] \in {perm[u], "none"},
               perm'[u] # "none" => (u \in excused => u \in excused')
        PROVE  PermPaid(u)'
    BY <1>8 DEF PermPaid, WillDeletePermission, Invalidated, Present
  <1>9. ASSUME NEW p \in Posts, Poster(p) PROVE PermPaid(u)'
    <2>0. UNCHANGED <<row, call>> /\ post[p].by \in Users /\ post[p].saw \in BOOLEAN
      BY <1>9, PostsLeave DEF TypeOK
    <2>1. ASSUME NEW v \in Users, CheckPermission(p, v) PROVE PermPaid(u)'
      BY <1>8, <2>0, <2>1 DEF CheckPermission, cacheVars, histories
    <2>2. CASE FillPermission(p)
      <3>1. CASE perm' = perm /\ excused' = excused
        BY <1>8, <2>0, <3>1
      <3>2. CASE /\ perm' = [perm EXCEPT ![post[p].by] = IF post[p].saw THEN "left" ELSE "in"]
                 /\ excused' = IF post[p].saw # row[post[p].by].left THEN excused \cup {post[p].by}
                               ELSE excused \ {post[p].by}
        <4>1. CASE u # post[p].by
          BY <1>0, <1>8, <2>0, <3>2, <4>1
        <4>2. CASE u = post[p].by /\ post[p].saw # row[u].left
          BY <3>2, <4>2 DEF PermPaid
        <4>3. CASE u = post[p].by /\ post[p].saw = row[u].left
          <5>1. (perm'[u] = "left") = row[u].left
            BY <1>0, <2>0, <3>2, <4>3
          <5> QED
            BY <2>0, <5>1 DEF PermPaid
        <4> QED
          BY <4>1, <4>2, <4>3
      <3> QED
        BY <2>2, <3>1, <3>2 DEF FillPermission
    <2>3. CASE ListMembers(p)
      BY <1>8, <2>0, <2>3 DEF ListMembers, cacheVars, histories
    <2>4. CASE FillIds(p)
      BY <1>8, <2>0, <2>4 DEF FillIds
    <2> QED
      BY <1>9, <2>1, <2>2, <2>3, <2>4 DEF Poster
  <1>10. CASE Expire
    <2>0. UNCHANGED <<row, call>>
      BY <1>10, ExpireLeaves
    <2>1. ASSUME NEW v \in Users, ExpirePermission(v) PROVE PermPaid(u)'
      BY <1>0, <1>8, <2>0, <2>1 DEF ExpirePermission
    <2>2. CASE ExpireIds
      BY <1>8, <2>0, <2>2 DEF ExpireIds
    <2> QED
      BY <1>10, <2>1, <2>2 DEF Expire
  <1>11. CASE UNCHANGED vars
    BY <1>8, <1>11 DEF vars, cacheVars, histories
  <1> QED
    BY <1>2, <1>3, <1>4, <1>5, <1>6, <1>7, <1>9, <1>10, <1>11, HandlerCases DEF Next, Writes

LEMMA NextIdsPaid ==
  ASSUME TypeOK, Founded, IdsPaid, [Next]_vars
  PROVE  IdsPaid'
  <1>0. row \in [Users -> Rows] /\ \A c \in Calls : call[c].to \in Users
    BY DEF TypeOK
  \* Who has not left is active before as after.
  <1>1. ASSUME \A u \in Users : Active(u)' <=> Active(u)
        PROVE  ActiveMembers' = ActiveMembers
    BY <1>1 DEF ActiveMembers
  <1>2. ASSUME NEW c \in Calls, \A d \in Calls \ {c} : call'[d] = call[d],
               call[c].phase \notin {"delPerm", "delIds"},
               ids' = ids, excusedIds' = excusedIds, \A u \in Users : Active(u)' <=> Active(u)
        PROVE  IdsPaid'
    BY <1>1, <1>2, StillToDelete DEF IdsPaid
  <1>3. ASSUME NEW c \in Calls, CreateRoom(c) \/ Dismiss(c) PROVE IdsPaid'
    <2>1. UNCHANGED <<row, ids, excusedIds>>
      BY <1>3 DEF CreateRoom, Dismiss, cacheVars, histories
    <2>2. /\ \A d \in Calls \ {c} : call'[d] = call[d]
          /\ call[c].phase \notin {"delPerm", "delIds"}
      <3>1. call \in [Calls -> CallType]
        BY DEF TypeOK, CallType
      <3> QED
        BY <1>3, <3>1, Goes DEF CreateRoom, Dismiss, Enter
    <2> QED
      BY <1>2, <2>1, <2>2 DEF Active, Present
  <1>4. ASSUME NEW c \in Calls, Asks(c) PROVE IdsPaid'
    <2>1. UNCHANGED <<row, ids, excusedIds>>
      BY <1>4, AsksLeaves
    <2> QED
      BY <1>2, <1>4, <2>1, AsksMoves DEF Active, Present
  <1>5. ASSUME NEW c \in Calls, CreateOwner(c) PROVE IdsPaid'
    <2>1. ids' = ids /\ ~ids.cached
      BY <1>5, WritesLeaves DEF Writes, CreateOwner, Goto, Founded, Unfounded
    <2> QED
      BY <2>1 DEF IdsPaid
  <1>6. ASSUME NEW c \in Calls, CreateMembers(c) PROVE IdsPaid'
    <2>1. ids' = ids /\ call[c].phase = "members" /\ \A d \in Calls \ {c} : call'[d] = call[d]
      BY <1>6, WritesLeaves, Goes DEF Writes, CreateMembers
    <2>2. CASE row' = row /\ excusedIds' = excusedIds
      BY <1>2, <2>1, <2>2 DEF Active, Present
    <2>3. CASE excusedIds' = (excusedIds \/ ids.cached)
      BY <2>1, <2>3 DEF IdsPaid
    <2> QED
      BY <1>6, <2>2, <2>3 DEF CreateMembers
  <1>7. ASSUME NEW c \in Calls, Promote(c) PROVE IdsPaid'
    <2>1. /\ ids' = ids /\ excusedIds' = excusedIds
          /\ call[c].phase = "write" /\ \A d \in Calls \ {c} : call'[d] = call[d]
      BY <1>7, WritesLeaves, Goes DEF Writes, Promote, histories
    <2>2. \A u \in Users : Active(u)' <=> Active(u)
      BY <1>0, <1>7 DEF Promote, Active, Present, Rows
    <2> QED
      BY <1>2, <2>1, <2>2
  <1>8. ASSUME NEW c \in Calls, Join(c) PROVE IdsPaid'
    <2>1. /\ ids' = ids /\ excusedIds' = excusedIds
          /\ call[c].phase = "write" /\ \A d \in Calls \ {c} : call'[d] = call[d]
      BY <1>8, WritesLeaves, Goes DEF Writes, Join
    <2>2. CASE Present(call[c].to) /\ ~call[c].saw
      <3>1. row' = [row EXCEPT ![call[c].to] = row[call[c].to]]
        BY <1>0, <1>8, <2>2 DEF Join
      <3>2. row' = row
        BY <1>0, <3>1
      <3> QED
        BY <1>2, <2>1, <3>2 DEF Active, Present
    <2>3. CASE ~(Present(call[c].to) /\ ~call[c].saw)
      <3>1. call'[c].phase = "delPerm"
        BY <1>8, <2>3, Goes DEF Join
      <3> QED
        BY <3>1 DEF IdsPaid, WillDeleteIds
    <2> QED
      BY <2>2, <2>3
  <1>9. ASSUME NEW c \in Calls, Depart(c) \/ DismissRows(c) \/ InvalidatePermission(c) PROVE IdsPaid'
    <2>1. call'[c].phase \in {"delPerm", "delIds"}
      BY <1>9, Goes DEF Depart, DismissRows, InvalidatePermission
    <2> QED
      BY <2>1 DEF IdsPaid, WillDeleteIds
  <1>10. ASSUME NEW c \in Calls, InvalidateIds(c) PROVE IdsPaid'
    BY <1>10 DEF InvalidateIds, NoIds, IdsPaid
  <1>11. ASSUME NEW c \in Calls, InvalidateFails(c) PROVE IdsPaid'
    <2>1. call'[c].phase = "delIds" \/ excusedIds' = TRUE
      BY <1>11, Goes DEF InvalidateFails
    <2> QED
      BY <2>1 DEF IdsPaid, WillDeleteIds
  <1>12. ASSUME UNCHANGED <<row, call>>, ids' = NoIds \/ (ids' = ids /\ excusedIds' = excusedIds)
         PROVE  IdsPaid'
    BY <1>12 DEF IdsPaid, NoIds, WillDeleteIds, ActiveMembers, Active, Present
  <1>13. ASSUME NEW p \in Posts, Poster(p) PROVE IdsPaid'
    <2>0. UNCHANGED <<row, call>>
      BY <1>13, PostsLeave
    <2>1. ASSUME NEW v \in Users, CheckPermission(p, v) PROVE IdsPaid'
      BY <1>12, <2>0, <2>1 DEF CheckPermission, cacheVars, histories
    <2>2. CASE FillPermission(p) \/ ListMembers(p)
      BY <1>12, <2>0, <2>2 DEF FillPermission, ListMembers, cacheVars, histories
    <2>3. CASE FillIds(p)
      <3>1. CASE ids' = ids /\ excusedIds' = excusedIds
        BY <1>12, <2>0, <3>1
      <3>2. CASE /\ ids' = [cached |-> TRUE, users |-> post[p].users]
                 /\ excusedIds' = (post[p].users # ActiveMembers)
        <4>1. ActiveMembers' = ActiveMembers
          BY <1>1, <2>0 DEF Active, Present
        <4> QED
          BY <3>2, <4>1 DEF IdsPaid
      <3> QED
        BY <2>3, <3>1, <3>2 DEF FillIds
    <2> QED
      BY <1>13, <2>1, <2>2, <2>3 DEF Poster
  <1>14. CASE Expire
    BY <1>12, <1>14, ExpireLeaves DEF Expire, ExpireIds, ExpirePermission
  <1>15. CASE UNCHANGED vars
    BY <1>12, <1>15 DEF vars, cacheVars, histories
  <1> QED
    BY <1>3, <1>4, <1>5, <1>6, <1>7, <1>8, <1>9, <1>10, <1>11, <1>13, <1>14, <1>15, HandlerCases
    DEF Next, Writes, Deletes

\* A cached permission or member list that disagrees with the rows is about to be
\* deleted, could not be deleted, or was filled by one who had read too early.
THEOREM StaleMembersPaid == Spec => []StaleIsPaid
  <1> DEFINE Paid == IdsPaid /\ \A u \in Users : PermPaid(u)
  <1>1. Init => Paid
    BY DEF Init, IdsPaid, PermPaid, NoIds
  <1>2. TypeOK /\ Founded /\ Paid /\ [Next]_vars => Paid'
    BY NextIdsPaid, NextPermPaid
  <1>3. Paid => StaleIsPaid
    BY DEF StaleIsPaid, IdsPaid, PermPaid
  <1> HIDE DEF Paid
  <1> QED
    BY <1>1, <1>2, <1>3, GroupsFounded, PTL DEF Spec
-----------------------------------------------------------------------------
(* The posters. Who has a cached permission has a row, because a permission is *)
(* filled from a row and rows stay; whether it still agrees with the row is    *)
(* StaleIsPaid, and what an active row means after a dismissal is Seen.        *)

PermittedHasRow ==
    /\ \A u \in Users : perm[u] # "none" => Present(u)
    /\ \A p \in Posts : post[p].phase = "filling" => Present(post[p].by)

LEMMA NextPermitted == TypeOK /\ Founded /\ PermittedHasRow /\ [Next]_vars => PermittedHasRow'
  <1> SUFFICES ASSUME TypeOK, Founded, PermittedHasRow, [Next]_vars PROVE PermittedHasRow'
    OBVIOUS
  <1>0. /\ perm \in [Users -> {"none", "in", "left"}]
        /\ post \in [Posts -> PostType] /\ \A p \in Posts : post[p].by \in Users
        /\ \A u \in Users : Present(u) => Present(u)'
    BY RowsStay DEF TypeOK, PostType
  <1>1. ASSUME post' = post, \A u \in Users : perm'[u] \in {perm[u], "none"}
        PROVE  PermittedHasRow'
    BY <1>0, <1>1 DEF PermittedHasRow
  <1>2. ASSUME NEW c \in Calls, CreateRoom(c) \/ Dismiss(c) PROVE PermittedHasRow'
    BY <1>1, <1>2 DEF CreateRoom, Dismiss, cacheVars
  <1>3. ASSUME NEW c \in Calls, Asks(c) \/ Writes(c) PROVE PermittedHasRow'
    BY <1>1, <1>3, AsksLeaves, WritesLeaves
  <1>4. ASSUME NEW c \in Calls, Deletes(c) PROVE PermittedHasRow'
    <2>1. post' = post
      BY <1>4, DeletesLeaves
    <2>2. perm' = perm \/ \E S : perm' = [u \in Users |-> IF u \in S THEN "none" ELSE perm[u]]
      BY <1>4, DeletesLeaves
    <2> QED
      BY <1>1, <2>1, <2>2
  <1>5. ASSUME NEW p \in Posts, Poster(p) PROVE PermittedHasRow'
    <2>1. ASSUME NEW to \in {"idle", "saving"}, PostGoto(p, to),
                 \A u \in Users : perm'[u] \in {perm[u], "none"} \/ Present(u)
          PROVE  PermittedHasRow'
      <3>1. post'[p].phase = to /\ \A q \in Posts \ {p} : post'[q] = post[q]
        BY <2>1, PostGoes DEF PostPhases
      <3> QED
        BY <1>0, <2>1, <3>1 DEF PermittedHasRow
    <2>2. ASSUME NEW u \in Users, CheckPermission(p, u) PROVE PermittedHasRow'
      <3>1. perm' = perm
        BY <2>2 DEF CheckPermission, cacheVars
      <3>2. CASE perm[u] # "none" \/ ~Present(u)
        BY <2>1, <2>2, <3>1, <3>2 DEF CheckPermission
      <3>3. CASE ~(perm[u] # "none" \/ ~Present(u))
        <4> DEFINE r == [NewPost EXCEPT !.by = u, !.saw = row[u].left, !.phase = "filling"]
        <4>1. post' = [post EXCEPT ![p] = r]
          BY <2>2, <3>3 DEF CheckPermission
        <4>2. r.by = u
          BY DEF NewPost
        <4> HIDE DEF r
        <4>3. post'[p].by = u /\ \A q \in Posts \ {p} : post'[q] = post[q]
          BY <1>0, <4>1, <4>2
        <4> QED
          BY <1>0, <3>1, <3>3, <4>3 DEF PermittedHasRow
      <3> QED
        BY <3>2, <3>3
    <2>3. CASE FillPermission(p)
      <3>1. post[p].phase = "filling" /\ Present(post[p].by)
        BY <2>3 DEF FillPermission, PermittedHasRow
      <3>2. \A u \in Users \ {post[p].by} : perm'[u] = perm[u]
        BY <1>0, <2>3 DEF FillPermission
      <3>3. \E to \in {"idle", "saving"} : PostGoto(p, to)
        BY <2>3 DEF FillPermission
      <3> QED
        BY <2>1, <3>1, <3>2, <3>3
    <2>4. CASE ListMembers(p)
      <3>1. perm' = perm
        BY <2>4 DEF ListMembers, cacheVars
      <3>2. CASE ids.cached
        BY <2>1, <2>4, <3>1, <3>2 DEF ListMembers
      <3>3. CASE ~ids.cached
        <4> DEFINE r == [NewPost EXCEPT !.users = ActiveMembers, !.phase = "listing"]
        <4>1. post' = [post EXCEPT ![p] = r]
          BY <2>4, <3>3 DEF ListMembers
        <4>2. r.phase = "listing"
          BY DEF NewPost
        <4> HIDE DEF r
        <4>3. post'[p].phase = "listing" /\ \A q \in Posts \ {p} : post'[q] = post[q]
          BY <1>0, <4>1, <4>2
        <4> QED
          BY <1>0, <3>1, <4>3 DEF PermittedHasRow
      <3> QED
        BY <3>2, <3>3
    <2>5. CASE FillIds(p)
      BY <2>1, <2>5 DEF FillIds
    <2> QED
      BY <1>5, <2>2, <2>3, <2>4, <2>5 DEF Poster
  <1>6. CASE Expire
    <2>1. post' = post
      BY <1>6, ExpireLeaves
    <2>2. \A u \in Users : perm'[u] \in {perm[u], "none"}
      BY <1>0, <1>6 DEF Expire, ExpireIds, ExpirePermission
    <2> QED
      BY <1>1, <2>1, <2>2
  <1>7. CASE UNCHANGED vars
    BY <1>1, <1>7 DEF vars, cacheVars
  <1> QED
    BY <1>2, <1>3, <1>4, <1>5, <1>6, <1>7, HandlerCases DEF Next

\* Who may post in a group, by his cached permission or by his row, sees the group
\* among his groups as active, except where a deletion or a dismissal is under way
\* or failed, or a permission or a row was written from what was read too early.
THEOREM PostersSee == Spec => []PostersSeeTheGroup
  <1>1. Init => Seen /\ PermittedHasRow
    BY DEF Init, Seen, PermittedHasRow, NewPost
  <1>2. TypeOK /\ Seen /\ PermittedHasRow /\ StaleIsPaid => PostersSeeTheGroup
    <2> SUFFICES ASSUME TypeOK, Seen, PermittedHasRow, StaleIsPaid, NEW u \in Users,
                        MayPost(u), MyGroups(u) # "active"
                 PROVE  \/ WillDeletePermission(u)
                        \/ \E c \in Calls : call[c].phase = "rows"
                        \/ u \in excused
                        \/ rowsLost
                        \/ u \in lateJoins
      BY DEF PostersSeeTheGroup
    <2>1. row[u].left \in BOOLEAN /\ Present(u)
      BY DEF TypeOK, Rows, MayPost, PermittedHasRow, Active
    <2>2. CASE row[u].left
      BY <2>1, <2>2 DEF MayPost, Active, StaleIsPaid
    <2>3. CASE ~row[u].left
      BY <2>1, <2>3 DEF MyGroups, Active, Seen
    <2> QED
      BY <2>1, <2>2, <2>3
  <1> QED
    BY <1>1, <1>2, NextSeen, NextPermitted, GroupsFounded, StaleMembersPaid, PTL DEF Spec
=============================================================================
