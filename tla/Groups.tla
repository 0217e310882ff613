------------------------------- MODULE Groups -------------------------------
(***************************************************************************)
(* One group room: its row, its member rows, the two kinds of Redis        *)
(* entries that are filled from them, and the requests that change or use  *)
(* them, each a sequence of statements with nothing holding them together. *)
(*                                                                         *)
(* AddMembers and AddAdmins name one user. Notices to the clients and the  *)
(* room's node set (HubRouter) are left out.                               *)
(***************************************************************************)
EXTENDS Naturals

CONSTANTS
    Users,
    Owner,       \* who creates the group
    Calls,       \* what handles requests of GroupHandler, one after the other
    Posts,       \* what handles posted messages, one after the other
    MaxFaults    \* bound on statements and Redis calls that fail

ASSUME GroupsAssumption == Owner \in Users /\ MaxFaults \in Nat

VARIABLES
    room,        \* "none", "alive", or "dismissed": deleted_at is set
    row,         \* user -> NoRow, or its RoomMember
    perm,        \* user -> group_posting_permission: "none", or "in" or "left"
    ids,         \* group_member_ids: NoIds, or the users
    call,        \* request -> what it is, what it has read, what it does next
    post,        \* message -> its sender, what was read for it, what is next
    ownerOut,    \* history: the owner removed himself
    excused,     \* history: users whose entry was filled after it was outdated, or
                 \* not deleted because Redis failed
    excusedIds,  \* history: the same of ids, which CreateGroup does not delete
    rowsLost,    \* history: the second statement of a dismissal failed
    lateJoins,   \* history: users whose row was written after the dismissal
    faults

cacheVars == <<perm, ids>>
histories == <<excused, excusedIds, rowsLost, lateJoins, ownerOut>>
vars == <<room, row, cacheVars, call, post, histories, faults>>

NoRow == [role |-> "none", left |-> FALSE]
NoIds == [cached |-> FALSE, users |-> {}]
Row(role) == [role |-> role, left |-> FALSE]
Rows == [role : {"none", "owner", "admin", "member"}, left : BOOLEAN]
Ops == {"create", "add", "remove", "leave", "dismiss", "admin"}
CallPhases == {"idle", "owner", "members", "look", "write", "rows", "delPerm", "delIds"}
PostPhases == {"idle", "filling", "saving", "listing"}

NewCall == [op |-> "leave", by |-> Owner, to |-> Owner, phase |-> "idle", saw |-> FALSE]
NewPost == [by |-> Owner, phase |-> "idle", saw |-> FALSE, users |-> {}]

TypeOK ==
    /\ room \in {"none", "alive", "dismissed"}
    /\ row \in [Users -> Rows]
    /\ perm \in [Users -> {"none", "in", "left"}]
    /\ ids \in [cached : BOOLEAN, users : SUBSET Users]
    /\ call \in [Calls -> [op : Ops, by : Users, to : Users, phase : CallPhases, saw : BOOLEAN]]
    /\ post \in [Posts -> [by : Users, phase : PostPhases, saw : BOOLEAN, users : SUBSET Users]]
    /\ excused \in SUBSET Users
    /\ excusedIds \in BOOLEAN
    /\ rowsLost \in BOOLEAN
    /\ lateJoins \in SUBSET Users
    /\ ownerOut \in BOOLEAN
    /\ faults \in 0..MaxFaults

Init ==
    /\ room = "none"
    /\ row = [u \in Users |-> NoRow]
    /\ perm = [u \in Users |-> "none"]
    /\ ids = NoIds
    /\ call = [c \in Calls |-> NewCall]
    /\ post = [p \in Posts |-> NewPost]
    /\ excused = {} /\ excusedIds = FALSE /\ rowsLost = FALSE /\ lateJoins = {} /\ ownerOut = FALSE
    /\ faults = 0

Present(u) == row[u].role # "none"
Active(u) == Present(u) /\ ~row[u].left
ActiveMembers == {u \in Users : Active(u)}

Fault == faults < MaxFaults /\ faults' = faults + 1

Enter(c, op, by, to, phase) ==
    /\ call[c].phase = "idle"
    /\ call' = [call EXCEPT ![c] = [op |-> op, by |-> by, to |-> to, phase |-> phase, saw |-> FALSE]]

Goto(c, from, to) ==
    /\ call[c].phase = from
    /\ call' = [call EXCEPT ![c] = IF to \in {"idle", "delIds"} THEN [NewCall EXCEPT !.phase = to]
                                   ELSE [@ EXCEPT !.phase = to]]

-----------------------------------------------------------------------------
(* CreateGroup: three statements, each committed by itself. *)

CreateRoom(c) ==
    /\ room = "none"
    /\ room' = "alive"
    /\ \E u \in Users : Enter(c, "create", Owner, u, "owner")
    /\ UNCHANGED <<row, cacheVars, post, histories, faults>>

CreateOwner(c) ==
    /\ Goto(c, "owner", "members")
    /\ row' = [row EXCEPT ![Owner] = Row("owner")]
    /\ UNCHANGED <<room, cacheVars, post, histories, faults>>

\* The members named in the request; the owner among them is passed over. No
\* entry is deleted: a message posted by the owner may have filled one.
CreateMembers(c) ==
    LET u == call[c].to IN
    /\ Goto(c, "members", "idle")
    /\ IF Present(u)
       THEN UNCHANGED <<row, lateJoins, excusedIds>>
       ELSE /\ row' = [row EXCEPT ![u] = Row("member")]
            /\ lateJoins' = lateJoins \cup (IF room = "dismissed" THEN {u} ELSE {})
            /\ excusedIds' = (excusedIds \/ ids.cached)
    /\ UNCHANGED <<room, cacheVars, post, excused, rowsLost, ownerOut, faults>>

\* An INSERT fails: the request ends, what was committed before it stays.
CreateFails(c) ==
    /\ Fault
    /\ \/ Goto(c, "owner", "idle") \/ Goto(c, "members", "idle")
    /\ UNCHANGED <<room, row, cacheVars, post, histories>>

-----------------------------------------------------------------------------
(* The checks a request begins with. left_at of the one who asks is not read. *)

AddMembers(c, to) ==
    /\ room = "alive"
    /\ \E by \in Users : row[by].role \in {"owner", "admin"}
    /\ Enter(c, "add", to, to, "look")
    /\ UNCHANGED <<room, row, cacheVars, post, histories, faults>>

\* The owner may remove anyone, himself included; an admin only members.
CanKick(by, to) == by = "owner" \/ (by = "admin" /\ to = "member")

RemoveMember(c, by, to) ==
    /\ Present(by) /\ Present(to) /\ CanKick(row[by].role, row[to].role)
    /\ Enter(c, "remove", by, to, "write")
    /\ UNCHANGED <<room, row, cacheVars, post, histories, faults>>

LeaveGroup(c, by) ==
    /\ Present(by) /\ row[by].role # "owner"
    /\ Enter(c, "leave", by, by, "write")
    /\ UNCHANGED <<room, row, cacheVars, post, histories, faults>>

\* The owner learns the group's id from ListMyGroups at the earliest.
DismissGroup(c) ==
    /\ room = "alive" /\ Present(Owner)
    /\ Enter(c, "dismiss", Owner, Owner, "write")
    /\ UNCHANGED <<room, row, cacheVars, post, histories, faults>>

AddAdmins(c, to) ==
    /\ room = "alive" /\ Present(Owner)
    /\ Enter(c, "admin", Owner, to, "write")
    /\ UNCHANGED <<room, row, cacheVars, post, histories, faults>>

-----------------------------------------------------------------------------
(* The writes. *)

\* AddMembers: is the user a member already? One who has not left ends it.
Look(c) ==
    LET u == call[c].to IN
    /\ call[c].phase = "look"
    /\ call' = [call EXCEPT ![c] = IF Active(u) THEN NewCall
                                   ELSE [@ EXCEPT !.saw = Present(u), !.phase = "write"]]
    /\ UNCHANGED <<room, row, cacheVars, post, histories, faults>>

\* AddMembers: a row that was seen is marked as not left, its role stays; one
\* that was not seen is inserted, which the primary key refuses if it is there.
Join(c) ==
    LET u == call[c].to  rejoin == call[c].saw IN
    /\ call[c].op = "add"
    /\ Goto(c, "write", IF Present(u) /\ ~rejoin THEN "idle" ELSE "delPerm")
    /\ row' = [row EXCEPT ![u] = IF rejoin THEN [@ EXCEPT !.left = FALSE]
                                 ELSE IF Present(u) THEN @ ELSE Row("member")]
    /\ lateJoins' = lateJoins \cup (IF room = "dismissed" /\ row'[u] # row[u] THEN {u} ELSE {})
    /\ UNCHANGED <<room, cacheVars, post, excused, excusedIds, rowsLost, ownerOut, faults>>

\* RemoveMember, LeaveGroup: left_at is set, whatever has been done to the row.
Depart(c) ==
    /\ call[c].op \in {"remove", "leave"}
    /\ Goto(c, "write", "delPerm")
    /\ row' = [row EXCEPT ![call[c].to].left = TRUE]
    /\ lateJoins' = lateJoins \ {call[c].to}
    /\ ownerOut' = (ownerOut \/ (call[c].op = "remove" /\ {call[c].by, call[c].to} = {Owner}))
    /\ UNCHANGED <<room, cacheVars, post, excused, excusedIds, rowsLost, faults>>

Dismiss(c) ==
    /\ call[c].op = "dismiss"
    /\ Goto(c, "write", "rows")
    /\ room' = "dismissed"
    /\ UNCHANGED <<row, cacheVars, post, histories, faults>>

\* Mutant of DismissRows: only the owner's row is written.
DismissRowsOfOwner(c) ==
    /\ Goto(c, "rows", "delPerm")
    /\ row' = [row EXCEPT ![Owner].left = TRUE]
    /\ UNCHANGED <<room, cacheVars, post, histories, faults>>

\* DismissGroup: everybody has left; an error is ignored.
DismissRows(c) ==
    /\ Goto(c, "rows", "delPerm")
    /\ \/ /\ row' = [u \in Users |-> IF Present(u) THEN [row[u] EXCEPT !.left = TRUE] ELSE row[u]]
          /\ lateJoins' = {}
          /\ UNCHANGED <<rowsLost, faults>>
       \/ /\ Fault
          /\ rowsLost' = TRUE
          /\ UNCHANGED <<row, lateJoins>>
    /\ UNCHANGED <<room, cacheVars, post, excused, excusedIds, ownerOut>>

\* AddAdmins: one UPDATE of the rows of others who have not left.
Promote(c) ==
    LET u == call[c].to IN
    /\ call[c].op = "admin"
    /\ Goto(c, "write", "idle")
    /\ row' = [row EXCEPT ![u].role = IF Active(u) /\ u # call[c].by THEN "admin" ELSE @]
    /\ UNCHANGED <<room, cacheVars, post, histories, faults>>

\* The statement fails: the request is answered with an error, or passes over
\* the user; only the error of a rejoining update is not looked at.
WriteFails(c) ==
    /\ Fault
    /\ Goto(c, "write", IF call[c].op = "add" /\ call[c].saw THEN "delPerm" ELSE "idle")
    /\ UNCHANGED <<room, row, cacheVars, post, histories>>

-----------------------------------------------------------------------------
(* The entries are deleted after the rows are written. *)

\* Mutant of Invalidated: the one who asks instead of the one who is named.
InvalidatedAsker(c) ==
    IF call[c].op = "dismiss" THEN {u \in Users : Present(u)} ELSE {call[c].by}

\* The users whose permission a request deletes; DismissGroup reads the rows.
Invalidated(c) == IF call[c].op = "dismiss" THEN {u \in Users : Present(u)} ELSE {call[c].to}

InvalidatePermission(c) ==
    /\ Goto(c, "delPerm", "delIds")
    /\ perm' = [u \in Users |-> IF u \in Invalidated(c) THEN "none" ELSE perm[u]]
    /\ excused' = excused \ Invalidated(c)
    /\ UNCHANGED <<room, row, ids, post, excusedIds, rowsLost, lateJoins, ownerOut, faults>>

InvalidateIds(c) ==
    /\ Goto(c, "delIds", "idle")
    /\ ids' = NoIds
    /\ excusedIds' = FALSE
    /\ UNCHANGED <<room, row, perm, post, excused, rowsLost, lateJoins, ownerOut, faults>>

\* Redis does not answer within 120 or 200 milliseconds: nobody is told.
InvalidateFails(c) ==
    /\ Fault
    /\ \/ /\ Goto(c, "delPerm", "delIds")
          /\ excused' = excused \cup Invalidated(c)
          /\ UNCHANGED excusedIds
       \/ /\ Goto(c, "delIds", "idle")
          /\ excusedIds' = TRUE
          /\ UNCHANGED excused
    /\ UNCHANGED <<room, row, cacheVars, post, rowsLost, lateJoins, ownerOut>>

-----------------------------------------------------------------------------
(* A message is posted: checkGroupPostingPermission, saveMessage, and then     *)
(* getGroupMemberIDs. A hit is one step; a miss reads the rows and fills the   *)
(* entry in a later step.                                                      *)

PostGoto(p, to) ==
    post' = [post EXCEPT ![p] = IF to = "idle" THEN NewPost ELSE [@ EXCEPT !.phase = to]]

\* Neither the room nor its deleted_at is read.
CheckPermission(p, u) ==
    /\ post[p].phase = "idle"
    /\ IF perm[u] # "none" \/ ~Present(u)
       THEN PostGoto(p, IF perm[u] = "in" THEN "saving" ELSE "idle")
       ELSE post' = [post EXCEPT ![p] = [NewPost EXCEPT !.by = u, !.saw = row[u].left, !.phase = "filling"]]
    /\ UNCHANGED <<room, row, cacheVars, call, histories, faults>>

FillPermission(p) ==
    LET u == post[p].by  left == post[p].saw IN
    /\ post[p].phase = "filling"
    /\ PostGoto(p, IF left THEN "idle" ELSE "saving")
    /\ \/ /\ perm' = [perm EXCEPT ![u] = IF left THEN "left" ELSE "in"]
          /\ excused' = IF left # row[u].left THEN excused \cup {u} ELSE excused \ {u}
          /\ UNCHANGED faults
       \/ Fault /\ UNCHANGED <<perm, excused>>
    /\ UNCHANGED <<room, row, ids, call, excusedIds, rowsLost, lateJoins, ownerOut>>

\* The message is saved (RoomLog) and its receivers are looked up.
ListMembers(p) ==
    /\ post[p].phase = "saving"
    /\ IF ids.cached
       THEN PostGoto(p, "idle")
       ELSE post' = [post EXCEPT ![p] = [NewPost EXCEPT !.users = ActiveMembers, !.phase = "listing"]]
    /\ UNCHANGED <<room, row, cacheVars, call, histories, faults>>

FillIds(p) ==
    /\ post[p].phase = "listing"
    /\ PostGoto(p, "idle")
    /\ \/ /\ ids' = [cached |-> TRUE, users |-> post[p].users]
          /\ excusedIds' = (post[p].users # ActiveMembers)
          /\ UNCHANGED faults
       \/ Fault /\ UNCHANGED <<ids, excusedIds>>
    /\ UNCHANGED <<room, row, perm, call, excused, rowsLost, lateJoins, ownerOut>>

\* Their two minutes are over.
ExpirePermission(u) ==
    /\ perm[u] # "none"
    /\ perm' = [perm EXCEPT ![u] = "none"]
    /\ excused' = excused \ {u}
    /\ UNCHANGED <<room, row, ids, call, post, excusedIds, rowsLost, lateJoins, ownerOut, faults>>

ExpireIds ==
    /\ ids.cached
    /\ ids' = NoIds
    /\ excusedIds' = FALSE
    /\ UNCHANGED <<room, row, perm, call, post, excused, rowsLost, lateJoins, ownerOut, faults>>

-----------------------------------------------------------------------------
Handler(c) ==
    \/ CreateRoom(c) \/ CreateOwner(c) \/ CreateMembers(c) \/ CreateFails(c)
    \/ \E by, to \in Users : RemoveMember(c, by, to)
    \/ \E u \in Users : AddMembers(c, u) \/ LeaveGroup(c, u) \/ AddAdmins(c, u)
    \/ DismissGroup(c)
    \/ Look(c) \/ Join(c) \/ Depart(c) \/ Dismiss(c) \/ DismissRows(c) \/ Promote(c)
    \/ WriteFails(c)
    \/ InvalidatePermission(c) \/ InvalidateIds(c) \/ InvalidateFails(c)

Poster(p) ==
    \/ \E u \in Users : CheckPermission(p, u)
    \/ FillPermission(p) \/ ListMembers(p) \/ FillIds(p)

Expire == ExpireIds \/ \E u \in Users : ExpirePermission(u)

Next == (\E c \in Calls : Handler(c)) \/ (\E p \in Posts : Poster(p)) \/ Expire

Spec == Init /\ [][Next]_vars

-----------------------------------------------------------------------------
\* What ListMyGroups shows a user; GetGroupDetail and ListGroupMembers show the
\* group to whoever has a row, and to active members.
MyGroups(u) ==
    CASE ~Present(u) -> "none"
      [] Present(u) /\ room = "dismissed" -> "dismissed"
      [] Present(u) /\ room # "dismissed" /\ row[u].left -> "left"
      [] OTHER -> "active"

\* Some request has still to delete u's permission; or the member list.
WillDeletePermission(u) == \E c \in Calls : call[c].phase = "delPerm" /\ u \in Invalidated(c)
WillDeleteIds == \E c \in Calls : call[c].phase \in {"delPerm", "delIds"}

\* A cached permission that disagrees with the row, and a cached member list
\* that disagrees with the rows, are about to be deleted, unless the deletion
\* failed or the entry was filled by one who had read before the write.
StaleIsPaid ==
    /\ \A u \in Users :
          (perm[u] # "none" /\ (perm[u] = "left") # row[u].left) =>
              WillDeletePermission(u) \/ u \in excused
    /\ (ids.cached /\ ids.users # ActiveMembers) =>
          WillDeleteIds \/ excusedIds

\* Whom CheckPermission lets post next: a cached permission decides, if there is
\* one, and the row otherwise.
MayPost(u) == perm[u] = "in" \/ (perm[u] = "none" /\ Active(u))

\* Who may post in the group sees it as active among his groups, and not as one
\* he left, one that was dismissed, or none. The right outlives the membership
\* while a request has still to delete the permission or to write the rows of a
\* dismissed group; after that only where the deletion or that second statement
\* failed, a message filled the permission from a row read before the write, or
\* a request wrote a row after the dismissal which it had checked before it.
PostersSeeTheGroup ==
    \A u \in Users :
        (MayPost(u) /\ MyGroups(u) # "active") =>
            \/ WillDeletePermission(u)
            \/ \E c \in Calls : call[c].phase = "rows"
            \/ u \in excused
            \/ rowsLost
            \/ u \in lateJoins

\* The owner of a group keeps his role and his seat, so that there is one who
\* can dismiss it: he is out only if he removed himself, the group is dismissed,
\* or his row could not be created.
OwnerKeepsHisSeat ==
    (room = "alive" /\ Present(Owner)) =>
        /\ row[Owner].role = "owner"
        /\ row[Owner].left => ownerOut
=============================================================================
