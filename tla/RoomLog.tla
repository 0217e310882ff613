------------------------------- MODULE RoomLog --------------------------------
(***************************************************************************)
(* The numbering of a room's messages: saveMessage of                      *)
(* internal/api/handler/ws_handler.go, run at the same time by the read    *)
(* loops of several connections and by the done-event consumer (the        *)
(* robot), each of which posts one message at a time.                      *)
(*                                                                         *)
(* A save is a transaction that looks the quoted message up, locks the     *)
(* room's last message with SELECT ... FOR UPDATE and inserts number       *)
(* last + 1; the unique index on (room_id, sequence_id) refuses a number   *)
(* that is taken, and the transaction is tried MaxRetries times.  The      *)
(* database is PostgreSQL at its default READ COMMITTED: the statement     *)
(* picks the row to lock from a snapshot, and having waited for the lock   *)
(* it goes on with that row although a later message exists by then.  An   *)
(* empty room has no row to lock.  The foreign key parent_message_id makes *)
(* the INSERT wait for whoever holds the quoted row FOR UPDATE.            *)
(***************************************************************************)
EXTENDS Integers, Sequences, FiniteSets, FiniteSetsExt

CONSTANTS
    Senders,        \* connections (and the robot) that post to the room
    MaxRetries,     \* maxRetries of saveMessage
    MaxPosts,       \* bound: messages per sender
    MaxFaults       \* bound: statements the database fails

ASSUME RoomAssumption ==
    /\ IsFiniteSet(Senders)
    /\ MaxRetries \in Nat \ {0}
    /\ MaxPosts \in Nat
    /\ MaxFaults \in Nat

VARIABLES
    log,        \* committed messages of the room, in commit order
    pc,         \* where each sender's saveMessage is
    posts,      \* messages the sender has posted, the current one included
    call,       \* the locals of its current saveMessage
    sent,       \* sequence numbers in the order they were handed to the router
    faults,
    dropped,    \* history: saves that gave up
    ambiguous   \* history: <<sender, post>> committed although the code saw an error

vars == <<log, pc, posts, call, sent, faults, dropped, ambiguous>>

\* parent: the sequence number the message quotes, 0 for none.  attempt: which
\* of the MaxRetries is running.  last: lastMsg.SequenceID, 0 if none.  Two
\* history fields: start, the length of the log when the save began; excused,
\* its attempts that failed for another reason than a conflict.
Calls == [parent : Nat, attempt : Nat, last : Nat, start : Nat, excused : Nat]
NoCall == [parent |-> 0, attempt |-> 0, last |-> 0, start |-> 0, excused |-> 0]
FirstAttempt(p, n) == [parent |-> p, attempt |-> 1, last |-> 0, start |-> n, excused |-> 0]
NextAttempt(c, excuse) ==
    [parent |-> c.parent, attempt |-> c.attempt + 1, last |-> 0,
     start |-> c.start, excused |-> c.excused + excuse]

Phases == {"idle", "begin", "locking", "inserting", "routing"}
Saving == {"begin", "locking", "inserting"}

Sequences == {log[i].seq : i \in 1 .. Len(log)}
LastSequence == Max({0} \cup Sequences)

\* The transaction of s holds the row of message n FOR UPDATE.
Holds(s, n) == pc[s] = "inserting" /\ call[s].last = n /\ n > 0
FreeFor(s, n) == \A o \in Senders \ {s} : ~Holds(o, n)

Row(s) ==
    [seq |-> call[s].last + 1, sender |-> s, post |-> posts[s], parent |-> call[s].parent]

Fault == faults < MaxFaults /\ faults' = faults + 1

RoomInit ==
    /\ log = <<>> /\ sent = <<>>
    /\ pc = [s \in Senders |-> "idle"]
    /\ posts = [s \in Senders |-> 0]
    /\ call = [s \in Senders |-> NoCall]
    /\ faults = 0 /\ dropped = {} /\ ambiguous = {}

-----------------------------------------------------------------------------
(* The read loop takes the next frame and calls saveMessage.  The frame     *)
(* quotes nothing, a message of the room, or one the room does not have     *)
(* (yet): resolveParentReference will say.                                  *)
Post(s, p) ==
    /\ pc[s] = "idle" /\ posts[s] < MaxPosts
    /\ pc' = [pc EXCEPT ![s] = "begin"]
    /\ posts' = [posts EXCEPT ![s] = @ + 1]
    /\ call' = [call EXCEPT ![s] = FirstAttempt(p, Len(log))]
    /\ UNCHANGED <<log, sent, faults, dropped, ambiguous>>

\* saveMessage returns.
Return(s) ==
    /\ pc' = [pc EXCEPT ![s] = "idle"]
    /\ call' = [call EXCEPT ![s] = NoCall]

\* Mutant of Retry: the loop never gives up.
RetryForever(s, excuse) ==
    /\ pc' = [pc EXCEPT ![s] = "begin"]
    /\ UNCHANGED <<call, dropped>>

\* Mutant of Retry: one attempt too few.
RetryLess(s, excuse) ==
    IF call[s].attempt + 1 < MaxRetries
    THEN /\ pc' = [pc EXCEPT ![s] = "begin"]
         /\ call' = [call EXCEPT ![s] = NextAttempt(@, excuse)]
         /\ UNCHANGED dropped
    ELSE /\ Return(s)
         /\ dropped' = dropped \cup {[excused |-> call[s].excused + excuse,
                                     during |-> Len(log) - call[s].start]}

\* The transaction failed and rolled back: whatever the error, try again,
\* and after MaxRetries attempts return an error that the read loop ignores.
Retry(s, excuse) ==
    IF call[s].attempt < MaxRetries
    THEN /\ pc' = [pc EXCEPT ![s] = "begin"]
         /\ call' = [call EXCEPT ![s] = NextAttempt(@, excuse)]
         /\ UNCHANGED dropped
    ELSE /\ Return(s)
         /\ dropped' = dropped \cup {[excused |-> call[s].excused + excuse,
                                     during |-> Len(log) - call[s].start]}

\* Mutant of Begin: the quoted message is not looked up.
BeginUnresolved(s) ==
    /\ pc[s] = "begin"
    /\ call' = [call EXCEPT ![s].last = LastSequence]
    /\ pc' = [pc EXCEPT ![s] = IF LastSequence = 0 THEN "inserting" ELSE "locking"]
    /\ UNCHANGED <<log, posts, sent, faults, dropped, ambiguous>>

\* resolveParentReference finds the quoted message; then the snapshot of the
\* locking SELECT: the room's last message, or none (and then no lock).
Begin(s) ==
    /\ pc[s] = "begin"
    /\ call[s].parent \in {0} \cup Sequences
    /\ call' = [call EXCEPT ![s].last = LastSequence]
    /\ pc' = [pc EXCEPT ![s] = IF LastSequence = 0 THEN "inserting" ELSE "locking"]
    /\ UNCHANGED <<log, posts, sent, faults, dropped, ambiguous>>

ParentMissing(s) ==
    /\ pc[s] = "begin"
    /\ call[s].parent \notin {0} \cup Sequences
    /\ Retry(s, 1)
    /\ UNCHANGED <<log, posts, sent, faults, ambiguous>>

\* The row lock is granted once nobody else holds it.
Lock(s) ==
    /\ pc[s] = "locking" /\ FreeFor(s, call[s].last)
    /\ pc' = [pc EXCEPT ![s] = "inserting"]
    /\ UNCHANGED <<log, posts, call, sent, faults, dropped, ambiguous>>

\* Mutant of Insert: no unique index on (room_id, sequence_id).
InsertUnindexed(s) ==
    /\ pc[s] = "inserting" /\ FreeFor(s, call[s].parent)
    /\ log' = Append(log, Row(s))
    /\ pc' = [pc EXCEPT ![s] = "routing"]
    /\ UNCHANGED <<posts, call, sent, faults, dropped, ambiguous>>

\* The INSERT and its commit, which releases the lock.
Insert(s) ==
    /\ pc[s] = "inserting"
    /\ call[s].last + 1 \notin Sequences /\ FreeFor(s, call[s].parent)
    /\ log' = Append(log, Row(s))
    /\ pc' = [pc EXCEPT ![s] = "routing"]
    /\ UNCHANGED <<posts, call, sent, faults, dropped, ambiguous>>

\* The unique index refuses the number.
Conflict(s) ==
    /\ pc[s] = "inserting" /\ call[s].last + 1 \in Sequences
    /\ Retry(s, 0)
    /\ UNCHANGED <<log, posts, sent, faults, ambiguous>>

\* A statement fails and the transaction is rolled back.
SaveFails(s) ==
    /\ pc[s] \in Saving /\ Fault
    /\ Retry(s, 1)
    /\ UNCHANGED <<log, posts, sent, ambiguous>>

\* The commit takes effect but its answer is lost: the code tries again, with
\* a fresh message id.
CommitUnknown(s) ==
    /\ pc[s] = "inserting" /\ Fault
    /\ call[s].last + 1 \notin Sequences /\ FreeFor(s, call[s].parent)
    /\ log' = Append(log, Row(s))
    /\ ambiguous' = ambiguous \cup {<<s, posts[s]>>}
    /\ Retry(s, 1)
    /\ UNCHANGED <<posts, sent>>

\* Mutant of Route: the frame carries the number read, not the number stored.
RouteSnapshot(s) ==
    /\ pc[s] = "routing"
    /\ sent' = Append(sent, call[s].last)
    /\ Return(s)
    /\ UNCHANGED <<log, posts, faults, dropped, ambiguous>>

\* The stored message is handed to the router for the room's members.
Route(s) ==
    /\ pc[s] = "routing"
    /\ sent' = Append(sent, call[s].last + 1)
    /\ Return(s)
    /\ UNCHANGED <<log, posts, faults, dropped, ambiguous>>

\* Mutant of RouteFails: the failed member query makes the save start over.
RouteFailsAgain(s) ==
    /\ pc[s] = "routing" /\ Fault
    /\ Retry(s, 1)
    /\ UNCHANGED <<log, posts, sent, ambiguous>>

\* getGroupMemberIDs fails: stored, but nobody is told.
RouteFails(s) ==
    /\ pc[s] = "routing" /\ Fault
    /\ Return(s)
    /\ UNCHANGED <<log, posts, sent, dropped, ambiguous>>

Save(s) ==
    \/ Begin(s) \/ ParentMissing(s) \/ Lock(s) \/ Insert(s) \/ Conflict(s) \/ Route(s)

RoomNext ==
    \E s \in Senders :
        \/ \E p \in 0 .. Len(log) + 1 : Post(s, p)
        \/ Save(s) \/ SaveFails(s) \/ CommitUnknown(s) \/ RouteFails(s)

RoomSpec == RoomInit /\ [][RoomNext]_vars

\* Transactions get on: PostgreSQL answers every statement, and grants a row
\* lock that stays free.  Nobody has to post.
FairRoomSpec == RoomSpec /\ \A s \in Senders : WF_vars(Save(s))

-----------------------------------------------------------------------------
TypeOK ==
    /\ log \in Seq([seq : Nat, sender : Senders, post : Nat, parent : Nat])
    /\ sent \in Seq(Nat)
    /\ pc \in [Senders -> Phases]
    /\ posts \in [Senders -> Nat]
    /\ call \in [Senders -> Calls]
    /\ faults \in Nat
    /\ dropped \subseteq [excused : Nat, during : Nat]
    /\ ambiguous \subseteq Senders \X Nat

\* The sequence numbers of a room are 1, 2, 3, ... in the order the messages
\* were committed: no number twice and none left out, however many savers
\* race for it and whichever of them fail.
SequenceIsGapless == \A i \in 1 .. Len(log) : log[i].seq = i

\* One frame leaves one message in the room.  Only a commit whose answer was
\* lost can leave more, since every attempt makes up a new message id.
StoredOnce ==
    \A i, j \in 1 .. Len(log) :
        /\ log[i].sender = log[j].sender
        /\ log[i].post = log[j].post
        => i = j \/ <<log[i].sender, log[i].post>> \in ambiguous

\* A message is given up on only after MaxRetries attempts of which each lost
\* to another message of the room, quoted nothing that exists, or met a fault:
\* no two conflicts of one save are owed to the same winner.
DropsArePaid == \A d \in dropped : MaxRetries <= d.excused + d.during

\* What the router is handed is stored, and one sender's messages are handed
\* over in the order of their numbers.
SentInOwnOrder ==
    /\ \A i \in 1 .. Len(sent) : sent[i] \in Sequences
    /\ \A i, j \in 1 .. Len(sent) :
          /\ i < j
          /\ \E m, n \in 1 .. Len(log) :
                /\ log[m].seq = sent[i] /\ log[n].seq = sent[j]
                /\ log[m].sender = log[n].sender
          => sent[i] < sent[j]

\* The racing transactions implement the append-only history of ChatLog.
History == INSTANCE ChatLog WITH Senders <- Senders, log <- log
LogSpec == History!LogSpec

\* Every saveMessage returns: no save waits for a row lock forever, be it the
\* lock of the room's last message or of the message it quotes.
EverySaveReturns == \A s \in Senders : pc[s] \in Saving ~> pc[s] = "idle"
==============================================================================
