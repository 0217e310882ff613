------------------------------- MODULE History -------------------------------
(***************************************************************************)
(* The history of a group, as a reader pages back through it: the newest   *)
(* page first, then the page before the earliest message he has. The rows  *)
(* are chosen by sequence number and sorted by created_at, which a sender's*)
(* handler takes before it competes for the number.                        *)
(*                                                                         *)
(* The reader is the chat page under web/ws. Direct rooms answer the same  *)
(* without left_at; GetHistoryAfter is in RoomSync. Left out: live         *)
(* messages, which the page shows but does not page from; failed requests. *)
(***************************************************************************)
EXTENDS Naturals, Sequences, FiniteSets, SequencesExt

CONSTANTS
    Authors,      \* each saves one message at a time
    MaxRows,      \* bound on rows
    PageSize,     \* historyLimit: rows in a page
    MaxTime,      \* bound on the clock
    PerSecond,    \* ticks of the clock in a second
    MaxMoves,     \* bound on the times the reader leaves or returns
    MaxShown      \* the reader asks for more while he has at most so many

ASSUME HistoryAssumption ==
    /\ {MaxRows, MaxTime, MaxMoves, MaxShown} \subseteq Nat
    /\ {PageSize, PerSecond} \subseteq Nat \ {0}

VARIABLES
    created,      \* the rows: sequence number -> created_at
    clock,
    draft,        \* sender -> created_at of the message it is saving, or 0
    leftAt,       \* left_at of the reader's row, or 0
    shown,        \* state.messages of the page: sequence numbers
    reading,      \* the page has no room yet, shows it, or was told that there is no more
    hiddenOnce,   \* history: rows that were hidden from the reader
    moves

historyVars == <<created, clock, draft, leftAt, shown, reading, hiddenOnce, moves>>

Rows == 1..Len(created)
Visible(s) == leftAt = 0 \/ created[s] < leftAt

HistoryInit ==
    /\ created = <<>> /\ clock = 1 /\ draft = [a \in Authors |-> 0]
    /\ leftAt = 0
    /\ shown = <<>> /\ reading = "no"
    /\ hiddenOnce = {} /\ moves = 0

-----------------------------------------------------------------------------
(* Authors, and the reader's membership. *)

Tick ==
    /\ clock < MaxTime /\ clock' = clock + 1
    /\ UNCHANGED <<created, draft, leftAt, shown, reading, hiddenOnce, moves>>

Begin(a) ==
    /\ draft[a] = 0
    /\ draft' = [draft EXCEPT ![a] = clock]
    /\ UNCHANGED <<created, clock, leftAt, shown, reading, hiddenOnce, moves>>

Commit(a) ==
    /\ draft[a] # 0 /\ Len(created) < MaxRows
    /\ created' = Append(created, draft[a])
    /\ draft' = [draft EXCEPT ![a] = 0]
    /\ hiddenOnce' = IF leftAt = 0 \/ draft[a] < leftAt THEN hiddenOnce
                     ELSE hiddenOnce \cup {Len(created')}
    /\ UNCHANGED <<clock, leftAt, shown, reading, moves>>

Leave ==
    /\ leftAt = 0 /\ moves < MaxMoves
    /\ leftAt' = clock /\ moves' = moves + 1
    /\ hiddenOnce' = hiddenOnce \cup {s \in Rows : created[s] >= clock}
    /\ UNCHANGED <<created, clock, draft, shown, reading>>

Return ==
    /\ leftAt # 0 /\ moves < MaxMoves
    /\ leftAt' = 0 /\ moves' = moves + 1
    /\ UNCHANGED <<created, clock, draft, shown, reading, hiddenOnce>>

-----------------------------------------------------------------------------
(* The API. *)

\* What `Order("sequence_id desc").Limit(historyLimit)' finds.
Newest(S) == {s \in S : Cardinality({t \in S : t > s}) < PageSize}

\* sort.Slice: two rows of one time come in either order.
SortedByTime(S) ==
    {q \in SetToSeqs(S) : \A i, j \in DOMAIN q : i < j => created[q[i]] <= created[q[j]]}

\* GetLatestByGroup.
Latest == SortedByTime(Newest({s \in Rows : Visible(s)}))

\* Mutant of Before: the page is chosen by time.
EarlierThan(target) ==
    SortedByTime(Newest({s \in Rows : created[s] < created[target] /\ Visible(s)}))

\* GetHistoryBefore, of a row of this room.
Before(target) == SortedByTime(Newest({s \in Rows : s < target /\ Visible(s)}))

-----------------------------------------------------------------------------
(* The page; it has created_at in seconds. *)

Second(s) == created[s] \div PerSecond

\* A stable sort.
BySecond(q) ==
    FlattenSeq([k \in 1..(MaxTime + 1) |-> SelectSeq(q, LAMBDA s : Second(s) = k - 1)])

Earliest ==
    shown[Min({i \in DOMAIN shown : \A j \in DOMAIN shown : Second(shown[i]) <= Second(shown[j])})]

\* The room is opened, or opened again.
LoadLatest ==
    /\ \E list \in Latest : shown' = list
    /\ reading' = "yes"
    /\ hiddenOnce' = {s \in Rows : ~Visible(s)}
    /\ UNCHANGED <<created, clock, draft, leftAt, moves>>

\* The button is there after the last page too.
LoadMore ==
    /\ shown # <<>> /\ Len(shown) <= MaxShown
    /\ \E list \in Before(Earliest) :
          \/ list = <<>> /\ reading' = "all" /\ UNCHANGED shown
          \/ list # <<>> /\ reading' = "yes" /\ shown' = BySecond(list \o shown)
    /\ UNCHANGED <<created, clock, draft, leftAt, hiddenOnce, moves>>

HistoryNext ==
    \/ Tick \/ Leave \/ Return \/ LoadLatest \/ LoadMore
    \/ \E a \in Authors : Begin(a) \/ Commit(a)

HistorySpec == HistoryInit /\ [][HistoryNext]_historyVars

-----------------------------------------------------------------------------
(* Properties. *)

\* Times and numbers disagree when a save is overtaken, the reader pages from the
\* message with the earliest time, and senders go on meanwhile: when he is told that
\* there is no more, he has every message up to the newest he has, but for those
\* hidden from him while he was not in the group.
HistoryIsWhole ==
    reading = "all" =>
       \A s \in 1..Max(ToSet(shown)) : s \in ToSet(shown) \cup hiddenOnce

\* "Range queries by sequence_id avoid the problems of repeated times and clocks set
\* back" (message_handler.go:145): pages do not overlap.
PagesDoNotOverlap == IsInjective(shown)

=============================================================================
