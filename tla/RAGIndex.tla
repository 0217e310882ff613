------------------------------ MODULE RAGIndex ------------------------------
(***************************************************************************)
(* The index of one room's messages: rows of chat_segments, points in      *)
(* Qdrant, and the cursor that says how far the room has been indexed.     *)
(* Runs of ExecuteRAG and ExecuteRAGAddMemory, each a task that a worker   *)
(* of the pipeline executes, cut messages into segments, store their rows  *)
(* and then their points. ExecuteRAGSearch, which only reads, is left out. *)
(*                                                                         *)
(* A message is what the segmentation sees of it: "line" (it makes a line  *)
(* of average length), "long" (its line is longer than a segment may be)   *)
(* or "noise" (no line is made of it), and the time it was sent. A segment *)
(* is the set of the messages whose lines it joins; its range is theirs.   *)
(* MinMessageSequenceID is 0, as in every payload the producer makes; the  *)
(* rows' summary_ready, which nobody reads, is left out.                   *)
(***************************************************************************)
EXTENDS Integers, FiniteSets, Sequences, FiniteSetsExt, SequencesExt

CONSTANTS
    Runs,          \* what executes indexing tasks, one after the other
    Arrivals,      \* the messages that may arrive: [kind, pause since the last]
    MaxSeq,        \* bound on the room's messages
    MaxBatches,    \* bound on the runs of ExecuteRAGAddMemory
    MaxFaults,     \* bound on statements and calls that fail
    SegmentGap, MaxChars, MaxMessages, Overlap    \* how a room is cut

ASSUME RAGAssumption ==
    /\ {MaxSeq, MaxBatches, MaxFaults, SegmentGap} \subseteq Nat
    /\ {MaxChars, MaxMessages} \subseteq Nat \ {0}
    /\ Overlap \in 0..3
    /\ Arrivals \subseteq [kind : {"line", "long", "noise"}, pause : Nat]

VARIABLES
    log,         \* the room's messages; a message's sequence_id is its place
    cursor,      \* last_indexed_seq, 0 without a row
    rows,        \* the segments that have a row
    points,      \* the segments that have a point
    run,         \* run -> what it does next and what it has read
    batches,     \* the batch ids drawn
    unindexed,   \* history: segments whose run failed after it stored their rows
    faults

indexVars == <<cursor, rows, points>>
vars == <<log, indexVars, run, batches, unindexed, faults>>

Kinds == {"line", "long", "noise"}
Phases == {"idle", "cursor", "messages", "filter", "store", "points", "advance"}
NewRun == [phase |-> "idle", batch |-> 0, latest |-> 0, last |-> 0, segs |-> {}]

Segments == [batch : 0..MaxBatches, lines : (SUBSET (1..MaxSeq)) \ {{}}]

TypeOK ==
    /\ log \in Seq([kind : Kinds, at : Nat]) /\ Len(log) <= MaxSeq
    /\ cursor \in 0..MaxSeq
    /\ \A segs \in {rows, points, unindexed} : segs \subseteq Segments
    /\ run \in [Runs -> [phase : Phases, batch : 0..MaxBatches, latest : 0..MaxSeq, last : 0..MaxSeq,
                         segs : SUBSET Segments]]
    /\ batches \in 0..MaxBatches
    /\ faults \in 0..MaxFaults

Init ==
    /\ log = <<>>
    /\ cursor = 0
    /\ rows = {} /\ points = {}
    /\ run = [r \in Runs |-> NewRun]
    /\ batches = 0
    /\ unindexed = {}
    /\ faults = 0

Fault == faults < MaxFaults /\ faults' = faults + 1

-----------------------------------------------------------------------------
(* Cutting. *)

\* The length of a message's line.
Size(m) == IF log[m].kind = "long" THEN MaxChars + 1 ELSE 1

Chars(lines) == FoldSet(LAMBDA m, n : n + Size(m), 0, lines)

Full(lines, m) ==
    \/ log[m].at - log[Max(lines)].at > SegmentGap
    \/ Chars(lines) + Size(m) > MaxChars
    \/ Cardinality(lines) >= MaxMessages

\* The last lines of a segment, repeated at the beginning of the next.
Repeated(lines) == {m \in lines : Cardinality({n \in lines : n > m}) < Overlap}

\* Mutant of Take: the message that finds a segment full begins no other.
TakeFull(cut, m) ==
    IF cut.lines # {} /\ Full(cut.lines, m)
    THEN [done |-> cut.done \cup {cut.lines}, lines |-> Repeated(cut.lines)]
    ELSE [cut EXCEPT !.lines = @ \cup {m}]

Take(cut, m) ==
    IF cut.lines # {} /\ Full(cut.lines, m)
    THEN [done |-> cut.done \cup {cut.lines}, lines |-> Repeated(cut.lines) \cup {m}]
    ELSE [cut EXCEPT !.lines = @ \cup {m}]

\* The segments of the messages in ms; what is left at the end is one too.
Cut(ms) ==
    LET after[m \in 0..Len(log)] ==
            IF m = 0 THEN [done |-> {}, lines |-> {}]
            ELSE IF m \in ms THEN Take(after[m - 1], m) ELSE after[m - 1]
        cut == after[Len(log)]
    IN  IF cut.lines = {} THEN cut.done ELSE cut.done \cup {cut.lines}

OfKinds(kinds, from, to) == {m \in from..to : log[m].kind \in kinds}

Named(batch, cuts) == {[batch |-> batch, lines |-> lines] : lines \in cuts}

Bounds(seg) == <<Min(seg.lines), Max(seg.lines)>>

-----------------------------------------------------------------------------
Post(a) ==
    /\ Len(log) < MaxSeq
    /\ log' = Append(log, [kind |-> a.kind, at |-> (IF log = <<>> THEN 0 ELSE Last(log).at) + a.pause])
    /\ UNCHANGED <<indexVars, run, batches, unindexed, faults>>

Goto(r, from, to) ==
    /\ run[r].phase = from
    /\ run' = [run EXCEPT ![r] = IF to = "idle" THEN NewRun ELSE [@ EXCEPT !.phase = to]]

\* ExecuteRAG begins: the newest message, if there is one.
ReadLatest(r) ==
    /\ run[r].phase = "idle" /\ log # <<>>
    /\ run' = [run EXCEPT ![r] = [NewRun EXCEPT !.phase = "cursor", !.latest = Len(log)]]
    /\ UNCHANGED <<log, indexVars, batches, unindexed, faults>>

\* Up to date: nothing to do.
ReadCursor(r) ==
    /\ run[r].phase = "cursor"
    /\ run' = [run EXCEPT ![r] = IF cursor >= @.latest THEN NewRun
                                 ELSE [@ EXCEPT !.phase = "messages", !.last = cursor]]
    /\ UNCHANGED <<log, indexVars, batches, unindexed, faults>>

\* All messages after the cursor, those that came after `latest' included; the
\* lines that are too long are skipped.
ReadMessages(r) ==
    /\ run[r].phase = "messages"
    /\ run' = [run EXCEPT ![r].phase = "filter", ![r].last = 0,
                          ![r].segs = Named(0, Cut(OfKinds({"line"}, run[r].last + 1, Len(log))))]
    /\ UNCHANGED <<log, indexVars, batches, unindexed, faults>>

\* ExecuteRAGAddMemory begins: the range that was asked for. Too long lines are
\* not skipped, and the segments get a fresh name.
ReadRange(r, from, to) ==
    /\ run[r].phase = "idle" /\ batches < MaxBatches
    /\ LET cuts == Cut(OfKinds({"line", "long"}, from, to)) IN
       /\ cuts # {}
       /\ run' = [run EXCEPT ![r] = [NewRun EXCEPT !.phase = "filter", !.batch = batches + 1,
                                                   !.segs = Named(batches + 1, cuts)]]
    /\ batches' = batches + 1
    /\ UNCHANGED <<log, indexVars, unindexed, faults>>

\* filterExistingSegmentsBySeqRange: a range that has a row is passed over.
Filter(r) ==
    LET new == {seg \in run[r].segs : \A old \in rows : Bounds(old) # Bounds(seg)} IN
    /\ run[r].phase = "filter"
    /\ run' = [run EXCEPT ![r] = IF new # {} THEN [@ EXCEPT !.phase = "store", !.segs = new]
                                 ELSE IF @.batch = 0 THEN [@ EXCEPT !.phase = "advance", !.segs = {}]
                                 ELSE NewRun]
    /\ UNCHANGED <<log, indexVars, batches, unindexed, faults>>

\* The rows are inserted; a row of the same id is overwritten.
Store(r) ==
    /\ Goto(r, "store", "points")
    /\ rows' = rows \cup run[r].segs
    /\ UNCHANGED <<log, cursor, points, batches, unindexed, faults>>

\* Only ExecuteRAG moves the cursor.
Written(r, segs) ==
    /\ Goto(r, "points", IF run[r].batch = 0 THEN "advance" ELSE "idle")
    /\ points' = points \cup segs
    /\ unindexed' = unindexed \ segs

\* Mutant of WritePoints: fewer vectors than segments are paired as they come.
WriteSomePoints(r) ==
    /\ \E segs \in SUBSET run[r].segs : Written(r, segs)
    /\ UNCHANGED <<log, cursor, rows, batches, faults>>

\* upsertRAGPoints: every segment is embedded and all points are written by one
\* call, those of some length with a summary if the model made one.
WritePoints(r) ==
    /\ Written(r, run[r].segs)
    /\ UNCHANGED <<log, cursor, rows, batches, faults>>

\* The cursor is set, be it forward or back.
AdvanceCursor(r) ==
    /\ Goto(r, "advance", "idle")
    /\ cursor' = run[r].latest
    /\ UNCHANGED <<log, rows, points, batches, unindexed, faults>>

\* A query, an insert, the embedding, Qdrant or an update fails: the task fails
\* and what was done stays. Qdrant may have written before it failed.
RunFails(r) ==
    /\ Fault
    /\ run[r].phase # "idle"
    /\ run' = [run EXCEPT ![r] = NewRun]
    /\ IF run[r].phase = "points"
       THEN \/ /\ unindexed' = unindexed \cup (run[r].segs \ points)
               /\ UNCHANGED points
            \/ /\ points' = points \cup run[r].segs
               /\ unindexed' = unindexed \ run[r].segs
       ELSE UNCHANGED <<points, unindexed>>
    /\ UNCHANGED <<log, cursor, rows, batches>>

-----------------------------------------------------------------------------
Indexing(r) ==
    \/ ReadLatest(r) \/ ReadCursor(r) \/ ReadMessages(r)
    \/ \E from, to \in 1..Len(log) : from <= to /\ ReadRange(r, from, to)
    \/ Filter(r) \/ Store(r) \/ WritePoints(r) \/ AdvanceCursor(r)
    \/ RunFails(r)

Next ==
    \/ \E a \in Arrivals : Post(a)
    \/ \E r \in Runs : Indexing(r)

Spec == Init /\ [][Next]_vars

-----------------------------------------------------------------------------
\* What the cursor has passed is indexed: every message up to it that makes a
\* line of allowed length is in a segment that has a row, however many runs
\* race, fail or set the cursor back (ExecuteRAG).
CursorIsCovered ==
    \A m \in OfKinds({"line"}, 1, cursor) : \E seg \in rows : m \in seg.lines

\* Rows and points belong together: a point has its row, so that a search finds
\* the text; a row has its point, or a run is about to write it or failed to.
RowsMatchPoints ==
    /\ points \subseteq rows
    /\ \A seg \in rows \ points :
          seg \in unindexed \/ \E r \in Runs : run[r].phase = "points" /\ seg \in run[r].segs
=============================================================================
