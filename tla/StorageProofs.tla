---------------------------- MODULE StorageProofs ----------------------------
(***************************************************************************)
(* Theorems about what is stored twice and must agree: the rows and the     *)
(* vector points of the index (RAGIndex, the first part), and the objects   *)
(* and the rows of files and avatars (Files, the second).                   *)
(*                                                                         *)
(* The index: IndexInv says what every run that reads or writes segments    *)
(* has promised.  A run that is to advance the cursor has rows for every    *)
(* line up to it, because CutFacts shows that Cut loses no line; and what   *)
(* is covered stays covered, since rows only grow.                          *)
(*                                                                         *)
(* Files: ObjectsInv says, of every file whose object and row disagree,     *)
(* which handler works on it or which failure left it so; SwapInv says      *)
(* which avatars can still be read, set or removed by whom.                 *)
(***************************************************************************)
EXTENDS RAGIndex, Files, WellFoundedInduction, SequenceTheorems,
        FiniteSetTheorems, TLAPS

-----------------------------------------------------------------------------
(* Numbers and finite sets of them.                                         *)

\* What zero has and every number passes on to the next, all numbers have.
LEMMA Climb ==
    ASSUME NEW S, 0 \in S, \A k \in Nat : k \in S => k + 1 \in S
    PROVE  Nat \subseteq S
<1> DEFINE T == {k \in Nat : k \notin S}
<1> SUFFICES ASSUME T # {} PROVE FALSE
    OBVIOUS
<1>1. \E x \in T : \A y \in T : ~(<<y, x>> \in OpToRel(<, Nat))
    BY NatLessThanWellFounded, WFMin
<1>2. PICK x \in T : \A y \in T : ~(y < x)
    BY <1>1 DEF OpToRel
<1>3. x # 0 /\ x - 1 \in Nat
    OBVIOUS
<1>4. x - 1 \in S
    BY <1>2, <1>3
<1> QED
    BY <1>3, <1>4

LEMMA Least ==
    ASSUME NEW S \in SUBSET Nat, S # {}
    PROVE  \E x \in S : \A y \in S : x <= y
<1>1. \E x \in S : \A y \in S : ~(<<y, x>> \in OpToRel(<, Nat))
    BY NatLessThanWellFounded, WFMin
<1>2. PICK x \in S : \A y \in S : ~(y < x)
    BY <1>1 DEF OpToRel
<1> QED
    BY <1>2

LEMMA MinFacts ==
    ASSUME NEW n \in Nat, NEW S \in SUBSET (1 .. n), S # {}
    PROVE  Min(S) \in S /\ \A y \in S : Min(S) <= y
<1>1. \E x \in S : \A y \in S : x <= y
    BY Least
<1> QED
    BY <1>1 DEF Min

LEMMA MaxFacts ==
    ASSUME NEW n \in Nat, NEW S \in SUBSET (1 .. n), S # {}
    PROVE  Max(S) \in S /\ \A y \in S : y <= Max(S)
<1> DEFINE T == {n - x : x \in S}
<1>1. T \in SUBSET Nat /\ T # {}
    OBVIOUS
<1>2. PICK z \in T : \A y \in T : z <= y
    BY <1>1, Least
<1>3. PICK x \in S : z = n - x
    OBVIOUS
<1>4. \A y \in S : n - y \in T
    OBVIOUS
<1> HIDE DEF T
<1>5. \A y \in S : x >= y
    BY <1>2, <1>3, <1>4
<1>6. Max(S) \in S /\ \A y \in S : Max(S) >= y
    BY <1>5 DEF Max
<1> QED
    BY <1>6

-----------------------------------------------------------------------------
(* What a cut yields.                                                       *)

Start == [done |-> {}, lines |-> {}]

CutUpTo(ms) ==
    LET after[m \in 0..Len(log)] ==
            IF m = 0 THEN [done |-> {}, lines |-> {}]
            ELSE IF m \in ms THEN Take(after[m - 1], m) ELSE after[m - 1]
    IN  after

Step(ms, cut, m) == IF m \in ms THEN Take(cut, m) ELSE cut

\* The function that a cut is computed with exists.
LEMMA AfterFacts ==
    ASSUME NEW ms, Len(log) \in Nat
    PROVE  /\ CutUpTo(ms)[0] = Start
           /\ \A m \in 1 .. Len(log) : CutUpTo(ms)[m] = Step(ms, CutUpTo(ms)[m - 1], m)
<1> DEFINE F(n, h) == [m \in 0 .. n |-> IF m = 0 THEN Start ELSE Step(ms, h[m - 1], m)]
           S == {n \in Nat : \E h : h = F(n, h)}
<1>1. 0 \in S
  <2> DEFINE h == [m \in 0 .. 0 |-> Start]
  <2>1. h = F(0, h)
    OBVIOUS
  <2> QED
    BY <2>1
<1>2. ASSUME NEW n \in Nat, n \in S PROVE n + 1 \in S
  <2>1. PICK h : h = F(n, h)
    BY <1>2
  <2> DEFINE g == [m \in 0 .. n + 1 |-> IF m <= n THEN h[m] ELSE Step(ms, h[n], n + 1)]
  <2>2. \A m \in 0 .. n + 1 : g[m] = IF m = 0 THEN Start ELSE Step(ms, g[m - 1], m)
    <3> TAKE m \in 0 .. n + 1
    <3>1. CASE m <= n
      <4>1. g[m] = h[m] /\ (m # 0 => g[m - 1] = h[m - 1])
        BY <3>1
      <4>2. h[m] = IF m = 0 THEN Start ELSE Step(ms, h[m - 1], m)
        BY <2>1, <3>1
      <4> HIDE DEF g
      <4> QED
        BY <4>1, <4>2
    <3>2. CASE m = n + 1
      <4>1. g[m] = Step(ms, h[n], n + 1) /\ g[n] = h[n] /\ m # 0 /\ m - 1 = n
        BY <3>2
      <4> HIDE DEF g
      <4> QED
        BY <3>2, <4>1
    <3> QED
      BY <3>1, <3>2
  <2>3. g = F(n + 1, g)
    BY <2>2
  <2> HIDE DEF F, g
  <2>4. \E x : x = F(n + 1, x)
    BY <2>3
  <2> QED
    BY <2>4
<1>3. PICK h : h = F(Len(log), h)
    BY <1>1, <1>2, Climb
<1> DEFINE G(g) == [m \in 0..Len(log) |->
                        IF m = 0 THEN [done |-> {}, lines |-> {}]
                        ELSE IF m \in ms THEN Take(g[m - 1], m) ELSE g[m - 1]]
<1>4. \A g : G(g) = F(Len(log), g)
    BY DEF Start, Step
<1>5. CutUpTo(ms) = CHOOSE g : g = G(g)
    BY DEF CutUpTo
<1> HIDE DEF F, G
<1>6. CutUpTo(ms) = F(Len(log), CutUpTo(ms))
    BY <1>3, <1>4, <1>5
<1> QED
    BY <1>6 DEF F

LEMMA CutIsAfter ==
    ASSUME NEW ms
    PROVE  LET cut == CutUpTo(ms)[Len(log)]
           IN  Cut(ms) = IF cut.lines = {} THEN cut.done ELSE cut.done \cup {cut.lines}
BY DEF Cut, CutUpTo

LEMMA RepeatedFacts ==
    ASSUME NEW n \in Nat, NEW lines \in SUBSET (1 .. n)
    PROVE  /\ Repeated(lines) \subseteq lines
           /\ \A a \in Repeated(lines), k \in lines : a <= k => k \in Repeated(lines)
<1>1. Repeated(lines) \subseteq lines
    BY DEF Repeated
<1>2. ASSUME NEW a \in Repeated(lines), NEW k \in lines, a <= k PROVE k \in Repeated(lines)
  <2> DEFINE A == {m \in lines : m > a}
             K == {m \in lines : m > k}
  <2>1. IsFiniteSet(1 .. n)
    BY FS_Interval
  <2>2. IsFiniteSet(A) /\ A \in SUBSET (1 .. n)
    BY <2>1, FS_Subset
  <2>3. K \in SUBSET A
    <3>1. a \in lines /\ k \in lines /\ \A m \in lines : m \in Int
      BY <1>1
    <3>2. \A m \in lines : m > k => m > a
      BY <1>2, <3>1
    <3> QED
      BY <3>2
  <2>4. Cardinality(K) <= Cardinality(A) /\ IsFiniteSet(K)
    BY <2>2, <2>3, FS_Subset
  <2>5. Cardinality(A) \in Nat /\ Cardinality(K) \in Nat
    BY <2>2, <2>4, FS_CardinalityType
  <2>6. Cardinality(A) < Overlap
    BY DEF Repeated
  <2>7. Cardinality(K) < Overlap
    <3> HIDE DEF A, K
    <3> QED
      BY <2>4, <2>5, <2>6, RAGAssumption
  <2> QED
    BY <2>7 DEF Repeated
<1> QED
    BY <1>1, <1>2

\* Of the messages of ms, lines has all those between two of its own.
Unbroken(ms, lines) == \A a, b \in lines, k \in ms : a <= k /\ k <= b => k \in lines

\* Where the cutting of ms stands after message m.
CutTo(ms, m, cut) ==
    /\ cut = [done |-> cut.done, lines |-> cut.lines]
    /\ cut.lines \subseteq ms /\ \A k \in cut.lines : k <= m
    /\ \A a \in cut.lines, k \in ms : a <= k /\ k <= m => k \in cut.lines
    /\ \A lines \in cut.done :
          lines # {} /\ lines \subseteq ms /\ (\A k \in lines : k <= m) /\ Unbroken(ms, lines)
    /\ \A k \in ms : k <= m => k \in cut.lines \/ \E lines \in cut.done : k \in lines

LEMMA TakeFacts ==
    ASSUME NEW n \in Nat, NEW ms \in SUBSET (1 .. n), NEW m \in Nat, NEW cut,
           CutTo(ms, m, cut), m + 1 \in ms
    PROVE  CutTo(ms, m + 1, Take(cut, m + 1))
<1> DEFINE s == m + 1
           full == cut.lines # {} /\ Full(cut.lines, s)
<1>1. /\ cut = [done |-> cut.done, lines |-> cut.lines]
      /\ cut.lines \subseteq ms /\ \A k \in cut.lines : k <= m
      /\ \A a \in cut.lines, k \in ms : a <= k /\ k <= m => k \in cut.lines
      /\ \A lines \in cut.done :
            lines # {} /\ lines \subseteq ms /\ (\A k \in lines : k <= m) /\ Unbroken(ms, lines)
      /\ \A k \in ms : k <= m => k \in cut.lines \/ \E lines \in cut.done : k \in lines
    BY DEF CutTo
<1>2. /\ s \in ms /\ s > m /\ s <= s /\ \A k \in ms : k \in Nat /\ (k <= m \/ k = s \/ k > s)
      /\ \A k \in ms : (k <= m => k <= s /\ ~(s <= k)) /\ (k > s => ~(k <= s))
    OBVIOUS
<1> HIDE DEF s
<1>3. \A lines : (\A k \in lines : k <= m) /\ lines \subseteq ms => \A k \in lines : k <= s
    BY <1>2
<1>4. CASE full
  <2> DEFINE t == [done |-> cut.done \cup {cut.lines}, lines |-> Repeated(cut.lines) \cup {s}]
  <2>1. Take(cut, s) = t
    BY <1>4 DEF Take
  <2>2. /\ Repeated(cut.lines) \subseteq cut.lines
        /\ \A a \in Repeated(cut.lines), k \in cut.lines : a <= k => k \in Repeated(cut.lines)
    <3>1. cut.lines \in SUBSET (1 .. n)
      BY <1>1
    <3> QED
      BY <3>1, RepeatedFacts
  <2>3. t = [done |-> t.done, lines |-> t.lines]
    OBVIOUS
  <2>4. t.lines \subseteq ms /\ \A k \in t.lines : k <= s
    BY <1>1, <1>2, <1>3, <2>2
  <2>5. ASSUME NEW a \in t.lines, NEW k \in ms, a <= k, k <= s PROVE k \in t.lines
    <3>1. CASE k = s
      BY <3>1
    <3>2. CASE k <= m
      <4>1. a \in Repeated(cut.lines)
        BY <1>2, <2>5, <3>2
      <4>2. k \in cut.lines
        BY <1>1, <2>2, <2>5, <3>2, <4>1
      <4> QED
        BY <2>2, <2>5, <4>1, <4>2
    <3> QED
      BY <1>2, <2>5, <3>1, <3>2
  <2>6. Unbroken(ms, cut.lines)
    <3> SUFFICES ASSUME NEW a \in cut.lines, NEW b \in cut.lines, NEW k \in ms, a <= k, k <= b
                 PROVE  k \in cut.lines
      BY DEF Unbroken
    <3>1. k <= m
      <4>1. b <= m /\ b \in Nat /\ k \in Nat
        BY <1>1, <1>2
      <4> QED
        BY <4>1
    <3> QED
      BY <1>1, <3>1
  <2>7. \A lines \in t.done :
           lines # {} /\ lines \subseteq ms /\ (\A k \in lines : k <= s) /\ Unbroken(ms, lines)
    <3>1. \A lines \in cut.done :
             lines # {} /\ lines \subseteq ms /\ (\A k \in lines : k <= s) /\ Unbroken(ms, lines)
      BY <1>1, <1>3
    <3>2. /\ cut.lines # {} /\ cut.lines \subseteq ms /\ (\A k \in cut.lines : k <= s)
          /\ Unbroken(ms, cut.lines)
      BY <1>1, <1>3, <1>4, <2>6
    <3> QED
      BY <3>1, <3>2
  <2>8. \A k \in ms : k <= s => k \in t.lines \/ \E lines \in t.done : k \in lines
    <3> TAKE k \in ms
    <3>1. k = s => k \in t.lines
      OBVIOUS
    <3>2. k <= m => \E lines \in t.done : k \in lines
      BY <1>1
    <3> QED
      BY <1>2, <3>1, <3>2
  <2> HIDE DEF t
  <2>9. CutTo(ms, s, t)
    BY <2>3, <2>4, <2>5, <2>7, <2>8 DEF CutTo
  <2> QED
    BY <2>1, <2>9 DEF s
<1>5. CASE ~full
  <2> DEFINE t == [done |-> cut.done, lines |-> cut.lines \cup {s}]
  <2>1. Take(cut, s) = t
    <3>1. Take(cut, s) = [cut EXCEPT !.lines = cut.lines \cup {s}]
      BY <1>5 DEF Take
    <3> QED
      BY <1>1, <3>1
  <2>3. t = [done |-> t.done, lines |-> t.lines]
    OBVIOUS
  <2>4. t.lines \subseteq ms /\ \A k \in t.lines : k <= s
    BY <1>1, <1>2, <1>3
  <2>5. ASSUME NEW a \in t.lines, NEW k \in ms, a <= k, k <= s PROVE k \in t.lines
    <3>1. CASE k = s
      BY <3>1
    <3>2. CASE k <= m
      <4>1. a \in cut.lines
        BY <1>2, <2>5, <3>2
      <4> QED
        BY <1>1, <2>5, <3>2, <4>1
    <3> QED
      BY <1>2, <2>5, <3>1, <3>2
  <2>7. \A lines \in t.done :
           lines # {} /\ lines \subseteq ms /\ (\A k \in lines : k <= s) /\ Unbroken(ms, lines)
    BY <1>1, <1>3
  <2>8. \A k \in ms : k <= s => k \in t.lines \/ \E lines \in t.done : k \in lines
    <3> TAKE k \in ms
    <3>1. k = s => k \in t.lines
      OBVIOUS
    <3>2. k <= m => k \in t.lines \/ \E lines \in t.done : k \in lines
      BY <1>1
    <3> QED
      BY <1>2, <3>1, <3>2
  <2> HIDE DEF t
  <2>9. CutTo(ms, s, t)
    BY <2>3, <2>4, <2>5, <2>7, <2>8 DEF CutTo
  <2> QED
    BY <2>1, <2>9 DEF s
<1> QED
    BY <1>4, <1>5

\* A cut takes every message of ms, and each of its segments is unbroken.
LEMMA CutFacts ==
    ASSUME Len(log) \in Nat, NEW ms \in SUBSET (1 .. Len(log))
    PROVE  /\ \A lines \in Cut(ms) : lines # {} /\ lines \subseteq ms /\ Unbroken(ms, lines)
           /\ \A k \in ms : \E lines \in Cut(ms) : k \in lines
<1> DEFINE N == Len(log)
           S == {m \in Nat : m <= N => CutTo(ms, m, CutUpTo(ms)[m])}
<1>1. N \in Nat /\ ms \in SUBSET (1 .. N)
    OBVIOUS
<1>2. /\ CutUpTo(ms)[0] = Start
      /\ \A m \in 1 .. N : CutUpTo(ms)[m] = Step(ms, CutUpTo(ms)[m - 1], m)
    BY AfterFacts
<1> HIDE DEF N
<1>3. 0 \in S
  <2>1. CutTo(ms, 0, Start)
    BY <1>1 DEF CutTo, Start
  <2> QED
    BY <1>2, <2>1
<1>4. ASSUME NEW m \in Nat, m \in S PROVE m + 1 \in S
  <2> SUFFICES ASSUME m + 1 <= N PROVE CutTo(ms, m + 1, CutUpTo(ms)[m + 1])
    OBVIOUS
  <2>1. CutTo(ms, m, CutUpTo(ms)[m]) /\ m + 1 \in 1 .. N /\ (m + 1) - 1 = m
    BY <1>1, <1>4
  <2>2. CutUpTo(ms)[m + 1] = Step(ms, CutUpTo(ms)[m], m + 1)
    BY <1>2, <2>1
  <2>3. CASE m + 1 \in ms
    BY <1>1, <2>1, <2>2, <2>3, TakeFacts DEF Step
  <2>4. CASE m + 1 \notin ms
    <3>1. CutUpTo(ms)[m + 1] = CutUpTo(ms)[m]
      BY <2>2, <2>4 DEF Step
    <3>2. \A k \in ms : k <= m + 1 <=> k <= m
      BY <1>1, <2>4
    <3>3. \A k \in 1 .. N : k <= m => k <= m + 1
      BY <1>1
    <3> DEFINE cut == CutUpTo(ms)[m]
    <3>4. CutTo(ms, m, cut)
      BY <2>1
    <3> HIDE DEF cut
    <3>5. CutTo(ms, m + 1, cut)
      BY <3>2, <3>4 DEF CutTo
    <3> QED
      BY <3>1, <3>5 DEF cut
  <2> QED
    BY <2>3, <2>4
<1>5. N \in S
    BY <1>1, <1>3, <1>4, Climb
<1> DEFINE cut == CutUpTo(ms)[N]
<1>6. CutTo(ms, N, cut)
    BY <1>1, <1>5
<1>7. Cut(ms) = IF cut.lines = {} THEN cut.done ELSE cut.done \cup {cut.lines}
    BY CutIsAfter DEF N
<1> HIDE DEF cut
<1>8. \A k \in ms : k <= N
    BY <1>1
<1>9. Unbroken(ms, cut.lines)
    BY <1>6, <1>8 DEF CutTo, Unbroken
<1>10. \A lines \in Cut(ms) : lines # {} /\ lines \subseteq ms /\ Unbroken(ms, lines)
    BY <1>6, <1>7, <1>9 DEF CutTo
<1>11. \A k \in ms : \E lines \in Cut(ms) : k \in lines
    BY <1>6, <1>7, <1>8 DEF CutTo
<1> QED
    BY <1>10, <1>11

-----------------------------------------------------------------------------
(* The invariant.                                                           *)

RunType == [phase : Phases, batch : 0..MaxBatches, latest : 0..MaxSeq, last : 0..MaxSeq,
            segs : SUBSET Segments]

\* Of the messages that make lines, a segment has all that are in its range.
Whole(seg) ==
    seg.lines \subseteq 1 .. Len(log) /\ Unbroken(OfKinds({"line"}, 1, Len(log)), seg.lines)

Covers(segs, n) == \A m \in OfKinds({"line"}, 1, n) : \E seg \in segs : m \in seg.lines

\* What a run may rely on until it sets the cursor.
Promise(x) ==
    /\ x.latest <= Len(log)
    /\ \A seg \in x.segs : Whole(seg)
    /\ x.phase = "messages" => x.last <= Len(log) /\ Covers(rows, x.last)
    /\ x.phase \in {"filter", "store", "points"} /\ x.batch = 0 =>
          Covers(rows \cup x.segs, x.latest)
    /\ x.phase = "points" => x.segs \subseteq rows
    /\ x.phase = "advance" => Covers(rows, x.latest)

IndexInv ==
    /\ \A seg \in rows : Whole(seg)
    /\ \A r \in Runs : Promise(run[r])
    /\ cursor <= Len(log) /\ Covers(rows, cursor)
    /\ RowsMatchPoints

LEMMA RAGTypes ==
    ASSUME TypeOK
    PROVE  /\ log \in Seq([kind : Kinds, at : Nat]) /\ Len(log) \in 0 .. MaxSeq
           /\ MaxSeq \in Nat /\ MaxBatches \in Nat /\ MaxFaults \in Nat
           /\ rows \subseteq Segments /\ points \subseteq Segments /\ unindexed \subseteq Segments
           /\ run \in [Runs -> RunType] /\ cursor \in 0 .. MaxSeq
           /\ batches \in 0 .. MaxBatches /\ faults \in 0 .. MaxFaults
BY RAGAssumption DEF TypeOK, RunType

LEMMA NewRunFacts ==
    /\ NewRun \in RunType
    /\ NewRun.phase = "idle" /\ NewRun.latest = 0 /\ NewRun.segs = {} /\ NewRun.batch = 0
    /\ Len(log) \in Nat => Promise(NewRun)
<1>1. /\ NewRun.phase = "idle" /\ NewRun.latest = 0 /\ NewRun.segs = {}
      /\ NewRun.batch = 0 /\ NewRun \in RunType
    BY RAGAssumption DEF NewRun, RunType, Phases
<1>2. Len(log) \in Nat => Promise(NewRun)
    BY <1>1 DEF Promise
<1> QED
    BY <1>1, <1>2

\* While the log stays and rows are added, what a run relies on stays.
LEMMA PromiseStays ==
    ASSUME NEW x, Promise(x), log' = log, rows \subseteq rows'
    PROVE  Promise(x)'
<1>1. \A seg : Whole(seg) => Whole(seg)'
    BY DEF Whole, OfKinds
<1>2. \A n : Covers(rows, n) => Covers(rows, n)'
    BY DEF Covers, OfKinds
<1>3. \A n : Covers(rows \cup x.segs, n) => Covers(rows \cup x.segs, n)'
    BY DEF Covers, OfKinds
<1> QED
    BY <1>1, <1>2, <1>3 DEF Promise

\* The step of one run.
LEMMA RunStep ==
    ASSUME TypeOK, IndexInv, NEW r \in Runs, NEW x \in RunType, run' = [run EXCEPT ![r] = x],
           log' = log, rows \subseteq rows', rows' \subseteq rows \cup run[r].segs,
           points' \subseteq Segments, unindexed' \subseteq Segments,
           cursor' = cursor \/ (cursor' = run[r].latest /\ Covers(rows, run[r].latest)),
           batches' \in 0 .. MaxBatches, faults' \in 0 .. MaxFaults,
           Promise(x)', RowsMatchPoints'
    PROVE  TypeOK' /\ IndexInv'
<1>1. run[r] \in RunType /\ run[r].segs \subseteq Segments /\ run[r].latest \in 0 .. MaxSeq
    BY RAGTypes DEF RunType
<1>2. run' \in [Runs -> RunType] /\ run'[r] = x /\ \A q \in Runs \ {r} : run'[q] = run[q]
    BY RAGTypes
<1>3. TypeOK'
  <2>1. rows' \subseteq Segments /\ cursor' \in 0 .. MaxSeq
    BY <1>1, RAGTypes
  <2> QED
    BY <1>2, <2>1 DEF TypeOK, RunType
<1>4. /\ \A seg \in rows : Whole(seg)
      /\ \A q \in Runs : Promise(run[q])
      /\ cursor <= Len(log) /\ Covers(rows, cursor)
    BY DEF IndexInv
<1>5. \A seg \in rows' : Whole(seg)'
    BY <1>4 DEF Promise, Whole, OfKinds
<1>6. \A q \in Runs : Promise(run[q])'
  <2>1. ASSUME NEW q \in Runs, NEW y, y = run'[q] PROVE Promise(y)'
    <3>1. CASE q = r
      BY <1>2, <2>1, <3>1, Zenon
    <3>2. CASE q # r
      <4>1. Promise(y)
        BY <1>2, <1>4, <2>1, <3>2
      <4> QED
        BY <4>1, PromiseStays
    <3> QED
      BY <3>1, <3>2
  <2> QED
    BY <2>1, Zenon
<1>7. cursor' <= Len(log') /\ Covers(rows, cursor)'
  <2>1. cursor' <= Len(log) /\ Covers(rows, cursor')
    BY <1>4 DEF Promise
  <2> QED
    BY <2>1 DEF Covers, OfKinds
<1> QED
    BY <1>3, <1>5, <1>6, <1>7, Zenon DEF IndexInv

\* A step of a run that neither writes points nor was about to.
LEMMA QuietStep ==
    ASSUME TypeOK, IndexInv, NEW r \in Runs, NEW x \in RunType, run' = [run EXCEPT ![r] = x],
           UNCHANGED <<log, rows, points, unindexed>>, run[r].phase # "points",
           cursor' = cursor \/ (cursor' = run[r].latest /\ Covers(rows, run[r].latest)),
           batches' \in 0 .. MaxBatches, faults' \in 0 .. MaxFaults, Promise(x)
    PROVE  TypeOK' /\ IndexInv'
<1>1. Promise(x)'
    BY PromiseStays
<1>2. \A q \in Runs \ {r} : run'[q] = run[q]
    BY RAGTypes
<1>3. RowsMatchPoints
    BY DEF IndexInv
<1>4. RowsMatchPoints'
    BY <1>2, <1>3 DEF RowsMatchPoints
<1> QED
    BY <1>1, <1>4, RunStep, RAGTypes

-----------------------------------------------------------------------------
(* The steps.                                                               *)

\* The segments that are cut of a range.
LEMMA NamedFacts ==
    ASSUME TypeOK, NEW kinds, "line" \in kinds, NEW from \in Nat, from > 0, NEW to \in Nat,
           to <= Len(log), NEW batch \in 0 .. MaxBatches
    PROVE  LET segs == Named(batch, Cut(OfKinds(kinds, from, to)))
           IN  /\ segs \in SUBSET Segments /\ \A seg \in segs : Whole(seg)
               /\ \A m \in OfKinds({"line"}, from, to) : \E seg \in segs : m \in seg.lines
<1> DEFINE ms == OfKinds(kinds, from, to)
           segs == Named(batch, Cut(ms))
<1>1. Len(log) \in Nat /\ Len(log) <= MaxSeq /\ MaxSeq \in Nat
    BY RAGTypes
<1>2. ms \in SUBSET (1 .. Len(log))
    BY <1>1 DEF OfKinds
<1>3. /\ \A lines \in Cut(ms) : lines # {} /\ lines \subseteq ms /\ Unbroken(ms, lines)
      /\ \A k \in ms : \E lines \in Cut(ms) : k \in lines
    BY <1>1, <1>2, CutFacts
<1>4. \A m \in OfKinds({"line"}, from, to) : m \in ms
    BY DEF OfKinds
<1>5. \A m \in OfKinds({"line"}, 1, Len(log)) : m \in Nat /\ (from <= m /\ m <= to => m \in ms)
    BY <1>1 DEF OfKinds
<1>6. \A m \in ms : m \in Nat /\ from <= m /\ m <= to
    BY <1>1 DEF OfKinds
<1> HIDE DEF ms
<1>7. ASSUME NEW lines \in Cut(ms) PROVE Unbroken(OfKinds({"line"}, 1, Len(log)), lines)
  <2> SUFFICES ASSUME NEW a \in lines, NEW b \in lines,
                      NEW m \in OfKinds({"line"}, 1, Len(log)), a <= m, m <= b
               PROVE  m \in lines
    BY DEF Unbroken
  <2>1. a \in ms /\ b \in ms /\ Unbroken(ms, lines)
    BY <1>3
  <2>2. m \in ms
    BY <1>5, <1>6, <2>1
  <2> QED
    BY <2>1, <2>2 DEF Unbroken
<1>8. \A lines \in Cut(ms) : lines \in SUBSET (1 .. Len(log)) /\ lines \in (SUBSET (1 .. MaxSeq)) \ {{}}
  <2>1. 1 .. Len(log) \subseteq 1 .. MaxSeq
    BY <1>1
  <2>2. \A lines \in Cut(ms) : lines # {} /\ lines \subseteq 1 .. Len(log)
    BY <1>2, <1>3
  <2> QED
    BY <2>1, <2>2
<1>9. segs \in SUBSET Segments /\ \A seg \in segs : Whole(seg)
  <2> SUFFICES ASSUME NEW lines \in Cut(ms), NEW seg, seg = [batch |-> batch, lines |-> lines]
               PROVE  seg \in Segments /\ Whole(seg)
    BY DEF Named
  <2>1. lines \in SUBSET (1 .. Len(log)) /\ lines \in (SUBSET (1 .. MaxSeq)) \ {{}}
    BY <1>8
  <2>2. seg.lines = lines /\ seg \in Segments
    BY <2>1 DEF Segments
  <2> QED
    BY <1>7, <2>1, <2>2 DEF Whole
<1>10. \A lines \in Cut(ms) : \E seg \in segs : seg.lines = lines
  <2> TAKE lines \in Cut(ms)
  <2>1. [batch |-> batch, lines |-> lines] \in segs
    BY DEF Named
  <2> QED
    BY <2>1
<1>11. \A m \in OfKinds({"line"}, from, to) : \E seg \in segs : m \in seg.lines
  <2> HIDE DEF segs
  <2> QED
    BY <1>3, <1>4, <1>10
<1> QED
    BY <1>9, <1>11 DEF ms

LEMMA PostStep ==
    ASSUME TypeOK, IndexInv, NEW a \in Arrivals, Post(a)
    PROVE  TypeOK' /\ IndexInv'
<1>1. PICK e : log' = Append(log, e) /\ e = [kind |-> a.kind,
                     at |-> (IF log = <<>> THEN 0 ELSE Last(log).at) + a.pause]
    BY DEF Post
<1>2. /\ Len(log) < MaxSeq
      /\ UNCHANGED <<cursor, rows, points, run, batches, unindexed, faults>>
    BY DEF Post, indexVars
<1>3. a.kind \in Kinds /\ a.pause \in Nat
    BY RAGAssumption DEF Kinds
<1>4. log = <<>> \/ Last(log).at \in Nat
  <2>1. log \in Seq([kind : Kinds, at : Nat])
    BY RAGTypes
  <2>2. log # <<>> => Len(log) \in 1 .. Len(log)
    BY <2>1, EmptySeq, LenProperties
  <2>3. log # <<>> => log[Len(log)] \in [kind : Kinds, at : Nat]
    BY <2>1, <2>2, ElementOfSeq
  <2> QED
    BY <2>3 DEF Last
<1>5. e \in [kind : Kinds, at : Nat]
    BY <1>1, <1>3, <1>4
<1>6. /\ log' \in Seq([kind : Kinds, at : Nat]) /\ Len(log') = Len(log) + 1
      /\ Len(log) \in Nat /\ \A m \in 1 .. Len(log) : log'[m] = log[m]
    BY <1>1, <1>5, RAGTypes
<1>7. TypeOK'
    BY <1>2, <1>6, RAGTypes DEF TypeOK, RunType
<1>8. \A n \in Nat : n <= Len(log) => OfKinds({"line"}, 1, n)' = OfKinds({"line"}, 1, n)
  <2> TAKE n \in Nat
  <2> HAVE n <= Len(log)
  <2>1. ASSUME NEW m \in 1 .. n PROVE log'[m] = log[m]
    <3>1. m \in 1 .. Len(log)
      BY <1>6
    <3> QED
      BY <1>6, <3>1
  <2> QED
    BY <2>1 DEF OfKinds
<1>9. ASSUME NEW seg, Whole(seg) PROVE Whole(seg)'
  <2>1. seg.lines \subseteq 1 .. Len(log')
    BY <1>6, <1>9 DEF Whole
  <2>2. Unbroken(OfKinds({"line"}, 1, Len(log))', seg.lines)
    <3> SUFFICES ASSUME NEW b \in seg.lines, NEW c \in seg.lines,
                        NEW m \in OfKinds({"line"}, 1, Len(log))', b <= m, m <= c
                 PROVE  m \in seg.lines
      BY DEF Unbroken
    <3>1. c \in 1 .. Len(log) /\ Unbroken(OfKinds({"line"}, 1, Len(log)), seg.lines)
      BY <1>9 DEF Whole
    <3>2. m \in OfKinds({"line"}, 1, Len(log))
      BY <1>6, <3>1 DEF OfKinds
    <3> QED
      BY <3>1, <3>2 DEF Unbroken
  <2> QED
    BY <2>1, <2>2 DEF Whole, Unbroken
<1>10. \A S, n : n \in Nat /\ n <= Len(log) /\ Covers(S, n) => Covers(S, n)'
    BY <1>8 DEF Covers
<1>11. ASSUME NEW x \in RunType, Promise(x) PROVE Promise(x)'
  <2>1. x.latest \in Nat /\ x.last \in Nat /\ x.latest <= Len(log)
    BY <1>11, RAGAssumption DEF RunType, Promise
  <2>2. x.latest <= Len(log')
    BY <1>6, <2>1
  <2>3. \A seg \in x.segs : Whole(seg)'
    BY <1>9, <1>11 DEF Promise
  <2>4. Covers(rows, x.latest) => Covers(rows, x.latest)'
    BY <1>2, <1>10, <2>1 DEF Covers
  <2>5. Covers(rows \cup x.segs, x.latest) => Covers(rows \cup x.segs, x.latest)'
    BY <1>2, <1>10, <2>1 DEF Covers
  <2>6. x.last <= Len(log) /\ Covers(rows, x.last) => x.last <= Len(log') /\ Covers(rows, x.last)'
    BY <1>2, <1>6, <1>10, <2>1 DEF Covers
  <2>7. x.phase = "points" => x.segs \subseteq rows'
    BY <1>2, <1>11 DEF Promise
  <2> QED
    BY <1>11, <2>2, <2>3, <2>4, <2>5, <2>6, <2>7 DEF Promise
<1>12. /\ \A seg \in rows : Whole(seg)
       /\ \A r \in Runs : run[r] \in RunType /\ Promise(run[r])
       /\ cursor <= Len(log) /\ Covers(rows, cursor) /\ cursor \in Nat
       /\ RowsMatchPoints
    BY RAGTypes DEF IndexInv
<1>13. \A r \in Runs : Promise(run[r])'
    BY <1>2, <1>11, <1>12
<1>14. cursor' <= Len(log') /\ Covers(rows, cursor)'
  <2>1. cursor' <= Len(log')
    BY <1>2, <1>6, <1>12
  <2>2. ASSUME NEW S, NEW n, S = rows', n = cursor' PROVE Covers(S, n)'
    BY <1>2, <1>10, <1>12, <2>2
  <2>3. Covers(rows, cursor)'
    BY <2>2, Zenon
  <2> QED
    BY <2>1, <2>3
<1>15. RowsMatchPoints'
    BY <1>2, <1>12 DEF RowsMatchPoints
<1>16. \A seg \in rows' : Whole(seg)'
    BY <1>2, <1>9, <1>12
<1> QED
    BY <1>7, <1>13, <1>14, <1>15, <1>16, Zenon DEF IndexInv

LEMMA ReadingSteps ==
    ASSUME TypeOK, IndexInv, NEW r \in Runs, ReadLatest(r) \/ ReadCursor(r)
    PROVE  TypeOK' /\ IndexInv'
<1>1. /\ UNCHANGED <<log, cursor, rows, points, unindexed, batches, faults>>
      /\ run[r].phase \in {"idle", "cursor"}
    BY DEF ReadLatest, ReadCursor, indexVars
<1>2. /\ run \in [Runs -> RunType] /\ run[r] \in RunType /\ Len(log) \in 0 .. MaxSeq
      /\ Len(log) \in Nat /\ cursor \in 0 .. MaxSeq /\ cursor <= Len(log) /\ Covers(rows, cursor)
      /\ Promise(run[r]) /\ batches \in 0 .. MaxBatches /\ faults \in 0 .. MaxFaults
    BY RAGTypes DEF IndexInv
<1>3. CASE ReadLatest(r)
  <2> DEFINE x == [NewRun EXCEPT !.phase = "cursor", !.latest = Len(log)]
  <2>1. x \in RunType /\ x.phase = "cursor" /\ x.latest = Len(log) /\ x.segs = {}
    BY <1>2, NewRunFacts DEF RunType, Phases
  <2>2. run' = [run EXCEPT ![r] = x]
    BY <1>3 DEF ReadLatest
  <2> HIDE DEF x
  <2>3. Promise(x)
    BY <1>2, <2>1 DEF Promise
  <2> QED
    BY <1>1, <1>2, <2>1, <2>2, <2>3, QuietStep
<1>4. CASE ReadCursor(r) /\ cursor >= run[r].latest
  <2>1. run' = [run EXCEPT ![r] = NewRun]
    BY <1>4 DEF ReadCursor
  <2> QED
    BY <1>1, <1>2, <2>1, NewRunFacts, QuietStep
<1>5. CASE ReadCursor(r) /\ ~(cursor >= run[r].latest)
  <2> DEFINE x == [run[r] EXCEPT !.phase = "messages", !.last = cursor]
  <2>1. x \in RunType /\ x.phase = "messages" /\ x.last = cursor
        /\ x.latest = run[r].latest /\ x.segs = run[r].segs
    BY <1>2 DEF RunType, Phases
  <2>2. run' = [run EXCEPT ![r] = x]
    BY <1>5 DEF ReadCursor
  <2> HIDE DEF x
  <2>3. Promise(x)
    BY <1>2, <2>1 DEF Promise
  <2> QED
    BY <1>1, <1>2, <2>1, <2>2, <2>3, QuietStep
<1> QED
    BY <1>3, <1>4, <1>5

LEMMA ReadMessagesStep ==
    ASSUME TypeOK, IndexInv, NEW r \in Runs, ReadMessages(r)
    PROVE  TypeOK' /\ IndexInv'
<1>1. /\ UNCHANGED <<log, cursor, rows, points, unindexed, batches, faults>>
      /\ run[r].phase = "messages"
    BY DEF ReadMessages, indexVars
<1>2. /\ run \in [Runs -> RunType] /\ run[r] \in RunType
      /\ Len(log) \in Nat /\ MaxSeq \in Nat /\ MaxBatches \in Nat
      /\ Promise(run[r]) /\ batches \in 0 .. MaxBatches /\ faults \in 0 .. MaxFaults
    BY RAGTypes DEF IndexInv
<1>3. /\ run[r].last \in Nat /\ run[r].latest \in Nat /\ run[r].latest <= Len(log)
      /\ run[r].last <= Len(log) /\ Covers(rows, run[r].last)
    BY <1>1, <1>2 DEF RunType, Promise
<1> DEFINE segs == Named(0, Cut(OfKinds({"line"}, run[r].last + 1, Len(log))))
           x == [run[r] EXCEPT !.phase = "filter", !.last = 0, !.segs = segs]
<1>4. /\ segs \in SUBSET Segments /\ \A seg \in segs : Whole(seg)
      /\ \A m \in OfKinds({"line"}, run[r].last + 1, Len(log)) : \E seg \in segs : m \in seg.lines
  <2>1. /\ run[r].last + 1 \in Nat /\ run[r].last + 1 > 0 /\ 0 \in 0 .. MaxBatches
        /\ "line" \in {"line"} /\ Len(log) <= Len(log)
    BY <1>2, <1>3
  <2> QED
    BY <1>2, <2>1, NamedFacts
<1>5. run' = [run EXCEPT ![r] = x]
    BY <1>2 DEF ReadMessages
<1> HIDE DEF segs
<1>6. /\ x \in RunType /\ x.phase = "filter" /\ x.segs = segs
      /\ x.latest = run[r].latest /\ x.batch = run[r].batch
  <2>1. segs \in SUBSET Segments /\ 0 \in 0 .. MaxSeq /\ run[r] \in RunType /\ "filter" \in Phases
    BY <1>2, <1>4 DEF Phases
  <2> QED
    BY <2>1 DEF RunType
<1> HIDE DEF x
<1>7. Covers(rows \cup segs, run[r].latest)
  <2> SUFFICES ASSUME NEW m \in OfKinds({"line"}, 1, run[r].latest)
               PROVE  \E seg \in rows \cup segs : m \in seg.lines
    BY DEF Covers
  <2>1. CASE m <= run[r].last
    <3>1. m \in OfKinds({"line"}, 1, run[r].last)
      BY <1>3, <2>1 DEF OfKinds
    <3> QED
      BY <1>3, <3>1 DEF Covers
  <2>2. CASE ~(m <= run[r].last)
    <3>1. m \in OfKinds({"line"}, run[r].last + 1, Len(log))
      BY <1>2, <1>3, <2>2 DEF OfKinds
    <3> QED
      BY <1>4, <3>1
  <2> QED
    BY <2>1, <2>2
<1>8. Promise(x)
    BY <1>3, <1>4, <1>6, <1>7 DEF Promise
<1> QED
    BY <1>1, <1>2, <1>5, <1>6, <1>8, QuietStep

LEMMA ReadRangeStep ==
    ASSUME TypeOK, IndexInv, NEW r \in Runs, NEW from \in 1 .. Len(log), NEW to \in 1 .. Len(log),
           ReadRange(r, from, to)
    PROVE  TypeOK' /\ IndexInv'
<1>1. /\ UNCHANGED <<log, cursor, rows, points, unindexed, faults>>
      /\ run[r].phase = "idle" /\ batches < MaxBatches /\ batches' = batches + 1
    BY DEF ReadRange, indexVars
<1>2. /\ run \in [Runs -> RunType] /\ Len(log) \in Nat /\ MaxBatches \in Nat
      /\ batches \in 0 .. MaxBatches /\ faults \in 0 .. MaxFaults
    BY RAGTypes
<1> DEFINE segs == Named(batches + 1, Cut(OfKinds({"line", "long"}, from, to)))
           x == [NewRun EXCEPT !.phase = "filter", !.batch = batches + 1, !.segs = segs]
<1>3. batches + 1 \in 0 .. MaxBatches /\ batches + 1 # 0
    BY <1>1, <1>2
<1>4. segs \in SUBSET Segments /\ \A seg \in segs : Whole(seg)
  <2>1. /\ from \in Nat /\ from > 0 /\ to \in Nat /\ to <= Len(log)
        /\ "line" \in {"line", "long"}
    BY <1>2
  <2> QED
    BY <1>3, <2>1, NamedFacts
<1>5. run' = [run EXCEPT ![r] = x]
    BY DEF ReadRange
<1> HIDE DEF segs
<1>6. /\ x \in RunType /\ x.phase = "filter" /\ x.segs = segs /\ x.latest = 0
      /\ x.batch # 0
    BY <1>3, <1>4, NewRunFacts DEF RunType, Phases
<1> HIDE DEF x
<1>7. Promise(x)
    BY <1>2, <1>4, <1>6 DEF Promise
<1> QED
    BY <1>1, <1>2, <1>3, <1>5, <1>6, <1>7, QuietStep

\* A segment that is passed over is one whose messages have rows.
LEMMA FilterStep ==
    ASSUME TypeOK, IndexInv, NEW r \in Runs, Filter(r)
    PROVE  TypeOK' /\ IndexInv'
<1> DEFINE new == {seg \in run[r].segs : \A old \in rows : Bounds(old) # Bounds(seg)}
<1>1. /\ UNCHANGED <<log, cursor, rows, points, unindexed, batches, faults>>
      /\ run[r].phase = "filter"
    BY DEF Filter, indexVars
<1>2. /\ run \in [Runs -> RunType] /\ run[r] \in RunType /\ rows \subseteq Segments
      /\ Len(log) \in Nat /\ batches \in 0 .. MaxBatches /\ faults \in 0 .. MaxFaults
      /\ Promise(run[r]) /\ \A seg \in rows : Whole(seg)
    BY RAGTypes DEF IndexInv
<1>3. /\ run[r].segs \subseteq Segments /\ run[r].latest \in Nat /\ run[r].latest <= Len(log)
      /\ \A seg \in run[r].segs : Whole(seg)
      /\ run[r].batch = 0 => Covers(rows \cup run[r].segs, run[r].latest)
    BY <1>1, <1>2 DEF RunType, Promise
<1>4. ASSUME NEW seg \in run[r].segs, NEW old \in rows, Bounds(old) = Bounds(seg),
             NEW m \in OfKinds({"line"}, 1, run[r].latest), m \in seg.lines
      PROVE  m \in old.lines
  <2>1. /\ seg.lines \in SUBSET (1 .. Len(log)) /\ old.lines \in SUBSET (1 .. Len(log))
        /\ seg.lines # {} /\ old.lines # {}
        /\ Unbroken(OfKinds({"line"}, 1, Len(log)), old.lines)
    BY <1>2, <1>3 DEF Whole, Segments
  <2>2. Min(old.lines) = Min(seg.lines) /\ Max(old.lines) = Max(seg.lines)
    BY <1>4 DEF Bounds
  <2>3. /\ Min(old.lines) \in old.lines /\ Max(old.lines) \in old.lines
        /\ Min(seg.lines) <= m /\ m <= Max(seg.lines)
    BY <1>2, <1>4, <2>1, MinFacts, MaxFacts
  <2>4. m \in OfKinds({"line"}, 1, Len(log))
    BY <1>2, <1>3 DEF OfKinds
  <2> QED
    BY <2>1, <2>2, <2>3, <2>4 DEF Unbroken
<1>5. run[r].batch = 0 => Covers(rows \cup new, run[r].latest)
  <2> SUFFICES ASSUME run[r].batch = 0, NEW m \in OfKinds({"line"}, 1, run[r].latest)
               PROVE  \E seg \in rows \cup new : m \in seg.lines
    BY DEF Covers
  <2>1. PICK seg \in rows \cup run[r].segs : m \in seg.lines
    BY <1>3 DEF Covers
  <2>2. CASE seg \in rows \/ seg \in new
    BY <2>1, <2>2
  <2>3. CASE seg \in run[r].segs /\ seg \notin new
    <3>1. PICK old \in rows : Bounds(old) = Bounds(seg)
      BY <2>3
    <3>2. m \in old.lines
      BY <1>4, <2>1, <2>3, <3>1
    <3> QED
      BY <3>2
  <2> QED
    BY <2>1, <2>2, <2>3
<1>6. /\ new \subseteq run[r].segs
      /\ run' = [run EXCEPT ![r] = IF new # {} THEN [run[r] EXCEPT !.phase = "store", !.segs = new]
                                   ELSE IF run[r].batch = 0
                                        THEN [run[r] EXCEPT !.phase = "advance", !.segs = {}]
                                        ELSE NewRun]
    BY DEF Filter
<1> HIDE DEF new
<1>7. CASE new # {}
  <2> DEFINE x == [run[r] EXCEPT !.phase = "store", !.segs = new]
  <2>1. /\ x \in RunType /\ x.phase = "store" /\ x.segs = new
        /\ x.latest = run[r].latest /\ x.batch = run[r].batch
    BY <1>2, <1>3, <1>6 DEF RunType, Phases
  <2>2. run' = [run EXCEPT ![r] = x]
    BY <1>6, <1>7
  <2> HIDE DEF x
  <2>3. Promise(x)
    BY <1>3, <1>5, <1>6, <2>1 DEF Promise
  <2> QED
    BY <1>1, <1>2, <2>1, <2>2, <2>3, QuietStep
<1>8. CASE new = {} /\ run[r].batch = 0
  <2> DEFINE x == [run[r] EXCEPT !.phase = "advance", !.segs = {}]
  <2>1. x \in RunType /\ x.phase = "advance" /\ x.segs = {} /\ x.latest = run[r].latest
    BY <1>2 DEF RunType, Phases
  <2>2. run' = [run EXCEPT ![r] = x]
    BY <1>6, <1>8
  <2> HIDE DEF x
  <2>3. Covers(rows, run[r].latest)
    BY <1>5, <1>8 DEF Covers
  <2>4. Promise(x)
    BY <1>3, <2>1, <2>3 DEF Promise
  <2> QED
    BY <1>1, <1>2, <2>1, <2>2, <2>4, QuietStep
<1>9. CASE new = {} /\ run[r].batch # 0
  <2>1. run' = [run EXCEPT ![r] = NewRun]
    BY <1>6, <1>9
  <2> QED
    BY <1>1, <1>2, <2>1, NewRunFacts, QuietStep
<1> QED
    BY <1>7, <1>8, <1>9

LEMMA GotoFacts ==
    ASSUME TypeOK, NEW r \in Runs, NEW from, NEW to \in Phases, Goto(r, from, to)
    PROVE  /\ run[r].phase = from
           /\ \E x \in RunType : /\ run' = [run EXCEPT ![r] = x] /\ x.phase = to
                                 /\ to = "idle" => x = NewRun
                                 /\ to # "idle" => /\ x.segs = run[r].segs
                                                   /\ x.latest = run[r].latest
                                                   /\ x.batch = run[r].batch
<1>1. run[r] \in RunType
    BY RAGTypes
<1>2. CASE to = "idle"
  <2>1. run' = [run EXCEPT ![r] = NewRun] /\ run[r].phase = from
    BY <1>2 DEF Goto
  <2> QED
    BY <1>2, <2>1, NewRunFacts
<1>3. CASE to # "idle"
  <2> DEFINE x == [run[r] EXCEPT !.phase = to]
  <2>1. /\ x \in RunType /\ x.phase = to /\ x.segs = run[r].segs
        /\ x.latest = run[r].latest /\ x.batch = run[r].batch
    BY <1>1 DEF RunType
  <2>2. run' = [run EXCEPT ![r] = x] /\ run[r].phase = from
    BY <1>3 DEF Goto
  <2> HIDE DEF x
  <2> QED
    BY <1>3, <2>1, <2>2
<1> QED
    BY <1>2, <1>3

LEMMA StoreStep ==
    ASSUME TypeOK, IndexInv, NEW r \in Runs, Store(r)
    PROVE  TypeOK' /\ IndexInv'
<1>1. /\ UNCHANGED <<log, cursor, points, unindexed, batches, faults>>
      /\ rows' = rows \cup run[r].segs /\ Goto(r, "store", "points")
    BY DEF Store
<1>2. "points" \in Phases
    BY DEF Phases
<1>3. /\ run[r].phase = "store"
      /\ \E x \in RunType : /\ run' = [run EXCEPT ![r] = x] /\ x.phase = "points"
                            /\ x.segs = run[r].segs /\ x.latest = run[r].latest
                            /\ x.batch = run[r].batch
    BY <1>1, <1>2, GotoFacts
<1>4. PICK x \in RunType : /\ run' = [run EXCEPT ![r] = x] /\ x.phase = "points"
                           /\ x.segs = run[r].segs /\ x.latest = run[r].latest
                           /\ x.batch = run[r].batch
    BY <1>3
<1>5. /\ run[r].latest <= Len(log) /\ \A seg \in x.segs : Whole(seg)
      /\ x.batch = 0 => Covers(rows \cup x.segs, x.latest)
    BY <1>3, <1>4 DEF IndexInv, Promise
<1>6. Promise(x)'
  <2>1. x.batch = 0 => Covers(rows \cup x.segs, x.latest)'
    BY <1>1, <1>4, <1>5 DEF Covers, OfKinds
  <2>2. \A seg \in x.segs : Whole(seg)'
    BY <1>1, <1>5 DEF Whole, OfKinds
  <2>3. x.latest <= Len(log') /\ x.segs \subseteq rows'
    BY <1>1, <1>4, <1>5
  <2> QED
    BY <1>4, <2>1, <2>2, <2>3 DEF Promise
<1>7. RowsMatchPoints'
  <2>1. run'[r] = x /\ \A q \in Runs \ {r} : run'[q] = run[q]
    BY <1>4, RAGTypes
  <2>2. RowsMatchPoints
    BY DEF IndexInv
  <2> QED
    BY <1>1, <1>3, <1>4, <2>1, <2>2 DEF RowsMatchPoints
<1> QED
    BY <1>1, <1>4, <1>6, <1>7, RunStep, RAGTypes

LEMMA WritePointsStep ==
    ASSUME TypeOK, IndexInv, NEW r \in Runs, WritePoints(r)
    PROVE  TypeOK' /\ IndexInv'
<1>1. PICK to : to = IF run[r].batch = 0 THEN "advance" ELSE "idle"
    OBVIOUS
<1>2. /\ UNCHANGED <<log, cursor, rows, batches, faults>> /\ Goto(r, "points", to)
      /\ points' = points \cup run[r].segs /\ unindexed' = unindexed \ run[r].segs
    BY <1>1 DEF WritePoints, Written
<1>3. to \in Phases
    BY <1>1 DEF Phases
<1>4. run[r].phase = "points"
    BY <1>2, <1>3, GotoFacts
<1>5. PICK x \in RunType : /\ run' = [run EXCEPT ![r] = x] /\ x.phase = to
                           /\ to = "idle" => x = NewRun
                           /\ to # "idle" => /\ x.segs = run[r].segs
                                             /\ x.latest = run[r].latest
                                             /\ x.batch = run[r].batch
    BY <1>2, <1>3, GotoFacts
<1>6. /\ run[r].latest <= Len(log) /\ run[r].segs \subseteq rows
      /\ \A seg \in run[r].segs : Whole(seg)
      /\ run[r].batch = 0 => Covers(rows \cup run[r].segs, run[r].latest)
      /\ Len(log) \in Nat /\ RowsMatchPoints
  <2>1. Len(log) \in Nat
    BY RAGTypes
  <2>2. Promise(run[r]) /\ RowsMatchPoints
    BY DEF IndexInv
  <2> QED
    BY <1>4, <2>1, <2>2 DEF Promise
<1>7. Promise(x)
  <2>1. CASE to = "idle"
    BY <1>5, <1>6, <2>1, NewRunFacts
  <2>2. CASE to = "advance"
    <3>1. Covers(rows, x.latest)
      BY <1>1, <1>5, <1>6, <2>2 DEF Covers
    <3> QED
      BY <1>5, <1>6, <2>2, <3>1 DEF Promise
  <2> QED
    BY <1>1, <2>1, <2>2
<1>8. Promise(x)'
    BY <1>2, <1>7, PromiseStays
<1>9. RowsMatchPoints'
  <2>1. run'[r] = x /\ \A q \in Runs \ {r} : run'[q] = run[q]
    BY <1>5, RAGTypes
  <2>2. x.phase # "points"
    BY <1>1, <1>5
  <2> QED
    BY <1>2, <1>4, <1>6, <2>1, <2>2 DEF RowsMatchPoints
<1>10. points' \subseteq Segments /\ unindexed' \subseteq Segments
  <2>1. run[r].segs \subseteq Segments /\ points \subseteq Segments /\ unindexed \subseteq Segments
    BY RAGTypes DEF RunType
  <2> QED
    BY <1>2, <2>1
<1> QED
    BY <1>2, <1>5, <1>8, <1>9, <1>10, RunStep, RAGTypes

LEMMA AdvanceCursorStep ==
    ASSUME TypeOK, IndexInv, NEW r \in Runs, AdvanceCursor(r)
    PROVE  TypeOK' /\ IndexInv'
<1>1. /\ UNCHANGED <<log, rows, points, unindexed, batches, faults>>
      /\ cursor' = run[r].latest /\ Goto(r, "advance", "idle")
    BY DEF AdvanceCursor
<1>2. "idle" \in Phases
    BY DEF Phases
<1>3. run[r].phase = "advance" /\ run' = [run EXCEPT ![r] = NewRun]
    BY <1>1, <1>2, GotoFacts
<1>4. Covers(rows, run[r].latest) /\ Len(log) \in Nat
  <2>1. Len(log) \in Nat
    BY RAGTypes
  <2>2. Promise(run[r])
    BY DEF IndexInv
  <2> QED
    BY <1>3, <2>1, <2>2 DEF Promise
<1> QED
    BY <1>1, <1>3, <1>4, NewRunFacts, QuietStep, RAGTypes

LEMMA RunFailsStep ==
    ASSUME TypeOK, IndexInv, NEW r \in Runs, RunFails(r)
    PROVE  TypeOK' /\ IndexInv'
<1>1. /\ UNCHANGED <<log, cursor, rows, batches>> /\ faults' \in 0 .. MaxFaults
      /\ run' = [run EXCEPT ![r] = NewRun]
      /\ \/ run[r].phase # "points" /\ UNCHANGED <<points, unindexed>>
         \/ /\ run[r].phase = "points"
            /\ \/ unindexed' = unindexed \cup (run[r].segs \ points) /\ UNCHANGED points
               \/ /\ points' = points \cup run[r].segs
                  /\ unindexed' = unindexed \ run[r].segs
  <2>1. faults' \in 0 .. MaxFaults
    BY RAGTypes DEF RunFails, Fault
  <2> QED
    BY <2>1 DEF RunFails
<1>2. /\ Len(log) \in Nat /\ run[r].segs \subseteq Segments /\ points \subseteq Segments
      /\ unindexed \subseteq Segments /\ batches \in 0 .. MaxBatches /\ RowsMatchPoints
    BY RAGTypes DEF RunType, IndexInv
<1>3. CASE run[r].phase # "points" /\ UNCHANGED <<points, unindexed>>
    BY <1>1, <1>2, <1>3, NewRunFacts, QuietStep
<1>4. CASE /\ run[r].phase = "points"
           /\ \/ unindexed' = unindexed \cup (run[r].segs \ points) /\ UNCHANGED points
              \/ points' = points \cup run[r].segs /\ unindexed' = unindexed \ run[r].segs
  <2>1. Promise(NewRun)'
    BY <1>1, <1>2, NewRunFacts, PromiseStays
  <2>2. run[r].segs \subseteq rows
    BY <1>4 DEF IndexInv, Promise
  <2>3. run'[r].phase = "idle" /\ \A q \in Runs \ {r} : run'[q] = run[q]
    BY <1>1, NewRunFacts, RAGTypes
  <2>4. RowsMatchPoints'
    BY <1>1, <1>2, <1>4, <2>2, <2>3 DEF RowsMatchPoints
  <2>5. points' \subseteq Segments /\ unindexed' \subseteq Segments
    BY <1>2, <1>4
  <2> QED
    BY <1>1, <1>2, <2>1, <2>4, <2>5, NewRunFacts, RunStep
<1> QED
    BY <1>1, <1>3, <1>4

LEMMA IndexStep == TypeOK /\ IndexInv /\ [Next]_vars => TypeOK' /\ IndexInv'
<1> SUFFICES ASSUME TypeOK, IndexInv, [Next]_vars PROVE TypeOK' /\ IndexInv'
    OBVIOUS
<1>1. CASE UNCHANGED vars
  <2>1. UNCHANGED <<log, cursor, rows, points, run, batches, unindexed, faults>>
    BY <1>1 DEF vars, indexVars
  <2> QED
    BY <2>1 DEF TypeOK, IndexInv, Promise, Covers, Whole, OfKinds, RowsMatchPoints
<1>2. ASSUME NEW r \in Runs, Indexing(r) PROVE TypeOK' /\ IndexInv'
    BY <1>2, ReadingSteps, ReadMessagesStep, ReadRangeStep, FilterStep, StoreStep,
       WritePointsStep, AdvanceCursorStep, RunFailsStep DEF Indexing
<1> QED
    BY <1>1, <1>2, PostStep DEF Next

-----------------------------------------------------------------------------
(* The theorems.                                                            *)

\* Its types and IndexInv are inductive: the steps of the runs in any order, and the
\* messages that arrive among them, keep what every run has promised.
THEOREM IndexInductive == Spec => [](TypeOK /\ IndexInv)
<1>1. Init => TypeOK /\ IndexInv
  <2> SUFFICES ASSUME Init PROVE TypeOK /\ IndexInv
    OBVIOUS
  <2>1. /\ log = <<>> /\ cursor = 0 /\ rows = {} /\ points = {} /\ unindexed = {}
        /\ run = [r \in Runs |-> NewRun] /\ batches = 0 /\ faults = 0
    BY DEF Init
  <2>2. log \in Seq([kind : Kinds, at : Nat]) /\ Len(log) = 0
    BY <2>1, EmptySeq
  <2>3. \A r \in Runs : run[r] = NewRun /\ Promise(run[r])
    BY <2>1, <2>2, NewRunFacts
  <2>4. TypeOK
    BY <2>1, <2>2, NewRunFacts, RAGAssumption DEF TypeOK, RunType
  <2>5. Covers(rows, cursor)
    BY <2>1 DEF Covers, OfKinds
  <2> QED
    BY <2>1, <2>2, <2>3, <2>4, <2>5 DEF IndexInv, RowsMatchPoints
<1> QED
    BY <1>1, IndexStep, PTL DEF Spec

\* Every variable of the index keeps its type.
THEOREM IndexTypeCorrect == Spec => []TypeOK
BY IndexInductive, PTL

\* A point is never without its row, and a row without a point is about to get
\* it or belongs to a run that failed, whatever runs race or fail.
THEOREM RowsMatched == Spec => []RowsMatchPoints
<1>1. TypeOK /\ IndexInv => RowsMatchPoints
    BY DEF IndexInv
<1> QED
    BY <1>1, IndexInductive, PTL

\* The cursor never passes a message that is to be found, for any number of
\* messages and runs and however the segments are cut and overlap.
THEOREM CursorCovered == Spec => []CursorIsCovered
<1>1. TypeOK /\ IndexInv => CursorIsCovered
    BY DEF IndexInv, Covers, CursorIsCovered
<1> QED
    BY <1>1, IndexInductive, PTL

-----------------------------------------------------------------------------
(* Files: the invariant.                                                    *)

Slots == 0 .. RetryCount
Tries == 1 .. RetryCount

Gone(id) == id \notin objects /\ id \notin records
Both(id) == id \in objects /\ id \in records

\* Object and row agree, or what failed is known, or a handler is to remove it.
Settled(id) ==
    \/ id \in objects <=> id \in records
    \/ id \in excused
    \/ \E v \in Handlers : id \in up[v].keys

\* What holds of a file that no handler works on.
Rest(f) ==
    /\ \A n \in Slots : Settled(<<f, n>>)
    /\ kind[f] = "avatar" /\ <<f, 0>> \in records => f = avatar \/ <<f, 0>> \in excused

Owns(u, f) == up[u].phase # "idle" /\ up[u].file = f

\* A name not drawn yet, or of a multipart upload that is not completed.
Unborn(f) == kind[f] = "none" \/ multi[f] \in {"open", "parts"}

FreshOf(f) ==
    /\ kind[f] = "none" => multi[f] = "none"
    /\ Unborn(f) =>
         /\ \A u \in Handlers : ~Owns(u, f)
         /\ f # avatar /\ thumb[f] = 0
         /\ \A n \in Slots : Gone(<<f, n>>) /\ \A v \in Handlers : <<f, n>> \notin up[v].keys

BeforeThumb == {"check", "row"}
AtSwap == {"lock", "swap"}
AtUndo == {"undoThumb", "undoThumbRow", "undo", "undoRow"}

\* What is known of file f at try t in phase p.
Untouched(f) == f # avatar /\ \A v \in Handlers, n \in Slots : <<f, n>> \notin up[v].keys

Uploaded(f) ==
    /\ <<f, 0>> \in objects /\ <<f, 0>> \notin records
    /\ thumb[f] = 0 /\ \A n \in Tries : Gone(<<f, n>>)

Tried(f, t) ==
    /\ Both(<<f, 0>>) /\ thumb[f] = 0
    /\ \A n \in Tries : (n < t => <<f, n>> \in excused) /\ (n > t => Gone(<<f, n>>))

Complete(f) ==
    /\ Both(<<f, 0>>) /\ (thumb[f] # 0 => Both(<<f, thumb[f]>>))
    /\ \A n \in Tries : Settled(<<f, n>>)

Refused(f) == f # avatar \/ f \in lostSwaps
Removed(id) == id \notin objects \/ id \in excused

Hand(f, t, p) ==
    /\ p \in BeforeThumb => Untouched(f) /\ Uploaded(f) /\ t = 1
    /\ p = "thumb" => Untouched(f) /\ Tried(f, t) /\ Gone(<<f, t>>)
    /\ p = "thumbRow" =>
          Untouched(f) /\ Tried(f, t) /\ <<f, t>> \in objects /\ <<f, t>> \notin records
    /\ p = "link" => Untouched(f) /\ Tried(f, t) /\ Both(<<f, t>>)
    /\ p \in AtSwap => Untouched(f) /\ Complete(f)
    /\ p = "sweep" => Rest(f)
    /\ p \in AtUndo =>
          Refused(f) /\ \A n \in Tries : (p = "undoThumbRow" /\ n = thumb[f]) \/ Settled(<<f, n>>)
    /\ p = "undoThumbRow" => Removed(<<f, thumb[f]>>)
    /\ p = "undoRow" => Removed(<<f, 0>>)

KeysInv ==
    \A u \in Handlers, f \in FileIds, n \in Slots :
        <<f, n>> \in up[u].keys =>
            up[u].phase = "sweep" /\ <<f, n>> \notin records /\ f # avatar
OwnerInv == \A u, v \in Handlers, f \in FileIds : Owns(u, f) /\ Owns(v, f) => u = v
FreshInv == \A f \in FileIds : FreshOf(f)
RestInv == \A f \in FileIds : (\A u \in Handlers : ~Owns(u, f)) => Rest(f)
HandInv ==
    \A u \in Handlers : up[u].phase # "idle" => Hand(up[u].file, up[u].try, up[u].phase)
AvatarInv ==
    avatar # 0 =>
        \/ avatar \in lostSwaps
        \/ Both(<<avatar, 0>>) /\ (thumb[avatar] # 0 => Both(<<avatar, thumb[avatar]>>))

ObjectsInv == KeysInv /\ OwnerInv /\ FreshInv /\ RestInv /\ HandInv /\ AvatarInv

\* The user's row is locked by one handler, which knows the avatar.
SwapInv ==
    \A u \in Handlers : up[u].phase = "swap" =>
        up[u].saw = avatar /\ \A v \in Handlers : up[v].phase = "swap" => u = v

-----------------------------------------------------------------------------
(* Where a handler goes.                                                    *)

LEMMA IdleFacts ==
    /\ Idle.phase = "idle" /\ Idle.file = 1 /\ Idle.try = 1 /\ Idle.saw = 0 /\ Idle.keys = {}
    /\ 1 \in FileIds /\ 1 \in Tries
BY FilesAssumption DEF Idle, FileIds, Tries

LEMMA UpFacts ==
    ASSUME FilesTypeOK, NEW u \in Handlers
    PROVE  /\ up[u].phase \in UploadPhases /\ up[u].file \in FileIds /\ up[u].try \in Tries
           /\ up[u].saw \in 0 .. MaxFiles /\ up[u].keys \subseteq Ids
BY DEF FilesTypeOK, Tries

LEMMA ProceedFacts ==
    ASSUME FilesTypeOK, NEW u \in Handlers, NEW from, NEW to \in UploadPhases,
           Proceed(u, from, to)
    PROVE  /\ up[u].phase = from /\ \A v \in Handlers \ {u} : up'[v] = up[v]
           /\ to = "idle" => up'[u] = Idle
           /\ to # "idle" => /\ up'[u].file = up[u].file /\ up'[u].try = up[u].try
                             /\ up'[u].saw = up[u].saw /\ up'[u].keys = up[u].keys
           /\ up'[u].phase = to
           /\ up' \in [Handlers -> [phase : UploadPhases, file : FileIds, try : 1..RetryCount,
                                    saw : 0..MaxFiles, keys : SUBSET Ids]]
<1> DEFINE T == [phase : UploadPhases, file : FileIds, try : 1..RetryCount,
                 saw : 0..MaxFiles, keys : SUBSET Ids]
<1>1. up \in [Handlers -> T] /\ up[u] \in T
    BY DEF FilesTypeOK
<1>2. Idle \in T
    BY FilesAssumption DEF Idle, UploadPhases, FileIds
<1>3. /\ up[u].phase = from
      /\ up' = [up EXCEPT ![u] = IF to = "idle" THEN Idle ELSE [up[u] EXCEPT !.phase = to]]
    BY DEF Proceed
<1>4. CASE to = "idle"
  <2>1. up' = [up EXCEPT ![u] = Idle]
    BY <1>3, <1>4
  <2> HIDE DEF T
  <2> QED
    BY <1>1, <1>2, <1>3, <1>4, <2>1, IdleFacts DEF T
<1>5. CASE to # "idle"
  <2> DEFINE w == [up[u] EXCEPT !.phase = to]
  <2>1. /\ w \in T /\ w.phase = to /\ w.file = up[u].file /\ w.try = up[u].try
        /\ w.saw = up[u].saw /\ w.keys = up[u].keys
    BY <1>1
  <2>2. up' = [up EXCEPT ![u] = w]
    BY <1>3, <1>5
  <2> HIDE DEF T, w
  <2> QED
    BY <1>1, <1>3, <1>5, <2>1, <2>2 DEF T
<1> QED
    BY <1>4, <1>5

LEMMA NextTryFacts ==
    ASSUME FilesTypeOK, NEW u \in Handlers, NextTry(u)
    PROVE  /\ \A v \in Handlers \ {u} : up'[v] = up[v]
           /\ \/ /\ up[u].try < RetryCount /\ up'[u].phase = "thumb"
                 /\ up'[u].try = up[u].try + 1
                 /\ up'[u].file = up[u].file /\ up'[u].keys = up[u].keys
              \/ /\ up[u].try = RetryCount /\ up'[u].phase = "lock"
                 /\ up'[u].file = up[u].file /\ up'[u].keys = up[u].keys
              \/ /\ up[u].try = RetryCount /\ up'[u] = Idle
                 /\ kind[up[u].file] # "avatar"
           /\ up' \in [Handlers -> [phase : UploadPhases, file : FileIds, try : 1..RetryCount,
                                    saw : 0..MaxFiles, keys : SUBSET Ids]]
<1> DEFINE T == [phase : UploadPhases, file : FileIds, try : 1..RetryCount,
                 saw : 0..MaxFiles, keys : SUBSET Ids]
<1>1. /\ up \in [Handlers -> T] /\ up[u] \in T
      /\ up[u].try \in 1 .. RetryCount /\ RetryCount \in Nat \ {0}
    BY FilesAssumption DEF FilesTypeOK
<1>2. Idle \in T
    BY FilesAssumption DEF Idle, UploadPhases, FileIds
<1>3. CASE up[u].try + 1 <= RetryCount
  <2> DEFINE w == [up[u] EXCEPT !.phase = "thumb", !.try = up[u].try + 1]
  <2>1. up' = [up EXCEPT ![u] = w]
    BY <1>3 DEF NextTry
  <2>2. up[u].try + 1 \in 1 .. RetryCount /\ up[u].try < RetryCount
    BY <1>1, <1>3
  <2>3. /\ w \in T /\ w.phase = "thumb" /\ w.try = up[u].try + 1
        /\ w.file = up[u].file /\ w.keys = up[u].keys
    BY <1>1, <2>2 DEF UploadPhases
  <2> HIDE DEF T, w
  <2> QED
    BY <1>1, <2>1, <2>2, <2>3 DEF T
<1>4. CASE ~(up[u].try + 1 <= RetryCount) /\ kind[up[u].file] = "avatar"
  <2> DEFINE w == [up[u] EXCEPT !.phase = "lock", !.try = 1]
  <2>1. up' = [up EXCEPT ![u] = w]
    BY <1>4 DEF NextTry, After
  <2>2. up[u].try = RetryCount /\ 1 \in 1 .. RetryCount
    BY <1>1, <1>4
  <2>3. w \in T /\ w.phase = "lock" /\ w.file = up[u].file /\ w.keys = up[u].keys
    BY <1>1, <2>2 DEF UploadPhases
  <2> HIDE DEF T, w
  <2> QED
    BY <1>1, <2>1, <2>2, <2>3 DEF T
<1>5. CASE ~(up[u].try + 1 <= RetryCount) /\ kind[up[u].file] # "avatar"
  <2>1. up' = [up EXCEPT ![u] = Idle]
    BY <1>5 DEF NextTry, After
  <2>2. up[u].try = RetryCount
    BY <1>1, <1>5
  <2> HIDE DEF T
  <2> QED
    BY <1>1, <1>2, <1>5, <2>1, <2>2 DEF T
<1> QED
    BY <1>3, <1>4, <1>5

LEMMA LockFacts ==
    ASSUME FilesTypeOK, NEW u \in Handlers, Lock(u)
    PROVE  /\ up[u].phase = "lock" /\ \A v \in Handlers \ {u} : up'[v] = up[v]
           /\ up'[u].phase = "swap" /\ up'[u].saw = avatar
           /\ up'[u].file = up[u].file /\ up'[u].keys = up[u].keys
           /\ up' \in [Handlers -> [phase : UploadPhases, file : FileIds, try : 1..RetryCount,
                                    saw : 0..MaxFiles, keys : SUBSET Ids]]
<1> DEFINE T == [phase : UploadPhases, file : FileIds, try : 1..RetryCount,
                 saw : 0..MaxFiles, keys : SUBSET Ids]
           w == [up[u] EXCEPT !.phase = "swap", !.saw = avatar]
<1>1. up \in [Handlers -> T] /\ up[u] \in T /\ avatar \in 0 .. MaxFiles
    BY DEF FilesTypeOK
<1>2. up[u].phase = "lock" /\ up' = [up EXCEPT ![u].phase = "swap", ![u].saw = avatar]
    BY DEF Lock
<1>3. /\ w \in T /\ w.phase = "swap" /\ w.saw = avatar
      /\ w.file = up[u].file /\ w.keys = up[u].keys
    BY <1>1 DEF UploadPhases
<1>4. up' = [up EXCEPT ![u] = w]
    BY <1>1, <1>2
<1> HIDE DEF T, w
<1> QED
    BY <1>1, <1>2, <1>3, <1>4 DEF T

LEMMA SwapFacts ==
    ASSUME FilesTypeOK, NEW u \in Handlers, NEW ids \in SUBSET Ids,
           up' = [up EXCEPT ![u].phase = "sweep", ![u].keys = ids]
    PROVE  /\ \A v \in Handlers \ {u} : up'[v] = up[v]
           /\ up'[u].phase = "sweep" /\ up'[u].keys = ids /\ up'[u].file = up[u].file
           /\ up' \in [Handlers -> [phase : UploadPhases, file : FileIds, try : 1..RetryCount,
                                    saw : 0..MaxFiles, keys : SUBSET Ids]]
<1> DEFINE T == [phase : UploadPhases, file : FileIds, try : 1..RetryCount,
                 saw : 0..MaxFiles, keys : SUBSET Ids]
           w == [up[u] EXCEPT !.phase = "sweep", !.keys = ids]
<1>1. up \in [Handlers -> T] /\ up[u] \in T
    BY DEF FilesTypeOK
<1>2. w \in T /\ w.phase = "sweep" /\ w.keys = ids /\ w.file = up[u].file
    BY <1>1 DEF UploadPhases
<1>3. up' = [up EXCEPT ![u] = w]
    BY <1>1
<1> HIDE DEF T, w
<1> QED
    BY <1>1, <1>2, <1>3 DEF T

-----------------------------------------------------------------------------
(* The types.                                                               *)

LEMMA FilesTypesInitially == FilesInit => FilesTypeOK
<1> SUFFICES ASSUME FilesInit PROVE FilesTypeOK
    OBVIOUS
<1>1. Idle \in [phase : UploadPhases, file : FileIds, try : 1..RetryCount,
                saw : 0..MaxFiles, keys : SUBSET Ids]
    BY FilesAssumption DEF Idle, UploadPhases, FileIds
<1>2. up \in [Handlers -> [phase : UploadPhases, file : FileIds, try : 1..RetryCount,
                           saw : 0..MaxFiles, keys : SUBSET Ids]]
    BY <1>1 DEF FilesInit
<1> QED
    BY <1>2, FilesAssumption DEF FilesInit, FilesTypeOK

\* The attachments a handler names.
LEMMA NamesAreIds ==
    ASSUME FilesTypeOK, NEW u \in Handlers
    PROVE  /\ Main(u) \in Ids /\ Thumb(u) \in Ids
           /\ Replaced(u) \subseteq records
           /\ \A id \in Replaced(u) : id = <<up[u].saw, 0>> \/ id = <<up[u].saw, thumb[up[u].saw]>>
           /\ <<up[u].saw, 0>> \in records => <<up[u].saw, 0>> \in Replaced(u)
           /\ InHand(u) \subseteq Ids
<1>1. /\ up[u].phase \in UploadPhases /\ up[u].file \in FileIds /\ up[u].try \in 1 .. RetryCount
      /\ up[u].saw \in 0 .. MaxFiles /\ up[u].keys \subseteq Ids
    BY UpFacts DEF Tries
<1>2. Main(u) \in Ids /\ Thumb(u) \in Ids
    BY <1>1, FilesAssumption DEF Main, Thumb, Ids
<1>3. InHand(u) \subseteq Ids
    BY <1>1 DEF InHand, Ids
<1> QED
    BY <1>2, <1>3 DEF Replaced

LEMMA FilesTypeStep ==
    ASSUME FilesTypeOK, [FilesNext]_filesVars
    PROVE  FilesTypeOK'
<1> DEFINE U == [Handlers -> [phase : UploadPhases, file : FileIds, try : 1..RetryCount,
                              saw : 0..MaxFiles, keys : SUBSET Ids]]
<1>1. /\ FilesFault => filesFaults' \in 0 .. MaxFilesFaults
      /\ UploadPhases = {"idle", "check", "row", "thumb", "thumbRow", "link", "lock", "swap",
                         "sweep", "undoThumb", "undoThumbRow", "undo", "undoRow"}
      /\ \A f \in FileIds : <<f, 0>> \in Ids
      /\ \A f \in FileIds : f \in 0 .. MaxFiles
    BY FilesAssumption DEF FilesTypeOK, FilesFault, UploadPhases, Ids, FileIds
<1>2. /\ objects \subseteq Ids /\ records \subseteq Ids /\ up \in U
      /\ kind \in [FileIds -> FileKinds \cup {"none"}] /\ thumb \in [FileIds -> 0..RetryCount]
      /\ multi \in [FileIds -> {"none", "open", "parts", "closed"}]
      /\ avatar \in 0..MaxFiles /\ excused \subseteq Ids /\ lostSwaps \subseteq FileIds
      /\ filesFaults \in 0..MaxFilesFaults
    BY DEF FilesTypeOK
<1> DEFINE Rest1 == /\ kind' \in [FileIds -> FileKinds \cup {"none"}]
                    /\ thumb' \in [FileIds -> 0..RetryCount]
                    /\ multi' \in [FileIds -> {"none", "open", "parts", "closed"}]
                    /\ avatar' \in 0..MaxFiles /\ lostSwaps' \subseteq FileIds
           Rest2 == /\ objects' \subseteq Ids /\ records' \subseteq Ids /\ excused' \subseteq Ids
                    /\ filesFaults' \in 0..MaxFilesFaults
<1>3. Rest1 /\ Rest2 /\ up' \in U => FilesTypeOK'
    BY DEF FilesTypeOK
<1> HIDE DEF U
<1>4. ASSUME NEW u \in Handlers, NEW f \in FileIds,
             \/ Upload(u, f) \/ UploadAvatar(u, f) \/ SaveAIGCImageFromURL(u, f)
             \/ CompleteMultipartUpload(u, f)
      PROVE  FilesTypeOK'
  <2> DEFINE w == [Idle EXCEPT !.phase = "check", !.file = f]
  <2>1. w \in [phase : UploadPhases, file : FileIds, try : 1..RetryCount,
               saw : 0..MaxFiles, keys : SUBSET Ids]
    <3>1. Idle \in [phase : UploadPhases, file : FileIds, try : 1..RetryCount,
                    saw : 0..MaxFiles, keys : SUBSET Ids]
      BY FilesAssumption DEF Idle, UploadPhases, FileIds
    <3> QED
      BY <1>1, <3>1
  <2>2. up' = up \/ up' = [up EXCEPT ![u] = w]
    BY <1>4 DEF Upload, UploadAvatar, SaveAIGCImageFromURL, PutObject, CompleteMultipartUpload
  <2> HIDE DEF w
  <2>3. up' \in U
    BY <1>2, <2>1, <2>2 DEF U
  <2>4. \/ \E k \in FileKinds : PutObject(u, f, k)
        \/ CompleteMultipartUpload(u, f)
    BY <1>4 DEF Upload, UploadAvatar, SaveAIGCImageFromURL, FileKinds
  <2>5. Rest1
    BY <1>2, <2>4 DEF PutObject, Draw, CompleteMultipartUpload
  <2>6. /\ objects' \in {objects, objects \cup {<<f, 0>>}} /\ UNCHANGED records
        /\ excused' \in {excused, excused \cup {<<f, 0>>}}
        /\ FilesFault \/ UNCHANGED filesFaults
    BY <2>4 DEF PutObject, CompleteMultipartUpload
  <2>7. Rest2
    BY <1>1, <1>2, <2>6
  <2> QED
    BY <1>3, <2>3, <2>5, <2>7
<1>5. ASSUME NEW u \in Handlers, Check(u) PROVE FilesTypeOK'
  <2>1. up' \in U
    BY <1>1, <1>5, ProceedFacts DEF Check, U
  <2>2. Rest1
    BY <1>2, <1>5 DEF Check
  <2>3. Rest2
    BY <1>1, <1>2, <1>5, NamesAreIds DEF Check
  <2> QED
    BY <1>3, <2>1, <2>2, <2>3
<1>6. ASSUME NEW u \in Handlers, InsertRow(u) PROVE FilesTypeOK'
  <2>1. up' \in U
    BY <1>1, <1>6, ProceedFacts DEF InsertRow, U
  <2>2. Rest1
    BY <1>2, <1>6 DEF InsertRow
  <2>3. Rest2
    BY <1>1, <1>2, <1>6, NamesAreIds DEF InsertRow
  <2> QED
    BY <1>3, <2>1, <2>2, <2>3
<1>7. ASSUME NEW u \in Handlers, NoThumb(u) PROVE FilesTypeOK'
  <2>1. up' \in U
    BY <1>1, <1>7, ProceedFacts DEF NoThumb, After, U
  <2> QED
    BY <1>2, <1>3, <1>7, <2>1 DEF NoThumb, stored, histories
<1>8. ASSUME NEW u \in Handlers, PutThumb(u) PROVE FilesTypeOK'
  <2>1. up' \in U
    BY <1>1, <1>8, ProceedFacts, NextTryFacts DEF PutThumb, U
  <2>2. Rest1
    BY <1>2, <1>8 DEF PutThumb
  <2>3. Rest2
    BY <1>1, <1>2, <1>8, NamesAreIds DEF PutThumb
  <2> QED
    BY <1>3, <2>1, <2>2, <2>3
<1>9. ASSUME NEW u \in Handlers, InsertThumb(u) PROVE FilesTypeOK'
  <2>1. up' \in U
    BY <1>1, <1>9, ProceedFacts, NextTryFacts DEF InsertThumb, U
  <2>2. Rest1
    BY <1>2, <1>9 DEF InsertThumb
  <2>3. Rest2
    BY <1>1, <1>2, <1>9, NamesAreIds DEF InsertThumb
  <2> QED
    BY <1>3, <2>1, <2>2, <2>3
<1>10. ASSUME NEW u \in Handlers, Link(u) PROVE FilesTypeOK'
  <2>1. up' \in U
    BY <1>1, <1>10, ProceedFacts DEF Link, After, U
  <2>2. up[u].try \in 0 .. RetryCount /\ up[u].file \in FileIds
    BY UpFacts, FilesAssumption DEF Tries
  <2>3. thumb' \in [FileIds -> 0 .. RetryCount]
    BY <1>2, <1>10, <2>2 DEF Link
  <2>4. Rest1
    BY <1>2, <1>10, <2>3 DEF Link
  <2>5. Rest2
    BY <1>1, <1>2, <1>10, NamesAreIds DEF Link
  <2> QED
    BY <1>3, <2>1, <2>4, <2>5
<1>11. ASSUME NEW u \in Handlers, Lock(u) PROVE FilesTypeOK'
  <2>2. up' \in U
    BY <1>11, LockFacts DEF U
  <2> QED
    BY <1>2, <1>3, <1>11, <2>2 DEF Lock, stored, histories
<1>12. ASSUME NEW u \in Handlers, Swap(u) PROVE FilesTypeOK'
  <2>1. Replaced(u) \subseteq Ids /\ up[u].file \in FileIds
    BY <1>2, NamesAreIds, UpFacts
  <2>2. \/ up' = [up EXCEPT ![u].phase = "sweep", ![u].keys = Replaced(u)]
        \/ Proceed(u, "swap", "undoThumb")
    BY <1>12 DEF Swap
  <2>3. up' \in U
    <3>1. CASE up' = [up EXCEPT ![u].phase = "sweep", ![u].keys = Replaced(u)]
      BY <2>1, <3>1, SwapFacts DEF U
    <3>2. CASE Proceed(u, "swap", "undoThumb")
      BY <1>1, <3>2, ProceedFacts DEF U
    <3> QED
      BY <2>2, <3>1, <3>2
  <2>4. /\ UNCHANGED <<objects, kind, thumb, multi>>
        /\ avatar' \in {avatar, up[u].file} /\ records' \subseteq records
        /\ excused' \in {excused, excused \cup Replaced(u)}
        /\ lostSwaps' \in {lostSwaps, lostSwaps \cup {up[u].file}}
        /\ FilesFault \/ UNCHANGED filesFaults
    BY <1>12 DEF Swap, histories
  <2>5. Rest1
    BY <1>1, <1>2, <2>1, <2>4
  <2>6. Rest2
    BY <1>1, <1>2, <2>1, <2>4
  <2> QED
    BY <1>3, <2>3, <2>5, <2>6
<1>13. ASSUME NEW u \in Handlers, Sweep(u) PROVE FilesTypeOK'
  <2>1. up[u].keys \subseteq Ids
    BY UpFacts
  <2>2. CASE /\ Proceed(u, "sweep", "idle") /\ UNCHANGED <<objects, excused, filesFaults>>
             /\ UNCHANGED <<records, kind, thumb, multi, avatar, lostSwaps>>
    <3>1. up' \in U
      BY <1>1, <2>2, ProceedFacts DEF U
    <3> QED
      BY <1>2, <1>3, <2>2, <3>1
  <2>3. ASSUME NEW id \in up[u].keys, up' = [up EXCEPT ![u].keys = @ \ {id}],
               \/ objects' = objects \ {id} /\ UNCHANGED <<excused, filesFaults>>
               \/ FilesFault /\ excused' = excused \cup {id} /\ UNCHANGED objects,
               UNCHANGED <<records, kind, thumb, multi, avatar, lostSwaps>>
        PROVE  FilesTypeOK'
    <3>1. up' \in U
      BY <1>2, <2>1, <2>3 DEF U
    <3>2. id \in Ids
      BY <2>1
    <3>3. Rest2
      BY <1>1, <1>2, <2>3, <3>2
    <3> QED
      BY <1>2, <1>3, <2>3, <3>1, <3>3
  <2> QED
    BY <1>13, <2>2, <2>3 DEF Sweep
<1>14. ASSUME NEW u \in Handlers, Undo(u) PROVE FilesTypeOK'
  <2> DEFINE f == up[u].file
             id == IF up[u].phase \in {"undoThumb", "undoThumbRow"} THEN <<f, thumb[f]>>
                                                                    ELSE <<f, 0>>
  <2>1. id \in Ids
    BY <1>2, UpFacts, FilesAssumption DEF Ids
  <2>2. /\ objects' \subseteq objects /\ records' \subseteq records
        /\ excused' = excused \/ excused' = excused \cup {id}
        /\ FilesFault \/ UNCHANGED filesFaults
        /\ UNCHANGED <<kind, thumb, multi, avatar, lostSwaps>>
    BY <1>14 DEF Undo
  <2>3. \E from, to \in UploadPhases : Proceed(u, from, to)
    BY <1>1, <1>14 DEF Undo
  <2>4. up' \in U
    BY <2>3, ProceedFacts DEF U
  <2> HIDE DEF id
  <2>5. Rest2
    BY <1>1, <1>2, <2>1, <2>2
  <2> QED
    BY <1>2, <1>3, <2>2, <2>4, <2>5
<1>15. ASSUME NEW u \in Handlers, UndoFails(u) PROVE FilesTypeOK'
  <2>1. up' \in U
    BY <1>1, <1>15, ProceedFacts DEF UndoFails, U
  <2>2. excused' \subseteq Ids
    BY <1>2, <1>15, UpFacts DEF UndoFails, Ids
  <2> QED
    BY <1>1, <1>2, <1>3, <1>15, <2>1, <2>2 DEF UndoFails, stored
<1>16. ASSUME NEW f \in FileIds,
              StartMultipartUpload(f) \/ UploadPart(f) \/ AbortMultipartUpload(f)
       PROVE  FilesTypeOK'
  <2>1. UNCHANGED <<stored, avatar, up, histories, filesFaults>>
    BY <1>16 DEF StartMultipartUpload, UploadPart, AbortMultipartUpload
  <2>2. /\ kind' = kind \/ kind' = [kind EXCEPT ![f] = "file"]
        /\ \E x \in {"open", "parts", "closed"} : multi' = [multi EXCEPT ![f] = x]
    BY <1>16 DEF StartMultipartUpload, UploadPart, AbortMultipartUpload, Draw
  <2>3. /\ kind' \in [FileIds -> FileKinds \cup {"none"}]
        /\ multi' \in [FileIds -> {"none", "open", "parts", "closed"}]
    BY <1>2, <2>2 DEF FileKinds
  <2> QED
    BY <1>2, <1>3, <2>1, <2>3 DEF stored, histories
<1>17. CASE Crash
  <2>1. up' = [u \in Handlers |-> Idle]
    BY <1>17 DEF Crash
  <2>2. up' \in U
    BY <2>1, FilesAssumption DEF U, Idle, UploadPhases, FileIds
  <2>3. AllInHand \subseteq Ids
    BY NamesAreIds DEF AllInHand
  <2> QED
    BY <1>1, <1>2, <1>3, <1>17, <2>2, <2>3 DEF Crash, stored
<1>18. CASE UNCHANGED filesVars
    BY <1>2, <1>3, <1>18 DEF filesVars, stored, histories
<1> QED
    BY <1>4, <1>5, <1>6, <1>7, <1>8, <1>9, <1>10, <1>11, <1>12, <1>13, <1>14, <1>15, <1>16,
       <1>17, <1>18 DEF FilesNext, Handler

-----------------------------------------------------------------------------
(* A handler's step leaves the files of the others alone.                   *)

Apart(g) ==
    /\ \A n \in Slots : /\ <<g, n>> \in objects' <=> <<g, n>> \in objects
                        /\ <<g, n>> \in records' <=> <<g, n>> \in records
    /\ thumb'[g] = thumb[g] /\ kind'[g] = kind[g] /\ multi'[g] = multi[g]

LEMMA ApartFile ==
    ASSUME NEW g \in FileIds, Apart(g), excused \subseteq excused',
           \A v \in Handlers : up'[v].keys = up[v].keys
    PROVE  /\ \A n \in Slots : /\ Settled(<<g, n>>) => Settled(<<g, n>>)'
                               /\ Gone(<<g, n>>)' <=> Gone(<<g, n>>)
                               /\ Both(<<g, n>>)' <=> Both(<<g, n>>)
           /\ avatar' = avatar /\ Rest(g) => Rest(g)'
<1>1. \A n \in Slots : /\ Settled(<<g, n>>) => Settled(<<g, n>>)'
                       /\ Gone(<<g, n>>)' <=> Gone(<<g, n>>)
                       /\ Both(<<g, n>>)' <=> Both(<<g, n>>)
    BY DEF Apart, Settled, Gone, Both
<1>2. 0 \in Slots
    BY FilesAssumption DEF Slots
<1>3. ASSUME avatar' = avatar, Rest(g) PROVE Rest(g)'
    BY <1>1, <1>2, <1>3 DEF Rest, Apart
<1> QED
    BY <1>1, <1>3

LEMMA HandStays ==
    ASSUME FilesTypeOK, NEW g \in FileIds, NEW t \in Tries, NEW p, Hand(g, t, p),
           Untouched(g) => Untouched(g)' /\ Apart(g),
           \A n \in Slots : Settled(<<g, n>>) => Settled(<<g, n>>)',
           Rest(g) => Rest(g)', Refused(g) => Refused(g)',
           \A n \in Slots : Removed(<<g, n>>) => Removed(<<g, n>>)',
           thumb'[g] = thumb[g], excused \subseteq excused'
    PROVE  Hand(g, t, p)'
<1>1. thumb[g] \in Slots /\ t \in Slots /\ 0 \in Slots /\ Tries \subseteq Slots
    BY FilesAssumption DEF FilesTypeOK, Slots, Tries
<1>2. Apart(g) => \A n \in Slots : /\ Gone(<<g, n>>) => Gone(<<g, n>>)'
                                   /\ Both(<<g, n>>) => Both(<<g, n>>)'
    BY DEF Apart, Gone, Both
<1>3. Apart(g) => \A n \in Slots : /\ <<g, n>> \in objects' <=> <<g, n>> \in objects
                                   /\ <<g, n>> \in records' <=> <<g, n>> \in records
    BY DEF Apart
<1>5. Apart(g) /\ Uploaded(g) => Uploaded(g)'
    BY <1>1, <1>3 DEF Uploaded, Gone
<1>6. Apart(g) /\ Tried(g, t) => Tried(g, t)'
    BY <1>1, <1>3 DEF Tried, Gone, Both
<1>7. Apart(g) /\ Complete(g) => Complete(g)'
  <2>1. ASSUME Complete(g) PROVE \A n \in Tries : Settled(<<g, n>>)'
    BY <1>1, <1>2, <2>1 DEF Complete
  <2>2. Apart(g) /\ Complete(g) => Both(<<g, 0>>)' /\ (thumb[g] # 0 => Both(<<g, thumb[g]>>))'
    BY <1>1, <1>3 DEF Complete, Both
  <2> QED
    BY <2>1, <2>2 DEF Complete
<1>11. p \in AtUndo => \A n \in Tries : (p = "undoThumbRow" /\ n = thumb'[g]) \/ Settled(<<g, n>>)'
    BY <1>1, <1>2, <1>3, Zenon DEF Hand
<1>12. p = "undoThumbRow" => Removed(<<g, thumb[g]>>)'
    BY <1>1, <1>3 DEF Hand, Removed
<1>13. /\ p \in BeforeThumb => Untouched(g)' /\ Uploaded(g)' /\ t = 1
       /\ p = "thumb" => Untouched(g)' /\ Tried(g, t)' /\ Gone(<<g, t>>)'
       /\ p = "link" => Untouched(g)' /\ Tried(g, t)' /\ Both(<<g, t>>)'
       /\ p \in AtSwap => Untouched(g)' /\ Complete(g)'
       /\ p = "sweep" => Rest(g)'
       /\ p \in AtUndo => Refused(g)'
       /\ p = "undoRow" => Removed(<<g, 0>>)'
    BY <1>1, <1>2, <1>5, <1>6, <1>7, Zenon DEF Hand
<1>14. p = "thumbRow" => /\ Untouched(g)' /\ Tried(g, t)'
                         /\ <<g, t>> \in objects' /\ <<g, t>> \notin records'
    BY <1>1, <1>3, <1>6, Zenon DEF Hand
<1> QED
    BY <1>11, <1>12, <1>13, <1>14, Zenon DEF Hand

LEMMA ApartHand ==
    ASSUME FilesTypeOK, NEW g \in FileIds, NEW t \in Tries, NEW p, Hand(g, t, p), Apart(g),
           excused \subseteq excused', \A v \in Handlers : up'[v].keys = up[v].keys,
           avatar' = avatar, lostSwaps' = lostSwaps
    PROVE  Hand(g, t, p)'
<1>1. /\ \A n \in Slots : Settled(<<g, n>>) => Settled(<<g, n>>)'
      /\ Rest(g) => Rest(g)'
    BY ApartFile
<1>2. Untouched(g) => Untouched(g)'
    BY DEF Untouched
<1>3. Refused(g) => Refused(g)'
    BY DEF Refused
<1>4. \A n \in Slots : Removed(<<g, n>>) => Removed(<<g, n>>)'
    BY DEF Removed, Apart
<1>5. thumb'[g] = thumb[g]
    BY DEF Apart
<1> QED
    BY <1>1, <1>2, <1>3, <1>4, <1>5, HandStays

\* The step of a handler on its own file f, with nothing in its hands to sweep.
OwnFrame(u, f) ==
    /\ \A v \in Handlers \ {u} : up'[v] = up[v] /\ ~Owns(v, f)
    /\ up[u].keys = {} /\ up'[u].keys = {}
    /\ up[u].phase # "idle" => up[u].file = f
    /\ up'[u].phase # "idle" => up'[u].file = f
    /\ \A g \in FileIds \ {f} : Apart(g)
    /\ ~Unborn(f)'
    /\ excused \subseteq excused' /\ avatar' = avatar /\ lostSwaps' = lostSwaps
    /\ \A v \in Handlers, n \in Slots : <<f, n>> \in up[v].keys => <<f, n>> \notin records'
    /\ f = avatar => f \in lostSwaps \/ Apart(f)

LEMMA OwnStep ==
    ASSUME FilesTypeOK, ObjectsInv, NEW u \in Handlers, NEW f \in FileIds, OwnFrame(u, f),
           NEW t, NEW p, p = up'[u].phase, t = up'[u].try,
           p # "idle" => Hand(f, t, p)', p = "idle" => Rest(f)'
    PROVE  ObjectsInv'
<1>1. /\ \A v \in Handlers \ {u} : up'[v] = up[v] /\ ~Owns(v, f)
      /\ up[u].keys = {} /\ up'[u].keys = {}
      /\ up[u].phase # "idle" => up[u].file = f
      /\ up'[u].phase # "idle" => up'[u].file = f
      /\ \A g \in FileIds \ {f} : Apart(g)
      /\ ~Unborn(f)'
      /\ excused \subseteq excused' /\ avatar' = avatar /\ lostSwaps' = lostSwaps
      /\ \A v \in Handlers, n \in Slots : <<f, n>> \in up[v].keys => <<f, n>> \notin records'
      /\ f = avatar => f \in lostSwaps \/ Apart(f)
    BY DEF OwnFrame
<1>2. KeysInv /\ OwnerInv /\ FreshInv /\ RestInv /\ HandInv /\ AvatarInv
    BY DEF ObjectsInv
<1>3. \A v \in Handlers : up'[v].keys = up[v].keys
    BY <1>1
<1>4. \A v \in Handlers \ {u}, g \in FileIds : Owns(v, g)' <=> Owns(v, g)
    BY <1>1 DEF Owns
<1>5. \A g \in FileIds \ {f} : ~Owns(u, g) /\ ~Owns(u, g)'
    BY <1>1 DEF Owns
<1>6. KeysInv'
  <2> SUFFICES ASSUME NEW v \in Handlers, NEW g \in FileIds, NEW n \in Slots,
                      <<g, n>> \in up'[v].keys
               PROVE  up'[v].phase = "sweep" /\ <<g, n>> \notin records' /\ g # avatar'
    BY DEF KeysInv
  <2>1. v # u /\ up[v].phase = "sweep" /\ <<g, n>> \notin records /\ g # avatar
    BY <1>1, <1>2, <1>3 DEF KeysInv
  <2>2. <<g, n>> \notin records'
    BY <1>1, <1>3, <2>1 DEF Apart
  <2> QED
    BY <1>1, <2>1, <2>2
<1>7. OwnerInv'
    BY <1>1, <1>2, <1>4, <1>5 DEF OwnerInv
<1>8. FreshInv'
  <2> SUFFICES ASSUME NEW g \in FileIds PROVE FreshOf(g)'
    BY DEF FreshInv
  <2>1. CASE g = f
    BY <1>1, <2>1 DEF FreshOf, Unborn
  <2>2. CASE g # f
    <3>1. FreshOf(g) /\ Apart(g) /\ (Unborn(g)' <=> Unborn(g))
      BY <1>1, <1>2, <2>2 DEF FreshInv, Apart, Unborn
    <3>2. ASSUME Unborn(g)'
          PROVE  /\ \A v \in Handlers : ~Owns(v, g)'
                 /\ g # avatar' /\ thumb'[g] = 0
                 /\ \A n \in Slots : Gone(<<g, n>>)' /\ \A v \in Handlers : <<g, n>> \notin up'[v].keys
      <4>1. /\ \A v \in Handlers : ~Owns(v, g)
            /\ g # avatar /\ thumb[g] = 0
            /\ \A n \in Slots : Gone(<<g, n>>) /\ \A v \in Handlers : <<g, n>> \notin up[v].keys
        BY <3>1, <3>2 DEF FreshOf
      <4>2. \A n \in Slots : Gone(<<g, n>>)' <=> Gone(<<g, n>>)
        BY <1>1, <1>3, <3>1, ApartFile
      <4> QED
        BY <1>1, <1>3, <1>4, <1>5, <2>2, <3>1, <4>1, <4>2 DEF Apart
    <3> QED
      BY <3>1, <3>2 DEF FreshOf, Apart
  <2> QED
    BY <2>1, <2>2
<1>9. RestInv'
  <2> SUFFICES ASSUME NEW g \in FileIds, \A v \in Handlers : ~Owns(v, g)' PROVE Rest(g)'
    BY DEF RestInv
  <2>1. CASE g = f
    BY <1>1, <2>1 DEF Owns
  <2>2. CASE g # f
    <3>1. Rest(g)
      BY <1>2, <1>4, <1>5, <2>2 DEF RestInv
    <3> QED
      BY <1>1, <1>3, <2>2, <3>1, ApartFile
  <2> QED
    BY <2>1, <2>2
<1>10. HandInv'
  <2>1. ASSUME NEW v \in Handlers, NEW g, NEW tv, NEW q,
               g = up'[v].file, tv = up'[v].try, q = up'[v].phase, q # "idle"
        PROVE  Hand(g, tv, q)'
    <3>1. CASE v = u
      <4>1. g = f /\ tv = t /\ q = p
        BY <1>1, <2>1, <3>1
      <4> QED
        BY <2>1, <4>1, Zenon
    <3>2. CASE v # u
      <4>1. up'[v] = up[v] /\ g = up[v].file /\ tv = up[v].try /\ q = up[v].phase
        BY <1>1, <2>1, <3>2
      <4>2. Hand(g, tv, q)
        BY <1>2, <2>1, <4>1 DEF HandInv
      <4>3. g # f /\ g \in FileIds /\ tv \in Tries
        BY <1>1, <2>1, <3>2, <4>1, UpFacts DEF Owns
      <4>4. Apart(g)
        BY <1>1, <4>3
      <4> QED
        BY <1>1, <1>3, <4>2, <4>3, <4>4, ApartHand
    <3> QED
      BY <3>1, <3>2
  <2>2. \A v \in Handlers : up'[v].phase # "idle" => Hand(up[v].file, up[v].try, up[v].phase)'
    BY <2>1, Zenon
  <2> QED
    BY <2>2, Zenon DEF HandInv
<1>11. AvatarInv'
  <2>1. ASSUME avatar # 0, avatar \notin lostSwaps
        PROVE  /\ <<avatar, 0>> \in objects' /\ <<avatar, 0>> \in records'
               /\ thumb'[avatar] # 0 => /\ <<avatar, thumb'[avatar]>> \in objects'
                                        /\ <<avatar, thumb'[avatar]>> \in records'
    <3>1. avatar \in FileIds /\ thumb[avatar] \in Slots /\ 0 \in Slots
      BY <2>1, FilesAssumption DEF FilesTypeOK, FileIds, Slots
    <3>2. Apart(avatar)
      BY <1>1, <2>1, <3>1
    <3>3. Both(<<avatar, 0>>) /\ (thumb[avatar] # 0 => Both(<<avatar, thumb[avatar]>>))
      BY <1>2, <2>1 DEF AvatarInv
    <3> QED
      BY <3>1, <3>2, <3>3 DEF Apart, Both
  <2> QED
    BY <1>1, <2>1 DEF AvatarInv, Both
<1> QED
    BY <1>6, <1>7, <1>8, <1>9, <1>10, <1>11 DEF ObjectsInv

LEMMA OwnerFacts ==
    ASSUME FilesTypeOK, ObjectsInv, NEW u \in Handlers
    PROVE  /\ up[u].file \in FileIds /\ up[u].try \in Tries /\ up[u].phase \in UploadPhases
           /\ thumb[up[u].file] \in Slots
           /\ up[u].phase # "idle" => /\ \A v \in Handlers \ {u} : ~Owns(v, up[u].file)
                                      /\ ~Unborn(up[u].file)
                                      /\ Hand(up[u].file, up[u].try, up[u].phase)
           /\ up[u].phase # "sweep" => up[u].keys = {}
<1>1. /\ up[u].phase \in UploadPhases /\ up[u].file \in FileIds /\ up[u].try \in Tries
      /\ up[u].keys \subseteq Ids
    BY UpFacts
<1>2. thumb[up[u].file] \in Slots
    BY <1>1 DEF FilesTypeOK, Slots
<1>3. ASSUME up[u].phase # "idle"
      PROVE  /\ \A v \in Handlers \ {u} : ~Owns(v, up[u].file)
             /\ ~Unborn(up[u].file) /\ Hand(up[u].file, up[u].try, up[u].phase)
  <2>1. Owns(u, up[u].file)
    BY <1>3 DEF Owns
  <2> QED
    BY <1>1, <1>3, <2>1 DEF ObjectsInv, OwnerInv, FreshInv, FreshOf, HandInv
<1>4. ASSUME up[u].phase # "sweep" PROVE up[u].keys = {}
  <2>1. \A id \in up[u].keys : \E f \in FileIds, n \in Slots : id = <<f, n>>
    BY <1>1 DEF Ids, Slots
  <2> QED
    BY <1>4, <2>1 DEF ObjectsInv, KeysInv
<1> QED
    BY <1>1, <1>2, <1>3, <1>4

\* A step that changes no more than one attachment of the handler's file.
LEMMA FrameOf ==
    ASSUME FilesTypeOK, ObjectsInv, NEW u \in Handlers, NEW f, NEW n,
           up[u].phase \notin {"idle", "sweep"}, f = up[u].file,
           \A v \in Handlers \ {u} : up'[v] = up[v],
           up'[u].keys = {}, up'[u].phase # "idle" => up'[u].file = f,
           objects' \in {objects, objects \cup {<<f, n>>}, objects \ {<<f, n>>}},
           records' \in {records, records \cup {<<f, n>>}, records \ {<<f, n>>}},
           \A g \in FileIds \ {f} : thumb'[g] = thumb[g],
           UNCHANGED <<kind, multi, avatar, lostSwaps>>, excused \subseteq excused',
           Untouched(f) \/ (Refused(f) /\ records' \subseteq records)
    PROVE  OwnFrame(u, f)
<1>1. /\ f \in FileIds /\ up[u].keys = {} /\ ~Unborn(f)
      /\ \A v \in Handlers \ {u} : ~Owns(v, f)
    BY OwnerFacts
<1>2. \A g \in FileIds \ {f} : Apart(g)
    BY DEF Apart
<1>3. ~Unborn(f)'
    BY <1>1 DEF Unborn
<1>4. \A v \in Handlers, m \in Slots : <<f, m>> \in up[v].keys => <<f, m>> \notin records'
    BY <1>1 DEF Untouched, ObjectsInv, KeysInv
<1>5. f = avatar => f \in lostSwaps
    BY DEF Untouched, Refused
<1> QED
    BY <1>1, <1>2, <1>3, <1>4, <1>5, Zenon DEF OwnFrame

-----------------------------------------------------------------------------
(* An upload.                                                               *)

\* A fresh file is given an object, or perhaps one, and a handler.
LEMMA NewFile ==
    ASSUME FilesTypeOK, ObjectsInv, NEW u \in Handlers, NEW f \in FileIds, Unborn(f), ~Unborn(f)',
           up[u].phase = "idle", UNCHANGED <<records, thumb, avatar, lostSwaps>>,
           \A g \in FileIds \ {f} : kind'[g] = kind[g] /\ multi'[g] = multi[g],
           excused \subseteq excused', objects' \in {objects, objects \cup {<<f, 0>>}},
           \/ /\ up' = [up EXCEPT ![u] = [Idle EXCEPT !.phase = "check", !.file = f]]
              /\ objects' = objects \cup {<<f, 0>>}
           \/ UNCHANGED up /\ <<f, 0>> \in excused'
    PROVE  ObjectsInv'
<1> DEFINE w == [Idle EXCEPT !.phase = "check", !.file = f]
<1>1. w.phase = "check" /\ w.file = f /\ w.try = 1 /\ w.keys = {}
    BY DEF Idle
<1>2. /\ up \in [Handlers -> [phase : UploadPhases, file : FileIds, try : 1..RetryCount,
                              saw : 0..MaxFiles, keys : SUBSET Ids]]
      /\ up' = [up EXCEPT ![u] = w] \/ up' = up
    BY DEF FilesTypeOK
<1> HIDE DEF w
<1>3. /\ \A v \in Handlers \ {u} : up'[v] = up[v]
      /\ up'[u] = w \/ up'[u] = up[u]
    BY <1>2
<1>4. /\ \A v \in Handlers : ~Owns(v, f)
      /\ f # avatar /\ thumb[f] = 0
      /\ \A n \in Slots : Gone(<<f, n>>) /\ \A v \in Handlers : <<f, n>> \notin up[v].keys
    BY DEF ObjectsInv, FreshInv, FreshOf
<1>5. up[u].keys = {}
    BY OwnerFacts
<1>6. \A g \in FileIds \ {f} : Apart(g)
    BY DEF Apart
<1>7. OwnFrame(u, f)
    BY <1>1, <1>3, <1>4, <1>5, <1>6 DEF OwnFrame, Gone
<1>8. /\ \A n \in Tries : n \in Slots /\ n # 0
      /\ \A n \in Slots \ {0} : n \in Tries
      /\ 0 \in Slots
    BY FilesAssumption DEF Slots, Tries
<1>9. \A v \in Handlers : up'[v].keys = up[v].keys
    BY <1>1, <1>3, <1>5
<1>10. Untouched(f)'
    BY <1>4, <1>9 DEF Untouched
<1>11. \A n \in Tries : Gone(<<f, n>>)'
    BY <1>4, <1>8 DEF Gone
<1>12. CASE up'[u] = w /\ objects' = objects \cup {<<f, 0>>}
  <2>1. Uploaded(f)'
    BY <1>4, <1>8, <1>11, <1>12 DEF Uploaded, Gone
  <2>2. Hand(f, 1, "check")'
    BY <1>10, <2>1, Zenon DEF Hand, BeforeThumb, AtSwap, AtUndo
  <2> QED
    BY <1>1, <1>7, <1>12, <2>2, OwnStep
<1>13. CASE up'[u] = up[u] /\ <<f, 0>> \in excused'
  <2>1. \A n \in Slots : Settled(<<f, n>>)'
    <3>1. \A n \in Tries : Settled(<<f, n>>)'
      BY <1>11 DEF Gone, Settled
    <3>2. Settled(<<f, 0>>)'
      BY <1>13 DEF Settled
    <3> QED
      BY <1>8, <3>1, <3>2
  <2>2. <<f, 0>> \notin records'
    BY <1>4, <1>8 DEF Gone
  <2>3. Rest(f)'
    BY <2>1, <2>2, Zenon DEF Rest
  <2> QED
    BY <1>7, <1>13, <2>3, OwnStep
<1> QED
  <2>1. \/ up' = [up EXCEPT ![u] = w] /\ objects' = objects \cup {<<f, 0>>}
        \/ up' = up /\ <<f, 0>> \in excused'
    BY DEF w
  <2> QED
    BY <1>2, <1>12, <1>13, <2>1

LEMMA UploadSteps ==
    ASSUME FilesTypeOK, ObjectsInv, NEW u \in Handlers, NEW f \in FileIds,
           \/ Upload(u, f) \/ UploadAvatar(u, f) \/ SaveAIGCImageFromURL(u, f)
           \/ CompleteMultipartUpload(u, f)
    PROVE  ObjectsInv'
<1>1. /\ kind \in [FileIds -> FileKinds \cup {"none"}]
      /\ multi \in [FileIds -> {"none", "open", "parts", "closed"}]
      /\ kind[f] = "none" => multi[f] = "none"
    BY DEF FilesTypeOK, ObjectsInv, FreshInv, FreshOf
<1>2. ASSUME NEW k \in FileKinds, PutObject(u, f, k) PROVE ObjectsInv'
  <2>1. /\ up[u].phase = "idle" /\ kind[f] = "none" /\ kind' = [kind EXCEPT ![f] = k]
        /\ UNCHANGED <<records, thumb, multi, avatar, lostSwaps>>
        /\ excused \subseteq excused' /\ objects' \in {objects, objects \cup {<<f, 0>>}}
        /\ \/ /\ up' = [up EXCEPT ![u] = [Idle EXCEPT !.phase = "check", !.file = f]]
              /\ objects' = objects \cup {<<f, 0>>}
           \/ UNCHANGED up /\ <<f, 0>> \in excused'
    BY <1>2 DEF PutObject, Draw
  <2>2. /\ Unborn(f) /\ ~Unborn(f)'
        /\ \A g \in FileIds \ {f} : kind'[g] = kind[g] /\ multi'[g] = multi[g]
    BY <1>1, <2>1 DEF Unborn, FileKinds
  <2> QED
    BY <2>1, <2>2, NewFile
<1>3. ASSUME CompleteMultipartUpload(u, f) PROVE ObjectsInv'
  <2>1. /\ up[u].phase = "idle" /\ multi[f] = "parts" /\ multi' = [multi EXCEPT ![f] = "closed"]
        /\ UNCHANGED <<records, kind, thumb, avatar, lostSwaps>>
        /\ excused \subseteq excused' /\ objects' = objects \cup {<<f, 0>>}
        /\ \/ up' = [up EXCEPT ![u] = [Idle EXCEPT !.phase = "check", !.file = f]]
           \/ UNCHANGED up /\ <<f, 0>> \in excused'
    BY <1>3 DEF CompleteMultipartUpload
  <2>2. /\ Unborn(f) /\ ~Unborn(f)'
        /\ \A g \in FileIds \ {f} : kind'[g] = kind[g] /\ multi'[g] = multi[g]
    BY <1>1, <2>1 DEF Unborn
  <2> QED
    BY <2>1, <2>2, NewFile
<1> QED
    BY <1>2, <1>3 DEF Upload, UploadAvatar, SaveAIGCImageFromURL, FileKinds

LEMMA MultipartSteps ==
    ASSUME FilesTypeOK, ObjectsInv, NEW f \in FileIds,
           StartMultipartUpload(f) \/ UploadPart(f) \/ AbortMultipartUpload(f)
    PROVE  ObjectsInv'
<1>1. /\ UNCHANGED <<objects, records, thumb, avatar, up, excused, lostSwaps>>
      /\ kind' = kind \/ (kind[f] = "none" /\ kind' = [kind EXCEPT ![f] = "file"])
      /\ \E x \in {"open", "parts", "closed"} : multi' = [multi EXCEPT ![f] = x]
      /\ kind[f] = "none" \/ multi[f] \in {"open", "parts"}
      /\ kind[f] = "none" => kind' = [kind EXCEPT ![f] = "file"]
  <2>1. /\ UNCHANGED <<stored, avatar, up, histories>>
        /\ kind' = kind \/ (kind[f] = "none" /\ kind' = [kind EXCEPT ![f] = "file"])
        /\ \E x \in {"open", "parts", "closed"} : multi' = [multi EXCEPT ![f] = x]
        /\ kind[f] = "none" \/ multi[f] \in {"open", "parts"}
        /\ multi[f] = "none" => kind' = [kind EXCEPT ![f] = "file"]
    BY DEF StartMultipartUpload, UploadPart, AbortMultipartUpload, Draw
  <2>2. kind[f] = "none" => multi[f] = "none"
    BY DEF ObjectsInv, FreshInv, FreshOf
  <2> QED
    BY <2>1, <2>2 DEF stored, histories
<1>2. /\ kind \in [FileIds -> FileKinds \cup {"none"}]
      /\ multi \in [FileIds -> {"none", "open", "parts", "closed"}]
    BY DEF FilesTypeOK
<1>3. /\ Unborn(f) /\ kind'[f] # "none"
      /\ \A g \in FileIds \ {f} : kind'[g] = kind[g] /\ multi'[g] = multi[g]
    BY <1>1, <1>2 DEF Unborn
<1>4. /\ FreshOf(f) /\ \A v \in Handlers : ~Owns(v, f)
      /\ 0 \in Slots /\ \A n \in Slots : Gone(<<f, n>>)
    BY <1>3, FilesAssumption DEF ObjectsInv, FreshInv, FreshOf, Slots
<1>5. \A v \in Handlers, g \in FileIds : Owns(v, g)' <=> Owns(v, g)
    BY <1>1 DEF Owns
<1>6. FreshInv'
  <2>1. ASSUME NEW g \in FileIds PROVE FreshOf(g)'
    <3>1. FreshOf(g)
      BY DEF ObjectsInv, FreshInv
    <3> QED
      BY <1>1, <1>3, <1>5, <3>1 DEF FreshOf, Unborn, Gone
  <2> QED
    BY <2>1 DEF FreshInv
<1>7. \A id : Settled(id)' <=> Settled(id)
    BY <1>1 DEF Settled
<1>8. \A g \in FileIds \ {f} : Rest(g) => Rest(g)'
    BY <1>1, <1>3, <1>7 DEF Rest
<1>9. Rest(f)'
  <2>1. \A n \in Slots : Settled(<<f, n>>)
    BY <1>4 DEF Gone, Settled
  <2>2. \A n \in Slots : Settled(<<f, n>>)'
    BY <1>7, <2>1
  <2>3. <<f, 0>> \notin records'
    BY <1>1, <1>4 DEF Gone
  <2> QED
    BY <2>2, <2>3, Zenon DEF Rest
<1>10. RestInv'
    BY <1>5, <1>8, <1>9 DEF ObjectsInv, RestInv
<1>11. HandInv'
  <2>1. ASSUME NEW v \in Handlers, NEW g, NEW t, NEW p,
               g = up[v].file, t = up[v].try, p = up[v].phase, p # "idle"
        PROVE  Hand(g, t, p)'
    <3>1. g \in FileIds /\ t \in Tries /\ Hand(g, t, p) /\ g # f
      BY <1>4, <2>1, OwnerFacts DEF Owns
    <3>2. Apart(g)
      BY <1>1, <1>3, <3>1 DEF Apart
    <3> QED
      BY <1>1, <3>1, <3>2, ApartHand
  <2>2. \A v \in Handlers : up'[v].phase # "idle" => Hand(up[v].file, up[v].try, up[v].phase)'
    BY <1>1, <2>1
  <2> QED
    BY <2>2, Zenon DEF HandInv
<1> QED
    BY <1>1, <1>5, <1>6, <1>10, <1>11 DEF ObjectsInv, KeysInv, OwnerInv, AvatarInv, Both

-----------------------------------------------------------------------------
(* From the object to the thumbnail.                                        *)

LEMMA SettledFacts ==
    ASSUME NEW id
    PROVE  /\ Gone(id)' \/ Both(id)' \/ id \in excused' => Settled(id)'
           /\ Gone(id) \/ Both(id) \/ id \in excused => Settled(id)
BY DEF Gone, Both, Settled

LEMMA SlotFacts ==
    /\ 0 \in Slots /\ Tries \subseteq Slots /\ \A n \in Slots : n = 0 \/ n \in Tries
    /\ 1 \in Tries /\ 0 \notin Tries
BY FilesAssumption DEF Slots, Tries

\* The tries are over.
LEMMA TriesOver ==
    ASSUME NEW f \in FileIds, NEW t \in Tries, Tried(f, t)', Settled(<<f, t>>)'
    PROVE  Complete(f)'
<1>1. Both(<<f, 0>>)' /\ thumb'[f] = 0
    BY Zenon DEF Tried
<1>2. \A n \in Tries : Settled(<<f, n>>)'
  <2> SUFFICES ASSUME NEW n \in Tries PROVE Settled(<<f, n>>)'
    OBVIOUS
  <2>1. (n < t => <<f, n>> \in excused') /\ (n > t => Gone(<<f, n>>)')
    BY DEF Tried
  <2>2. n < t \/ n > t \/ n = t
    BY DEF Tries
  <2> QED
    BY <2>1, <2>2, SettledFacts
<1> QED
    BY <1>1, <1>2, Zenon DEF Complete

LEMMA CompleteRests ==
    ASSUME NEW f \in FileIds, Complete(f)', kind'[f] # "avatar"
    PROVE  Rest(f)'
<1>1. \A n \in Slots : Settled(<<f, n>>)'
  <2>1. Settled(<<f, 0>>)' /\ \A n \in Tries : Settled(<<f, n>>)'
    BY SettledFacts, Zenon DEF Complete
  <2> QED
    BY <2>1, SlotFacts
<1> QED
    BY <1>1, Zenon DEF Rest

LEMMA TriedStays ==
    ASSUME NEW f \in FileIds, NEW t \in Tries, Tried(f, t), thumb'[f] = thumb[f],
           excused \subseteq excused',
           objects' \in {objects, objects \cup {<<f, t>>}},
           records' \in {records, records \cup {<<f, t>>}}
    PROVE  Tried(f, t)'
<1>1. Both(<<f, 0>>)' /\ thumb'[f] = 0
    BY DEF Tried, Both
<1>2. \A n \in Tries : (n < t => <<f, n>> \in excused') /\ (n > t => Gone(<<f, n>>)')
    BY DEF Tried, Gone, Tries
<1> QED
    BY <1>1, <1>2, Zenon DEF Tried

LEMMA UntouchedStays ==
    ASSUME NEW u \in Handlers, NEW f, Untouched(f), avatar' = avatar,
           \A v \in Handlers \ {u} : up'[v] = up[v], up'[u].keys = {}
    PROVE  Untouched(f)'
BY DEF Untouched

\* A file with all its tries behind it goes on to become the avatar, or it rests.
LEMMA ThumbDone ==
    ASSUME FilesTypeOK, ObjectsInv, NEW u \in Handlers, NEW f \in FileIds, NEW q,
           q = up'[u].phase, OwnFrame(u, f), Untouched(f)', Complete(f)',
           q = "lock" \/ (q = "idle" /\ kind'[f] # "avatar")
    PROVE  ObjectsInv'
<1>1. q = "lock" => Hand(f, up[u].try, q)'
  <2>1. SUFFICES ASSUME NEW t, q = "lock" PROVE Hand(f, t, q)'
    BY Zenon
  <2> QED
    BY <2>1, Zenon DEF Hand, BeforeThumb, AtSwap, AtUndo
<1>2. q = "idle" => Rest(f)'
    BY CompleteRests
<1> QED
    BY <1>1, <1>2, OwnStep

LEMMA CheckStep ==
    ASSUME FilesTypeOK, ObjectsInv, NEW u \in Handlers, Check(u)
    PROVE  ObjectsInv'
<1>1. PICK f : f = up[u].file
    OBVIOUS
<1>2. up[u].phase = "check"
    BY DEF Check, Proceed
<1>3. f \in FileIds /\ Hand(f, up[u].try, "check") /\ up[u].keys = {}
    BY <1>1, <1>2, OwnerFacts
<1>4. Untouched(f) /\ Uploaded(f) /\ up[u].try = 1
    BY <1>3, Zenon DEF Hand, BeforeThumb
<1>5. /\ UNCHANGED <<records, kind, thumb, multi, avatar, lostSwaps>>
      /\ objects' \in {objects, objects \cup {<<f, 0>>}, objects \ {<<f, 0>>}}
      /\ excused \subseteq excused'
      /\ \/ Proceed(u, "check", "row") /\ UNCHANGED objects
         \/ Proceed(u, "check", "idle") /\ (<<f, 0>> \notin objects' \/ <<f, 0>> \in excused')
    BY <1>1 DEF Check, Main
<1>6. /\ \A v \in Handlers \ {u} : up'[v] = up[v]
      /\ up'[u].keys = {} /\ (up'[u].phase # "idle" => up'[u].file = f)
      /\ up'[u].phase = "row" => UNCHANGED objects /\ up'[u].try = 1
      /\ up'[u].phase = "idle" => <<f, 0>> \notin objects' \/ <<f, 0>> \in excused'
      /\ up'[u].phase \in {"row", "idle"}
    BY <1>1, <1>3, <1>4, <1>5, ProceedFacts, IdleFacts DEF UploadPhases
<1>7. OwnFrame(u, f)
    BY <1>1, <1>2, <1>4, <1>5, <1>6, FrameOf
<1>8. \A n \in Tries : Gone(<<f, n>>)'
    BY <1>4, <1>5, SlotFacts DEF Uploaded, Gone
<1>9. CASE up'[u].phase = "row"
  <2>1. Untouched(f)'
    BY <1>4, <1>5, <1>6, UntouchedStays
  <2>2. Uploaded(f)'
    BY <1>4, <1>5, <1>6, <1>8, <1>9 DEF Uploaded
  <2>3. Hand(f, 1, "row")'
    BY <2>1, <2>2, Zenon DEF Hand, BeforeThumb, AtSwap, AtUndo
  <2> QED
    BY <1>3, <1>6, <1>7, <1>9, <2>3, OwnStep
<1>10. CASE up'[u].phase = "idle"
  <2>1. <<f, 0>> \notin records'
    BY <1>4, <1>5 DEF Uploaded
  <2>2. \A n \in Slots : Settled(<<f, n>>)'
    BY <1>6, <1>8, <1>10, <2>1, SlotFacts, SettledFacts DEF Gone
  <2>3. Rest(f)'
    BY <2>1, <2>2, Zenon DEF Rest
  <2> QED
    BY <1>3, <1>7, <1>10, <2>3, OwnStep
<1> QED
    BY <1>6, <1>9, <1>10

LEMMA InsertRowStep ==
    ASSUME FilesTypeOK, ObjectsInv, NEW u \in Handlers, InsertRow(u)
    PROVE  ObjectsInv'
<1>1. PICK f : f = up[u].file
    OBVIOUS
<1>2. up[u].phase = "row"
    BY DEF InsertRow, Proceed
<1>3. f \in FileIds /\ Hand(f, up[u].try, "row") /\ up[u].keys = {}
    BY <1>1, <1>2, OwnerFacts
<1>4. Untouched(f) /\ Uploaded(f) /\ up[u].try = 1
    BY <1>3, Zenon DEF Hand, BeforeThumb
<1>5. /\ UNCHANGED <<objects, kind, thumb, multi, avatar, lostSwaps>>
      /\ records' \in {records, records \cup {<<f, 0>>}, records \ {<<f, 0>>}}
      /\ excused \subseteq excused'
      /\ \/ Proceed(u, "row", "thumb") /\ records' = records \cup {<<f, 0>>}
         \/ Proceed(u, "row", "idle") /\ <<f, 0>> \in excused'
    BY <1>1 DEF InsertRow, Main
<1>6. /\ \A v \in Handlers \ {u} : up'[v] = up[v]
      /\ up'[u].keys = {} /\ (up'[u].phase # "idle" => up'[u].file = f)
      /\ up'[u].phase = "thumb" => records' = records \cup {<<f, 0>>} /\ up'[u].try = 1
      /\ up'[u].phase = "idle" => <<f, 0>> \in excused'
      /\ up'[u].phase \in {"thumb", "idle"}
    BY <1>1, <1>3, <1>4, <1>5, ProceedFacts, IdleFacts DEF UploadPhases
<1>7. OwnFrame(u, f)
    BY <1>1, <1>2, <1>4, <1>5, <1>6, FrameOf
<1>8. \A n \in Tries : Gone(<<f, n>>)'
    BY <1>4, <1>5, SlotFacts DEF Uploaded, Gone
<1>9. CASE up'[u].phase = "thumb"
  <2>1. Untouched(f)'
    BY <1>4, <1>5, <1>6, UntouchedStays
  <2>2. Both(<<f, 0>>)' /\ thumb'[f] = 0
    BY <1>4, <1>5, <1>6, <1>9 DEF Uploaded, Both
  <2>3. \A n \in Tries : (n < 1 => <<f, n>> \in excused') /\ (n > 1 => Gone(<<f, n>>)')
    BY <1>8 DEF Tries
  <2>4. Tried(f, 1)' /\ Gone(<<f, 1>>)'
    BY <1>8, <2>2, <2>3, SlotFacts, Zenon DEF Tried
  <2>5. Hand(f, 1, "thumb")'
    BY <2>1, <2>4, Zenon DEF Hand, BeforeThumb, AtSwap, AtUndo
  <2> QED
    BY <1>3, <1>6, <1>7, <1>9, <2>5, OwnStep
<1>10. CASE up'[u].phase = "idle"
  <2>2. \A n \in Slots : Settled(<<f, n>>)'
    BY <1>6, <1>8, <1>10, SlotFacts, SettledFacts
  <2>3. Rest(f)'
    BY <1>6, <1>10, <2>2, Zenon DEF Rest
  <2> QED
    BY <1>3, <1>7, <1>10, <2>3, OwnStep
<1> QED
    BY <1>6, <1>9, <1>10

LEMMA NoThumbStep ==
    ASSUME FilesTypeOK, ObjectsInv, NEW u \in Handlers, NoThumb(u)
    PROVE  ObjectsInv'
<1>1. PICK f, t : f = up[u].file /\ t = up[u].try
    OBVIOUS
<1>2. up[u].phase = "thumb"
    BY DEF NoThumb, Proceed
<1>3. f \in FileIds /\ t \in Tries /\ Hand(f, t, "thumb") /\ up[u].keys = {}
    BY <1>1, <1>2, OwnerFacts
<1>4. Untouched(f) /\ Tried(f, t) /\ Gone(<<f, t>>)
    BY <1>3, Zenon DEF Hand
<1>5. /\ UNCHANGED <<objects, records, kind, thumb, multi, avatar, excused, lostSwaps>>
      /\ Proceed(u, "thumb", After(u))
    BY DEF NoThumb, stored, histories
<1>6. /\ \A v \in Handlers \ {u} : up'[v] = up[v]
      /\ up'[u].keys = {} /\ (up'[u].phase # "idle" => up'[u].file = f)
      /\ up'[u].phase = "lock" \/ (up'[u].phase = "idle" /\ kind'[f] # "avatar")
    BY <1>1, <1>3, <1>5, ProceedFacts, IdleFacts DEF UploadPhases, After
<1>7. OwnFrame(u, f)
    BY <1>1, <1>2, <1>4, <1>5, <1>6, FrameOf
<1>8. Untouched(f)'
    BY <1>4, <1>5, <1>6, UntouchedStays
<1>9. Tried(f, t)' /\ Gone(<<f, t>>)'
    BY <1>3, <1>4, <1>5, TriedStays DEF Gone
<1>10. Complete(f)'
    BY <1>3, <1>9, SettledFacts, TriesOver
<1> QED
    BY <1>3, <1>6, <1>7, <1>8, <1>10, ThumbDone

\* A try that failed is excused, and the next one begins.
LEMMA TryFailed ==
    ASSUME FilesTypeOK, ObjectsInv, NEW u \in Handlers, NEW f, NEW t,
           f = up[u].file, t = up[u].try, up[u].phase \in {"thumb", "thumbRow"},
           Untouched(f), Tried(f, t), NextTry(u),
           objects' \in {objects, objects \cup {<<f, t>>}},
           records' \in {records, records \cup {<<f, t>>}},
           excused' = excused \cup {<<f, t>>},
           UNCHANGED <<kind, thumb, multi, avatar, lostSwaps>>
    PROVE  ObjectsInv'
<1>1. f \in FileIds /\ t \in Tries /\ up[u].keys = {}
    BY OwnerFacts
<1>2. /\ \A v \in Handlers \ {u} : up'[v] = up[v]
      /\ up'[u].keys = {} /\ (up'[u].phase # "idle" => up'[u].file = f)
      /\ \/ up'[u].phase = "thumb" /\ up'[u].try = t + 1 /\ t < RetryCount
         \/ up'[u].phase = "lock" \/ (up'[u].phase = "idle" /\ kind'[f] # "avatar")
    BY <1>1, NextTryFacts, IdleFacts
<1>3. OwnFrame(u, f)
    BY <1>1, <1>2, FrameOf
<1>4. Untouched(f)'
    BY <1>2, UntouchedStays
<1>5. Tried(f, t)'
    BY <1>1, TriedStays
<1>6. CASE up'[u].phase = "thumb" /\ up'[u].try = t + 1 /\ t < RetryCount
  <2> DEFINE s == t + 1
  <2>1. s \in Tries /\ s > t /\ s \in Nat /\ t \in Nat
        /\ \A n \in Tries : (n < s => n < t \/ n = t) /\ (n > s => n > t)
    BY <1>1, <1>6, FilesAssumption DEF Tries
  <2> HIDE DEF s
  <2>2. /\ Both(<<f, 0>>)' /\ thumb'[f] = 0 /\ <<f, t>> \in excused'
        /\ \A n \in Tries : (n < t => <<f, n>> \in excused') /\ (n > t => Gone(<<f, n>>)')
    BY <1>5, Zenon DEF Tried
  <2>3. Tried(f, s)' /\ Gone(<<f, s>>)'
    BY <2>1, <2>2, Zenon DEF Tried
  <2>4. Hand(f, s, "thumb")'
    BY <1>4, <2>3, Zenon DEF Hand, BeforeThumb, AtSwap, AtUndo
  <2>5. s = up'[u].try
    BY <1>6 DEF s
  <2> QED
    BY <1>1, <1>3, <1>6, <2>4, <2>5, OwnStep
<1>7. CASE up'[u].phase = "lock" \/ (up'[u].phase = "idle" /\ kind'[f] # "avatar")
  <2>1. Complete(f)'
    BY <1>1, <1>5, SettledFacts, TriesOver
  <2> QED
    BY <1>1, <1>3, <1>4, <1>7, <2>1, ThumbDone
<1> QED
    BY <1>2, <1>6, <1>7

LEMMA PutThumbStep ==
    ASSUME FilesTypeOK, ObjectsInv, NEW u \in Handlers, PutThumb(u)
    PROVE  ObjectsInv'
<1>1. PICK f, t : f = up[u].file /\ t = up[u].try
    OBVIOUS
<1>2. up[u].phase = "thumb"
    BY DEF PutThumb
<1>3. f \in FileIds /\ t \in Tries /\ Hand(f, t, "thumb") /\ up[u].keys = {}
    BY <1>1, <1>2, OwnerFacts
<1>4. Untouched(f) /\ Tried(f, t) /\ Gone(<<f, t>>)
    BY <1>3, Zenon DEF Hand
<1>5. /\ UNCHANGED <<records, kind, thumb, multi, avatar, lostSwaps>>
      /\ \/ /\ Proceed(u, "thumb", "thumbRow") /\ objects' = objects \cup {<<f, t>>}
            /\ UNCHANGED excused
         \/ /\ NextTry(u) /\ objects' \in {objects, objects \cup {<<f, t>>}}
            /\ excused' = excused \cup {<<f, t>>}
    BY <1>1 DEF PutThumb, Thumb
<1>6. CASE NextTry(u) /\ objects' \in {objects, objects \cup {<<f, t>>}}
           /\ excused' = excused \cup {<<f, t>>}
    BY <1>1, <1>2, <1>4, <1>5, <1>6, TryFailed
<1>7. CASE /\ Proceed(u, "thumb", "thumbRow") /\ objects' = objects \cup {<<f, t>>}
           /\ UNCHANGED excused
  <2>1. /\ \A v \in Handlers \ {u} : up'[v] = up[v]
        /\ up'[u].keys = {} /\ up'[u].file = f /\ up'[u].try = t /\ up'[u].phase = "thumbRow"
    BY <1>1, <1>3, <1>7, ProceedFacts DEF UploadPhases
  <2>2. OwnFrame(u, f)
    BY <1>1, <1>2, <1>4, <1>5, <1>7, <2>1, FrameOf
  <2>3. Untouched(f)'
    BY <1>4, <1>5, <2>1, UntouchedStays
  <2>4. Tried(f, t)'
    BY <1>3, <1>4, <1>5, <1>7, TriedStays
  <2>5. <<f, t>> \in objects' /\ <<f, t>> \notin records'
    BY <1>4, <1>5, <1>7 DEF Gone
  <2>6. Hand(f, t, "thumbRow")'
    BY <2>3, <2>4, <2>5, Zenon DEF Hand, BeforeThumb, AtSwap, AtUndo
  <2> QED
    BY <1>3, <2>1, <2>2, <2>6, OwnStep
<1> QED
    BY <1>5, <1>6, <1>7

LEMMA InsertThumbStep ==
    ASSUME FilesTypeOK, ObjectsInv, NEW u \in Handlers, InsertThumb(u)
    PROVE  ObjectsInv'
<1>1. PICK f, t : f = up[u].file /\ t = up[u].try
    OBVIOUS
<1>2. up[u].phase = "thumbRow"
    BY DEF InsertThumb
<1>3. f \in FileIds /\ t \in Tries /\ Hand(f, t, "thumbRow") /\ up[u].keys = {}
    BY <1>1, <1>2, OwnerFacts
<1>4. Untouched(f) /\ Tried(f, t) /\ <<f, t>> \in objects
    BY <1>3, Zenon DEF Hand
<1>5. /\ UNCHANGED <<objects, kind, thumb, multi, avatar, lostSwaps>>
      /\ \/ /\ Proceed(u, "thumbRow", "link") /\ records' = records \cup {<<f, t>>}
            /\ UNCHANGED excused
         \/ /\ NextTry(u) /\ records' \in {records, records \cup {<<f, t>>}}
            /\ excused' = excused \cup {<<f, t>>}
    BY <1>1 DEF InsertThumb, Thumb
<1>6. CASE NextTry(u) /\ records' \in {records, records \cup {<<f, t>>}}
           /\ excused' = excused \cup {<<f, t>>}
    BY <1>1, <1>2, <1>4, <1>5, <1>6, TryFailed
<1>7. CASE /\ Proceed(u, "thumbRow", "link") /\ records' = records \cup {<<f, t>>}
           /\ UNCHANGED excused
  <2>1. /\ \A v \in Handlers \ {u} : up'[v] = up[v]
        /\ up'[u].keys = {} /\ up'[u].file = f /\ up'[u].try = t /\ up'[u].phase = "link"
    BY <1>1, <1>3, <1>7, ProceedFacts DEF UploadPhases
  <2>2. OwnFrame(u, f)
    BY <1>1, <1>2, <1>4, <1>5, <1>7, <2>1, FrameOf
  <2>3. Untouched(f)'
    BY <1>4, <1>5, <2>1, UntouchedStays
  <2>4. Tried(f, t)'
    BY <1>3, <1>4, <1>5, <1>7, TriedStays
  <2>5. Both(<<f, t>>)'
    BY <1>4, <1>5, <1>7 DEF Both
  <2>6. Hand(f, t, "link")'
    BY <2>3, <2>4, <2>5, Zenon DEF Hand, BeforeThumb, AtSwap, AtUndo
  <2> QED
    BY <1>3, <2>1, <2>2, <2>6, OwnStep
<1> QED
    BY <1>5, <1>6, <1>7

LEMMA LinkStep ==
    ASSUME FilesTypeOK, ObjectsInv, NEW u \in Handlers, Link(u)
    PROVE  ObjectsInv'
<1>1. PICK f, t : f = up[u].file /\ t = up[u].try
    OBVIOUS
<1>2. up[u].phase = "link"
    BY DEF Link, Proceed
<1>3. f \in FileIds /\ t \in Tries /\ Hand(f, t, "link") /\ up[u].keys = {}
    BY <1>1, <1>2, OwnerFacts
<1>4. Untouched(f) /\ Tried(f, t) /\ Both(<<f, t>>)
    BY <1>3, Zenon DEF Hand
<1>5. /\ UNCHANGED <<objects, records, kind, multi, avatar, lostSwaps>>
      /\ excused \subseteq excused'
      /\ thumb' = [thumb EXCEPT ![f] = t] \/ (UNCHANGED thumb /\ <<f, t>> \in excused')
      /\ Proceed(u, "link", After(u))
    BY <1>1 DEF Link, Thumb
<1>6. /\ \A v \in Handlers \ {u} : up'[v] = up[v]
      /\ up'[u].keys = {} /\ (up'[u].phase # "idle" => up'[u].file = f)
      /\ up'[u].phase = "lock" \/ (up'[u].phase = "idle" /\ kind'[f] # "avatar")
    BY <1>1, <1>3, <1>5, ProceedFacts, IdleFacts DEF UploadPhases, After
<1>7. thumb \in [FileIds -> 0 .. RetryCount]
    BY DEF FilesTypeOK
<1>8. /\ \A g \in FileIds \ {f} : thumb'[g] = thumb[g]
      /\ thumb'[f] = t \/ thumb'[f] = thumb[f]
    BY <1>3, <1>5, <1>7
<1>9. OwnFrame(u, f)
    BY <1>1, <1>2, <1>4, <1>5, <1>6, <1>8, FrameOf
<1>10. Untouched(f)'
    BY <1>4, <1>5, <1>6, UntouchedStays
<1>11. Both(<<f, t>>)' /\ Both(<<f, 0>>)'
    BY <1>4, <1>5 DEF Both, Tried
<1>12. ASSUME NEW n \in Tries PROVE Settled(<<f, n>>)'
  <2>1. n < t \/ n > t \/ n = t
    BY <1>3 DEF Tries
  <2>2. (n < t => <<f, n>> \in excused') /\ (n > t => Gone(<<f, n>>)')
    BY <1>4, <1>5 DEF Tried, Gone
  <2> QED
    BY <1>11, <2>1, <2>2, SettledFacts
<1>13. thumb'[f] # 0 => thumb'[f] = t
    BY <1>4, <1>8 DEF Tried
<1>14. Complete(f)'
  <2>1. thumb'[f] # 0 => Both(<<f, thumb[f]>>)'
    BY <1>11, <1>13 DEF Both
  <2> QED
    BY <1>11, <1>12, <2>1, Zenon DEF Complete
<1> QED
    BY <1>3, <1>6, <1>9, <1>10, <1>14, ThumbDone

LEMMA LockStep ==
    ASSUME FilesTypeOK, ObjectsInv, NEW u \in Handlers, Lock(u)
    PROVE  ObjectsInv'
<1>1. PICK f : f = up[u].file
    OBVIOUS
<1>2. /\ up[u].phase = "lock" /\ \A v \in Handlers \ {u} : up'[v] = up[v]
      /\ up'[u].phase = "swap" /\ up'[u].file = f /\ up'[u].keys = up[u].keys
    BY <1>1, LockFacts
<1>3. f \in FileIds /\ Hand(f, up[u].try, "lock") /\ up[u].keys = {}
    BY <1>1, <1>2, OwnerFacts
<1>4. Untouched(f) /\ Complete(f)
    BY <1>3, Zenon DEF Hand, AtSwap
<1>5. UNCHANGED <<objects, records, kind, thumb, multi, avatar, excused, lostSwaps>>
    BY DEF Lock, stored, histories
<1>6. OwnFrame(u, f)
    BY <1>1, <1>2, <1>3, <1>4, <1>5, FrameOf
<1>7. Untouched(f)'
    BY <1>2, <1>3, <1>4, <1>5, UntouchedStays
<1>8. Complete(f)'
  <2>1. \A v \in Handlers : up'[v].keys = up[v].keys
    BY <1>2
  <2>2. \A id : Settled(id) => Settled(id)'
    BY <1>5, <2>1 DEF Settled
  <2>3. \A n \in Tries : Settled(<<f, n>>)'
    BY <1>4, <2>2, Zenon DEF Complete
  <2>4. Both(<<f, 0>>)' /\ (thumb[f] # 0 => Both(<<f, thumb[f]>>))'
    BY <1>4, <1>5 DEF Complete, Both
  <2> QED
    BY <2>3, <2>4, Zenon DEF Complete
<1>9. Hand(f, up[u].try, "swap")'
  <2>1. SUFFICES ASSUME NEW t PROVE Hand(f, t, "swap")'
    BY Zenon
  <2> QED
    BY <1>7, <1>8, Zenon DEF Hand, BeforeThumb, AtSwap, AtUndo
<1> QED
    BY <1>2, <1>3, <1>6, <1>9, OwnStep

-----------------------------------------------------------------------------
(* A file that is deleted again.                                            *)

LEMMA SettledStays ==
    ASSUME NEW id, Settled(id), id \in objects' <=> id \in objects,
           id \in records' <=> id \in records, excused \subseteq excused',
           \A v \in Handlers : id \in up[v].keys => id \in up'[v].keys
    PROVE  Settled(id)'
BY DEF Settled

LEMMA UndoStep ==
    ASSUME FilesTypeOK, ObjectsInv, NEW u \in Handlers, Undo(u)
    PROVE  ObjectsInv'
<1>1. PICK f, h, p : f = up[u].file /\ h = thumb[f] /\ p = up[u].phase
    OBVIOUS
<1>2. p \in AtUndo
    BY <1>1 DEF Undo, Proceed, AtUndo
<1>3. f \in FileIds /\ Hand(f, up[u].try, p) /\ up[u].keys = {} /\ h \in Slots
    BY <1>1, <1>2, OwnerFacts DEF AtUndo
<1>4. /\ Refused(f)
      /\ \A n \in Tries : (p = "undoThumbRow" /\ n = h) \/ Settled(<<f, n>>)
      /\ p = "undoThumbRow" => Removed(<<f, h>>)
      /\ p = "undoRow" => Removed(<<f, 0>>)
    BY <1>1, <1>2, <1>3, Zenon DEF Hand
<1>5. UNCHANGED <<kind, thumb, multi, avatar, lostSwaps>> /\ excused \subseteq excused'
    BY DEF Undo
<1> DEFINE Away(id) == /\ UNCHANGED records /\ objects' \in {objects, objects \ {id}}
                       /\ id \notin objects' \/ id \in excused'
           Erased(id) == /\ UNCHANGED objects /\ records' \in {records, records \ {id}}
                         /\ id \notin records' \/ id \in excused'
<1>6. \/ Proceed(u, "undoThumb", "undo") /\ UNCHANGED <<objects, records>>
      \/ Proceed(u, "undoThumb", "undoThumbRow") /\ Away(<<f, h>>) /\ h # 0
      \/ Proceed(u, "undo", "undoRow") /\ Away(<<f, 0>>)
      \/ Proceed(u, "undoThumbRow", "undo") /\ Erased(<<f, h>>)
      \/ Proceed(u, "undoRow", "idle") /\ Erased(<<f, 0>>)
    BY <1>1 DEF Undo, Proceed
<1> HIDE DEF Away, Erased
<1>7. \A v \in Handlers \ {u} : up'[v] = up[v]
    BY <1>6, ProceedFacts DEF UploadPhases
<1>8. up'[u].keys = {} /\ (up'[u].phase # "idle" => up'[u].file = f)
    BY <1>1, <1>3, <1>6, ProceedFacts, IdleFacts DEF UploadPhases
<1>9. \E n \in {0, h} : /\ objects' \in {objects, objects \cup {<<f, n>>}, objects \ {<<f, n>>}}
                        /\ records' \in {records, records \cup {<<f, n>>}, records \ {<<f, n>>}}
                        /\ records' \subseteq records
    BY <1>6 DEF Away, Erased
<1>10. OwnFrame(u, f)
    BY <1>1, <1>2, <1>4, <1>5, <1>7, <1>8, <1>9, FrameOf DEF AtUndo
<1>11. \A n \in Slots : /\ <<f, n>> \in objects' <=> <<f, n>> \in objects
                        /\ <<f, n>> \in records' <=> <<f, n>> \in records
                        /\ Settled(<<f, n>>)
                        => Settled(<<f, n>>)'
  <2>1. \A v \in Handlers : up'[v].keys = up[v].keys
    BY <1>3, <1>7, <1>8
  <2> QED
    BY <1>5, <2>1, SettledStays
<1>12. ASSUME NEW q, q = up'[u].phase, q \in AtUndo,
              \A n \in Tries : (q = "undoThumbRow" /\ n = h) \/ Settled(<<f, n>>)',
              q = "undoThumbRow" => Removed(<<f, h>>)',
              q = "undoRow" => Removed(<<f, 0>>)'
       PROVE  ObjectsInv'
  <2>1. Refused(f)'
    BY <1>4, <1>5 DEF Refused
  <2>2. thumb'[f] = h
    BY <1>1, <1>5
  <2>3. q = "undoThumbRow" => Removed(<<f, thumb[f]>>)'
    BY <1>12, <2>2 DEF Removed
  <2>4. ASSUME NEW t PROVE Hand(f, t, q)'
    BY <1>12, <2>1, <2>2, <2>3, Zenon DEF Hand, BeforeThumb, AtSwap, AtUndo
  <2>5. q # "idle"
    BY <1>12 DEF AtUndo
  <2> QED
    BY <1>3, <1>10, <1>12, <2>4, <2>5, OwnStep
<1>13. CASE Proceed(u, "undoThumb", "undo") /\ UNCHANGED <<objects, records>>
  <2>1. p = "undoThumb" /\ up'[u].phase = "undo"
    BY <1>1, <1>13, ProceedFacts DEF UploadPhases
  <2>2. \A n \in Tries : Settled(<<f, n>>)'
    BY <1>4, <1>11, <1>13, <2>1, SlotFacts
  <2> QED
    BY <1>12, <2>1, <2>2 DEF AtUndo
<1>14. CASE Proceed(u, "undoThumb", "undoThumbRow") /\ Away(<<f, h>>) /\ h # 0
  <2>1. p = "undoThumb" /\ up'[u].phase = "undoThumbRow"
    BY <1>1, <1>14, ProceedFacts DEF UploadPhases
  <2>2. \A n \in Tries : n = h \/ Settled(<<f, n>>)'
    BY <1>4, <1>11, <1>14, <2>1, SlotFacts DEF Away
  <2>3. Removed(<<f, h>>)'
    BY <1>14 DEF Away, Removed
  <2> QED
    BY <1>12, <2>1, <2>2, <2>3 DEF AtUndo
<1>15. CASE Proceed(u, "undo", "undoRow") /\ Away(<<f, 0>>)
  <2>1. p = "undo" /\ up'[u].phase = "undoRow"
    BY <1>1, <1>15, ProceedFacts DEF UploadPhases
  <2>2. \A n \in Tries : Settled(<<f, n>>)'
    BY <1>4, <1>11, <1>15, <2>1, SlotFacts DEF Away
  <2>3. Removed(<<f, 0>>)'
    BY <1>15 DEF Away, Removed
  <2> QED
    BY <1>12, <2>1, <2>2, <2>3 DEF AtUndo
<1>16. CASE Proceed(u, "undoThumbRow", "undo") /\ Erased(<<f, h>>)
  <2>1. p = "undoThumbRow" /\ up'[u].phase = "undo"
    BY <1>1, <1>16, ProceedFacts DEF UploadPhases
  <2>2. Settled(<<f, h>>)'
    BY <1>4, <1>5, <1>16, <2>1 DEF Erased, Removed, Settled
  <2>3. \A n \in Tries : Settled(<<f, n>>)'
    BY <1>4, <1>11, <1>16, <2>2, SlotFacts DEF Erased
  <2> QED
    BY <1>12, <2>1, <2>3 DEF AtUndo
<1>17. CASE Proceed(u, "undoRow", "idle") /\ Erased(<<f, 0>>)
  <2>1. p = "undoRow" /\ up'[u].phase = "idle"
    BY <1>1, <1>17, ProceedFacts, IdleFacts DEF UploadPhases
  <2>2. Settled(<<f, 0>>)'
    BY <1>4, <1>5, <1>17, <2>1 DEF Erased, Removed, Settled
  <2>3. \A n \in Slots : Settled(<<f, n>>)'
    BY <1>4, <1>11, <1>17, <2>1, <2>2, SlotFacts DEF Erased
  <2>4. Rest(f)'
    BY <1>17, <2>3, Zenon DEF Rest, Erased
  <2> QED
    BY <1>3, <1>10, <2>1, <2>4, OwnStep
<1> QED
    BY <1>6, <1>13, <1>14, <1>15, <1>16, <1>17

LEMMA UndoFailsStep ==
    ASSUME FilesTypeOK, ObjectsInv, NEW u \in Handlers, UndoFails(u)
    PROVE  ObjectsInv'
<1>1. PICK f : f = up[u].file
    OBVIOUS
<1>2. /\ Proceed(u, "undoThumb", "idle")
      /\ UNCHANGED <<objects, records, kind, thumb, multi, avatar, lostSwaps>>
      /\ excused \subseteq excused' /\ \A n \in Slots : <<f, n>> \in excused'
    BY <1>1 DEF UndoFails, stored, Slots
<1>3. /\ up[u].phase = "undoThumb" /\ up'[u].phase = "idle" /\ up'[u].keys = {}
      /\ \A v \in Handlers \ {u} : up'[v] = up[v]
    BY <1>2, ProceedFacts, IdleFacts DEF UploadPhases
<1>4. f \in FileIds /\ Hand(f, up[u].try, "undoThumb") /\ up[u].keys = {}
    BY <1>1, <1>3, OwnerFacts
<1>5. Refused(f)
    BY <1>4, Zenon DEF Hand, AtUndo
<1>6. OwnFrame(u, f)
    BY <1>1, <1>2, <1>3, <1>5, FrameOf
<1>7. \A n \in Slots : Settled(<<f, n>>)'
    BY <1>2, SettledFacts
<1>8. Rest(f)'
    BY <1>2, <1>7, SlotFacts, Zenon DEF Rest
<1> QED
    BY <1>3, <1>4, <1>6, <1>8, OwnStep

-----------------------------------------------------------------------------
(* The swap of the avatars.                                                 *)

\* The transaction fails and has no effect.
LEMMA SwapFails ==
    ASSUME FilesTypeOK, ObjectsInv, NEW u \in Handlers, Proceed(u, "swap", "undoThumb"),
           UNCHANGED <<objects, records, kind, thumb, multi, avatar, excused, lostSwaps>>
    PROVE  ObjectsInv'
<1>1. PICK f : f = up[u].file
    OBVIOUS
<1>2. /\ up[u].phase = "swap" /\ up'[u].phase = "undoThumb"
      /\ up'[u].keys = up[u].keys /\ up'[u].file = f
      /\ \A v \in Handlers \ {u} : up'[v] = up[v]
    BY <1>1, ProceedFacts DEF UploadPhases
<1>3. f \in FileIds /\ Hand(f, up[u].try, "swap") /\ up[u].keys = {}
    BY <1>1, <1>2, OwnerFacts
<1>4. Untouched(f) /\ Complete(f)
    BY <1>3, Zenon DEF Hand, AtSwap
<1>5. OwnFrame(u, f)
    BY <1>1, <1>2, <1>3, <1>4, FrameOf
<1>6. \A n \in Tries : Settled(<<f, n>>)'
  <2>1. \A v \in Handlers : up'[v].keys = up[v].keys
    BY <1>2
  <2>2. \A n \in Tries : Settled(<<f, n>>)
    BY <1>4, Zenon DEF Complete
  <2> QED
    BY <2>1, <2>2, SettledStays
<1>7. Refused(f)'
    BY <1>4 DEF Untouched, Refused
<1>8. ASSUME NEW t PROVE Hand(f, t, "undoThumb")'
    BY <1>6, <1>7, Zenon DEF Hand, BeforeThumb, AtSwap, AtUndo
<1> QED
    BY <1>2, <1>3, <1>5, <1>8, OwnStep

\* A step that settles attachments of files that no handler writes: it removes
\* their rows or their objects, or takes them in hand.
LEMMA SettlingStep ==
    ASSUME FilesTypeOK, ObjectsInv, NEW u \in Handlers,
           UNCHANGED <<kind, thumb, multi>>, excused \subseteq excused',
           \A v \in Handlers : /\ up'[v].phase = "idle" <=> up[v].phase = "idle"
                               /\ up'[v].file = up[v].file,
           \A v \in Handlers \ {u} : up'[v] = up[v],
           objects' \subseteq objects, records' \subseteq records,
           \A g \in FileIds, n \in Slots : /\ Settled(<<g, n>>) => Settled(<<g, n>>)'
                                           /\ Removed(<<g, n>>) => Removed(<<g, n>>)',
           \A g \in FileIds : Untouched(g) => Untouched(g)' \/ (Owns(u, g) /\ g = avatar'),
           \A g \in FileIds : Untouched(g) => Apart(g),
           \A g \in FileIds : Refused(g) => Refused(g)' \/ Owns(u, g),
           \A g \in FileIds : Rest(g) => Rest(g)',
           \A id \in up'[u].keys : id \in up[u].keys \/ id \in records,
           up[u].phase # "idle",
           avatar' = avatar \/ Owns(u, avatar'),
           KeysInv', AvatarInv',
           Hand(up[u].file, up[u].try, up[u].phase)'
    PROVE  ObjectsInv'
<1>1. KeysInv /\ OwnerInv /\ FreshInv /\ RestInv /\ HandInv /\ AvatarInv
    BY DEF ObjectsInv
<1>2. \A v \in Handlers, g \in FileIds : Owns(v, g)' <=> Owns(v, g)
    BY DEF Owns
<1>3. OwnerInv'
    BY <1>1, <1>2 DEF OwnerInv
<1>4. RestInv'
    BY <1>1, <1>2 DEF RestInv
<1>5. FreshInv'
  <2> SUFFICES ASSUME NEW g \in FileIds PROVE FreshOf(g)'
    BY DEF FreshInv
  <2>1. FreshOf(g) /\ (Unborn(g)' <=> Unborn(g))
    BY <1>1 DEF FreshInv, Unborn
  <2>2. ASSUME Unborn(g)
        PROVE  /\ \A v \in Handlers : ~Owns(v, g)'
               /\ g # avatar' /\ thumb'[g] = 0
               /\ \A n \in Slots : Gone(<<g, n>>)' /\ \A v \in Handlers : <<g, n>> \notin up'[v].keys
    <3>1. /\ \A v \in Handlers : ~Owns(v, g)
          /\ g # avatar /\ thumb[g] = 0
          /\ \A n \in Slots : Gone(<<g, n>>) /\ \A v \in Handlers : <<g, n>> \notin up[v].keys
      BY <2>1, <2>2 DEF FreshOf
    <3>2. \A n \in Slots : Gone(<<g, n>>)'
      BY <3>1 DEF Gone
    <3>3. \A n \in Slots, v \in Handlers : <<g, n>> \notin up'[v].keys
      BY <3>1 DEF Gone
    <3>4. g # avatar'
      BY <3>1
    <3> QED
      BY <1>2, <3>1, <3>2, <3>3, <3>4
  <2> QED
    BY <2>1, <2>2 DEF FreshOf
<1>6. HandInv'
  <2>1. ASSUME NEW v \in Handlers, NEW g, NEW t, NEW p, v # u,
               g = up'[v].file, t = up'[v].try, p = up'[v].phase, p # "idle"
        PROVE  Hand(g, t, p)'
    <3>1. g = up[v].file /\ t = up[v].try /\ p = up[v].phase
      BY <2>1
    <3>2. g \in FileIds /\ t \in Tries /\ Hand(g, t, p) /\ ~Owns(u, g)
      BY <2>1, <3>1, OwnerFacts
    <3> QED
      BY <3>2, HandStays
  <2>2. Hand(up[u].file, up[u].try, up[u].phase)'
    BY <1>1
  <2>3. \A v \in Handlers : up'[v].phase # "idle" => Hand(up[v].file, up[v].try, up[v].phase)'
    BY <2>1, <2>2, Zenon
  <2> QED
    BY <2>3, Zenon DEF HandInv
<1> QED
    BY <1>3, <1>4, <1>5, <1>6 DEF ObjectsInv

\* It commits, whether or not the handler is told so.
LEMMA SwapCommits ==
    ASSUME FilesTypeOK, ObjectsInv, NEW u \in Handlers, up[u].phase = "swap", up[u].saw = avatar,
           \A v \in Handlers \ {u} : up'[v] = up[v], up'[u].file = up[u].file,
           avatar' = up[u].file, records' = records \ Replaced(u),
           UNCHANGED <<objects, kind, thumb, multi>>,
           excused \subseteq excused', lostSwaps \subseteq lostSwaps',
           \/ up'[u].phase = "sweep" /\ up'[u].keys = Replaced(u)
           \/ /\ up'[u].phase = "undoThumb" /\ up'[u].keys = {}
              /\ Replaced(u) \subseteq excused' /\ up[u].file \in lostSwaps'
    PROVE  ObjectsInv'
<1>1. PICK f, s : f = up[u].file /\ s = avatar
    OBVIOUS
<1>2. PICK R : R = Replaced(u)
    OBVIOUS
<1>3. f \in FileIds /\ Hand(f, up[u].try, "swap") /\ up[u].keys = {}
    BY <1>1, OwnerFacts
<1>4. Untouched(f) /\ Complete(f) /\ f # s
  <2>1. Untouched(f) /\ Complete(f)
    BY <1>3, Zenon DEF Hand, AtSwap
  <2> QED
    BY <1>1, <2>1 DEF Untouched
<1>5. /\ R \subseteq records
      /\ \A id \in R : id = <<s, 0>> \/ id = <<s, thumb[s]>>
      /\ <<s, 0>> \notin records \ R
    BY <1>1, <1>2, NamesAreIds
<1>6. \A id : id \in R => id \in up'[u].keys \/ id \in excused'
    BY <1>2
<1>7. \A v \in Handlers : up[v].keys \subseteq up'[v].keys
    BY <1>3
<1>8. /\ up'[u].keys \subseteq R /\ \A v \in Handlers : up'[v].keys \subseteq up[v].keys \cup R
      /\ \A v \in Handlers : up'[v].keys = up[v].keys \/ (v = u /\ up'[v].phase = "sweep")
    BY <1>2, <1>3
<1>9. records' = records \ R /\ avatar' = f
    BY <1>1, <1>2
<1>10. \A id : Settled(id) => Settled(id)'
    BY <1>6, <1>7, <1>9 DEF Settled
<1>11. \A id : Removed(id) => Removed(id)'
    BY DEF Removed
<1>12. \A g \in FileIds, n \in Slots : g # s => <<g, n>> \notin R
    BY <1>5
<1>13. \A g \in FileIds : Untouched(g) => g # s /\ Apart(g)
  <2>1. \A g \in FileIds : Untouched(g) => g # s
    BY <1>1 DEF Untouched
  <2> QED
    BY <1>9, <1>12, <2>1 DEF Apart
<1>14. \A g \in FileIds : Untouched(g) => Untouched(g)' \/ (Owns(u, g) /\ g = avatar')
  <2> SUFFICES ASSUME NEW g \in FileIds, Untouched(g), g # f PROVE Untouched(g)'
    BY <1>1, <1>9 DEF Owns
  <2>1. \A v \in Handlers, n \in Slots : <<g, n>> \notin up[v].keys /\ <<g, n>> \notin R
    BY <1>12, <1>13 DEF Untouched
  <2> QED
    BY <1>8, <1>9, <2>1 DEF Untouched
<1>15. \A g \in FileIds : Refused(g) => Refused(g)' \/ Owns(u, g)
    BY <1>1, <1>9 DEF Refused, Owns
<1>16. \A g \in FileIds : Rest(g) => Rest(g)'
  <2> SUFFICES ASSUME NEW g \in FileIds, Rest(g) PROVE Rest(g)'
    OBVIOUS
  <2>1. /\ \A n \in Slots : Settled(<<g, n>>)
        /\ kind[g] = "avatar" /\ <<g, 0>> \in records => g = avatar \/ <<g, 0>> \in excused
    BY Zenon DEF Rest
  <2>2. kind'[g] = "avatar" /\ <<g, 0>> \in records' => <<g, 0>> \in excused'
    BY <1>1, <1>5, <1>9, <2>1
  <2> QED
    BY <1>10, <2>1, <2>2, Zenon DEF Rest
<1>17. KeysInv'
  <2> SUFFICES ASSUME NEW v \in Handlers, NEW g \in FileIds, NEW n \in Slots,
                      <<g, n>> \in up'[v].keys
               PROVE  up'[v].phase = "sweep" /\ <<g, n>> \notin records' /\ g # avatar'
    BY DEF KeysInv
  <2>1. CASE v = u
    BY <1>4, <1>5, <1>8, <1>9, <2>1
  <2>2. CASE v # u
    <3>1. up'[v] = up[v] /\ <<g, n>> \in up[v].keys
      BY <2>2
    <3>2. up[v].phase = "sweep" /\ <<g, n>> \notin records
      BY <3>1 DEF ObjectsInv, KeysInv
    <3>3. g # f
      BY <1>4, <3>1 DEF Untouched
    <3> QED
      BY <1>9, <3>1, <3>2, <3>3
  <2> QED
    BY <2>1, <2>2
<1>18. Both(<<f, 0>>)' /\ (thumb[f] # 0 => Both(<<f, thumb[f]>>))'
  <2>1. Both(<<f, 0>>) /\ (thumb[f] # 0 => Both(<<f, thumb[f]>>))
    BY <1>4, Zenon DEF Complete
  <2>2. \A n : <<f, n>> \notin R
    BY <1>4, <1>5
  <2> QED
    BY <1>9, <2>1, <2>2 DEF Both
<1>19. AvatarInv'
  <2>1. Both(<<avatar, 0>>)' /\ (thumb[avatar] # 0 => Both(<<avatar, thumb[avatar]>>))'
    BY <1>9, <1>18
  <2> QED
    BY <2>1, Zenon DEF AvatarInv
<1>20. \A n \in Tries : Settled(<<f, n>>)'
  <2>1. \A n \in Tries : Settled(<<f, n>>)
    BY <1>4, Zenon DEF Complete
  <2> QED
    BY <1>10, <2>1
<1>21. ASSUME NEW t, NEW p, p = up'[u].phase PROVE Hand(f, t, p)'
  <2>1. CASE p = "sweep"
    <3>1. \A n \in Slots : Settled(<<f, n>>)'
      BY <1>18, <1>20, SlotFacts, SettledFacts
    <3>2. Rest(f)'
      BY <1>9, <3>1, Zenon DEF Rest
    <3> QED
      BY <2>1, <3>2, Zenon DEF Hand, BeforeThumb, AtSwap, AtUndo
  <2>2. CASE p = "undoThumb" /\ f \in lostSwaps'
    <3>1. Refused(f)'
      BY <2>2, Zenon DEF Refused
    <3> QED
      BY <1>20, <2>2, <3>1, Zenon DEF Hand, BeforeThumb, AtSwap, AtUndo
  <2> QED
    BY <1>1, <1>21, <2>1, <2>2
<1>22. Hand(up[u].file, up[u].try, up[u].phase)'
  <2>1. ASSUME NEW t, NEW p, NEW g, p = up'[u].phase, g = up'[u].file PROVE Hand(g, t, p)'
    <3>1. g = f
      BY <1>1, <2>1
    <3> QED
      BY <1>21, <2>1, <3>1, Zenon
  <2> QED
    BY <2>1, Zenon
<1>23. Owns(u, avatar')
    BY <1>1, <1>9 DEF Owns
<1>24. /\ \A v \in Handlers : /\ up'[v].phase = "idle" <=> up[v].phase = "idle"
                              /\ up'[v].file = up[v].file
       /\ \A id \in up'[u].keys : id \in up[u].keys \/ id \in records
       /\ records' \subseteq records /\ objects' \subseteq objects
    BY <1>5, <1>8, <1>9
<1> QED
    BY <1>10, <1>11, <1>13, <1>14, <1>15, <1>16, <1>17, <1>19, <1>22, <1>23, <1>24,
       SettlingStep

LEMMA SwapStep ==
    ASSUME FilesTypeOK, ObjectsInv, SwapInv, NEW u \in Handlers, Swap(u)
    PROVE  ObjectsInv'
<1>1. up[u].phase = "swap" /\ up[u].saw = avatar /\ UNCHANGED <<objects, kind, thumb, multi>>
    BY DEF Swap, SwapInv
<1>2. Replaced(u) \in SUBSET Ids /\ up[u].keys = {}
    BY <1>1, NamesAreIds, OwnerFacts DEF FilesTypeOK
<1>3. CASE /\ avatar' = up[u].file /\ records' = records \ Replaced(u)
           /\ up' = [up EXCEPT ![u].phase = "sweep", ![u].keys = Replaced(u)]
           /\ UNCHANGED <<excused, lostSwaps>>
  <2>1. /\ \A v \in Handlers \ {u} : up'[v] = up[v]
        /\ up'[u].phase = "sweep" /\ up'[u].keys = Replaced(u) /\ up'[u].file = up[u].file
    BY <1>2, <1>3, SwapFacts
  <2> QED
    BY <1>1, <1>3, <2>1, SwapCommits
<1>4. CASE Proceed(u, "swap", "undoThumb") /\ UNCHANGED <<avatar, records, excused, lostSwaps>>
    BY <1>1, <1>4, SwapFails
<1>5. CASE /\ Proceed(u, "swap", "undoThumb")
           /\ avatar' = up[u].file /\ records' = records \ Replaced(u)
           /\ excused' = excused \cup Replaced(u)
           /\ lostSwaps' = lostSwaps \cup {up[u].file}
  <2>1. /\ \A v \in Handlers \ {u} : up'[v] = up[v]
        /\ up'[u].phase = "undoThumb" /\ up'[u].keys = {} /\ up'[u].file = up[u].file
    BY <1>2, <1>5, ProceedFacts DEF UploadPhases
  <2> QED
    BY <1>1, <1>5, <2>1, SwapCommits
<1> QED
    BY <1>3, <1>4, <1>5 DEF Swap, histories

\* One replaced object is removed, or cannot be.
LEMMA SweepOne ==
    ASSUME FilesTypeOK, ObjectsInv, NEW u \in Handlers, up[u].phase = "sweep",
           NEW id \in up[u].keys, up' = [up EXCEPT ![u].keys = @ \ {id}],
           \/ objects' = objects \ {id} /\ UNCHANGED excused
           \/ excused' = excused \cup {id} /\ UNCHANGED objects,
           UNCHANGED <<records, kind, thumb, multi, avatar, lostSwaps>>
    PROVE  ObjectsInv'
<1>1. /\ \A v \in Handlers \ {u} : up'[v] = up[v]
      /\ up'[u].keys = up[u].keys \ {id} /\ up'[u].phase = up[u].phase
      /\ up'[u].file = up[u].file /\ up'[u].try = up[u].try
  <2>1. up \in [Handlers -> [phase : UploadPhases, file : FileIds, try : 1..RetryCount,
                             saw : 0..MaxFiles, keys : SUBSET Ids]]
    BY DEF FilesTypeOK
  <2> QED
    BY <2>1
<1>2. PICK g \in FileIds, n \in Slots : id = <<g, n>>
    BY UpFacts DEF Ids, Slots
<1>3. id \notin records /\ g # avatar
    BY <1>2 DEF ObjectsInv, KeysInv
<1>4. /\ excused \subseteq excused' /\ objects' \subseteq objects
      /\ id \notin objects' \/ id \in excused'
      /\ \A j : j # id => (j \in objects' <=> j \in objects)
    OBVIOUS
<1>5. \A j : Settled(j) => Settled(j)'
  <2>1. Settled(id)'
    BY <1>3, <1>4 DEF Settled
  <2>2. ASSUME NEW j, j # id, Settled(j) PROVE Settled(j)'
    BY <1>1, <1>4, <2>2 DEF Settled
  <2> QED
    BY <2>1, <2>2
<1>6. \A j : Removed(j) => Removed(j)'
    BY <1>4 DEF Removed
<1>7. \A h \in FileIds : Untouched(h) => Untouched(h)' /\ Apart(h)
  <2> SUFFICES ASSUME NEW h \in FileIds, Untouched(h) PROVE Untouched(h)' /\ Apart(h)
    OBVIOUS
  <2>1. h # g
    BY <1>2 DEF Untouched
  <2>2. Untouched(h)'
    BY <1>1 DEF Untouched
  <2>3. Apart(h)
    BY <1>2, <1>4, <2>1 DEF Apart
  <2> QED
    BY <2>2, <2>3
<1>8. \A h \in FileIds : Rest(h) => Rest(h)'
  <2> SUFFICES ASSUME NEW h \in FileIds, Rest(h) PROVE Rest(h)'
    OBVIOUS
  <2>1. /\ \A m \in Slots : Settled(<<h, m>>)
        /\ kind[h] = "avatar" /\ <<h, 0>> \in records => h = avatar \/ <<h, 0>> \in excused
    BY Zenon DEF Rest
  <2>2. kind'[h] = "avatar" /\ <<h, 0>> \in records' => h = avatar' \/ <<h, 0>> \in excused'
    BY <1>4, <2>1
  <2> QED
    BY <1>5, <2>1, <2>2, Zenon DEF Rest
<1>9. \A h \in FileIds : Refused(h) => Refused(h)'
    BY DEF Refused
<1>10. KeysInv'
    BY <1>1 DEF ObjectsInv, KeysInv
<1>11. AvatarInv'
  <2> SUFFICES ASSUME avatar # 0, avatar \notin lostSwaps
               PROVE  Both(<<avatar, 0>>)' /\ (thumb[avatar] # 0 => Both(<<avatar, thumb[avatar]>>))'
    BY Zenon DEF AvatarInv
  <2>1. Both(<<avatar, 0>>) /\ (thumb[avatar] # 0 => Both(<<avatar, thumb[avatar]>>))
    BY Zenon DEF ObjectsInv, AvatarInv
  <2> QED
    BY <1>2, <1>3, <1>4, <2>1 DEF Both
<1>12. Hand(up[u].file, up[u].try, up[u].phase)'
  <2>1. ASSUME NEW h, NEW t, NEW p, h = up'[u].file, t = up'[u].try, p = up'[u].phase
        PROVE  Hand(h, t, p)'
    <3>1. h \in FileIds /\ p = "sweep" /\ Hand(up[u].file, up[u].try, "sweep") /\ h = up[u].file
      BY <1>1, <2>1, OwnerFacts
    <3>2. Rest(h)'
      BY <1>8, <3>1 DEF Hand
    <3> QED
      BY <3>1, <3>2, Zenon DEF Hand, BeforeThumb, AtSwap, AtUndo
  <2> QED
    BY <2>1, Zenon
<1>13. /\ \A v \in Handlers : /\ up'[v].phase = "idle" <=> up[v].phase = "idle"
                              /\ up'[v].file = up[v].file
       /\ \A j \in up'[u].keys : j \in up[u].keys \/ j \in records
    BY <1>1
<1> QED
    BY <1>1, <1>4, <1>5, <1>6, <1>7, <1>8, <1>9, <1>10, <1>11, <1>12, <1>13, SettlingStep

LEMMA SweepStep ==
    ASSUME FilesTypeOK, ObjectsInv, NEW u \in Handlers, Sweep(u)
    PROVE  ObjectsInv'
<1>1. up[u].phase = "sweep" /\ UNCHANGED <<records, kind, thumb, multi, avatar, lostSwaps>>
    BY DEF Sweep
<1>2. CASE up[u].keys = {} /\ Proceed(u, "sweep", "idle") /\ UNCHANGED <<objects, excused>>
  <2>1. PICK f : f = up[u].file
    OBVIOUS
  <2>2. /\ f \in FileIds /\ Hand(f, up[u].try, "sweep") /\ ~Unborn(f)
        /\ \A v \in Handlers \ {u} : ~Owns(v, f)
    BY <1>1, <2>1, OwnerFacts
  <2>3. /\ \A v \in Handlers \ {u} : up'[v] = up[v]
        /\ up'[u].keys = {} /\ up'[u].phase = "idle"
    BY <1>2, ProceedFacts, IdleFacts DEF UploadPhases
  <2>4. \A g \in FileIds : Apart(g)
    BY <1>1, <1>2 DEF Apart
  <2>5. ~Unborn(f)'
    BY <1>1, <2>2 DEF Unborn
  <2>6. \A v \in Handlers, n \in Slots : <<f, n>> \in up[v].keys => <<f, n>> \notin records'
    BY <1>1, <2>2 DEF ObjectsInv, KeysInv
  <2>7. OwnFrame(u, f)
    BY <1>1, <1>2, <2>1, <2>2, <2>3, <2>4, <2>5, <2>6 DEF OwnFrame
  <2>8. \A v \in Handlers : up'[v].keys = up[v].keys
    BY <1>2, <2>3
  <2>9. Rest(f)
    BY <2>2, Zenon DEF Hand
  <2>10. Rest(f)'
    BY <1>1, <1>2, <2>2, <2>4, <2>8, <2>9, ApartFile
  <2> QED
    BY <2>2, <2>3, <2>7, <2>10, OwnStep
<1>3. CASE \E id \in up[u].keys :
              /\ up' = [up EXCEPT ![u].keys = @ \ {id}]
              /\ \/ objects' = objects \ {id} /\ UNCHANGED excused
                 \/ excused' = excused \cup {id} /\ UNCHANGED objects
    BY <1>1, <1>3, SweepOne
<1> QED
    BY <1>2, <1>3 DEF Sweep

-----------------------------------------------------------------------------
(* A crash, and the invariant as a whole.                                   *)

LEMMA CrashStep ==
    ASSUME FilesTypeOK, ObjectsInv, Crash
    PROVE  ObjectsInv'
<1>1. /\ up' = [u \in Handlers |-> Idle] /\ excused' = excused \cup AllInHand
      /\ UNCHANGED <<objects, records, kind, thumb, multi, avatar, lostSwaps>>
    BY DEF Crash, stored
<1>2. \A u \in Handlers : up'[u].phase = "idle" /\ up'[u].keys = {}
    BY <1>1, IdleFacts
<1>3. \A u \in Handlers : \A g : ~Owns(u, g)'
    BY <1>2 DEF Owns
<1>4. KeysInv' /\ OwnerInv' /\ HandInv'
  <2>1. KeysInv'
    BY <1>2 DEF KeysInv
  <2>2. OwnerInv'
    BY <1>3 DEF OwnerInv
  <2>3. HandInv'
    BY <1>2, Zenon DEF HandInv
  <2> QED
    BY <2>1, <2>2, <2>3
<1>5. FreshInv'
    BY <1>1, <1>2, <1>3 DEF ObjectsInv, FreshInv, FreshOf, Unborn, Gone
<1>6. AvatarInv'
    BY <1>1 DEF ObjectsInv, AvatarInv, Both
<1>7. ASSUME NEW u \in Handlers, NEW g \in FileIds, NEW n \in Slots,
             Owns(u, g) \/ <<g, n>> \in up[u].keys
      PROVE  <<g, n>> \in excused'
  <2>1. up[u].phase # "idle"
    BY <1>7, OwnerFacts DEF Owns
  <2>2. <<g, n>> \in InHand(u)
    BY <1>7, <2>1 DEF InHand, Owns, Slots
  <2> QED
    BY <1>1, <2>2 DEF AllInHand
<1>8. RestInv'
  <2> SUFFICES ASSUME NEW g \in FileIds PROVE Rest(g)'
    BY DEF RestInv
  <2>1. CASE \E u \in Handlers : Owns(u, g)
    <3>1. \A n \in Slots : <<g, n>> \in excused'
      BY <1>7, <2>1
    <3>2. \A n \in Slots : Settled(<<g, n>>)'
      BY <3>1, SettledFacts
    <3> QED
      BY <3>1, <3>2, SlotFacts, Zenon DEF Rest
  <2>2. CASE \A u \in Handlers : ~Owns(u, g)
    <3>1. /\ \A n \in Slots : Settled(<<g, n>>)
          /\ kind[g] = "avatar" /\ <<g, 0>> \in records => g = avatar \/ <<g, 0>> \in excused
      BY <2>2 DEF ObjectsInv, RestInv, Rest
    <3>2. \A n \in Slots : Settled(<<g, n>>)'
      BY <1>1, <1>7, <3>1 DEF Settled
    <3>3. kind'[g] = "avatar" /\ <<g, 0>> \in records' => g = avatar' \/ <<g, 0>> \in excused'
      BY <1>1, <3>1
    <3> QED
      BY <3>2, <3>3, Zenon DEF Rest
  <2> QED
    BY <2>1, <2>2
<1> QED
    BY <1>4, <1>5, <1>6, <1>8 DEF ObjectsInv

LEMMA ObjectsStays ==
    ASSUME ObjectsInv, UNCHANGED filesVars
    PROVE  ObjectsInv'
<1>1. UNCHANGED <<objects, records, thumb, kind, multi, avatar, up, excused, lostSwaps>>
    BY DEF filesVars, stored, histories
<1>2. KeysInv' /\ OwnerInv' /\ FreshInv' /\ AvatarInv'
    BY <1>1 DEF ObjectsInv, KeysInv, OwnerInv, FreshInv, FreshOf, Unborn, Owns, AvatarInv,
                Gone, Both
<1>3. RestInv'
    BY <1>1 DEF ObjectsInv, RestInv, Rest, Settled, Owns
<1>4. HandInv'
    BY <1>1 DEF ObjectsInv, HandInv, Hand, Untouched, Uploaded, Tried, Complete, Refused,
                Removed, Rest, Settled, Gone, Both
<1> QED
    BY <1>2, <1>3, <1>4 DEF ObjectsInv

LEMMA ObjectsStep ==
    ASSUME FilesTypeOK, ObjectsInv, SwapInv, [FilesNext]_filesVars
    PROVE  ObjectsInv'
<1>1. ASSUME NEW u \in Handlers, Handler(u) PROVE ObjectsInv'
    BY <1>1, UploadSteps, CheckStep, InsertRowStep, NoThumbStep, PutThumbStep, InsertThumbStep,
       LinkStep, LockStep, SwapStep, SweepStep, UndoStep, UndoFailsStep DEF Handler
<1>2. ASSUME NEW f \in FileIds,
             StartMultipartUpload(f) \/ UploadPart(f) \/ AbortMultipartUpload(f)
      PROVE  ObjectsInv'
    BY <1>2, MultipartSteps
<1> QED
    BY <1>1, <1>2, CrashStep, ObjectsStays DEF FilesNext

LEMMA ObjectsInitially ==
    ASSUME FilesInit
    PROVE  ObjectsInv /\ SwapInv
<1>1. \A u \in Handlers : up[u].phase = "idle" /\ up[u].keys = {}
    BY IdleFacts DEF FilesInit
<1>2. \A u \in Handlers : \A f : ~Owns(u, f)
    BY <1>1 DEF Owns
<1>3. \A id : Gone(id) /\ Settled(id)
    BY DEF FilesInit, Gone, Settled
<1>4. KeysInv /\ OwnerInv /\ SwapInv
    BY <1>1, <1>2 DEF KeysInv, OwnerInv, SwapInv
<1>5. FreshInv
    BY <1>1, <1>2, <1>3 DEF FilesInit, FreshInv, FreshOf, Unborn, FileIds
<1>6. RestInv
    BY <1>3 DEF FilesInit, RestInv, Rest
<1>7. HandInv
    BY <1>1, Zenon DEF HandInv
<1>8. AvatarInv
    BY DEF FilesInit, AvatarInv
<1> QED
    BY <1>4, <1>5, <1>6, <1>7, <1>8 DEF ObjectsInv

\* A handler does not come to the swap except by the lock.
LEMMA MovesOn ==
    ASSUME SwapInv, NEW u \in Handlers, \A v \in Handlers \ {u} : up'[v] = up[v],
           up'[u].phase # "swap", avatar' = avatar
    PROVE  SwapInv'
<1>1. \A v \in Handlers : up'[v].phase = "swap" => v # u /\ up[v].phase = "swap" /\ up'[v] = up[v]
    OBVIOUS
<1> QED
    BY <1>1 DEF SwapInv

LEMMA SwapInvStep ==
    ASSUME FilesTypeOK, SwapInv, [FilesNext]_filesVars
    PROVE  SwapInv'
<1>1. up \in [Handlers -> [phase : UploadPhases, file : FileIds, try : 1..RetryCount,
                           saw : 0..MaxFiles, keys : SUBSET Ids]]
    BY DEF FilesTypeOK
<1>2. ASSUME UNCHANGED <<up, avatar>> PROVE SwapInv'
    BY <1>2 DEF SwapInv
<1>3. ASSUME NEW u \in Handlers, NEW from, NEW to \in UploadPhases \ {"swap"},
             Proceed(u, from, to), avatar' = avatar
      PROVE  SwapInv'
    BY <1>3, ProceedFacts, MovesOn
<1>4. ASSUME NEW u \in Handlers, NEW f \in FileIds,
             \/ Upload(u, f) \/ UploadAvatar(u, f) \/ SaveAIGCImageFromURL(u, f)
             \/ CompleteMultipartUpload(u, f)
      PROVE  SwapInv'
  <2> DEFINE w == [Idle EXCEPT !.phase = "check", !.file = f]
  <2>1. w.phase = "check"
    BY DEF Idle
  <2>2. (UNCHANGED up \/ up' = [up EXCEPT ![u] = w]) /\ avatar' = avatar
    BY <1>4 DEF Upload, UploadAvatar, SaveAIGCImageFromURL, PutObject, CompleteMultipartUpload
  <2> HIDE DEF w
  <2>3. CASE up' = [up EXCEPT ![u] = w]
    <3>1. up'[u] = w /\ \A v \in Handlers \ {u} : up'[v] = up[v]
      BY <1>1, <2>3
    <3> QED
      BY <2>1, <2>2, <3>1, MovesOn
  <2> QED
    BY <1>2, <2>2, <2>3
<1>5. ASSUME NEW u \in Handlers, Check(u) \/ InsertRow(u) \/ Undo(u) \/ UndoFails(u) PROVE SwapInv'
  <2>1. avatar' = avatar /\ \E from, to \in UploadPhases \ {"swap"} : Proceed(u, from, to)
    BY <1>5 DEF Check, InsertRow, Undo, UndoFails, UploadPhases
  <2> QED
    BY <1>3, <2>1
<1>6. ASSUME NEW u \in Handlers, NoThumb(u) \/ PutThumb(u) \/ InsertThumb(u) \/ Link(u)
      PROVE  SwapInv'
  <2>1. /\ avatar' = avatar
        /\ NextTry(u) \/ \E from, to \in UploadPhases \ {"swap"} : Proceed(u, from, to)
    BY <1>6 DEF NoThumb, PutThumb, InsertThumb, Link, After, UploadPhases
  <2>2. ASSUME NextTry(u) PROVE SwapInv'
    BY <2>1, <2>2, NextTryFacts, MovesOn, IdleFacts
  <2> QED
    BY <1>3, <2>1, <2>2
<1>7. ASSUME NEW u \in Handlers, Lock(u) PROVE SwapInv'
  <2>1. /\ \A v \in Handlers \ {u} : up'[v] = up[v] /\ up[v].phase # "swap"
        /\ up'[u].phase = "swap" /\ up'[u].saw = avatar /\ avatar' = avatar
    BY <1>7, LockFacts DEF Lock
  <2> QED
    BY <2>1 DEF SwapInv
<1>8. ASSUME NEW u \in Handlers, Swap(u) PROVE SwapInv'
  <2>1. /\ up[u].phase = "swap"
        /\ \/ up' = [up EXCEPT ![u].phase = "sweep", ![u].keys = Replaced(u)]
           \/ Proceed(u, "swap", "undoThumb")
    BY <1>8 DEF Swap
  <2>2. \A v \in Handlers \ {u} : up[v].phase # "swap"
    BY <2>1 DEF SwapInv
  <2>3. Replaced(u) \in SUBSET Ids
    BY NamesAreIds DEF FilesTypeOK
  <2>4. \A v \in Handlers : up'[v].phase # "swap"
    <3>1. CASE up' = [up EXCEPT ![u].phase = "sweep", ![u].keys = Replaced(u)]
      BY <2>2, <2>3, <3>1, SwapFacts
    <3>2. CASE Proceed(u, "swap", "undoThumb")
      BY <2>2, <3>2, ProceedFacts DEF UploadPhases
    <3> QED
      BY <2>1, <3>1, <3>2
  <2> QED
    BY <2>4 DEF SwapInv
<1>9. ASSUME NEW u \in Handlers, Sweep(u) PROVE SwapInv'
  <2>1. /\ up[u].phase = "sweep" /\ avatar' = avatar
        /\ \/ Proceed(u, "sweep", "idle")
           \/ \E id \in up[u].keys : up' = [up EXCEPT ![u].keys = @ \ {id}]
    BY <1>9 DEF Sweep
  <2>2. ASSUME NEW id \in up[u].keys, up' = [up EXCEPT ![u].keys = @ \ {id}] PROVE SwapInv'
    <3>1. up'[u].phase = "sweep" /\ \A v \in Handlers \ {u} : up'[v] = up[v]
      BY <1>1, <2>1, <2>2
    <3> QED
      BY <2>1, <3>1, MovesOn
  <2> QED
    BY <1>3, <2>1, <2>2 DEF UploadPhases
<1>10. ASSUME NEW f \in FileIds,
              StartMultipartUpload(f) \/ UploadPart(f) \/ AbortMultipartUpload(f)
       PROVE  SwapInv'
    BY <1>2, <1>10 DEF StartMultipartUpload, UploadPart, AbortMultipartUpload
<1>11. CASE Crash
  <2>1. \A u \in Handlers : up'[u].phase # "swap"
    BY <1>11, IdleFacts DEF Crash
  <2> QED
    BY <2>1 DEF SwapInv
<1>12. CASE UNCHANGED filesVars
    BY <1>2, <1>12 DEF filesVars
<1> QED
    BY <1>4, <1>5, <1>6, <1>7, <1>8, <1>9, <1>10, <1>11, <1>12 DEF FilesNext, Handler

-----------------------------------------------------------------------------
(* What the invariant says of the runs' properties.                         *)

LEMMA HandsAreSeen ==
    ASSUME FilesTypeOK, ObjectsInv, NEW u \in Handlers, NEW f \in FileIds, NEW n \in Slots,
           Owns(u, f) \/ <<f, n>> \in up[u].keys
    PROVE  <<f, n>> \in AllInHand
<1>1. up[u].phase # "idle"
    BY OwnerFacts DEF Owns
<1>2. <<f, n>> \in InHand(u)
    BY <1>1 DEF InHand, Owns, Slots
<1> QED
    BY <1>2 DEF AllInHand

LEMMA ObjectsInvMeans ==
    ASSUME FilesTypeOK, ObjectsInv
    PROVE  ObjectsMatchRows /\ AvatarIsThere /\ OneAvatar
<1>1. ObjectsMatchRows
  <2>1. ASSUME NEW f \in FileIds, NEW n \in Slots,
               (<<f, n>> \in objects) # (<<f, n>> \in records)
        PROVE  <<f, n>> \in excused \cup AllInHand
    <3>1. CASE \E u \in Handlers : Owns(u, f)
      BY <3>1, HandsAreSeen
    <3>2. CASE \A u \in Handlers : ~Owns(u, f)
      <4>1. Settled(<<f, n>>)
        BY <3>2 DEF ObjectsInv, RestInv, Rest
      <4>2. <<f, n>> \in excused \/ \E v \in Handlers : <<f, n>> \in up[v].keys
        BY <2>1, <4>1 DEF Settled
      <4> QED
        BY <4>2, HandsAreSeen
    <3> QED
      BY <3>1, <3>2
  <2>2. \A id \in Ids : \E f \in FileIds, n \in Slots : id = <<f, n>>
    BY DEF Ids, Slots
  <2> QED
    BY <2>1, <2>2 DEF ObjectsMatchRows
<1>2. AvatarIsThere
  <2> SUFFICES ASSUME avatar # 0, avatar \notin lostSwaps
               PROVE  \A id \in {<<avatar, 0>>, AvatarThumb} :
                          PresignDownload(id) = "url" /\ id \in objects
    BY DEF AvatarIsThere
  <2>1. Both(<<avatar, 0>>) /\ (thumb[avatar] # 0 => Both(<<avatar, thumb[avatar]>>))
    BY DEF ObjectsInv, AvatarInv
  <2>2. Both(<<avatar, 0>>) /\ Both(AvatarThumb)
    BY <2>1 DEF AvatarThumb
  <2> QED
    BY <2>2 DEF Both, PresignDownload
<1>3. OneAvatar
  <2> SUFFICES ASSUME NEW f \in FileIds, kind[f] = "avatar", <<f, 0>> \in records
               PROVE  f = avatar \/ <<f, 0>> \in excused \cup AllInHand
    BY DEF OneAvatar
  <2>1. CASE \E u \in Handlers : Owns(u, f)
    BY <2>1, HandsAreSeen, SlotFacts
  <2>2. CASE \A u \in Handlers : ~Owns(u, f)
    BY <2>2 DEF ObjectsInv, RestInv, Rest
  <2> QED
    BY <2>1, <2>2
<1> QED
    BY <1>1, <1>2, <1>3

FilesInv == FilesTypeOK /\ ObjectsInv /\ SwapInv

\* FilesInv is inductive: no step of any handler, and no failure or crash, breaks
\* the account of what each handler has left half done, or of the avatar.
THEOREM FilesInductive == FilesSpec => []FilesInv
<1>1. FilesInit => FilesInv
    BY FilesTypesInitially, ObjectsInitially DEF FilesInv
<1>2. FilesInv /\ [FilesNext]_filesVars => FilesInv'
    BY FilesTypeStep, ObjectsStep, SwapInvStep DEF FilesInv
<1> QED
    BY <1>1, <1>2, PTL DEF FilesSpec

\* Every variable keeps its type.
THEOREM FilesTypeCorrect == FilesSpec => []FilesTypeOK
<1>1. FilesInv => FilesTypeOK
    BY DEF FilesInv
<1> QED
    BY <1>1, FilesInductive, PTL

\* Every object has its row and every row its object, for any number of handlers,
\* unless a handler works on the file, or failed or died while it did.
THEOREM NothingIsOrphaned == FilesSpec => []ObjectsMatchRows
<1>1. FilesInv => ObjectsMatchRows
    BY ObjectsInvMeans DEF FilesInv
<1> QED
    BY <1>1, FilesInductive, PTL

\* The URLs of the user's avatar lead to an object, unless the request that set it
\* was told that it failed and deleted what had become the avatar.
THEOREM AvatarIsServed == FilesSpec => []AvatarIsThere
<1>1. FilesInv => AvatarIsThere
    BY ObjectsInvMeans DEF FilesInv
<1> QED
    BY <1>1, FilesInductive, PTL

\* However the requests of the user interleave, the row of every avatar but the
\* last is deleted.
THEOREM AvatarIsOne == FilesSpec => []OneAvatar
<1>1. FilesInv => OneAvatar
    BY ObjectsInvMeans DEF FilesInv
<1> QED
    BY <1>1, FilesInductive, PTL
=============================================================================
