---------------------------- MODULE MessageProofs -----------------------------
(***************************************************************************)
(* Theorems about a message on its way: RoomLog, which numbers and stores  *)
(* it, and HubRouter, which brings it to the connections of several nodes, *)
(* for every number of senders, nodes, connections, messages and faults.   *)
(*                                                                         *)
(* RoomLog: a transaction about to insert read some last number that is at *)
(* most the length of the log (Reading); the unique index refuses it       *)
(* unless it is exactly that length, so the log stays numbered 1..n.  The  *)
(* attempts used so far are paid for by the rows committed between the     *)
(* start of the save and the number last read (Reading, Paying).  And it   *)
(* implements ChatLog.                                                     *)
(*                                                                         *)
(* HubRouter: for each node a message is not routed yet, or the node is    *)
(* still a target, or the message is on its wire, or neither; these        *)
(* exclude each other, and until the last none of the node's connections   *)
(* has got the message (OnceInv), while each connection that is owed it    *)
(* has a target or a payload to wait for (OwedInv).  What the local counts *)
(* say of the open connections (CountInv) is what makes an SREM that hits  *)
(* a live connection one of the races Reachable names.                     *)
(***************************************************************************)
EXTENDS RoomLog, HubRouter, SequenceTheorems, FiniteSetTheorems, TLAPS

-----------------------------------------------------------------------------
(* RoomLog.                                                                 *)

Rows == [seq : Nat, sender : Senders, post : Nat, parent : Nat]

Locked == {"locking", "inserting"}

ReadingOf(s) ==
    pc[s] \in Locked =>
        /\ call[s].last <= Len(log)
        /\ call[s].parent <= call[s].last
        /\ call[s].start <= call[s].last
        /\ call[s].attempt <= 1 + call[s].excused + (call[s].last - call[s].start)

PayingOf(s) ==
    pc[s] \in Saving =>
        /\ call[s].start <= Len(log)
        /\ call[s].attempt <= 1 + call[s].excused + (Len(log) - call[s].start)

FreshOf(s) ==
    pc[s] \in Saving =>
        \A i \in 1 .. Len(log) :
            log[i].sender = s /\ log[i].post = posts[s] => <<s, posts[s]>> \in ambiguous

Reading == \A s \in Senders : ReadingOf(s)
Paying == \A s \in Senders : PayingOf(s)
Fresh == \A s \in Senders : FreshOf(s)

Authored == \A i \in 1 .. Len(log) : log[i].post <= posts[log[i].sender]

\* The inductive invariant.
RoomInv ==
    /\ SequenceIsGapless /\ Reading /\ Paying /\ DropsArePaid
    /\ Authored /\ Fresh /\ StoredOnce

-----------------------------------------------------------------------------
(* In a gapless log the numbers in use are 1 .. n, and the last is n.        *)
LEMMA LastIsLength ==
    ASSUME TypeOK, SequenceIsGapless
    PROVE  /\ Sequences = 1 .. Len(log)
           /\ LastSequence = Len(log)
<1>1. Len(log) \in Nat
    BY DEF TypeOK
<1>2. Sequences = 1 .. Len(log)
    BY <1>1 DEF Sequences, SequenceIsGapless
<1>3. {0} \cup Sequences = 0 .. Len(log)
    BY <1>1, <1>2
<1>4. \A x \in 0 .. Len(log) : (\A y \in 0 .. Len(log) : x >= y) <=> x = Len(log)
    BY <1>1
<1>5. Max(0 .. Len(log)) = Len(log)
    BY <1>1, <1>4 DEF Max
<1> QED
    BY <1>2, <1>3, <1>5 DEF LastSequence

(* What a committing INSERT does to the log.                                 *)
LEMMA RowAppended ==
    ASSUME TypeOK, SequenceIsGapless, Reading, NEW s \in Senders,
           pc[s] = "inserting", call[s].last + 1 \notin Sequences,
           log' = Append(log, Row(s))
    PROVE  /\ call[s].last = Len(log)
           /\ log' \in Seq(Rows)
           /\ Len(log') = Len(log) + 1
           /\ \A i \in 1 .. Len(log) : log'[i] = log[i]
           /\ log'[Len(log) + 1] = Row(s)
           /\ Row(s) \in Rows
           /\ Row(s).seq = Len(log) + 1 /\ Row(s).sender = s
           /\ Row(s).post = posts[s] /\ Row(s).parent = call[s].parent
<1>1. call[s] \in Calls /\ posts[s] \in Nat /\ Len(log) \in Nat /\ log \in Seq(Rows)
    BY DEF TypeOK, Rows
<1>2. Row(s) \in Rows
    BY <1>1 DEF Row, Rows, Calls
<1>3. call[s].last = Len(log)
  <2>1. call[s].last \in Nat
    BY <1>1 DEF Calls
  <2>2. call[s].last <= Len(log)
    BY DEF Reading, ReadingOf, Locked
  <2>3. call[s].last + 1 \notin 1 .. Len(log)
    BY LastIsLength
  <2> QED
    BY <1>1, <2>1, <2>2, <2>3
<1>4. /\ log' \in Seq(Rows)
      /\ Len(log') = Len(log) + 1
      /\ \A i \in 1 .. Len(log) : log'[i] = log[i]
      /\ log'[Len(log) + 1] = Row(s)
    BY <1>1, <1>2, AppendProperties
<1> QED
    BY <1>1, <1>2, <1>3, <1>4 DEF Row

(* A failed attempt keeps the types.                                         *)
LEMMA RetryType ==
    ASSUME TypeOK, Paying, NEW s \in Senders, pc[s] \in Saving,
           NEW e \in {0, 1}, Retry(s, e)
    PROVE  /\ pc' \in [Senders -> Phases]
           /\ call' \in [Senders -> Calls]
           /\ dropped' \subseteq [excused : Nat, during : Nat]
<1>1. call[s] \in Calls /\ Len(log) \in Nat
    BY DEF TypeOK
<1>2. Len(log) - call[s].start \in Nat /\ call[s].excused + e \in Nat
    BY <1>1 DEF Paying, PayingOf, Calls
<1>3. NextAttempt(call[s], e) \in Calls
    BY <1>1, <1>2 DEF Calls, NextAttempt
<1>4. CASE call[s].attempt < MaxRetries
    BY <1>3, <1>4 DEF Retry, TypeOK, Phases
<1>5. CASE ~(call[s].attempt < MaxRetries)
  <2>1. NoCall \in Calls
    BY DEF NoCall, Calls
  <2>2. pc' \in [Senders -> Phases] /\ call' \in [Senders -> Calls]
    BY <1>5, <2>1 DEF Retry, Return, TypeOK, Phases
  <2>3. dropped' = dropped \cup {[excused |-> call[s].excused + e, during |-> Len(log) - call[s].start]}
    BY <1>5 DEF Retry
  <2> QED
    BY <1>2, <2>2, <2>3 DEF TypeOK
<1> QED
    BY <1>4, <1>5

(* Every step keeps the types.                                               *)
LEMMA TypeStep ==
    ASSUME TypeOK, SequenceIsGapless, Reading, Paying, [RoomNext]_vars
    PROVE  TypeOK'
<1>1. CASE UNCHANGED vars
    BY <1>1 DEF TypeOK, vars
<1>2. ASSUME NEW s \in Senders, NEW p \in 0 .. Len(log) + 1, Post(s, p)
      PROVE  TypeOK'
  <2>1. FirstAttempt(p, Len(log)) \in Calls
    BY <1>2 DEF FirstAttempt, Calls, TypeOK
  <2> QED
    BY <1>2, <2>1 DEF Post, TypeOK, Phases
<1>3. ASSUME NEW s \in Senders, Save(s) \/ SaveFails(s) \/ CommitUnknown(s) \/ RouteFails(s)
      PROVE  TypeOK'
  <2>0. call[s] \in Calls /\ Len(log) \in Nat
    BY DEF TypeOK
  <2>1. CASE Begin(s)
    <3>1. [call[s] EXCEPT !.last = LastSequence] \in Calls
      BY <2>0, LastIsLength DEF Calls
    <3>2. call' = [call EXCEPT ![s] = [call[s] EXCEPT !.last = LastSequence]]
      BY <2>1 DEF Begin, TypeOK
    <3> QED
      BY <2>1, <3>1, <3>2 DEF Begin, TypeOK, Phases
  <2>2. CASE ParentMissing(s)
    <3>1. pc[s] \in Saving /\ Retry(s, 1) /\ UNCHANGED <<log, posts, sent, faults, ambiguous>>
      BY <2>2 DEF ParentMissing, Saving
    <3>2. /\ pc' \in [Senders -> Phases]
          /\ call' \in [Senders -> Calls]
          /\ dropped' \subseteq [excused : Nat, during : Nat]
      BY <3>1, RetryType
    <3> QED
      BY <3>1, <3>2 DEF TypeOK
  <2>3. CASE Lock(s)
    BY <2>3 DEF Lock, TypeOK, Phases
  <2>4. CASE Insert(s)
    <3>1. log' \in Seq(Rows)
      BY <2>4, RowAppended DEF Insert
    <3> QED
      BY <2>4, <3>1 DEF Insert, TypeOK, Phases, Rows
  <2>5. CASE Conflict(s)
    <3>1. pc[s] \in Saving /\ Retry(s, 0) /\ UNCHANGED <<log, posts, sent, faults, ambiguous>>
      BY <2>5 DEF Conflict, Saving
    <3>2. /\ pc' \in [Senders -> Phases]
          /\ call' \in [Senders -> Calls]
          /\ dropped' \subseteq [excused : Nat, during : Nat]
      BY <3>1, RetryType
    <3> QED
      BY <3>1, <3>2 DEF TypeOK
  <2>6. CASE Route(s)
    <3>1. sent' \in Seq(Nat)
      BY <2>0, <2>6, AppendProperties DEF Route, TypeOK, Calls
    <3> QED
      BY <2>6, <3>1 DEF Route, Return, TypeOK, Phases, Calls, NoCall
  <2>7. CASE SaveFails(s)
    <3>1. pc[s] \in Saving /\ Retry(s, 1) /\ UNCHANGED <<log, posts, sent, ambiguous>>
      BY <2>7 DEF SaveFails, Saving
    <3>2. /\ pc' \in [Senders -> Phases]
          /\ call' \in [Senders -> Calls]
          /\ dropped' \subseteq [excused : Nat, during : Nat]
      BY <3>1, RetryType
    <3>3. faults' \in Nat
      BY <2>7 DEF SaveFails, Fault, TypeOK
    <3> QED
      BY <3>1, <3>2, <3>3 DEF TypeOK
  <2>8. CASE CommitUnknown(s)
    <3>1. log' \in Seq(Rows)
      BY <2>8, RowAppended DEF CommitUnknown
    <3>2. ambiguous' \subseteq Senders \X Nat
      BY <2>8 DEF CommitUnknown, TypeOK
    <3>3. pc[s] \in Saving /\ Retry(s, 1) /\ UNCHANGED <<posts, sent>>
      BY <2>8 DEF CommitUnknown, Saving
    <3>4. /\ pc' \in [Senders -> Phases]
          /\ call' \in [Senders -> Calls]
          /\ dropped' \subseteq [excused : Nat, during : Nat]
      BY <3>3, RetryType
    <3>5. faults' \in Nat
      BY <2>8 DEF CommitUnknown, Fault, TypeOK
    <3> QED
      BY <3>1, <3>2, <3>3, <3>4, <3>5 DEF TypeOK, Rows
  <2>9. CASE RouteFails(s)
    <3>1. /\ pc' = [pc EXCEPT ![s] = "idle"] /\ call' = [call EXCEPT ![s] = NoCall]
          /\ faults' = faults + 1
          /\ UNCHANGED <<log, posts, sent, dropped, ambiguous>>
      BY <2>9 DEF RouteFails, Return, Fault
    <3>2. "idle" \in Phases /\ NoCall \in Calls
      BY DEF Phases, Calls, NoCall
    <3>3. pc' \in [Senders -> Phases] /\ call' \in [Senders -> Calls]
      BY <3>1, <3>2 DEF TypeOK
    <3>4. faults' \in Nat
      BY <3>1 DEF TypeOK
    <3> QED
      BY <3>1, <3>3, <3>4 DEF TypeOK
  <2>10. CASE Save(s)
    BY <2>10, <2>1, <2>2, <2>3, <2>4, <2>5, <2>6, Zenon DEF Save
  <2> QED
    BY <1>3, <2>7, <2>8, <2>9, <2>10, Zenon
<1> QED
    BY <1>1, <1>2, <1>3 DEF RoomNext

-----------------------------------------------------------------------------
(* A sender that does not move is not disturbed when the log stays or gets   *)
(* a row of somebody else.                                                   *)
LEMMA Undisturbed ==
    ASSUME TypeOK, RoomInv, NEW o \in Senders,
           pc'[o] = pc[o], call'[o] = call[o], posts'[o] = posts[o],
           ambiguous \subseteq ambiguous',
           \/ log' = log
           \/ /\ Len(log') = Len(log) + 1
              /\ \A i \in 1 .. Len(log) : log'[i] = log[i]
              /\ log'[Len(log) + 1].sender # o
    PROVE  ReadingOf(o)' /\ PayingOf(o)' /\ FreshOf(o)'
<1>1. call[o] \in Calls /\ Len(log) \in Nat
    BY DEF TypeOK
<1>2. Len(log') \in Nat /\ Len(log) <= Len(log')
    BY <1>1
<1>3. ReadingOf(o) /\ PayingOf(o) /\ FreshOf(o)
    BY DEF RoomInv, Reading, Paying, Fresh
<1>4. ReadingOf(o)' /\ PayingOf(o)'
    BY <1>1, <1>2, <1>3 DEF ReadingOf, PayingOf, Calls
<1>5. \A i \in 1 .. Len(log') : log'[i].sender = o => i \in 1 .. Len(log) /\ log'[i] = log[i]
    BY <1>1
<1>6. FreshOf(o)'
    BY <1>3, <1>5 DEF FreshOf
<1> QED
    BY <1>4, <1>6

(* What an appended row does to the parts of the invariant about the log.    *)
LEMMA CommitInv ==
    ASSUME TypeOK, RoomInv, NEW s \in Senders,
           pc[s] = "inserting", call[s].last + 1 \notin Sequences,
           log' = Append(log, Row(s)), posts' = posts,
           ambiguous \subseteq ambiguous'
    PROVE  SequenceIsGapless' /\ Authored' /\ StoredOnce'
<1>1. Len(log) \in Nat /\ posts[s] \in Nat
    BY DEF TypeOK
<1>2. /\ call[s].last = Len(log)
      /\ Len(log') = Len(log) + 1
      /\ \A i \in 1 .. Len(log) : log'[i] = log[i]
      /\ log'[Len(log) + 1].seq = Len(log) + 1
      /\ log'[Len(log) + 1].sender = s
      /\ log'[Len(log) + 1].post = posts[s]
    BY RowAppended DEF RoomInv
<1>3. \A i \in 1 .. Len(log') : i \in 1 .. Len(log) \/ i = Len(log) + 1
    BY <1>1, <1>2
<1>4. SequenceIsGapless'
    BY <1>2, <1>3 DEF SequenceIsGapless, RoomInv
<1>5. Authored'
    BY <1>1, <1>2, <1>3 DEF Authored, RoomInv
<1>6. StoredOnce'
  <2>1. \A i \in 1 .. Len(log) :
            log[i].sender = s /\ log[i].post = posts[s] => <<s, posts[s]>> \in ambiguous'
    BY DEF RoomInv, Fresh, FreshOf, Saving
  <2>2. \A i, j \in 1 .. Len(log) :
            log[i].sender = log[j].sender /\ log[i].post = log[j].post
            => i = j \/ <<log[i].sender, log[i].post>> \in ambiguous'
    BY DEF RoomInv, StoredOnce
  <2> SUFFICES ASSUME NEW i \in 1 .. Len(log'), NEW j \in 1 .. Len(log'),
                      log'[i].sender = log'[j].sender, log'[i].post = log'[j].post
               PROVE  i = j \/ <<log'[i].sender, log'[i].post>> \in ambiguous'
    BY DEF StoredOnce
  <2>3. CASE i \in 1 .. Len(log) /\ j \in 1 .. Len(log)
    BY <1>2, <2>2, <2>3
  <2>4. CASE i \in 1 .. Len(log) /\ j = Len(log) + 1
    BY <1>2, <2>1, <2>4
  <2>5. CASE i = Len(log) + 1 /\ j \in 1 .. Len(log)
    BY <1>2, <2>1, <2>5
  <2> QED
    BY <1>3, <2>3, <2>4, <2>5
<1> QED
    BY <1>4, <1>5, <1>6

(* An attempt more on one side, at least as many rows on the other.          *)
LEMMA PaidArithmetic ==
    ASSUME NEW attempt \in Nat, NEW excused \in Nat, NEW start \in Nat,
           NEW n \in Nat, NEW m \in Nat,
           n <= m, start <= n, attempt <= excused + (n - start)
    PROVE  start <= m /\ attempt + 1 <= 1 + excused + (m - start)
    OBVIOUS

(* The row that won is one more than the sender had read.                    *)
LEMMA LostArithmetic ==
    ASSUME NEW attempt \in Nat, NEW excused \in Nat, NEW start \in Nat,
           NEW last \in Nat, NEW n \in Nat,
           last + 1 <= n, start <= last, attempt <= 1 + excused + (last - start)
    PROVE  start <= n /\ attempt <= excused + (n - start)
    OBVIOUS

(* After a failed attempt the sender has paid for the next one, or the       *)
(* message for having been dropped.                                          *)
LEMMA RetryInv ==
    ASSUME TypeOK, RoomInv, NEW s \in Senders, pc[s] \in Saving,
           NEW e \in {0, 1}, Retry(s, e),
           e = 0 => pc[s] = "inserting" /\ call[s].last + 1 \in Sequences,
           Len(log') \in Nat, Len(log) <= Len(log')
    PROVE  /\ \A o \in Senders \ {s} : pc'[o] = pc[o] /\ call'[o] = call[o]
           /\ ReadingOf(s)' /\ PayingOf(s)' /\ DropsArePaid'
           /\ pc'[s] \in {"begin", "idle"}
<1>1. call[s] \in Calls /\ Len(log) \in Nat /\ MaxRetries \in Nat
    BY RoomAssumption DEF TypeOK
<1>2. PayingOf(s) /\ ReadingOf(s)
    BY DEF RoomInv, Reading, Paying
<1>3. /\ call[s].start <= Len(log)
      /\ call[s].attempt <= call[s].excused + e + (Len(log) - call[s].start)
  <2>1. CASE e = 1
    BY <1>1, <1>2, <2>1 DEF PayingOf, Calls
  <2>2. CASE e = 0
    <3>1. call[s].last + 1 <= Len(log)
      BY <1>1, <2>2, LastIsLength DEF RoomInv, Calls
    <3>2. /\ call[s].start <= call[s].last
          /\ call[s].attempt <= 1 + call[s].excused + (call[s].last - call[s].start)
      BY <1>2, <2>2 DEF ReadingOf, Locked
    <3>3. /\ call[s].start \in Nat /\ call[s].last \in Nat
          /\ call[s].attempt \in Nat /\ call[s].excused \in Nat
      BY <1>1 DEF Calls
    <3>4. /\ call[s].start <= Len(log)
          /\ call[s].attempt <= call[s].excused + (Len(log) - call[s].start)
      BY <1>1, <3>1, <3>2, <3>3, LostArithmetic
    <3> QED
      BY <2>2, <3>3, <3>4
  <2> QED
    BY <2>1, <2>2
<1>4. CASE call[s].attempt < MaxRetries
  <2>1. /\ pc' = [pc EXCEPT ![s] = "begin"]
        /\ call' = [call EXCEPT ![s] = NextAttempt(call[s], e)]
        /\ dropped' = dropped
    BY <1>4 DEF Retry
  <2>2. pc'[s] = "begin" /\ call'[s] = NextAttempt(call[s], e)
    BY <2>1 DEF TypeOK
  <2>3. PayingOf(s)'
    <3>1. /\ call'[s].start = call[s].start
          /\ call'[s].attempt = call[s].attempt + 1
          /\ call'[s].excused = call[s].excused + e
      BY <2>2 DEF NextAttempt
    <3>2. /\ call[s].start \in Nat /\ call[s].attempt \in Nat
          /\ call[s].excused \in Nat /\ call[s].excused + e \in Nat
      BY <1>1 DEF Calls
    <3>3. /\ call[s].start <= Len(log')
          /\ call[s].attempt + 1 <= 1 + (call[s].excused + e) + (Len(log') - call[s].start)
      <4>1. /\ Len(log) <= Len(log') /\ Len(log) \in Nat /\ Len(log') \in Nat
            /\ call[s].start <= Len(log)
            /\ call[s].attempt <= call[s].excused + e + (Len(log) - call[s].start)
        BY <1>1, <1>3
      <4> QED
        BY <3>2, <4>1, PaidArithmetic
    <3> QED
      BY <3>1, <3>3 DEF PayingOf
  <2>4. ReadingOf(s)'
    BY <2>2 DEF ReadingOf, Locked
  <2> QED
    BY <2>1, <2>2, <2>3, <2>4 DEF TypeOK, RoomInv, DropsArePaid
<1>5. CASE ~(call[s].attempt < MaxRetries)
  <2>1. /\ pc' = [pc EXCEPT ![s] = "idle"]
        /\ call' = [call EXCEPT ![s] = NoCall]
        /\ dropped' = dropped \cup {[excused |-> call[s].excused + e,
                                    during |-> Len(log) - call[s].start]}
    BY <1>5 DEF Retry, Return
  <2>2. pc'[s] = "idle"
    BY <2>1 DEF TypeOK
  <2>3. MaxRetries <= call[s].excused + e + (Len(log) - call[s].start)
    BY <1>1, <1>3, <1>5 DEF Calls
  <2>4. DropsArePaid'
    BY <2>1, <2>3 DEF RoomInv, DropsArePaid
  <2> QED
    BY <2>1, <2>2, <2>4 DEF TypeOK, ReadingOf, PayingOf, Locked, Saving
<1> QED
    BY <1>4, <1>5

(* The invariant holds initially and every step keeps it.                    *)
LEMMA RoomInvStep ==
    ASSUME TypeOK, RoomInv, [RoomNext]_vars
    PROVE  RoomInv'
<1>0. /\ Len(log) \in Nat
      /\ \A s \in Senders : call[s] \in Calls /\ posts[s] \in Nat
      /\ \A i \in 1 .. Len(log) : log[i] \in Rows
      /\ \A i \in 1 .. Len(log) : log[i].sender \in Senders /\ log[i].post \in Nat
  <2>1. log \in Seq(Rows) /\ call \in [Senders -> Calls] /\ posts \in [Senders -> Nat]
    BY DEF TypeOK, Rows
  <2>2. \A i \in 1 .. Len(log) : log[i] \in Rows
    BY <2>1
  <2>3. \A i \in 1 .. Len(log) : log[i].sender \in Senders /\ log[i].post \in Nat
    BY <2>2 DEF Rows
  <2> QED
    BY <2>1, <2>2, <2>3
<1>1. CASE UNCHANGED vars
    BY <1>1 DEF RoomInv, vars, SequenceIsGapless, Reading, ReadingOf, Paying, PayingOf,
        Fresh, FreshOf, DropsArePaid, Authored, StoredOnce
<1>2. ASSUME NEW s \in Senders, NEW p \in 0 .. Len(log) + 1, Post(s, p)
      PROVE  RoomInv'
  <2>1. /\ pc'[s] = "begin" /\ posts'[s] = posts[s] + 1
        /\ call'[s] = FirstAttempt(p, Len(log))
        /\ \A o \in Senders \ {s} : pc'[o] = pc[o] /\ call'[o] = call[o] /\ posts'[o] = posts[o]
        /\ log' = log /\ ambiguous' = ambiguous /\ dropped' = dropped
    BY <1>2 DEF Post, TypeOK
  <2>2. ReadingOf(s)' /\ PayingOf(s)'
    BY <1>0, <2>1 DEF ReadingOf, PayingOf, Locked, FirstAttempt
  <2>3. FreshOf(s)'
    <3>1. \A i \in 1 .. Len(log) : log[i].sender = s => log[i].post # posts[s] + 1
      BY <1>0 DEF RoomInv, Authored
    <3> QED
      BY <2>1, <3>1 DEF FreshOf
  <2>4. Reading' /\ Paying' /\ Fresh'
    BY <2>1, <2>2, <2>3, Undisturbed DEF Reading, Paying, Fresh
  <2>5. Authored'
    <3> SUFFICES ASSUME NEW i \in 1 .. Len(log)
                 PROVE  log[i].post <= posts'[log[i].sender]
      BY <2>1 DEF Authored
    <3>1. log[i].sender \in Senders /\ log[i].post \in Nat /\ log[i].post <= posts[log[i].sender]
      BY <1>0 DEF RoomInv, Authored, Rows
    <3> QED
      BY <1>0, <2>1, <3>1
  <2> QED
    BY <2>1, <2>4, <2>5 DEF RoomInv, SequenceIsGapless, DropsArePaid, StoredOnce
<1>3. ASSUME NEW s \in Senders, Save(s) \/ SaveFails(s) \/ CommitUnknown(s) \/ RouteFails(s)
      PROVE  RoomInv'
  <2>1. ASSUME log' = log, posts' = posts, ambiguous' = ambiguous,
               \A o \in Senders \ {s} : pc'[o] = pc[o] /\ call'[o] = call[o],
               ReadingOf(s)' /\ PayingOf(s)' /\ DropsArePaid',
               pc'[s] \in Saving => pc[s] \in Saving
        PROVE  RoomInv'
    <3>1. FreshOf(s)'
      BY <2>1 DEF RoomInv, Fresh, FreshOf
    <3>2. Reading' /\ Paying' /\ Fresh'
      BY <2>1, <3>1, Undisturbed DEF Reading, Paying, Fresh
    <3> QED
      BY <2>1, <3>2 DEF RoomInv, SequenceIsGapless, Authored, StoredOnce
  <2>2. ASSUME pc[s] \in Saving, NEW e \in {0, 1}, Retry(s, e),
               e = 0 => pc[s] = "inserting" /\ call[s].last + 1 \in Sequences,
               log' = log, posts' = posts, ambiguous' = ambiguous
        PROVE  RoomInv'
    BY <1>0, <2>1, <2>2, RetryInv
  <2>3. CASE Begin(s)
    <3>1. /\ pc[s] = "begin" /\ pc'[s] \in Locked
          /\ call'[s] = [call[s] EXCEPT !.last = LastSequence]
          /\ \A o \in Senders \ {s} : pc'[o] = pc[o] /\ call'[o] = call[o]
          /\ log' = log /\ posts' = posts /\ ambiguous' = ambiguous /\ dropped' = dropped
      BY <2>3 DEF Begin, TypeOK, Locked
    <3>2. /\ call'[s].last = Len(log) /\ call'[s].start = call[s].start
          /\ call'[s].parent = call[s].parent /\ call'[s].parent <= Len(log)
          /\ call'[s].attempt = call[s].attempt /\ call'[s].excused = call[s].excused
      BY <1>0, <2>3, <3>1, LastIsLength DEF Begin, RoomInv, Calls
    <3>3. PayingOf(s) /\ pc[s] \in Saving /\ pc'[s] \in Saving
      BY <3>1 DEF RoomInv, Paying, Saving, Locked
    <3>4. ReadingOf(s)' /\ PayingOf(s)'
      BY <3>1, <3>2, <3>3 DEF ReadingOf, PayingOf
    <3> QED
      BY <2>1, <3>1, <3>3, <3>4 DEF RoomInv, DropsArePaid
  <2>4. CASE ParentMissing(s)
    BY <2>2, <2>4 DEF ParentMissing, Saving
  <2>5. CASE Lock(s)
    <3>1. /\ pc[s] = "locking" /\ pc'[s] = "inserting" /\ call' = call
          /\ \A o \in Senders \ {s} : pc'[o] = pc[o]
          /\ log' = log /\ posts' = posts /\ ambiguous' = ambiguous /\ dropped' = dropped
      BY <2>5 DEF Lock, TypeOK
    <3>2. ReadingOf(s)' /\ PayingOf(s)'
      BY <3>1 DEF RoomInv, Reading, ReadingOf, Paying, PayingOf, Locked, Saving
    <3> QED
      BY <2>1, <3>1, <3>2 DEF RoomInv, DropsArePaid, Saving
  <2>6. ASSUME pc[s] = "inserting", call[s].last + 1 \notin Sequences,
               log' = Append(log, Row(s)), posts' = posts,
               ambiguous \subseteq ambiguous',
               \A o \in Senders \ {s} : pc'[o] = pc[o] /\ call'[o] = call[o],
               ReadingOf(s)' /\ PayingOf(s)' /\ DropsArePaid' /\ FreshOf(s)'
        PROVE  RoomInv'
    <3>1. SequenceIsGapless' /\ Authored' /\ StoredOnce'
      BY <2>6, CommitInv
    <3>2. /\ Len(log') = Len(log) + 1
          /\ \A i \in 1 .. Len(log) : log'[i] = log[i]
          /\ log'[Len(log) + 1].sender = s
      BY <2>6, RowAppended DEF RoomInv
    <3>3. Reading' /\ Paying' /\ Fresh'
      BY <2>6, <3>2, Undisturbed DEF Reading, Paying, Fresh
    <3> QED
      BY <2>6, <3>1, <3>3 DEF RoomInv
  <2>7. CASE Insert(s)
    <3>1. /\ pc'[s] = "routing" /\ call' = call /\ dropped' = dropped
          /\ ambiguous' = ambiguous /\ posts' = posts
          /\ \A o \in Senders \ {s} : pc'[o] = pc[o]
      BY <2>7 DEF Insert, TypeOK
    <3>2. ReadingOf(s)' /\ PayingOf(s)' /\ FreshOf(s)' /\ DropsArePaid'
      BY <3>1 DEF ReadingOf, PayingOf, FreshOf, Locked, Saving, RoomInv, DropsArePaid
    <3> QED
      BY <2>6, <2>7, <3>1, <3>2 DEF Insert
  <2>8. CASE CommitUnknown(s)
    <3>1. /\ pc[s] = "inserting" /\ call[s].last + 1 \notin Sequences
          /\ log' = Append(log, Row(s)) /\ posts' = posts
          /\ ambiguous' = ambiguous \cup {<<s, posts[s]>>} /\ Retry(s, 1)
      BY <2>8 DEF CommitUnknown
    <3>2. Len(log') = Len(log) + 1
      BY <3>1, RowAppended DEF RoomInv
    <3>3. /\ \A o \in Senders \ {s} : pc'[o] = pc[o] /\ call'[o] = call[o]
          /\ ReadingOf(s)' /\ PayingOf(s)' /\ DropsArePaid'
      BY <1>0, <3>1, <3>2, RetryInv DEF Saving
    <3>4. FreshOf(s)'
      BY <3>1 DEF FreshOf
    <3> QED
      BY <2>6, <3>1, <3>3, <3>4
  <2>9. CASE Conflict(s)
    BY <2>2, <2>9 DEF Conflict, Saving
  <2>10. CASE SaveFails(s)
    BY <2>2, <2>10 DEF SaveFails
  <2>11. CASE Route(s) \/ RouteFails(s)
    <3>1. /\ pc'[s] = "idle"
          /\ \A o \in Senders \ {s} : pc'[o] = pc[o] /\ call'[o] = call[o]
          /\ log' = log /\ posts' = posts /\ ambiguous' = ambiguous /\ dropped' = dropped
      BY <2>11 DEF Route, RouteFails, Return, TypeOK
    <3>2. ReadingOf(s)' /\ PayingOf(s)' /\ DropsArePaid'
      BY <3>1 DEF ReadingOf, PayingOf, Locked, Saving, RoomInv, DropsArePaid
    <3> QED
      BY <2>1, <3>1, <3>2 DEF Saving
  <2> QED
    BY <1>3, <2>3, <2>4, <2>5, <2>7, <2>8, <2>9, <2>10, <2>11 DEF Save
<1> QED
    BY <1>1, <1>2, <1>3 DEF RoomNext

(* Types and invariant together are inductive.                               *)
LEMMA Inductive == RoomSpec => [](TypeOK /\ RoomInv)
<1>1. RoomInit => TypeOK /\ RoomInv
  <2> SUFFICES ASSUME RoomInit PROVE TypeOK /\ RoomInv
    OBVIOUS
  <2>1. TypeOK
    BY DEF RoomInit, TypeOK, Phases, Calls, NoCall
  <2>2. RoomInv
    BY DEF RoomInit, RoomInv, SequenceIsGapless, Reading, ReadingOf, Paying, PayingOf,
        DropsArePaid, Authored, Fresh, FreshOf, StoredOnce, Locked, Saving
  <2> QED
    BY <2>1, <2>2
<1>2. TypeOK /\ RoomInv /\ [RoomNext]_vars => (TypeOK /\ RoomInv)'
    BY TypeStep, RoomInvStep DEF RoomInv
<1> QED
    BY <1>1, <1>2, PTL DEF RoomSpec

(* Every variable keeps its type.                                            *)
THEOREM RoomTypeCorrect == RoomSpec => []TypeOK
    BY Inductive, PTL

(* The numbers of a room are 1, 2, 3, ... without duplicate or gap           *)
(* (models.Message.SequenceID), however many transactions race.              *)
THEOREM Gapless == RoomSpec => []SequenceIsGapless
<1>1. RoomInv => SequenceIsGapless
    BY DEF RoomInv
<1> QED
    BY <1>1, Inductive, PTL

(* saveMessage stores a frame once, unless a commit's answer was lost.       *)
THEOREM StoresOnce == RoomSpec => []StoredOnce
<1>1. RoomInv => StoredOnce
    BY DEF RoomInv
<1> QED
    BY <1>1, Inductive, PTL

(* saveMessage gives a message up only after losing MaxRetries times to      *)
(* other messages, faults, or a missing parent.                              *)
THEOREM DropsPaid == RoomSpec => []DropsArePaid
<1>1. RoomInv => DropsArePaid
    BY DEF RoomInv
<1> QED
    BY <1>1, Inductive, PTL

(* The racing transactions implement ChatLog: each step appends one rightly  *)
(* numbered message that quotes an earlier one and follows its author's own  *)
(* earlier messages, or leaves the log alone.                                *)
THEOREM ImplementsChatLog == RoomSpec => LogSpec
<1>1. RoomInit => History!LogInit
    BY DEF RoomInit, History!LogInit
<1>2. TypeOK /\ RoomInv /\ [RoomNext]_vars => [History!LogNext]_log
  <2> SUFFICES ASSUME TypeOK, RoomInv, [RoomNext]_vars, log' # log
               PROVE  History!LogNext
    OBVIOUS
  <2>1. PICK s \in Senders : Insert(s) \/ CommitUnknown(s)
    BY DEF RoomNext, vars, Post, Save, SaveFails, RouteFails, Begin, ParentMissing, Lock,
        Conflict, Route
  <2>2. /\ pc[s] = "inserting" /\ call[s].last + 1 \notin Sequences
        /\ log' = Append(log, Row(s))
    BY <2>1 DEF Insert, CommitUnknown
  <2>3. /\ Len(log') = Len(log) + 1 /\ log'[Len(log) + 1] = Row(s) /\ call[s].last = Len(log)
        /\ Row(s).seq = Len(log) + 1 /\ Row(s).sender = s
        /\ Row(s).post = posts[s] /\ Row(s).parent = call[s].parent
    BY <2>2, RowAppended DEF RoomInv
  <2>4. Row(s).parent \in 0 .. Len(log) /\ Row(s).post \in Nat
    BY <2>2, <2>3 DEF RoomInv, Reading, ReadingOf, Locked, TypeOK, Calls
  <2>5. \A i \in 1 .. Len(log) : log[i].sender = s => log[i].post <= posts[s]
    BY DEF RoomInv, Authored
  <2> QED
    BY <2>2, <2>3, <2>4, <2>5 DEF History!LogNext, History!MayFollow
<1> QED
    BY <1>1, <1>2, Inductive, PTL DEF RoomSpec, LogSpec, History!LogSpec

-----------------------------------------------------------------------------
(* The order in which messages are handed to the router.  In a gapless log   *)
(* the sequence number is the index, so SentInOwnOrder can be said of        *)
(* log[sent[i]]; a stored message that waits to be routed is newer than what *)
(* its sender had routed before.                                             *)
SentStored == \A i \in 1 .. Len(sent) : sent[i] \in 1 .. Len(log)

SentOrdered ==
    \A i, j \in 1 .. Len(sent) :
        i < j /\ log[sent[i]].sender = log[sent[j]].sender => sent[i] < sent[j]

RoutingOf(s) ==
    pc[s] = "routing" =>
        /\ call[s].last + 1 \in 1 .. Len(log)
        /\ log[call[s].last + 1].sender = s
        /\ \A i \in 1 .. Len(sent) : log[sent[i]].sender = s => sent[i] < call[s].last + 1

OrderInv == SentStored /\ SentOrdered /\ \A s \in Senders : RoutingOf(s)

(* A committed row takes nothing away from the invariant; the sender, if it  *)
(* goes on to route, holds the newest number.                                *)
LEMMA OrderCommit ==
    ASSUME TypeOK, RoomInv, OrderInv, NEW s \in Senders,
           pc[s] = "inserting", call[s].last + 1 \notin Sequences,
           log' = Append(log, Row(s)), sent' = sent,
           \A o \in Senders \ {s} : pc'[o] = pc[o] /\ call'[o] = call[o],
           pc'[s] = "routing" => call'[s] = call[s]
    PROVE  OrderInv'
<1>1. Len(log) \in Nat /\ Len(sent) \in Nat
    BY DEF TypeOK
<1>2. /\ call[s].last = Len(log)
      /\ Len(log') = Len(log) + 1
      /\ \A i \in 1 .. Len(log) : log'[i] = log[i]
      /\ log'[Len(log) + 1].sender = s
    BY RowAppended DEF RoomInv
<1>3. \A i \in 1 .. Len(sent) : sent[i] \in 1 .. Len(log) /\ log'[sent[i]] = log[sent[i]]
    BY <1>2 DEF OrderInv, SentStored
<1>4. SentStored'
    BY <1>1, <1>2, <1>3 DEF SentStored
<1>5. SentOrdered'
    BY <1>3 DEF OrderInv, SentOrdered
<1>6. RoutingOf(s)'
    BY <1>1, <1>2, <1>3 DEF RoutingOf
<1>7. ASSUME NEW o \in Senders \ {s} PROVE RoutingOf(o)'
  <2>1. CASE pc[o] = "routing"
    <3>1. call[o].last + 1 \in 1 .. Len(log) /\ log'[call[o].last + 1] = log[call[o].last + 1]
      BY <1>2, <2>1 DEF OrderInv, RoutingOf
    <3>2. call[o].last + 1 \in 1 .. Len(log')
      BY <1>1, <1>2, <3>1
    <3> QED
      BY <1>3, <2>1, <3>1, <3>2 DEF OrderInv, RoutingOf
  <2>2. CASE pc[o] # "routing"
    BY <2>2 DEF RoutingOf
  <2> QED
    BY <2>1, <2>2
<1> QED
    BY <1>4, <1>5, <1>6, <1>7 DEF OrderInv

(* Routing appends a number that is newer than the sender's earlier ones.    *)
LEMMA OrderRoute ==
    ASSUME TypeOK, OrderInv, NEW s \in Senders, Route(s)
    PROVE  OrderInv'
<1> DEFINE n == call[s].last + 1
<1>1. Len(log) \in Nat /\ Len(sent) \in Nat /\ call[s] \in Calls /\ n \in Nat
    BY DEF TypeOK, Calls
<1>2. /\ Len(sent') = Len(sent) + 1
      /\ \A i \in 1 .. Len(sent) : sent'[i] = sent[i]
      /\ sent'[Len(sent) + 1] = n
    BY <1>1, AppendProperties DEF Route, TypeOK
<1>3. /\ n \in 1 .. Len(log) /\ log[n].sender = s
      /\ \A i \in 1 .. Len(sent) : log[sent[i]].sender = s => sent[i] < n
    BY DEF OrderInv, RoutingOf, Route
<1>4. /\ log' = log /\ pc'[s] = "idle"
      /\ \A o \in Senders \ {s} : pc'[o] = pc[o] /\ call'[o] = call[o]
    BY DEF Route, Return, TypeOK
<1>5. \A i \in 1 .. Len(sent') : i \in 1 .. Len(sent) \/ i = Len(sent) + 1
    BY <1>1, <1>2
<1> HIDE DEF n
<1>6. SentStored'
    BY <1>2, <1>3, <1>4, <1>5 DEF OrderInv, SentStored
<1>7. SentOrdered'
  <2> SUFFICES ASSUME NEW i \in 1 .. Len(sent'), NEW j \in 1 .. Len(sent'), i < j,
                      log[sent'[i]].sender = log[sent'[j]].sender
               PROVE  sent'[i] < sent'[j]
    BY <1>4 DEF SentOrdered
  <2>1. i \in 1 .. Len(sent)
    BY <1>1, <1>2
  <2>2. CASE j \in 1 .. Len(sent)
    BY <1>2, <2>1, <2>2 DEF OrderInv, SentOrdered
  <2>3. CASE j = Len(sent) + 1
    BY <1>2, <1>3, <2>1, <2>3
  <2> QED
    BY <1>5, <2>2, <2>3
<1>8. ASSUME NEW o \in Senders PROVE RoutingOf(o)'
  <2>1. CASE o = s
    BY <1>4, <2>1 DEF RoutingOf
  <2>2. CASE o # s
    BY <1>2, <1>3, <1>4, <1>5, <2>2 DEF OrderInv, RoutingOf
  <2> QED
    BY <2>1, <2>2
<1> QED
    BY <1>6, <1>7, <1>8 DEF OrderInv

(* The other steps leave the log and what was sent alone.                    *)
LEMMA OrderStep ==
    ASSUME TypeOK, RoomInv, OrderInv, [RoomNext]_vars
    PROVE  OrderInv'
<1>1. ASSUME log' = log, sent' = sent,
             \A o \in Senders : pc'[o] = "routing" => pc[o] = "routing" /\ call'[o] = call[o]
      PROVE  OrderInv'
    BY <1>1 DEF OrderInv, SentStored, SentOrdered, RoutingOf
<1>2. CASE UNCHANGED vars
    BY <1>1, <1>2 DEF vars
<1>3. ASSUME NEW s \in Senders, NEW p \in 0 .. Len(log) + 1, Post(s, p)
      PROVE  OrderInv'
    BY <1>1, <1>3 DEF Post, TypeOK
<1>4. ASSUME NEW s \in Senders, Save(s) \/ SaveFails(s) \/ CommitUnknown(s) \/ RouteFails(s)
      PROVE  OrderInv'
  <2>1. ASSUME NEW e \in {0, 1}, Retry(s, e)
        PROVE  /\ pc'[s] # "routing"
               /\ \A o \in Senders \ {s} : pc'[o] = pc[o] /\ call'[o] = call[o]
    BY <2>1 DEF Retry, Return, TypeOK
  <2>2. CASE Begin(s) \/ Lock(s)
    BY <1>1, <2>2 DEF Begin, Lock, TypeOK
  <2>3. CASE ParentMissing(s) \/ Conflict(s) \/ SaveFails(s)
    BY <1>1, <2>1, <2>3 DEF ParentMissing, Conflict, SaveFails
  <2>4. CASE RouteFails(s)
    BY <1>1, <2>4 DEF RouteFails, Return, TypeOK
  <2>5. CASE Insert(s)
    BY <2>5, OrderCommit DEF Insert, TypeOK
  <2>6. CASE CommitUnknown(s)
    BY <2>1, <2>6, OrderCommit DEF CommitUnknown
  <2>7. CASE Route(s)
    BY <2>7, OrderRoute
  <2> QED
    BY <1>4, <2>2, <2>3, <2>4, <2>5, <2>6, <2>7 DEF Save
<1> QED
    BY <1>2, <1>3, <1>4 DEF RoomNext

(* The router is handed stored messages only, each sender's in the order of  *)
(* their numbers (SentInOwnOrder).                                           *)
THEOREM RoutedInOrder == RoomSpec => []SentInOwnOrder
<1>1. RoomInit => OrderInv
    BY DEF RoomInit, OrderInv, SentStored, SentOrdered, RoutingOf
<1>2. TypeOK /\ RoomInv /\ OrderInv /\ [RoomNext]_vars => OrderInv'
    BY OrderStep
<1>3. TypeOK /\ RoomInv /\ OrderInv => SentInOwnOrder
  <2> SUFFICES ASSUME TypeOK, RoomInv, OrderInv PROVE SentInOwnOrder
    OBVIOUS
  <2>1. Sequences = 1 .. Len(log) /\ \A m \in 1 .. Len(log) : log[m].seq = m
    BY LastIsLength DEF RoomInv, SequenceIsGapless
  <2> QED
    BY <2>1 DEF OrderInv, SentStored, SentOrdered, SentInOwnOrder
<1> QED
    BY <1>1, <1>2, <1>3, Inductive, PTL DEF RoomSpec

-----------------------------------------------------------------------------
(* HubRouter.                                                               *)

(* Payloads on a node's channel.                                            *)

In(q, m) == \E i \in 1 .. Len(q) : q[i].msg = m
Single(q) == \A i, j \in 1 .. Len(q) : q[i].msg = q[j].msg => i = j
Told(q, m, users) == \A i \in 1 .. Len(q) : q[i].msg = m => q[i].users = users

LEMMA EmptyWire ==
    /\ <<>> \in Seq(Payloads) /\ Single(<<>>)
    /\ \A m : ~In(<<>>, m) /\ \A users : Told(<<>>, m, users)
<1>1. 1 .. Len(<<>>) = {}
    OBVIOUS
<1> QED
    BY <1>1 DEF Single, In, Told

LEMMA AppendWire ==
    ASSUME NEW q \in Seq(Payloads), NEW p \in Payloads
    PROVE  /\ Append(q, p) \in Seq(Payloads)
           /\ \A m : In(Append(q, p), m) <=> In(q, m) \/ p.msg = m
           /\ Single(q) /\ ~In(q, p.msg) => Single(Append(q, p))
           /\ \A m, users : Told(q, m, users) /\ (p.msg = m => p.users = users)
                                => Told(Append(q, p), m, users)
<1> DEFINE r == Append(q, p)
<1>0. Len(q) \in Nat
    BY LenProperties
<1>1. /\ r \in Seq(Payloads) /\ Len(r) = Len(q) + 1
      /\ \A i \in 1 .. Len(q) : r[i] = q[i]
      /\ r[Len(q) + 1] = p
    BY AppendProperties
<1> HIDE DEF r
<1>2. \A i \in 1 .. Len(r) : i \in 1 .. Len(q) \/ i = Len(q) + 1
    BY <1>0, <1>1
<1>3. 1 .. Len(q) \subseteq 1 .. Len(r) /\ Len(q) + 1 \in 1 .. Len(r)
    BY <1>0, <1>1
<1>4. \A m : In(r, m) <=> In(q, m) \/ p.msg = m
    BY <1>1, <1>2, <1>3 DEF In
<1>5. Single(q) /\ ~In(q, p.msg) => Single(r)
    BY <1>1, <1>2 DEF Single, In
<1>6. \A m, users : Told(q, m, users) /\ (p.msg = m => p.users = users) => Told(r, m, users)
    BY <1>1, <1>2 DEF Told
<1> QED
    BY <1>1, <1>4, <1>5, <1>6 DEF r

LEMMA TailWire ==
    ASSUME NEW q \in Seq(Payloads), q # <<>>
    PROVE  /\ Head(q) \in Payloads /\ Tail(q) \in Seq(Payloads)
           /\ \A m : In(q, m) <=> In(Tail(q), m) \/ Head(q).msg = m
           /\ Single(q) => Single(Tail(q)) /\ ~In(Tail(q), Head(q).msg)
           /\ \A m, users : Told(q, m, users) =>
                  Told(Tail(q), m, users) /\ (Head(q).msg = m => Head(q).users = users)
<1> DEFINE h == Head(q)
           r == Tail(q)
<1>1. /\ h \in Payloads /\ r \in Seq(Payloads) /\ Len(r) = Len(q) - 1
      /\ \A i \in 1 .. Len(r) : r[i] = q[i + 1]
      /\ h = q[1] /\ Len(q) \in Nat
    BY HeadTailProperties, LenProperties
<1>0. Len(r) \in Nat
    BY <1>1, LenProperties
<1> HIDE DEF h, r
<1>2. \A i \in 1 .. Len(q) : i = 1 \/ (i - 1 \in 1 .. Len(r) /\ q[i] = r[i - 1])
    BY <1>0, <1>1
<1>3. 1 \in 1 .. Len(q) /\ \A i \in 1 .. Len(r) : i + 1 \in 1 .. Len(q) /\ i + 1 # 1
    BY <1>0, <1>1
<1>4. \A m : In(q, m) <=> In(r, m) \/ h.msg = m
    BY <1>1, <1>2, <1>3 DEF In
<1>5. Single(q) => Single(r) /\ ~In(r, h.msg)
  <2> SUFFICES ASSUME Single(q) PROVE Single(r) /\ ~In(r, h.msg)
    OBVIOUS
  <2>1. ASSUME NEW i \in 1 .. Len(r), NEW j \in 1 .. Len(r), r[i].msg = r[j].msg
        PROVE  i = j
    <3>1. q[i + 1].msg = q[j + 1].msg /\ i + 1 \in 1 .. Len(q) /\ j + 1 \in 1 .. Len(q)
      BY <1>1, <1>3, <2>1
    <3>2. i + 1 = j + 1
      BY <3>1 DEF Single
    <3> QED
      BY <3>2
  <2>2. ASSUME NEW i \in 1 .. Len(r), r[i].msg = h.msg PROVE FALSE
    <3>1. q[i + 1].msg = q[1].msg /\ i + 1 \in 1 .. Len(q) /\ 1 \in 1 .. Len(q)
      BY <1>1, <1>3, <2>2
    <3>2. i + 1 = 1
      BY <3>1 DEF Single
    <3> QED
      BY <1>3, <3>2
  <2> QED
    BY <2>1, <2>2 DEF Single, In
<1>6. \A m, users : Told(q, m, users) => Told(r, m, users) /\ (h.msg = m => h.users = users)
    BY <1>1, <1>3 DEF Told
<1> QED
    BY <1>1, <1>4, <1>5, <1>6 DEF h, r

-----------------------------------------------------------------------------
(* What the steps of a message do.                                          *)

LEMMA RouteFacts ==
    ASSUME RouterTypeOK, NEW r \in Routes
    PROVE  r.node \in Nodes /\ Recipients(r) \subseteq Users /\ Named(r) \subseteq Nodes
<1>1. CASE r \in [node : Nodes, kind : {"direct"}, from : Users, to : Users]
  <2>1. /\ r.kind = "direct" /\ r.node \in Nodes
        /\ r.from \in Users /\ r.to \in Users
    BY <1>1
  <2>2. Recipients(r) = {r.from, r.to} /\ Named(r) = userNodes[r.to]
    BY <2>1 DEF Recipients, Named
  <2> QED
    BY <2>1, <2>2 DEF RouterTypeOK
<1>2. CASE r \in [node : Nodes, kind : {"broadcast"}, room : Rooms]
  <2>1. r.kind = "broadcast" /\ r.node \in Nodes /\ r.room \in Rooms
    BY <1>2
  <2>2. Recipients(r) = members[r.room] /\ Named(r) = roomNodes[r.room]
    BY <2>1 DEF Recipients, Named
  <2> QED
    BY <2>1, <2>2 DEF RouterTypeOK
<1>3. CASE r \in [node : Nodes, kind : {"system"}, to : Users]
  <2>1. r.kind = "system" /\ r.node \in Nodes /\ r.to \in Users
    BY <1>3
  <2>2. Recipients(r) = {r.to} /\ Named(r) = {}
    BY <2>1 DEF Recipients, Named
  <2> QED
    BY <2>1, <2>2
<1> QED
    BY <1>1, <1>2, <1>3, RouterAssumption

LEMMA StartFacts ==
    ASSUME RouterTypeOK, NEW m \in Messages, Start(m)
    PROVE  /\ routing[m].phase = "idle" /\ routing'[m].phase = "routing"
           /\ routing' \in [Messages -> Routings] /\ owed' \in [Messages -> SUBSET Conns]
           /\ \A x \in Messages \ {m} : routing'[x] = routing[x] /\ owed'[x] = owed[x]
           /\ \A c \in owed'[m] :
                 /\ UserOf[c] \in routing'[m].users
                 /\ \E n \in routing'[m].targets : c \in clients[n]
           /\ routerFaults' \in 0 .. MaxRouterFaults
<1>1. PICK r \in Routes, failed \in BOOLEAN :
        LET nodes == IF failed THEN {} ELSE Named(r)
            targets == nodes \cup {r.node}
        IN
        /\ IF failed THEN RouterFault ELSE UNCHANGED routerFaults
        /\ routing' = [routing EXCEPT ![m] = [phase |-> "routing", node |-> r.node,
              users |-> Recipients(r), targets |-> targets, selfLast |-> r.node \notin nodes]]
        /\ owed' = [owed EXCEPT ![m] = {c \in UNION {clients[n] : n \in targets} :
                                          UserOf[c] \in Recipients(r)}]
    BY DEF Start
<1> DEFINE nodes == IF failed THEN {} ELSE Named(r)
           targets == nodes \cup {r.node}
           route == [phase |-> "routing", node |-> r.node, users |-> Recipients(r),
                     targets |-> targets, selfLast |-> r.node \notin nodes]
           told == {c \in UNION {clients[n] : n \in targets} : UserOf[c] \in Recipients(r)}
<1>2. r.node \in Nodes /\ Recipients(r) \subseteq Users /\ targets \subseteq Nodes
    BY RouteFacts
<1>3. route \in Routings
    BY <1>2 DEF Routings
<1>4. told \subseteq Conns
    BY <1>2 DEF RouterTypeOK
<1>5. routing' = [routing EXCEPT ![m] = route] /\ owed' = [owed EXCEPT ![m] = told]
    BY <1>1
<1>6. /\ routing \in [Messages -> Routings] /\ owed \in [Messages -> SUBSET Conns]
      /\ routing[m].phase = "idle"
    BY DEF RouterTypeOK, Start
<1>7. route.phase = "routing" /\ route.users = Recipients(r) /\ route.targets = targets
    OBVIOUS
<1>8. \A c \in told : UserOf[c] \in Recipients(r) /\ \E n \in targets : c \in clients[n]
    OBVIOUS
<1>9. routerFaults' \in 0 .. MaxRouterFaults
    BY <1>1, RouterAssumption DEF RouterTypeOK, RouterFault
<1> HIDE DEF route, told, targets
<1> QED
    BY <1>3, <1>4, <1>5, <1>6, <1>7, <1>8, <1>9

LEMMA NextTargetFacts ==
    ASSUME RouterTypeOK, NEW m \in Messages, NEW n \in Nodes, NextTarget(m, n)
    PROVE  /\ routing' \in [Messages -> Routings] /\ n \in routing[m].targets
           /\ \A x \in Messages \ {m} : routing'[x] = routing[x]
           /\ routing'[m].targets = routing[m].targets \ {n}
           /\ routing'[m].users = routing[m].users
           /\ routing'[m].phase = "done" \/ routing'[m].phase = routing[m].phase
           /\ routing'[m].targets = {} <=> routing[m].targets = {n}
           /\ routing[m].targets = {n} => routing'[m].phase = "done"
<1>1. routing \in [Messages -> Routings] /\ routing[m] \in Routings
    BY DEF RouterTypeOK
<1>2. /\ n \in routing[m].targets
      /\ routing' = [routing EXCEPT ![m].targets = @ \ {n},
                        ![m].phase = IF routing[m].targets = {n} THEN "done" ELSE @]
    BY DEF NextTarget
<1>3. /\ routing'[m].targets = routing[m].targets \ {n}
      /\ routing'[m].users = routing[m].users
      /\ routing'[m].phase = IF routing[m].targets = {n} THEN "done" ELSE routing[m].phase
      /\ \A x \in Messages \ {m} : routing'[x] = routing[x]
    BY <1>1, <1>2 DEF Routings
<1>4. routing' \in [Messages -> Routings]
  <2> DEFINE route == [routing[m] EXCEPT !.targets = @ \ {n},
                          !.phase = IF routing[m].targets = {n} THEN "done" ELSE @]
  <2>1. route \in Routings
    BY <1>1, Zenon DEF Routings
  <2>2. routing' = [routing EXCEPT ![m] = route]
    BY <1>1, <1>2 DEF Routings
  <2> HIDE DEF route
  <2> QED
    BY <1>1, <2>1, <2>2
<1>5. routing[m].targets \ {n} = {} <=> routing[m].targets = {n}
    BY <1>2
<1> QED
    BY <1>2, <1>3, <1>4, <1>5

LEMMA NextTargetDone ==
    ASSUME RouterTypeOK, NEW m \in Messages, NEW n \in Nodes, NextTarget(m, n),
           routing[m].phase = "routing", routing'[m].phase = "done"
    PROVE  routing'[m].targets = {}
<1>1. routing \in [Messages -> Routings] /\ routing[m] \in Routings
    BY DEF RouterTypeOK
<1>2. routing' = [routing EXCEPT ![m].targets = @ \ {n},
                        ![m].phase = IF routing[m].targets = {n} THEN "done" ELSE @]
    BY DEF NextTarget
<1>3. routing'[m].phase = IF routing[m].targets = {n} THEN "done" ELSE routing[m].phase
    BY <1>1, <1>2 DEF Routings
<1>4. routing[m].targets = {n}
    BY <1>3
<1> QED
    BY <1>4, NextTargetFacts

LEMMA DeliverFacts ==
    ASSUME RouterTypeOK, NEW n \in Nodes, NEW p \in Payloads, Deliver(n, p)
    PROVE  /\ clients' \in [Nodes -> SUBSET Conns] /\ clients'[n] \subseteq clients[n]
           /\ \A x \in Nodes \ {n} : clients'[x] = clients[x]
           /\ got' \in [Conns -> [Messages -> Nat]]
           /\ \A c \in Conns, m \in Messages : m # p.msg => got'[c][m] = got[c][m]
           /\ \A c \in Conns :
                 \/ got'[c] = got[c]
                 \/ c \in clients[n] /\ got'[c][p.msg] = got[c][p.msg] + 1
           /\ \A c \in clients'[n] : UserOf[c] \in p.users =>
                 got'[c][p.msg] = got[c][p.msg] + 1
           /\ routerFaults' \in 0 .. MaxRouterFaults
<1>1. PICK full \in SUBSET clients[n] :
        LET to == {c \in clients[n] : UserOf[c] \in p.users} IN
        /\ full \subseteq to
        /\ IF full = {} THEN UNCHANGED routerFaults ELSE RouterFault
        /\ clients' = [clients EXCEPT ![n] = @ \ full]
        /\ got' = [c \in Conns |-> IF c \in to \ full
                                    THEN [got[c] EXCEPT ![p.msg] = @ + 1] ELSE got[c]]
    BY DEF Deliver
<1> DEFINE to == {c \in clients[n] : UserOf[c] \in p.users}
<1>2. clients \in [Nodes -> SUBSET Conns] /\ got \in [Conns -> [Messages -> Nat]]
    BY DEF RouterTypeOK
<1>3. p.msg \in Messages
    BY DEF Payloads
<1>4. /\ clients' \in [Nodes -> SUBSET Conns] /\ clients'[n] = clients[n] \ full
      /\ \A x \in Nodes \ {n} : clients'[x] = clients[x]
    BY <1>1, <1>2
<1>5. \A c \in Conns : got'[c] = IF c \in to \ full THEN [got[c] EXCEPT ![p.msg] = @ + 1]
                                                   ELSE got[c]
    BY <1>1
<1>6. got' \in [Conns -> [Messages -> Nat]]
    BY <1>1, <1>2, <1>3
<1>7. \A c \in Conns, m \in Messages : m # p.msg => got'[c][m] = got[c][m]
    BY <1>2, <1>5
<1>8. ASSUME NEW c \in to \ full
      PROVE  c \in clients[n] /\ got'[c][p.msg] = got[c][p.msg] + 1
  <2>1. c \in clients[n] /\ c \in Conns
    BY <1>2
  <2>2. got'[c] = [got[c] EXCEPT ![p.msg] = @ + 1] /\ got[c] \in [Messages -> Nat]
    BY <1>2, <1>5, <2>1
  <2> QED
    BY <1>3, <2>1, <2>2
<1>9. routerFaults' \in 0 .. MaxRouterFaults
    BY <1>1, RouterAssumption DEF RouterTypeOK, RouterFault
<1>10. \A c \in Conns : got'[c] = got[c] \/ c \in to \ full
    BY <1>5
<1>11. \A c \in clients'[n] : UserOf[c] \in p.users => c \in to \ full
    BY <1>4
<1> HIDE DEF to
<1> QED
    BY <1>4, <1>6, <1>7, <1>8, <1>9, <1>10, <1>11

LEMMA PayloadFacts ==
    ASSUME RouterTypeOK, NEW m \in Messages
    PROVE  /\ Payload(m) \in Payloads /\ Payload(m).msg = m
           /\ Payload(m).users = routing[m].users
<1>1. routing[m] \in Routings
    BY DEF RouterTypeOK
<1> QED
    BY <1>1 DEF Payload, Payloads, Routings

-----------------------------------------------------------------------------
(* The types.                                                               *)

LEMMA RestartFacts ==
    ASSUME RouterTypeOK, NEW n \in Nodes, Restart(n)
    PROVE  /\ routing' \in [Messages -> Routings] /\ owed' \in [Messages -> SUBSET Conns]
           /\ wire' \in [Nodes -> Seq(Payloads)] /\ wire'[n] = <<>>
           /\ \A x \in Nodes \ {n} : wire'[x] = wire[x]
           /\ \A m \in Messages : routing'[m].users = routing[m].users
           /\ \A m \in Messages :
                 \/ routing'[m] = routing[m] /\ owed'[m] = owed[m]
                 \/ /\ routing'[m].phase = "done" /\ routing'[m].targets = {}
                    /\ owed'[m] = {}
<1>1. /\ routing \in [Messages -> Routings] /\ owed \in [Messages -> SUBSET Conns]
      /\ wire \in [Nodes -> Seq(Payloads)]
    BY DEF RouterTypeOK
<1>2. /\ routing' = [m \in Messages |->
                    IF routing[m].node = n /\ routing[m].phase = "routing"
                    THEN [routing[m] EXCEPT !.phase = "done", !.targets = {}] ELSE routing[m]]
      /\ owed' = [m \in Messages |->
                    IF routing[m].node = n /\ routing[m].phase = "routing" THEN {} ELSE owed[m]]
    BY Zenon DEF Restart
<1>7. wire' = [wire EXCEPT ![n] = <<>>]
    BY Zenon DEF Restart
<1>3. ASSUME NEW m \in Messages
      PROVE  /\ routing'[m] \in Routings /\ owed'[m] \subseteq Conns
             /\ routing'[m].users = routing[m].users
             /\ \/ routing'[m] = routing[m] /\ owed'[m] = owed[m]
                \/ /\ routing'[m].phase = "done" /\ routing'[m].targets = {}
                   /\ owed'[m] = {}
  <2>1. routing[m] \in Routings
    BY <1>1
  <2>2. CASE routing[m].node = n /\ routing[m].phase = "routing"
    BY <1>2, <2>1, <2>2 DEF Routings
  <2>3. CASE ~(routing[m].node = n /\ routing[m].phase = "routing")
    BY <1>1, <1>2, <2>1, <2>3, Zenon
  <2> QED
    BY <2>2, <2>3
<1>4. routing' = [m \in Messages |-> routing'[m]] /\ owed' = [m \in Messages |-> owed'[m]]
    BY <1>2, Zenon
<1>5. routing' \in [Messages -> Routings] /\ owed' \in [Messages -> SUBSET Conns]
    BY <1>3, <1>4
<1>6. /\ wire' \in [Nodes -> Seq(Payloads)] /\ wire'[n] = <<>>
      /\ \A x \in Nodes \ {n} : wire'[x] = wire[x]
    BY <1>1, <1>7, EmptyWire
<1> QED
    BY <1>3, <1>5, <1>6

LEMMA RouterTypesInitially == RouterInit => RouterTypeOK
<1> SUFFICES ASSUME RouterInit PROVE RouterTypeOK
    OBVIOUS
<1>1. Unrouted \in Routings
  <2>1. (CHOOSE n \in Nodes : TRUE) \in Nodes
    BY RouterAssumption
  <2> QED
    BY <2>1 DEF Unrouted, Routings
<1>2. routing \in [Messages -> Routings]
    BY <1>1 DEF RouterInit
<1>3. wire \in [Nodes -> Seq(Payloads)]
    BY EmptyWire DEF RouterInit
<1>4. stage \in [Conns -> Stages] /\ rooms \in [Conns -> SUBSET Rooms]
    BY DEF RouterInit, Stages
<1>5. retract \in [Conns -> [user : BOOLEAN, rooms : SUBSET Rooms]]
    BY DEF RouterInit, Nothing
<1>6. clients \in [Nodes -> SUBSET Conns] /\ got \in [Conns -> [Messages -> Nat]]
    BY DEF RouterInit
<1>7. /\ userConns \in [Nodes -> [Users -> Nat]] /\ roomCount \in [Nodes -> [Rooms -> Nat]]
      /\ userRooms \in [Nodes -> [Users -> SUBSET Rooms]]
    BY DEF RouterInit
<1>8. /\ userNodes \in [Users -> SUBSET Nodes] /\ roomNodes \in [Rooms -> SUBSET Nodes]
      /\ members \in [Rooms -> SUBSET Users] /\ owed \in [Messages -> SUBSET Conns]
      /\ lapsed \subseteq Nodes \X (Users \cup Rooms)
    BY RouterAssumption DEF RouterInit
<1>9. routerFaults \in 0 .. MaxRouterFaults
    BY RouterAssumption DEF RouterInit
<1> QED
    BY <1>2, <1>3, <1>4, <1>5, <1>6, <1>7, <1>8, <1>9 DEF RouterTypeOK

\* The connection c is at a stage of its own, and at another after a step.
LEMMA GotoFacts ==
    ASSUME RouterTypeOK, NEW c \in Conns, NEW from, NEW to \in Stages, Goto(c, from, to)
    PROVE  /\ stage[c] = from /\ stage' \in [Conns -> Stages] /\ stage'[c] = to
           /\ \A x \in Conns \ {c} : stage'[x] = stage[x]
BY DEF Goto, RouterTypeOK

LEMMA UncountTypes ==
    ASSUME RouterTypeOK, NEW c \in Conns, Uncount(c)
    PROVE  /\ userConns' \in [Nodes -> [Users -> Nat]]
           /\ roomCount' \in [Nodes -> [Rooms -> Nat]]
           /\ userRooms' \in [Nodes -> [Users -> SUBSET Rooms]]
           /\ retract' \in [Conns -> [user : BOOLEAN, rooms : SUBSET Rooms]]
<1> DEFINE n == NodeOf[c]
           u == UserOf[c]
           userGone == userConns[n][u] <= 1
           left == IF userGone THEN userRooms[n][u] ELSE {}
           goneRooms == {r \in left : roomCount[n][r] <= 1}
           counts == [r \in Rooms |-> IF r \in goneRooms THEN 0
                                      ELSE IF r \in left THEN roomCount[n][r] - 1
                                      ELSE roomCount[n][r]]
<1>1. /\ n \in Nodes /\ u \in Users
      /\ userConns \in [Nodes -> [Users -> Nat]] /\ roomCount \in [Nodes -> [Rooms -> Nat]]
      /\ userRooms \in [Nodes -> [Users -> SUBSET Rooms]]
      /\ retract \in [Conns -> [user : BOOLEAN, rooms : SUBSET Rooms]]
    BY RouterAssumption DEF RouterTypeOK
<1>2. userConns[n][u] \in Nat /\ \A r \in Rooms : roomCount[n][r] \in Nat
    BY <1>1
<1>3. left \subseteq Rooms /\ userGone \in BOOLEAN
    BY <1>1
<1>4. counts \in [Rooms -> Nat]
  <2> SUFFICES ASSUME NEW r \in Rooms PROVE counts[r] \in Nat
    BY Zenon
  <2> QED
    BY <1>2, <1>3
<1>5. /\ userConns' = [userConns EXCEPT ![n][u] = IF userGone THEN 0 ELSE @ - 1]
      /\ userRooms' = [userRooms EXCEPT ![n][u] = IF userGone THEN {} ELSE @]
      /\ roomCount' = [roomCount EXCEPT ![n] = counts]
      /\ retract' = [retract EXCEPT ![c] = [user |-> userGone, rooms |-> goneRooms]]
    BY DEF Uncount
<1>6. roomCount' \in [Nodes -> [Rooms -> Nat]]
    BY <1>1, <1>4, <1>5
<1>7. retract' \in [Conns -> [user : BOOLEAN, rooms : SUBSET Rooms]]
  <2>1. [user |-> userGone, rooms |-> goneRooms] \in [user : BOOLEAN, rooms : SUBSET Rooms]
    BY <1>3
  <2> QED
    BY <1>1, <1>5, <2>1
<1>8. userConns' \in [Nodes -> [Users -> Nat]]
    BY <1>1, <1>2, <1>5
<1>9. userRooms' \in [Nodes -> [Users -> SUBSET Rooms]]
    BY <1>1, <1>5
<1> QED
    BY <1>6, <1>7, <1>8, <1>9

LEMMA RouterTypeStep ==
    ASSUME RouterTypeOK, [RouterNext]_routerVars
    PROVE  RouterTypeOK'
<1>0. /\ \A c \in Conns : NodeOf[c] \in Nodes /\ UserOf[c] \in Users
      /\ \A c \in Conns : rooms[c] \subseteq Rooms
      /\ Nothing \in [user : BOOLEAN, rooms : SUBSET Rooms]
      /\ {"new", "counted", "live", "uncounted", "gone"} = Stages
      /\ MaxRouterFaults \in Nat
    BY RouterAssumption DEF RouterTypeOK, Nothing, Stages
<1>1. ASSUME NEW c \in Conns, Connect(c) PROVE RouterTypeOK'
  <2>1. stage' \in [Conns -> Stages]
    BY <1>0, <1>1, GotoFacts DEF Connect
  <2> DEFINE mine == {r \in Rooms : UserOf[c] \in members[r]}
  <2>2. clients' \in [Nodes -> SUBSET Conns] /\ rooms' \in [Conns -> SUBSET Rooms]
    BY <1>0, <1>1 DEF Connect, RouterTypeOK
  <2>3. userConns' \in [Nodes -> [Users -> Nat]]
    BY <1>0, <1>1 DEF Connect, RouterTypeOK
  <2>4. userRooms' \in [Nodes -> [Users -> SUBSET Rooms]]
    BY <1>0, <1>1 DEF Connect, RouterTypeOK
  <2>5. roomCount' \in [Nodes -> [Rooms -> Nat]]
    BY <1>0, <1>1 DEF Connect, RouterTypeOK
  <2> QED
    BY <1>1, <2>1, <2>2, <2>3, <2>4, <2>5 DEF Connect, RouterTypeOK, redisVars, routeVars
<1>2. ASSUME NEW c \in Conns, Announce(c) PROVE RouterTypeOK'
  <2>1. stage' \in [Conns -> Stages]
    BY <1>0, <1>2, GotoFacts DEF Announce
  <2>2. /\ userNodes' \in [Users -> SUBSET Nodes] /\ roomNodes' \in [Rooms -> SUBSET Nodes]
        /\ lapsed' \subseteq Nodes \X (Users \cup Rooms)
    BY <1>0, <1>2 DEF Announce, RouterTypeOK
  <2> QED
    BY <1>2, <2>1, <2>2 DEF Announce, RouterTypeOK, hubVars, localVars, routeVars
<1>3. ASSUME NEW c \in Conns, AnnounceFails(c) PROVE RouterTypeOK'
  <2>1. stage' \in [Conns -> Stages]
    BY <1>0, <1>3, GotoFacts DEF AnnounceFails
  <2>2. userNodes' \in [Users -> SUBSET Nodes]
    <3>1. \/ userNodes' = [userNodes EXCEPT ![UserOf[c]] = @ \cup {NodeOf[c]}]
          \/ userNodes' = userNodes
      BY <1>3 DEF AnnounceFails
    <3>2. userNodes \in [Users -> SUBSET Nodes]
      BY DEF RouterTypeOK
    <3> QED
      BY <1>0, <3>1, <3>2
  <2>3. lapsed' \subseteq Nodes \X (Users \cup Rooms)
    <3>1. lapsed' \subseteq lapsed \cup {<<NodeOf[c], UserOf[c]>>}
                                    \cup {<<NodeOf[c], r>> : r \in rooms[c]}
      BY <1>3 DEF AnnounceFails
    <3>2. /\ lapsed \subseteq Nodes \X (Users \cup Rooms)
          /\ {<<NodeOf[c], UserOf[c]>>} \subseteq Nodes \X (Users \cup Rooms)
          /\ {<<NodeOf[c], r>> : r \in rooms[c]} \subseteq Nodes \X (Users \cup Rooms)
      BY <1>0 DEF RouterTypeOK
    <3> QED
      BY <3>1, <3>2
  <2>4. routerFaults' \in 0 .. MaxRouterFaults
    BY <1>0, <1>3 DEF AnnounceFails, RouterTypeOK, RouterFault
  <2> QED
    BY <1>3, <2>1, <2>2, <2>3, <2>4 DEF AnnounceFails, RouterTypeOK, hubVars, localVars, routeVars
<1>4. ASSUME NEW c \in Conns, Leave(c) \/ LeaveDropped(c) PROVE RouterTypeOK'
  <2>1. stage' \in [Conns -> Stages]
    BY <1>0, <1>4, GotoFacts DEF Leave, LeaveDropped
  <2>2. clients' \in [Nodes -> SUBSET Conns]
    <3>1. \/ clients' = [clients EXCEPT ![NodeOf[c]] = @ \ {c}]
          \/ clients' = clients
      BY <1>4 DEF Leave, LeaveDropped, hubVars
    <3>2. clients \in [Nodes -> SUBSET Conns]
      BY DEF RouterTypeOK
    <3> QED
      BY <3>1, <3>2
  <2>3. Uncount(c)
    BY <1>4 DEF Leave, LeaveDropped
  <2> QED
    BY <1>4, <2>1, <2>2, <2>3, UncountTypes
       DEF Leave, LeaveDropped, RouterTypeOK, hubVars, redisVars, routeVars
<1>5. ASSUME NEW c \in Conns, Retract(c) PROVE RouterTypeOK'
  <2>1. stage' \in [Conns -> Stages]
    BY <1>0, <1>5, GotoFacts DEF Retract
  <2>2. userNodes' \in [Users -> SUBSET Nodes]
    BY <1>5 DEF Retract, RouterTypeOK
  <2>3. roomNodes' \in [Rooms -> SUBSET Nodes]
    BY <1>5 DEF Retract, RouterTypeOK
  <2>4. lapsed' \subseteq Nodes \X (Users \cup Rooms)
    BY <1>0, <1>5 DEF Retract, RouterTypeOK
  <2>5. retract' \in [Conns -> [user : BOOLEAN, rooms : SUBSET Rooms]]
    BY <1>0, <1>5 DEF Retract, RouterTypeOK
  <2> QED
    BY <1>5, <2>1, <2>2, <2>3, <2>4, <2>5 DEF Retract, RouterTypeOK, hubVars, localVars, routeVars
<1>6. ASSUME NEW c \in Conns, RetractFails(c) PROVE RouterTypeOK'
  <2>1. stage' \in [Conns -> Stages]
    BY <1>0, <1>6, GotoFacts DEF RetractFails
  <2>2. retract' \in [Conns -> [user : BOOLEAN, rooms : SUBSET Rooms]]
    BY <1>0, <1>6 DEF RetractFails, RouterTypeOK
  <2>3. routerFaults' \in 0 .. MaxRouterFaults
    BY <1>0, <1>6 DEF RetractFails, RouterTypeOK, RouterFault
  <2> QED
    BY <1>6, <2>1, <2>2, <2>3
       DEF RetractFails, RouterTypeOK, hubVars, localVars, redisVars, routeVars
<1>7. ASSUME NEW r \in Rooms, Membership(r) PROVE RouterTypeOK'
  <2>1. members' \in [Rooms -> SUBSET Users] /\ roomNodes' \in [Rooms -> SUBSET Nodes]
    <3>1. CASE Dismiss(r)
      BY <3>1 DEF Dismiss, RouterTypeOK
    <3>2. ASSUME NEW u \in Users, AddMember(r, u)
          PROVE  members' \in [Rooms -> SUBSET Users] /\ roomNodes' \in [Rooms -> SUBSET Nodes]
      BY <3>2 DEF AddMember, RouterTypeOK
    <3> QED
      BY <1>7, <3>1, <3>2 DEF Membership
  <2>2. UNCHANGED <<stage, rooms, retract, hubVars, localVars, userNodes, routeVars, lapsed,
                    routerFaults>>
    BY <1>7 DEF Membership, AddMember, Dismiss
  <2> QED
    BY <2>1, <2>2 DEF RouterTypeOK, hubVars, localVars, routeVars
<1>8. ASSUME NEW m \in Messages, Start(m) PROVE RouterTypeOK'
  <2>1. UNCHANGED <<stage, rooms, retract, hubVars, localVars, redisVars, members, wire, lapsed>>
    BY <1>8 DEF Start
  <2> QED
    BY <1>8, <2>1, StartFacts DEF RouterTypeOK, hubVars, localVars, redisVars
<1>9. ASSUME NEW m \in Messages, SendLocal(m) PROVE RouterTypeOK'
  <2>1. /\ routing[m].node \in Nodes /\ NextTarget(m, routing[m].node)
        /\ Deliver(routing[m].node, Payload(m))
        /\ UNCHANGED <<stage, rooms, retract, localVars, redisVars, members, wire, owed, lapsed>>
    BY <1>9 DEF SendLocal, RouterTypeOK, Routings
  <2> QED
    BY <2>1, NextTargetFacts, DeliverFacts, PayloadFacts DEF RouterTypeOK, localVars, redisVars
<1>10. ASSUME NEW m \in Messages, NEW n \in Nodes, Publish(m, n) PROVE RouterTypeOK'
  <2>1. /\ NextTarget(m, n)
        /\ UNCHANGED <<stage, rooms, retract, hubVars, localVars, redisVars, members, lapsed>>
    BY <1>10 DEF Publish
  <2>2. wire' \in [Nodes -> Seq(Payloads)]
    <3>1. wire[n] \in Seq(Payloads) /\ wire \in [Nodes -> Seq(Payloads)]
      BY DEF RouterTypeOK
    <3>2. Append(wire[n], Payload(m)) \in Seq(Payloads)
      BY <3>1, AppendWire, PayloadFacts
    <3> QED
      BY <1>10, <3>1, <3>2 DEF Publish
  <2>3. owed' \in [Messages -> SUBSET Conns]
    <3>1. \/ owed' = owed
          \/ owed' = [owed EXCEPT ![m] = @ \ {c \in Conns : NodeOf[c] = n}]
      BY <1>10 DEF Publish
    <3>2. owed \in [Messages -> SUBSET Conns]
      BY DEF RouterTypeOK
    <3> QED
      BY <3>1, <3>2
  <2>4. routerFaults' \in 0 .. MaxRouterFaults
    BY <1>0, <1>10 DEF Publish, RouterFault, RouterTypeOK
  <2> QED
    BY <2>1, <2>2, <2>3, <2>4, NextTargetFacts DEF RouterTypeOK, hubVars, localVars, redisVars
<1>11. ASSUME NEW n \in Nodes, Receive(n) PROVE RouterTypeOK'
  <2>1. /\ wire[n] # <<>> /\ wire' = [wire EXCEPT ![n] = Tail(wire[n])]
        /\ Deliver(n, Head(wire[n]))
        /\ UNCHANGED <<stage, rooms, retract, localVars, redisVars, members, routing, owed, lapsed>>
    BY <1>11 DEF Receive
  <2>2. wire[n] \in Seq(Payloads) /\ wire \in [Nodes -> Seq(Payloads)]
    BY DEF RouterTypeOK
  <2>3. Head(wire[n]) \in Payloads /\ Tail(wire[n]) \in Seq(Payloads)
    BY <2>1, <2>2, TailWire
  <2>4. wire' \in [Nodes -> Seq(Payloads)]
    BY <2>1, <2>2, <2>3
  <2> QED
    BY <2>1, <2>3, <2>4, DeliverFacts DEF RouterTypeOK, localVars, redisVars
<1>12. ASSUME NEW n \in Nodes, Restart(n) PROVE RouterTypeOK'
  <2>1. stage' \in [Conns -> Stages]
    BY <1>0, <1>12, Zenon DEF Restart, RouterTypeOK
  <2>2. retract' \in [Conns -> [user : BOOLEAN, rooms : SUBSET Rooms]]
    BY <1>0, <1>12, Zenon DEF Restart, RouterTypeOK
  <2>3. clients' \in [Nodes -> SUBSET Conns]
    BY <1>12, Zenon DEF Restart, RouterTypeOK
  <2>4. /\ userConns' \in [Nodes -> [Users -> Nat]]
        /\ roomCount' \in [Nodes -> [Rooms -> Nat]]
        /\ userRooms' \in [Nodes -> [Users -> SUBSET Rooms]]
    BY <1>12, Zenon DEF Restart, RouterTypeOK
  <2>5. routerFaults' \in 0 .. MaxRouterFaults
    <3>1. RouterFault
      BY <1>12, Zenon DEF Restart
    <3> QED
      BY <1>0, <3>1 DEF RouterTypeOK, RouterFault
  <2>6. UNCHANGED <<rooms, got, redisVars, members, lapsed>>
    BY <1>12, Zenon DEF Restart
  <2> QED
    BY <1>12, <2>1, <2>2, <2>3, <2>4, <2>5, <2>6, RestartFacts DEF RouterTypeOK, redisVars
<1>13. CASE UNCHANGED routerVars
    BY <1>13 DEF routerVars, RouterTypeOK, hubVars, localVars, redisVars, routeVars
<1> QED
    BY <1>1, <1>2, <1>3, <1>4, <1>5, <1>6, <1>7, <1>8, <1>9, <1>10, <1>11, <1>12, <1>13
       DEF RouterNext, Connection, Routing

-----------------------------------------------------------------------------
(* A message is sent to a node once, and not forgotten.                     *)

ClientsInv == \A n \in Nodes : \A c \in clients[n] : NodeOf[c] = n /\ stage[c] # "new"

\* No connection of a node has got the message.
NoneGot(n, m) == \A c \in Conns : NodeOf[c] = n => got[c][m] = 0

\* A message not yet routed, a target and a payload exclude each other, and
\* while there is one of them no connection of the node has got the message.
OnceOf(n, m) ==
    /\ routing[m].phase # "routing" => n \notin routing[m].targets
    /\ routing[m].phase = "idle" \/ n \in routing[m].targets => ~In(wire[n], m)
    /\ routing[m].phase = "idle" \/ n \in routing[m].targets \/ In(wire[n], m) => NoneGot(n, m)
    /\ \A c \in Conns : NodeOf[c] = n => got[c][m] <= 1

OnceInv ==
    /\ \A n \in Nodes : Single(wire[n])
    /\ \A n \in Nodes, m \in Messages : OnceOf(n, m)

\* The payloads name the users of the route, and a connection that is owed the
\* message has got it, or its node is a target, or has it on its wire.
OwedOf(c, m) ==
    /\ stage[c] # "new" /\ routing[m].phase # "idle" /\ UserOf[c] \in routing[m].users
    /\ c \in clients[NodeOf[c]] =>
          \/ got[c][m] > 0
          \/ NodeOf[c] \in routing[m].targets
          \/ In(wire[NodeOf[c]], m)

OwedInv ==
    /\ \A n \in Nodes, m \in Messages : Told(wire[n], m, routing[m].users)
    /\ \A m \in Messages : \A c \in owed[m] : OwedOf(c, m)

MessageInv == RouterTypeOK /\ ClientsInv /\ OnceInv /\ OwedInv

LEMMA MessageInitially == RouterInit => MessageInv
<1> SUFFICES ASSUME RouterInit PROVE MessageInv
    OBVIOUS
<1>1. RouterTypeOK
    BY RouterTypesInitially
<1>2. ClientsInv
    BY DEF RouterInit, ClientsInv
<1>3. \A m \in Messages : routing[m].phase = "idle" /\ routing[m].targets = {} /\ owed[m] = {}
    BY DEF RouterInit, Unrouted
<1>4. \A n \in Nodes : wire[n] = <<>>
    BY DEF RouterInit
<1>5. \A c \in Conns, m \in Messages : got[c][m] = 0
    BY DEF RouterInit
<1>6. OnceInv
    BY <1>3, <1>4, <1>5, EmptyWire DEF OnceInv, OnceOf, NoneGot
<1>7. OwedInv
    BY <1>3, <1>4, EmptyWire DEF OwedInv
<1> QED
    BY <1>1, <1>2, <1>6, <1>7 DEF MessageInv

LEMMA ClientsStep ==
    ASSUME MessageInv, [RouterNext]_routerVars
    PROVE  ClientsInv'
<1>0. /\ RouterTypeOK /\ ClientsInv
      /\ clients \in [Nodes -> SUBSET Conns] /\ stage \in [Conns -> Stages]
      /\ \A c \in Conns : NodeOf[c] \in Nodes
    BY RouterAssumption DEF MessageInv, RouterTypeOK
<1>1. CASE /\ \A n \in Nodes : clients'[n] \subseteq clients[n]
           /\ \A c \in Conns : stage'[c] = "new" => stage[c] = "new"
    BY <1>0, <1>1 DEF ClientsInv
<1>2. ASSUME NEW c \in Conns, Connect(c) PROVE ClientsInv'
  <2>1. /\ stage'[c] = "counted" /\ \A x \in Conns \ {c} : stage'[x] = stage[x]
        /\ clients' = [clients EXCEPT ![NodeOf[c]] = @ \cup {c}]
    BY <1>0, <1>2 DEF Connect, Goto
  <2> QED
    BY <1>0, <2>1 DEF ClientsInv
<1>3. ASSUME NEW c \in Conns, Announce(c) \/ AnnounceFails(c) \/ Retract(c) \/ RetractFails(c)
      PROVE  ClientsInv'
  <2>1. UNCHANGED clients
    BY <1>3 DEF Announce, AnnounceFails, Retract, RetractFails, hubVars
  <2>2. \E from, to \in {"counted", "live", "uncounted", "gone"} : Goto(c, from, to)
    BY <1>3 DEF Announce, AnnounceFails, Retract, RetractFails
  <2> QED
    BY <1>0, <1>1, <2>1, <2>2 DEF Goto
<1>4. ASSUME NEW c \in Conns, Leave(c) \/ LeaveDropped(c) PROVE ClientsInv'
  <2>1. clients' = [clients EXCEPT ![NodeOf[c]] = @ \ {c}] \/ UNCHANGED clients
    BY <1>4 DEF Leave, LeaveDropped, hubVars
  <2>2. Goto(c, "live", "uncounted")
    BY <1>4 DEF Leave, LeaveDropped
  <2>3. \A n \in Nodes : clients'[n] \subseteq clients[n]
    BY <1>0, <2>1
  <2> QED
    BY <1>0, <1>1, <2>2, <2>3 DEF Goto
<1>5. ASSUME NEW r \in Rooms, Membership(r) PROVE ClientsInv'
  <2>1. UNCHANGED <<clients, stage>>
    BY <1>5 DEF Membership, AddMember, Dismiss, hubVars
  <2> QED
    BY <1>1, <2>1
<1>6. ASSUME NEW m \in Messages, Start(m) PROVE ClientsInv'
  <2>1. UNCHANGED <<clients, stage>>
    BY <1>6 DEF Start, hubVars
  <2> QED
    BY <1>1, <2>1
<1>7. ASSUME NEW m \in Messages, SendLocal(m) PROVE ClientsInv'
  <2>1. /\ routing[m].node \in Nodes /\ Deliver(routing[m].node, Payload(m))
        /\ UNCHANGED stage
    BY <1>0, <1>7 DEF SendLocal, RouterTypeOK, Routings
  <2> QED
    BY <1>0, <1>1, <2>1, DeliverFacts, PayloadFacts
<1>8. ASSUME NEW m \in Messages, NEW n \in Nodes, Publish(m, n) PROVE ClientsInv'
  <2>1. UNCHANGED <<clients, stage>>
    BY <1>8 DEF Publish, hubVars
  <2> QED
    BY <1>1, <2>1
<1>9. ASSUME NEW n \in Nodes, Receive(n) PROVE ClientsInv'
  <2>1. Deliver(n, Head(wire[n])) /\ wire[n] # <<>> /\ UNCHANGED stage
    BY <1>9 DEF Receive
  <2>2. Head(wire[n]) \in Payloads
    BY <1>0, <2>1, TailWire DEF RouterTypeOK
  <2> QED
    BY <1>0, <1>1, <2>1, <2>2, DeliverFacts
<1>10. ASSUME NEW n \in Nodes, Restart(n) PROVE ClientsInv'
  <2>1. clients' = [clients EXCEPT ![n] = {}]
    BY <1>10, Zenon DEF Restart
  <2>2. \A c \in Conns : stage'[c] = "gone" \/ stage'[c] = stage[c]
    BY <1>10, Zenon DEF Restart
  <2>3. \A x \in Nodes : clients'[x] \subseteq clients[x]
    BY <1>0, <2>1
  <2> QED
    BY <1>1, <2>2, <2>3
<1>11. CASE UNCHANGED routerVars
    BY <1>1, <1>11 DEF routerVars, hubVars
<1> QED
    BY <1>2, <1>3, <1>4, <1>5, <1>6, <1>7, <1>8, <1>9, <1>10, <1>11
       DEF RouterNext, Connection, Routing

\* The steps of connections and members leave messages alone.
LEMMA ConnectionKeepsMessages ==
    \/ \E c \in Conns : Connection(c)
    \/ \E r \in Rooms : Membership(r)
    \/ UNCHANGED routerVars
    => UNCHANGED <<routing, wire, got, owed>>
<1>1. ASSUME NEW c \in Conns, Connection(c) PROVE UNCHANGED <<routing, wire, got, owed>>
    BY <1>1 DEF Connection, Connect, Announce, AnnounceFails, Leave, LeaveDropped, Retract,
                RetractFails, routeVars, hubVars
<1>2. ASSUME NEW r \in Rooms, Membership(r) PROVE UNCHANGED <<routing, wire, got, owed>>
    BY <1>2 DEF Membership, AddMember, Dismiss, routeVars, hubVars
<1>3. CASE UNCHANGED routerVars
    BY <1>3 DEF routerVars, routeVars, hubVars
<1> QED
    BY <1>1, <1>2, <1>3

LEMMA OnceStep ==
    ASSUME MessageInv, [RouterNext]_routerVars
    PROVE  OnceInv'
<1>0. /\ RouterTypeOK /\ ClientsInv
      /\ \A n \in Nodes : Single(wire[n])
      /\ \A n \in Nodes, m \in Messages : OnceOf(n, m)
      /\ wire \in [Nodes -> Seq(Payloads)] /\ got \in [Conns -> [Messages -> Nat]]
      /\ \A c \in Conns : NodeOf[c] \in Nodes
    BY RouterAssumption DEF MessageInv, OnceInv, RouterTypeOK
<1>1. CASE UNCHANGED <<routing, wire, got>>
    BY <1>0, <1>1 DEF OnceInv, OnceOf, NoneGot
<1>2. ASSUME NEW m \in Messages, Start(m) PROVE OnceInv'
  <2>1. UNCHANGED <<wire, got>>
    BY <1>2 DEF Start, hubVars
  <2>2. /\ routing[m].phase = "idle" /\ routing'[m].phase = "routing"
        /\ \A x \in Messages \ {m} : routing'[x] = routing[x]
    BY <1>0, <1>2, StartFacts
  <2>3. ASSUME NEW n \in Nodes, NEW x \in Messages PROVE OnceOf(n, x)'
    BY <1>0, <2>1, <2>2 DEF OnceOf, NoneGot
  <2> QED
    BY <1>0, <2>1, <2>3 DEF OnceInv
<1>3. ASSUME NEW m \in Messages, SendLocal(m) PROVE OnceInv'
  <2> DEFINE n == routing[m].node
  <2>1. n \in Nodes /\ NextTarget(m, n) /\ Deliver(n, Payload(m)) /\ UNCHANGED wire
    BY <1>0, <1>3 DEF SendLocal, RouterTypeOK, Routings
  <2> HIDE DEF n
  <2>2. ASSUME NEW x \in Nodes, NEW y \in Messages PROVE OnceOf(x, y)'
    <3>1. CASE x = n /\ y = m
      <4>1. /\ n \in routing[m].targets /\ routing'[m].targets = routing[m].targets \ {n}
            /\ routing'[m].phase = "done" \/ routing'[m].phase = routing[m].phase
        BY <1>0, <2>1, NextTargetFacts
      <4>2. NoneGot(n, m) /\ ~In(wire[n], m) /\ routing[m].phase = "routing"
        BY <1>0, <2>1, <4>1 DEF OnceOf
      <4>3. \A c \in Conns : got'[c][m] = got[c][m] \/ got'[c][m] = got[c][m] + 1
        <5>1. Payload(m) \in Payloads /\ Payload(m).msg = m
          BY <1>0, PayloadFacts
        <5> QED
          BY <1>0, <2>1, <5>1, DeliverFacts
      <4> QED
        BY <2>1, <3>1, <4>1, <4>2, <4>3 DEF OnceOf, NoneGot
    <3>2. CASE y # m
      <4>1. routing'[y] = routing[y]
        BY <1>0, <2>1, <3>2, NextTargetFacts
      <4>2. Payload(m) \in Payloads /\ Payload(m).msg # y
        BY <1>0, <3>2, PayloadFacts
      <4>3. \A c \in Conns : got'[c][y] = got[c][y]
        BY <1>0, <2>1, <4>2, DeliverFacts
      <4> QED
        BY <1>0, <2>1, <4>1, <4>3 DEF OnceOf, NoneGot
    <3>3. CASE x # n /\ y = m
      <4>1. /\ n \in routing[m].targets /\ routing'[m].targets = routing[m].targets \ {n}
            /\ routing'[m].phase = "done" \/ routing'[m].phase = routing[m].phase
            /\ routing[m].targets = {n} <=> routing'[m].targets = {}
            /\ routing[m].targets = {n} => routing'[m].phase = "done"
        BY <1>0, <2>1, NextTargetFacts
      <4>2. routing[m].phase = "routing"
        BY <1>0, <2>1, <4>1 DEF OnceOf
      <4>3. \A c \in Conns : NodeOf[c] = x => got'[c] = got[c]
        BY <1>0, <2>1, <3>3, DeliverFacts, PayloadFacts DEF ClientsInv
      <4>4. routing'[m].phase = "done" => x \notin routing'[m].targets
        BY <1>0, <2>1, <4>1, <4>2, NextTargetDone
      <4> QED
        BY <1>0, <2>1, <3>3, <4>1, <4>2, <4>3, <4>4 DEF OnceOf, NoneGot
    <3> QED
      BY <3>1, <3>2, <3>3
  <2> QED
    BY <1>0, <2>1, <2>2 DEF OnceInv
<1>4. ASSUME NEW m \in Messages, NEW n \in Nodes, Publish(m, n) PROVE OnceInv'
  <2>1. NextTarget(m, n) /\ UNCHANGED got
    BY <1>4 DEF Publish, hubVars
  <2>2. /\ n \in routing[m].targets /\ routing'[m].targets = routing[m].targets \ {n}
        /\ routing'[m].phase = "done" \/ routing'[m].phase = routing[m].phase
        /\ \A y \in Messages \ {m} : routing'[y] = routing[y]
    BY <1>0, <2>1, NextTargetFacts
  <2>3. NoneGot(n, m) /\ ~In(wire[n], m) /\ routing[m].phase = "routing"
    BY <1>0, <2>2 DEF OnceOf
  <2>4. /\ \A x \in Nodes \ {n} : wire'[x] = wire[x]
        /\ Single(wire'[n])
        /\ \A y \in Messages \ {m} : In(wire'[n], y) <=> In(wire[n], y)
    <3>1. CASE wire' = [wire EXCEPT ![n] = Append(@, Payload(m))]
      <4>1. wire[n] \in Seq(Payloads) /\ wire'[n] = Append(wire[n], Payload(m))
        BY <1>0, <3>1
      <4> DEFINE p == Payload(m)
      <4>2. p \in Payloads /\ p.msg = m /\ wire'[n] = Append(wire[n], p)
        BY <1>0, <4>1, PayloadFacts
      <4> HIDE DEF p
      <4>3. /\ \A y : In(wire'[n], y) <=> In(wire[n], y) \/ p.msg = y
            /\ Single(wire[n]) /\ ~In(wire[n], p.msg) => Single(wire'[n])
        BY <4>1, <4>2, AppendWire
      <4>4. \A x \in Nodes \ {n} : wire'[x] = wire[x]
        BY <1>0, <3>1
      <4> QED
        BY <1>0, <2>3, <4>2, <4>3, <4>4
    <3>2. CASE UNCHANGED wire
      BY <1>0, <3>2
    <3> QED
      BY <1>4, <3>1, <3>2 DEF Publish
  <2>5. routing'[m].phase = "done" => routing'[m].targets = {}
    BY <1>0, <2>1, <2>3, NextTargetDone
  <2>6. ASSUME NEW x \in Nodes, NEW y \in Messages PROVE OnceOf(x, y)'
    <3>1. CASE x = n /\ y = m
      BY <1>0, <2>1, <2>2, <2>3, <2>5, <3>1 DEF OnceOf, NoneGot
    <3>2. CASE y # m
      BY <1>0, <2>1, <2>2, <2>4, <3>2 DEF OnceOf, NoneGot
    <3>3. CASE x # n /\ y = m
      BY <1>0, <2>1, <2>2, <2>3, <2>4, <2>5, <3>3 DEF OnceOf, NoneGot
    <3> QED
      BY <3>1, <3>2, <3>3
  <2> QED
    BY <1>0, <2>4, <2>6 DEF OnceInv
<1>5. ASSUME NEW n \in Nodes, Receive(n) PROVE OnceInv'
  <2> DEFINE p == Head(wire[n])
             m == p.msg
  <2>1. /\ wire[n] # <<>> /\ wire' = [wire EXCEPT ![n] = Tail(wire[n])]
        /\ Deliver(n, p) /\ UNCHANGED routing
    BY <1>5 DEF Receive
  <2>2. /\ p \in Payloads /\ m \in Messages
        /\ \A y : In(wire[n], y) <=> In(wire'[n], y) \/ m = y
        /\ Single(wire'[n]) /\ ~In(wire'[n], m)
        /\ \A x \in Nodes \ {n} : wire'[x] = wire[x]
    BY <1>0, <2>1, TailWire DEF Payloads
  <2> HIDE DEF p
  <2>3. /\ \A c \in Conns, y \in Messages : y # m => got'[c][y] = got[c][y]
        /\ \A c \in Conns : got'[c] = got[c] \/ (c \in clients[n] /\ got'[c][m] = got[c][m] + 1)
    BY <1>0, <2>1, <2>2, DeliverFacts
  <2>4. ASSUME NEW x \in Nodes, NEW y \in Messages PROVE OnceOf(x, y)'
    <3>1. CASE x = n /\ y = m
      <4>1. NoneGot(n, m) /\ routing[m].phase # "idle" /\ n \notin routing[m].targets
        BY <1>0, <2>2 DEF OnceOf
      <4> QED
        BY <2>1, <2>2, <2>3, <3>1, <4>1 DEF OnceOf, NoneGot
    <3>2. CASE y # m
      BY <1>0, <2>1, <2>2, <2>3, <3>2 DEF OnceOf, NoneGot
    <3>3. CASE x # n
      <4>1. \A c \in Conns : NodeOf[c] = x => got'[c] = got[c]
        BY <1>0, <2>3, <3>3 DEF ClientsInv
      <4> QED
        BY <1>0, <2>1, <2>2, <3>3, <4>1 DEF OnceOf, NoneGot
    <3> QED
      BY <3>1, <3>2, <3>3
  <2> QED
    BY <1>0, <2>2, <2>4 DEF OnceInv
<1>6. ASSUME NEW n \in Nodes, Restart(n) PROVE OnceInv'
  <2>1. UNCHANGED got
    BY <1>6, Zenon DEF Restart
  <2>2. /\ wire'[n] = <<>> /\ \A x \in Nodes \ {n} : wire'[x] = wire[x]
        /\ \A m \in Messages : \/ routing'[m] = routing[m]
                               \/ routing'[m].phase = "done" /\ routing'[m].targets = {}
    BY <1>0, <1>6, RestartFacts
  <2>3. ASSUME NEW x \in Nodes, NEW y \in Messages PROVE OnceOf(x, y)'
    <3>1. In(wire'[x], y) => In(wire[x], y)
      BY <2>2, EmptyWire
    <3> QED
      BY <1>0, <2>1, <2>2, <3>1 DEF OnceOf, NoneGot
  <2> QED
    BY <1>0, <2>2, <2>3, EmptyWire DEF OnceInv
<1> QED
    BY <1>1, <1>2, <1>3, <1>4, <1>5, <1>6, ConnectionKeepsMessages DEF RouterNext, Routing

LEMMA OwedStep ==
    ASSUME MessageInv, [RouterNext]_routerVars
    PROVE  OwedInv'
<1>0. /\ RouterTypeOK /\ ClientsInv /\ OwedInv
      /\ \A n \in Nodes, m \in Messages : OnceOf(n, m)
      /\ \A n \in Nodes, m \in Messages : Told(wire[n], m, routing[m].users)
      /\ \A m \in Messages : \A c \in owed[m] : c \in Conns /\ OwedOf(c, m)
      /\ wire \in [Nodes -> Seq(Payloads)] /\ got \in [Conns -> [Messages -> Nat]]
      /\ \A c \in Conns : NodeOf[c] \in Nodes
      /\ clients \in [Nodes -> SUBSET Conns] /\ stage \in [Conns -> Stages]
    BY RouterAssumption DEF MessageInv, OnceInv, OwedInv, RouterTypeOK
<1>1. ASSUME UNCHANGED <<routing, wire, got, owed>>,
             \A c \in Conns : stage[c] # "new" =>
                 stage'[c] # "new" /\ (c \in clients'[NodeOf[c]] => c \in clients[NodeOf[c]])
      PROVE  OwedInv'
    BY <1>0, <1>1 DEF OwedInv, OwedOf
<1>2. ASSUME NEW c \in Conns, Connection(c) PROVE OwedInv'
  <2>1. UNCHANGED <<routing, wire, got, owed>>
    BY <1>2, ConnectionKeepsMessages
  <2>2. /\ \E from \in {"new", "counted", "live", "uncounted"},
              to \in {"counted", "live", "uncounted", "gone"} : Goto(c, from, to)
        /\ \/ UNCHANGED clients
           \/ stage[c] = "new" /\ clients' = [clients EXCEPT ![NodeOf[c]] = @ \cup {c}]
           \/ clients' = [clients EXCEPT ![NodeOf[c]] = @ \ {c}]
    BY <1>2 DEF Connection, Connect, Announce, AnnounceFails, Leave, LeaveDropped, Retract,
                RetractFails, Goto, hubVars
  <2>3. \A x \in Conns : stage[x] # "new" =>
            stage'[x] # "new" /\ (x \in clients'[NodeOf[x]] => x \in clients[NodeOf[x]])
    <3> TAKE x \in Conns
    <3>1. stage[x] # "new" => stage'[x] # "new"
      BY <1>0, <2>2 DEF Goto
    <3>2. NodeOf[x] \in Nodes /\ NodeOf[c] \in Nodes
      BY <1>0
    <3>3. stage[x] # "new" => (x \in clients'[NodeOf[x]] => x \in clients[NodeOf[x]])
      <4>1. CASE UNCHANGED clients
        BY <4>1
      <4>2. CASE stage[c] = "new" /\ clients' = [clients EXCEPT ![NodeOf[c]] = @ \cup {c}]
        BY <1>0, <3>2, <4>2
      <4>3. CASE clients' = [clients EXCEPT ![NodeOf[c]] = @ \ {c}]
        BY <1>0, <3>2, <4>3
      <4> QED
        BY <2>2, <4>1, <4>2, <4>3
    <3> QED
      BY <3>1, <3>3
  <2> QED
    BY <1>1, <2>1, <2>3
<1>3. ASSUME NEW r \in Rooms, Membership(r) PROVE OwedInv'
  <2>1. UNCHANGED <<clients, stage>>
    BY <1>3 DEF Membership, AddMember, Dismiss, hubVars
  <2> QED
    BY <1>1, <1>3, <2>1, ConnectionKeepsMessages
<1>4. ASSUME NEW m \in Messages, Start(m) PROVE OwedInv'
  <2>1. UNCHANGED <<wire, got, clients, stage>>
    BY <1>4 DEF Start, hubVars
  <2>2. /\ routing[m].phase = "idle" /\ routing'[m].phase = "routing"
        /\ owed' \in [Messages -> SUBSET Conns] /\ routing' \in [Messages -> Routings]
        /\ \A x \in Messages \ {m} : routing'[x] = routing[x] /\ owed'[x] = owed[x]
        /\ \A c \in owed'[m] : /\ UserOf[c] \in routing'[m].users
                               /\ \E n \in routing'[m].targets : c \in clients[n]
    BY <1>0, <1>4, StartFacts
  <2>3. \A n \in Nodes : ~In(wire[n], m)
    BY <1>0, <2>2 DEF OnceOf
  <2>4. ASSUME NEW n \in Nodes, NEW y \in Messages
        PROVE  Told(wire'[n], y, routing'[y].users)
    <3>1. CASE y = m
      BY <2>1, <2>3, <3>1 DEF Told, In
    <3> QED
      BY <1>0, <2>1, <2>2, <3>1
  <2>5. ASSUME NEW y \in Messages, NEW c \in owed'[y] PROVE OwedOf(c, y)'
    <3>1. CASE y = m
      <4>1. PICK n \in routing'[m].targets : c \in clients[n]
        BY <2>2, <3>1
      <4>2. n \in Nodes
        BY <2>2 DEF Routings
      <4>3. NodeOf[c] = n /\ stage[c] # "new"
        BY <1>0, <4>1, <4>2 DEF ClientsInv
      <4> QED
        BY <2>1, <2>2, <3>1, <4>1, <4>3 DEF OwedOf
    <3>2. CASE y # m
      <4>1. c \in owed[y] /\ routing'[y] = routing[y]
        BY <2>2, <3>2
      <4> QED
        BY <1>0, <2>1, <4>1 DEF OwedOf
    <3> QED
      BY <3>1, <3>2
  <2> QED
    BY <2>4, <2>5 DEF OwedInv
<1>5. ASSUME NEW m \in Messages, SendLocal(m) PROVE OwedInv'
  <2> DEFINE n == routing[m].node
             p == Payload(m)
  <2>1. n \in Nodes /\ NextTarget(m, n) /\ Deliver(n, p) /\ UNCHANGED <<wire, stage, owed>>
    BY <1>0, <1>5 DEF SendLocal, RouterTypeOK, Routings
  <2>2. p \in Payloads /\ p.msg = m /\ p.users = routing[m].users
    BY <1>0, PayloadFacts
  <2> HIDE DEF n, p
  <2>3. /\ routing'[m].targets = routing[m].targets \ {n}
        /\ routing'[m].users = routing[m].users
        /\ routing'[m].phase = "done" \/ routing'[m].phase = routing[m].phase
        /\ \A y \in Messages \ {m} : routing'[y] = routing[y]
    BY <1>0, <2>1, NextTargetFacts
  <2>4. /\ clients'[n] \subseteq clients[n]
        /\ \A x \in Nodes \ {n} : clients'[x] = clients[x]
    BY <1>0, <2>1, <2>2, DeliverFacts
  <2>5. /\ \A c \in Conns, y \in Messages : y # m => got'[c][y] = got[c][y]
        /\ \A c \in Conns : got'[c] = got[c] \/ got'[c][m] = got[c][m] + 1
        /\ \A c \in clients'[n] : UserOf[c] \in routing[m].users => got'[c][m] = got[c][m] + 1
    BY <1>0, <2>1, <2>2, DeliverFacts
  <2>6. ASSUME NEW y \in Messages, NEW c \in owed'[y] PROVE OwedOf(c, y)'
    <3>1. /\ c \in Conns /\ OwedOf(c, y) /\ NodeOf[c] \in Nodes
          /\ c \in clients'[NodeOf[c]] => c \in clients[NodeOf[c]]
      BY <1>0, <2>1, <2>4
    <3>2. got[c][y] \in Nat
      BY <1>0, <3>1
    <3>3. CASE y = m
      BY <2>1, <2>3, <2>5, <3>1, <3>2, <3>3 DEF OwedOf
    <3>4. CASE y # m
      BY <2>1, <2>3, <2>5, <3>1, <3>4 DEF OwedOf
    <3> QED
      BY <3>3, <3>4
  <2>7. \A x \in Nodes, y \in Messages : Told(wire'[x], y, routing'[y].users)
    BY <1>0, <2>1, <2>3
  <2> QED
    BY <2>6, <2>7 DEF OwedInv
<1>6. ASSUME NEW m \in Messages, NEW n \in Nodes, Publish(m, n) PROVE OwedInv'
  <2>1. NextTarget(m, n) /\ UNCHANGED <<got, clients, stage>>
    BY <1>6 DEF Publish, hubVars
  <2>2. /\ routing'[m].targets = routing[m].targets \ {n}
        /\ routing'[m].users = routing[m].users
        /\ routing'[m].phase = "done" \/ routing'[m].phase = routing[m].phase
        /\ \A y \in Messages \ {m} : routing'[y] = routing[y]
    BY <1>0, <2>1, NextTargetFacts
  <2>3. \A y \in Messages : routing'[y].users = routing[y].users
    BY <2>2
  <2>4. CASE wire' = [wire EXCEPT ![n] = Append(@, Payload(m))] /\ UNCHANGED owed
    <3>1. /\ wire[n] \in Seq(Payloads) /\ wire'[n] = Append(wire[n], Payload(m))
          /\ \A x \in Nodes \ {n} : wire'[x] = wire[x]
      BY <1>0, <2>4
    <3> DEFINE p == Payload(m)
    <3>2a. p \in Payloads /\ p.msg = m /\ p.users = routing[m].users
      BY <1>0, PayloadFacts
    <3>2b. wire'[n] = Append(wire[n], p)
      BY <3>1
    <3> HIDE DEF p
    <3>2c. \A y : In(wire'[n], y) <=> In(wire[n], y) \/ p.msg = y
      BY <3>1, <3>2a, <3>2b, AppendWire
    <3>2d. \A y, users : Told(wire[n], y, users) /\ (p.msg = y => p.users = users)
                              => Told(wire'[n], y, users)
      BY <3>1, <3>2a, <3>2b, AppendWire
    <3>2. /\ \A y : In(wire'[n], y) <=> In(wire[n], y) \/ m = y
          /\ \A y, users : Told(wire[n], y, users) /\ (m = y => routing[m].users = users)
                              => Told(wire'[n], y, users)
      BY <3>2a, <3>2c, <3>2d
    <3>3. \A x \in Nodes, y \in Messages : Told(wire'[x], y, routing'[y].users)
      BY <1>0, <2>3, <3>1, <3>2
    <3>4. ASSUME NEW y \in Messages, NEW c \in owed'[y] PROVE OwedOf(c, y)'
      <4>1. c \in Conns /\ OwedOf(c, y) /\ NodeOf[c] \in Nodes
        BY <1>0, <2>4
      <4>2. In(wire[NodeOf[c]], y) => In(wire'[NodeOf[c]], y)
        BY <3>1, <3>2, <4>1
      <4>3. NodeOf[c] \in routing[y].targets =>
                NodeOf[c] \in routing'[y].targets \/ In(wire'[NodeOf[c]], y)
        BY <2>2, <3>2
      <4>4. routing'[y].phase # "idle"
        BY <2>2, <4>1 DEF OwedOf
      <4> QED
        BY <2>1, <2>3, <4>1, <4>2, <4>3, <4>4 DEF OwedOf
    <3> QED
      BY <3>3, <3>4 DEF OwedInv
  <2>5. CASE /\ owed' = [owed EXCEPT ![m] = @ \ {c \in Conns : NodeOf[c] = n}]
             /\ UNCHANGED wire
    <3>1. \A x \in Nodes, y \in Messages : Told(wire'[x], y, routing'[y].users)
      BY <1>0, <2>3, <2>5
    <3>2. ASSUME NEW y \in Messages, NEW c \in owed'[y] PROVE OwedOf(c, y)'
      <4>1. c \in owed[y] /\ (y = m => c \notin {x \in Conns : NodeOf[x] = n})
        <5>1. owed \in [Messages -> SUBSET Conns]
          BY <1>0 DEF RouterTypeOK
        <5> QED
          BY <2>5, <5>1
      <4>2. c \in Conns /\ OwedOf(c, y) /\ (y = m => NodeOf[c] # n)
        BY <1>0, <4>1
      <4>3. routing'[y].phase # "idle"
        BY <2>2, <4>2 DEF OwedOf
      <4>4. NodeOf[c] \in routing[y].targets => NodeOf[c] \in routing'[y].targets
        BY <2>2, <4>2
      <4> QED
        BY <2>1, <2>3, <2>5, <4>2, <4>3, <4>4 DEF OwedOf
    <3> QED
      BY <3>1, <3>2 DEF OwedInv
  <2> QED
    BY <1>6, <2>4, <2>5 DEF Publish
<1>7. ASSUME NEW n \in Nodes, Receive(n) PROVE OwedInv'
  <2> DEFINE p == Head(wire[n])
             m == p.msg
  <2>1. /\ wire[n] # <<>> /\ wire' = [wire EXCEPT ![n] = Tail(wire[n])]
        /\ Deliver(n, p) /\ UNCHANGED <<routing, owed, stage>>
    BY <1>7 DEF Receive
  <2>2. /\ p \in Payloads /\ m \in Messages
        /\ \A y : In(wire[n], y) <=> In(wire'[n], y) \/ m = y
        /\ \A y, users : Told(wire[n], y, users) =>
                Told(wire'[n], y, users) /\ (m = y => p.users = users)
        /\ \A x \in Nodes \ {n} : wire'[x] = wire[x]
    <3> DEFINE q == wire[n]
    <3>1. q \in Seq(Payloads) /\ q # <<>> /\ wire'[n] = Tail(q)
      BY <1>0, <2>1
    <3>2. /\ Head(q) \in Payloads
          /\ \A y : In(q, y) <=> In(Tail(q), y) \/ Head(q).msg = y
          /\ \A y, users : Told(q, y, users) =>
                  Told(Tail(q), y, users) /\ (Head(q).msg = y => Head(q).users = users)
      <4> HIDE DEF q
      <4> QED
        BY <3>1, TailWire, Zenon
    <3>3. m \in Messages
      BY <3>2 DEF Payloads
    <3>4. \A x \in Nodes \ {n} : wire'[x] = wire[x]
      BY <1>0, <2>1
    <3> QED
      BY <3>1, <3>2, <3>3, <3>4, Zenon
  <2> HIDE DEF p
  <2>3. p.users = routing[m].users
    BY <1>0, <2>2
  <2>4. /\ \A c \in Conns, y \in Messages : y # m => got'[c][y] = got[c][y]
        /\ \A c \in Conns : got'[c] = got[c] \/ got'[c][m] = got[c][m] + 1
        /\ \A c \in clients'[n] : UserOf[c] \in p.users => got'[c][m] = got[c][m] + 1
        /\ clients'[n] \subseteq clients[n]
        /\ \A x \in Nodes \ {n} : clients'[x] = clients[x]
    BY <1>0, <2>1, <2>2, DeliverFacts
  <2>5. ASSUME NEW y \in Messages, NEW c \in owed'[y] PROVE OwedOf(c, y)'
    <3>1. /\ c \in Conns /\ OwedOf(c, y) /\ NodeOf[c] \in Nodes
          /\ c \in clients'[NodeOf[c]] => c \in clients[NodeOf[c]]
      BY <1>0, <2>1, <2>4
    <3>2. got[c][y] \in Nat /\ got[c][m] \in Nat
      BY <1>0, <2>2, <3>1
    <3>3. got[c][y] > 0 => got'[c][y] > 0
      BY <2>4, <3>1, <3>2
    <3>4. CASE NodeOf[c] = n /\ y = m
      BY <2>1, <2>3, <2>4, <3>1, <3>2, <3>4 DEF OwedOf
    <3>5. CASE NodeOf[c] # n \/ y # m
      <4>1. In(wire[NodeOf[c]], y) => In(wire'[NodeOf[c]], y)
        BY <2>2, <3>1, <3>5
      <4> QED
        BY <2>1, <3>1, <3>3, <4>1 DEF OwedOf
    <3> QED
      BY <3>4, <3>5
  <2>6. \A x \in Nodes, y \in Messages : Told(wire'[x], y, routing'[y].users)
    BY <1>0, <2>1, <2>2
  <2> QED
    BY <2>5, <2>6 DEF OwedInv
<1>8. ASSUME NEW n \in Nodes, Restart(n) PROVE OwedInv'
  <2>1. UNCHANGED got
    BY <1>8, Zenon DEF Restart
  <2>2. clients' = [clients EXCEPT ![n] = {}]
    BY <1>8, Zenon DEF Restart
  <2>3. \A c \in Conns : stage'[c] = "gone" \/ stage'[c] = stage[c]
    BY <1>8, Zenon DEF Restart
  <2>4. /\ wire'[n] = <<>> /\ \A x \in Nodes \ {n} : wire'[x] = wire[x]
        /\ \A m \in Messages : routing'[m].users = routing[m].users
        /\ \A m \in Messages :
              \/ routing'[m] = routing[m] /\ owed'[m] = owed[m]
              \/ owed'[m] = {}
    BY <1>0, <1>8, RestartFacts
  <2>5. ASSUME NEW x \in Nodes, NEW y \in Messages PROVE Told(wire'[x], y, routing'[y].users)
    <3>1. CASE x = n
      <4>1. \A users : Told(<<>>, y, users)
        BY EmptyWire
      <4> QED
        BY <2>4, <3>1, <4>1
    <3>2. CASE x # n
      <4>1. wire'[x] = wire[x] /\ routing'[y].users = routing[y].users
        BY <2>4, <3>2
      <4> QED
        BY <1>0, <4>1
    <3> QED
      BY <3>1, <3>2
  <2>6. ASSUME NEW y \in Messages, NEW c \in owed'[y] PROVE OwedOf(c, y)'
    <3>1. /\ c \in Conns /\ OwedOf(c, y) /\ NodeOf[c] \in Nodes /\ routing'[y] = routing[y]
      BY <1>0, <2>4
    <3>2. c \in clients'[NodeOf[c]] => c \in clients[NodeOf[c]] /\ NodeOf[c] # n
      BY <1>0, <2>2, <3>1
    <3>3. NodeOf[c] # n => wire'[NodeOf[c]] = wire[NodeOf[c]]
      BY <2>4, <3>1
    <3>4. stage'[c] # "new"
      BY <2>3, <3>1 DEF OwedOf
    <3> QED
      BY <2>1, <3>1, <3>2, <3>3, <3>4 DEF OwedOf
  <2> QED
    BY <2>5, <2>6 DEF OwedInv
<1>9. CASE UNCHANGED routerVars
  <2>1. UNCHANGED <<stage, clients>>
    BY <1>9 DEF routerVars, hubVars
  <2> QED
    BY <1>1, <1>9, <2>1, ConnectionKeepsMessages
<1> QED
    BY <1>2, <1>3, <1>4, <1>5, <1>6, <1>7, <1>8, <1>9 DEF RouterNext, Routing

LEMMA MessageInductive == RouterSpec => []MessageInv
<1>1. MessageInv /\ [RouterNext]_routerVars => MessageInv'
  <2> SUFFICES ASSUME MessageInv, [RouterNext]_routerVars PROVE MessageInv'
    OBVIOUS
  <2>1. RouterTypeOK'
    BY RouterTypeStep DEF MessageInv
  <2> QED
    BY <2>1, ClientsStep, OnceStep, OwedStep DEF MessageInv
<1> QED
    BY <1>1, MessageInitially, PTL DEF RouterSpec

\* The routers' state stays in its types: the counts never go below zero, and
\* what is on a wire is a payload (router.go, hub.go).
THEOREM RouterTypeCorrect == RouterSpec => []RouterTypeOK
<1>1. MessageInv => RouterTypeOK
    BY DEF MessageInv
<1> QED
    BY <1>1, MessageInductive, PTL

\* No connection gets a message twice (RouteDirectMessage, RouteBroadcast),
\* however many of the named nodes are the sender's own, whatever Redis answers
\* and whoever restarts.
THEOREM NothingTwice == RouterSpec => []NoDuplicates
<1>1. MessageInv => NoDuplicates
    BY RouterAssumption DEF MessageInv, OnceInv, OnceOf, NoDuplicates
<1> QED
    BY <1>1, MessageInductive, PTL

\* A message routed to its end and off every wire has reached each connection
\* that was open on the nodes it was sent to and that its hub still has.
THEOREM OwedIsDelivered == RouterSpec => []Delivered
<1>1. ASSUME MessageInv PROVE Delivered
  <2> SUFFICES ASSUME NEW m \in Messages, routing[m].phase = "done",
                      \A n \in Nodes : \A i \in DOMAIN wire[n] : wire[n][i].msg # m,
                      NEW c \in owed[m], c \in clients[NodeOf[c]]
               PROVE  got[c][m] > 0
    BY DEF Delivered
  <2>0. owed \in [Messages -> SUBSET Conns] /\ wire \in [Nodes -> Seq(Payloads)]
    BY <1>1 DEF MessageInv, RouterTypeOK
  <2>1. c \in Conns /\ OwedOf(c, m) /\ NodeOf[c] \in Nodes
    BY <1>1, <2>0, RouterAssumption DEF MessageInv, OwedInv
  <2>1a. OnceOf(NodeOf[c], m)
    BY <1>1, <2>1 DEF MessageInv, OnceInv
  <2>2. NodeOf[c] \notin routing[m].targets
    BY <2>1a DEF OnceOf
  <2>3. wire[NodeOf[c]] \in Seq(Payloads)
    BY <2>0, <2>1
  <2>4. ~In(wire[NodeOf[c]], m)
    BY <2>1, <2>3, LenProperties DEF In
  <2> QED
    BY <2>1, <2>2, <2>4 DEF OwedOf
<1> QED
    BY <1>1, MessageInductive, PTL

-----------------------------------------------------------------------------
(* The local counts, and what they decide about the sets in Redis.          *)

Open == {"counted", "live"}
Here(n, u) == {c \in Conns : NodeOf[c] = n /\ UserOf[c] = u /\ stage[c] \in Open}
Holders(n, r) == {u \in {UserOf[c] : c \in Conns} : r \in userRooms[n][u]}

\* A node counts a user's open connections, knows the rooms they were opened
\* with, and counts for a room no less than the users that hold it: a room is
\* counted for each connection and uncounted for each user.
CountInv ==
    /\ \A n \in Nodes, u \in Users : userConns[n][u] = Cardinality(Here(n, u))
    /\ \A c \in Conns : stage[c] \in Open => rooms[c] \subseteq userRooms[NodeOf[c]][UserOf[c]]
    /\ \A n \in Nodes, r \in Rooms : roomCount[n][r] >= Cardinality(Holders(n, r))

LEMMA HereFinite ==
    ASSUME NEW n, NEW u
    PROVE  IsFiniteSet(Here(n, u))
<1>1. Here(n, u) \subseteq Conns
    BY DEF Here
<1> QED
    BY <1>1, FS_Subset, RouterAssumption

LEMMA HoldersFinite ==
    ASSUME NEW n, NEW r
    PROVE  IsFiniteSet(Holders(n, r)) /\ IsFiniteSet(Holders(n, r)')
<1> DEFINE T == {UserOf[c] : c \in Conns}
           f == [c \in Conns |-> UserOf[c]]
<1>1. IsFiniteSet(T)
  <2>1. f \in Surjection(Conns, T)
    BY DEF Surjection
  <2> QED
    BY <2>1, FS_Surjection, RouterAssumption DEF ExistsSurjection
<1>2. Holders(n, r) \subseteq T /\ Holders(n, r)' \subseteq T
    BY DEF Holders
<1> QED
    BY <1>1, <1>2, FS_Subset

\* What OnDisconnect does to the counts.
LEMMA UncountFacts ==
    ASSUME RouterTypeOK, NEW c \in Conns, Uncount(c),
           NEW n, NEW u, n = NodeOf[c], u = UserOf[c]
    PROVE  /\ \A x \in Nodes, v \in Users : x # n \/ v # u =>
                 userConns'[x][v] = userConns[x][v] /\ userRooms'[x][v] = userRooms[x][v]
           /\ userConns'[n][u] = IF userConns[n][u] <= 1 THEN 0 ELSE userConns[n][u] - 1
           /\ userRooms'[n][u] = IF userConns[n][u] <= 1 THEN {} ELSE userRooms[n][u]
           /\ \A x \in Nodes \ {n} : roomCount'[x] = roomCount[x]
           /\ \A r \in Rooms :
                 \/ roomCount'[n][r] = roomCount[n][r]
                 \/ /\ userConns[n][u] <= 1 /\ r \in userRooms[n][u]
                    /\ roomCount'[n][r] = IF roomCount[n][r] <= 1 THEN 0
                                          ELSE roomCount[n][r] - 1
<1> DEFINE userGone == userConns[n][u] <= 1
           left == IF userGone THEN userRooms[n][u] ELSE {}
           goneRooms == {r \in left : roomCount[n][r] <= 1}
           counts == [r \in Rooms |-> IF r \in goneRooms THEN 0
                                      ELSE IF r \in left THEN roomCount[n][r] - 1
                                      ELSE roomCount[n][r]]
<1>1. /\ n \in Nodes /\ u \in Users
      /\ userConns \in [Nodes -> [Users -> Nat]] /\ roomCount \in [Nodes -> [Rooms -> Nat]]
      /\ userRooms \in [Nodes -> [Users -> SUBSET Rooms]]
    BY RouterAssumption DEF RouterTypeOK
<1>2. /\ userConns' = [userConns EXCEPT ![n][u] = IF userGone THEN 0 ELSE @ - 1]
      /\ userRooms' = [userRooms EXCEPT ![n][u] = IF userGone THEN {} ELSE @]
      /\ roomCount' = [roomCount EXCEPT ![n] = counts]
    BY DEF Uncount
<1>3. \A r \in Rooms :
          \/ counts[r] = roomCount[n][r]
          \/ /\ userGone /\ r \in userRooms[n][u]
             /\ counts[r] = IF roomCount[n][r] <= 1 THEN 0 ELSE roomCount[n][r] - 1
    OBVIOUS
<1> HIDE DEF counts
<1>4. roomCount'[n] = counts /\ \A x \in Nodes \ {n} : roomCount'[x] = roomCount[x]
    BY <1>1, <1>2
<1>5. \A x \in Nodes, v \in Users : x # n \/ v # u =>
          userConns'[x][v] = userConns[x][v] /\ userRooms'[x][v] = userRooms[x][v]
    BY <1>1, <1>2
<1>6. /\ userConns'[n][u] = IF userGone THEN 0 ELSE userConns[n][u] - 1
      /\ userRooms'[n][u] = IF userGone THEN {} ELSE userRooms[n][u]
    BY <1>1, <1>2
<1> QED
    BY <1>3, <1>4, <1>5, <1>6

LEMMA CountInitially == RouterInit => CountInv
<1> SUFFICES ASSUME RouterInit PROVE CountInv
    OBVIOUS
<1>1. \A n, u : Here(n, u) = {}
    BY DEF RouterInit, Here, Open
<1>2. \A n \in Nodes, r \in Rooms : Holders(n, r) = {}
    BY RouterAssumption DEF RouterInit, Holders
<1>3. \A c \in Conns : stage[c] \notin Open
    BY DEF RouterInit, Open
<1>4. /\ \A n \in Nodes, u \in Users : userConns[n][u] = 0
      /\ \A n \in Nodes, r \in Rooms : roomCount[n][r] = 0
    BY DEF RouterInit
<1> QED
    BY <1>1, <1>2, <1>3, <1>4, FS_EmptySet DEF CountInv

\* A connection is counted.
LEMMA ConnectCounts ==
    ASSUME RouterTypeOK, CountInv, NEW c \in Conns, Connect(c)
    PROVE  CountInv'
<1> DEFINE k == NodeOf[c]
           w == UserOf[c]
           mine == {r \in Rooms : w \in members[r]}
           counts == [r \in Rooms |-> IF r \in mine THEN roomCount[k][r] + 1
                                                    ELSE roomCount[k][r]]
<1>1. /\ k \in Nodes /\ w \in Users /\ \A x \in Conns : NodeOf[x] \in Nodes /\ UserOf[x] \in Users
      /\ userConns \in [Nodes -> [Users -> Nat]] /\ roomCount \in [Nodes -> [Rooms -> Nat]]
      /\ userRooms \in [Nodes -> [Users -> SUBSET Rooms]] /\ rooms \in [Conns -> SUBSET Rooms]
    BY RouterAssumption DEF RouterTypeOK
<1>2. /\ rooms' = [rooms EXCEPT ![c] = mine]
      /\ userConns' = [userConns EXCEPT ![k][w] = @ + 1]
      /\ userRooms' = [userRooms EXCEPT ![k][w] = @ \cup mine]
      /\ roomCount' = [roomCount EXCEPT ![k] = counts]
      /\ Goto(c, "new", "counted")
    BY DEF Connect
<1>3. /\ stage[c] = "new" /\ stage'[c] = "counted"
      /\ \A x \in Conns \ {c} : stage'[x] = stage[x]
    BY <1>2, GotoFacts DEF Stages
<1>4. ASSUME NEW n \in Nodes, NEW u \in Users
      PROVE  userConns'[n][u] = Cardinality(Here(n, u)')
  <2>1. userConns[n][u] = Cardinality(Here(n, u))
    BY DEF CountInv
  <2>2. CASE n = k /\ u = w
    <3>1. Here(n, u)' = Here(n, u) \cup {c} /\ c \notin Here(n, u)
      BY <1>3, <2>2 DEF Here, Open
    <3>2. Cardinality(Here(n, u)') = Cardinality(Here(n, u)) + 1
      BY <3>1, HereFinite, FS_AddElement
    <3>3. userConns'[n][u] = userConns[n][u] + 1
      BY <1>1, <1>2, <2>2
    <3> QED
      BY <2>1, <3>2, <3>3
  <2>3. CASE n # k \/ u # w
    <3>1. Here(n, u)' = Here(n, u)
      BY <1>3, <2>3 DEF Here, Open
    <3>2. userConns'[n][u] = userConns[n][u]
      BY <1>1, <1>2, <2>3
    <3> QED
      BY <2>1, <3>1, <3>2
  <2> QED
    BY <2>2, <2>3
<1>5. /\ \A n \in Nodes, u \in Users : n # k \/ u # w => userRooms'[n][u] = userRooms[n][u]
      /\ userRooms'[k][w] = userRooms[k][w] \cup mine
    BY <1>1, <1>2
<1>6. ASSUME NEW x \in Conns, stage'[x] \in Open
      PROVE  rooms'[x] \subseteq userRooms'[NodeOf[x]][UserOf[x]]
  <2>1. CASE x = c
    <3>1. rooms'[c] = mine
      BY <1>1, <1>2
    <3> QED
      BY <1>5, <2>1, <3>1
  <2>2. CASE x # c
    <3>1. rooms'[x] = rooms[x] /\ stage'[x] = stage[x]
      BY <1>1, <1>2, <1>3, <2>2
    <3>2. rooms[x] \subseteq userRooms[NodeOf[x]][UserOf[x]]
      BY <1>6, <3>1 DEF CountInv
    <3>3. userRooms[NodeOf[x]][UserOf[x]] \subseteq userRooms'[NodeOf[x]][UserOf[x]]
      BY <1>1, <1>5
    <3> QED
      BY <3>1, <3>2, <3>3
  <2> QED
    BY <2>1, <2>2
<1>7. ASSUME NEW n \in Nodes, NEW r \in Rooms
      PROVE  roomCount'[n][r] >= Cardinality(Holders(n, r)')
  <2>1. roomCount[n][r] >= Cardinality(Holders(n, r)) /\ roomCount[n][r] \in Nat
    BY <1>1 DEF CountInv
  <2>2. Cardinality(Holders(n, r)) \in Nat /\ IsFiniteSet(Holders(n, r))
    BY HoldersFinite, FS_CardinalityType
  <2>3. CASE n = k /\ r \in mine
    <3>1. roomCount'[n][r] = roomCount[n][r] + 1
      BY <1>1, <1>2, <2>3
    <3>2. Holders(n, r)' = Holders(n, r) \cup {w}
      BY <1>1, <1>5, <2>3 DEF Holders
    <3>3. Cardinality(Holders(n, r)') <= Cardinality(Holders(n, r)) + 1
      <4>1. Cardinality(Holders(n, r) \cup {w}) =
                IF w \in Holders(n, r) THEN Cardinality(Holders(n, r))
                ELSE Cardinality(Holders(n, r)) + 1
        BY <2>2, FS_AddElement
      <4> QED
        BY <2>2, <3>2, <4>1
    <3>4. Cardinality(Holders(n, r)') \in Nat
      BY HoldersFinite, FS_CardinalityType
    <3> QED
      BY <2>1, <2>2, <3>1, <3>3, <3>4
  <2>4. CASE n # k \/ r \notin mine
    <3>1. roomCount'[n][r] = roomCount[n][r]
      BY <1>1, <1>2, <2>4
    <3>2. Holders(n, r)' = Holders(n, r)
      <4>1. \A u \in Users : r \in userRooms'[n][u] <=> r \in userRooms[n][u]
        BY <1>5, <2>4
      <4> QED
        BY <1>1, <4>1 DEF Holders
    <3> QED
      BY <2>1, <3>1, <3>2
  <2> QED
    BY <2>3, <2>4
<1> QED
    BY <1>4, <1>6, <1>7 DEF CountInv

\* A connection is uncounted.
LEMMA UncountCounts ==
    ASSUME RouterTypeOK, CountInv, NEW c \in Conns, Goto(c, "live", "uncounted"), Uncount(c),
           UNCHANGED rooms
    PROVE  CountInv'
<1> DEFINE k == NodeOf[c]
           w == UserOf[c]
<1>1. /\ k \in Nodes /\ w \in Users /\ \A x \in Conns : NodeOf[x] \in Nodes /\ UserOf[x] \in Users
      /\ userConns \in [Nodes -> [Users -> Nat]] /\ roomCount \in [Nodes -> [Rooms -> Nat]]
      /\ userRooms \in [Nodes -> [Users -> SUBSET Rooms]] /\ rooms \in [Conns -> SUBSET Rooms]
    BY RouterAssumption DEF RouterTypeOK
<1>2. /\ stage[c] = "live" /\ stage'[c] = "uncounted"
      /\ \A x \in Conns \ {c} : stage'[x] = stage[x]
    BY GotoFacts DEF Stages
<1>3. /\ \A x \in Nodes, v \in Users : x # k \/ v # w =>
            userConns'[x][v] = userConns[x][v] /\ userRooms'[x][v] = userRooms[x][v]
      /\ userConns'[k][w] = IF userConns[k][w] <= 1 THEN 0 ELSE userConns[k][w] - 1
      /\ userRooms'[k][w] = IF userConns[k][w] <= 1 THEN {} ELSE userRooms[k][w]
      /\ \A x \in Nodes \ {k} : roomCount'[x] = roomCount[x]
      /\ \A r \in Rooms :
            \/ roomCount'[k][r] = roomCount[k][r]
            \/ /\ userConns[k][w] <= 1 /\ r \in userRooms[k][w]
               /\ roomCount'[k][r] = IF roomCount[k][r] <= 1 THEN 0 ELSE roomCount[k][r] - 1
    BY UncountFacts
<1>4. /\ Here(k, w)' = Here(k, w) \ {c} /\ c \in Here(k, w)
      /\ userConns[k][w] = Cardinality(Here(k, w))
      /\ Cardinality(Here(k, w)') = Cardinality(Here(k, w)) - 1
  <2>1. Here(k, w)' = Here(k, w) \ {c} /\ c \in Here(k, w)
    BY <1>2 DEF Here, Open
  <2>2. userConns[k][w] = Cardinality(Here(k, w))
    BY <1>1 DEF CountInv
  <2> QED
    BY <2>1, <2>2, HereFinite, FS_RemoveElement
<1>5. userConns[k][w] >= 1 /\ userConns[k][w] \in Nat
  <2>1. Cardinality(Here(k, w)) # 0
    BY <1>4, HereFinite, FS_EmptySet
  <2> QED
    BY <1>1, <1>4, <2>1
<1>6. ASSUME NEW n \in Nodes, NEW u \in Users
      PROVE  userConns'[n][u] = Cardinality(Here(n, u)')
  <2>1. CASE n = k /\ u = w
    <3>1. userConns'[k][w] = userConns[k][w] - 1
      BY <1>3, <1>5
    <3> QED
      BY <1>4, <2>1, <3>1
  <2>2. CASE n # k \/ u # w
    <3>1. Here(n, u)' = Here(n, u)
      BY <1>2, <2>2 DEF Here, Open
    <3>2. userConns[n][u] = Cardinality(Here(n, u))
      BY DEF CountInv
    <3> QED
      BY <1>3, <2>2, <3>1, <3>2
  <2> QED
    BY <2>1, <2>2
<1>7. ASSUME NEW x \in Conns, stage'[x] \in Open
      PROVE  rooms'[x] \subseteq userRooms'[NodeOf[x]][UserOf[x]]
  <2>1. x # c /\ stage[x] \in Open
    BY <1>2, <1>7 DEF Open
  <2>2. rooms[x] \subseteq userRooms[NodeOf[x]][UserOf[x]]
    BY <2>1 DEF CountInv
  <2>3. CASE NodeOf[x] = k /\ UserOf[x] = w
    <3>1. x \in Here(k, w)'
      BY <1>7, <2>3 DEF Here
    <3>2. Cardinality(Here(k, w)') # 0
      <4>1. IsFiniteSet(Here(k, w)')
        BY <1>4, HereFinite, FS_RemoveElement
      <4> QED
        BY <3>1, <4>1, FS_EmptySet
    <3>3. ~(userConns[k][w] <= 1)
      BY <1>4, <1>5, <3>2
    <3> QED
      BY <1>3, <2>2, <2>3, <3>3
  <2>4. CASE NodeOf[x] # k \/ UserOf[x] # w
    BY <1>1, <1>3, <2>2, <2>4
  <2> QED
    BY <2>3, <2>4
<1>8. ASSUME NEW n \in Nodes, NEW r \in Rooms
      PROVE  roomCount'[n][r] >= Cardinality(Holders(n, r)')
  <2>1. roomCount[n][r] >= Cardinality(Holders(n, r)) /\ roomCount[n][r] \in Nat
    BY <1>1 DEF CountInv
  <2>2. /\ Cardinality(Holders(n, r)) \in Nat /\ IsFiniteSet(Holders(n, r))
        /\ Cardinality(Holders(n, r)') \in Nat
    BY HoldersFinite, FS_CardinalityType
  <2>3. Holders(n, r)' \subseteq Holders(n, r)
    BY <1>1, <1>3 DEF Holders
  <2>4. Cardinality(Holders(n, r)') <= Cardinality(Holders(n, r))
    BY <2>2, <2>3, FS_Subset
  <2>5. CASE roomCount'[n][r] = roomCount[n][r]
    BY <2>1, <2>2, <2>4, <2>5
  <2>6. CASE /\ n = k /\ userConns[k][w] <= 1 /\ r \in userRooms[k][w]
             /\ roomCount'[n][r] = IF roomCount[n][r] <= 1 THEN 0 ELSE roomCount[n][r] - 1
    <3>1. Holders(n, r)' = Holders(n, r) \ {w} /\ w \in Holders(n, r)
      <4>1. userRooms'[k][w] = {}
        BY <1>3, <2>6
      <4>2. \A v \in Users : r \in userRooms'[n][v] <=> v # w /\ r \in userRooms[n][v]
        BY <1>3, <2>6, <4>1
      <4>3. \E x \in Conns : w = UserOf[x]
        OBVIOUS
      <4> QED
        BY <1>1, <2>6, <4>2, <4>3 DEF Holders
    <3>2. Cardinality(Holders(n, r)') = Cardinality(Holders(n, r)) - 1
      BY <2>2, <3>1, FS_RemoveElement
    <3> QED
      BY <2>1, <2>2, <2>6, <3>2
  <2> QED
    BY <1>3, <2>5, <2>6
<1> QED
    BY <1>6, <1>7, <1>8 DEF CountInv

LEMMA RestartCounts ==
    ASSUME RouterTypeOK, CountInv, NEW n \in Nodes, Restart(n)
    PROVE  CountInv'
<1>1. /\ \A x \in Conns : NodeOf[x] \in Nodes /\ UserOf[x] \in Users
      /\ userConns \in [Nodes -> [Users -> Nat]] /\ roomCount \in [Nodes -> [Rooms -> Nat]]
      /\ userRooms \in [Nodes -> [Users -> SUBSET Rooms]]
    BY RouterAssumption DEF RouterTypeOK
<1>2. stage' = [c \in Conns |-> IF c \in {x \in Conns : NodeOf[x] = n /\ stage[x] \notin {"new", "gone"}}
                                THEN "gone" ELSE stage[c]]
    BY Zenon DEF Restart
<1>3. userConns' = [userConns EXCEPT ![n] = [u \in Users |-> 0]]
    BY Zenon DEF Restart
<1>4. roomCount' = [roomCount EXCEPT ![n] = [r \in Rooms |-> 0]]
    BY Zenon DEF Restart
<1>5. userRooms' = [userRooms EXCEPT ![n] = [u \in Users |-> {}]]
    BY Zenon DEF Restart
<1>6. UNCHANGED rooms
    BY Zenon DEF Restart
<1>7. \A c \in Conns : /\ NodeOf[c] = n => stage'[c] \notin Open
                       /\ NodeOf[c] # n => stage'[c] = stage[c]
    BY <1>2 DEF Open
<1>8. \A x \in Nodes \ {n} : /\ userConns'[x] = userConns[x] /\ roomCount'[x] = roomCount[x]
                             /\ userRooms'[x] = userRooms[x]
    BY <1>1, <1>3, <1>4, <1>5
<1>9. /\ \A u \in Users : userConns'[n][u] = 0 /\ userRooms'[n][u] = {}
      /\ \A r \in Rooms : roomCount'[n][r] = 0
    BY <1>1, <1>3, <1>4, <1>5
<1>10. ASSUME NEW x \in Nodes, NEW u \in Users
       PROVE  userConns'[x][u] = Cardinality(Here(x, u)')
  <2>1. CASE x = n
    <3>1. Here(x, u)' = {}
      BY <1>7, <2>1 DEF Here
    <3> QED
      BY <1>9, <2>1, <3>1, FS_EmptySet
  <2>2. CASE x # n
    <3>1. Here(x, u)' = Here(x, u)
      BY <1>7, <2>2 DEF Here
    <3> QED
      BY <1>8, <2>2, <3>1 DEF CountInv
  <2> QED
    BY <2>1, <2>2
<1>11. ASSUME NEW x \in Nodes, NEW r \in Rooms
       PROVE  roomCount'[x][r] >= Cardinality(Holders(x, r)')
  <2>1. CASE x = n
    <3>1. Holders(x, r)' = {}
      BY <1>1, <1>9, <2>1 DEF Holders
    <3> QED
      BY <1>9, <2>1, <3>1, FS_EmptySet
  <2>2. CASE x # n
    <3>1. Holders(x, r)' = Holders(x, r)
      BY <1>8, <2>2 DEF Holders
    <3> QED
      BY <1>8, <2>2, <3>1 DEF CountInv
  <2> QED
    BY <2>1, <2>2
<1>12. ASSUME NEW c \in Conns, stage'[c] \in Open
       PROVE  rooms'[c] \subseteq userRooms'[NodeOf[c]][UserOf[c]]
    BY <1>1, <1>6, <1>7, <1>8, <1>12 DEF CountInv
<1> QED
    BY <1>10, <1>11, <1>12 DEF CountInv

\* The steps of messages and members leave the counts alone.
LEMMA MessageKeepsCounts ==
    \/ \E r \in Rooms : Membership(r)
    \/ \E m \in Messages : Routing(m)
    \/ \E n \in Nodes : Receive(n)
    \/ UNCHANGED routerVars
    => UNCHANGED <<stage, rooms, retract, localVars>>
<1>1. ASSUME NEW r \in Rooms, Membership(r) PROVE UNCHANGED <<stage, rooms, retract, localVars>>
    BY <1>1 DEF Membership, AddMember, Dismiss
<1>2. ASSUME NEW m \in Messages, Routing(m) PROVE UNCHANGED <<stage, rooms, retract, localVars>>
    BY <1>2 DEF Routing, Start, SendLocal, Publish
<1>3. ASSUME NEW n \in Nodes, Receive(n) PROVE UNCHANGED <<stage, rooms, retract, localVars>>
    BY <1>3 DEF Receive
<1>4. CASE UNCHANGED routerVars
    BY <1>4 DEF routerVars
<1> QED
    BY <1>1, <1>2, <1>3, <1>4

LEMMA CountStep ==
    ASSUME RouterTypeOK, CountInv, [RouterNext]_routerVars
    PROVE  CountInv'
<1>1. ASSUME UNCHANGED <<rooms, localVars>>,
             \A c \in Conns : stage'[c] \in Open <=> stage[c] \in Open
      PROVE  CountInv'
  <2>1. \A n, u : Here(n, u)' = Here(n, u)
    BY <1>1 DEF Here
  <2>2. \A n, r : Holders(n, r)' = Holders(n, r)
    BY <1>1 DEF Holders, localVars
  <2> QED
    BY <1>1, <2>1, <2>2 DEF CountInv, localVars
<1>2. ASSUME NEW c \in Conns, Announce(c) \/ AnnounceFails(c) \/ Retract(c) \/ RetractFails(c)
      PROVE  CountInv'
  <2>1. UNCHANGED <<rooms, localVars>>
    BY <1>2 DEF Announce, AnnounceFails, Retract, RetractFails
  <2>2. Goto(c, "counted", "live") \/ Goto(c, "uncounted", "gone")
    BY <1>2 DEF Announce, AnnounceFails, Retract, RetractFails
  <2>3. \A x \in Conns : stage'[x] \in Open <=> stage[x] \in Open
    BY <2>2, GotoFacts DEF Open, Stages
  <2> QED
    BY <1>1, <2>1, <2>3
<1>3. ASSUME NEW c \in Conns, Leave(c) \/ LeaveDropped(c) PROVE CountInv'
  <2>1. Goto(c, "live", "uncounted") /\ Uncount(c) /\ UNCHANGED rooms
    BY <1>3 DEF Leave, LeaveDropped
  <2> QED
    BY <2>1, UncountCounts
<1>4. CASE \/ \E r \in Rooms : Membership(r)
           \/ \E m \in Messages : Routing(m)
           \/ \E n \in Nodes : Receive(n)
           \/ UNCHANGED routerVars
  <2>1. UNCHANGED <<stage, rooms, localVars>>
    BY <1>4, MessageKeepsCounts
  <2> QED
    BY <1>1, <2>1
<1> QED
    BY <1>2, <1>3, <1>4, ConnectCounts, RestartCounts DEF RouterNext, Connection

\* An open connection is counted, and so are the rooms it was opened with.
LEMMA OpenIsCounted ==
    ASSUME RouterTypeOK, CountInv, NEW c \in Conns, stage[c] \in Open
    PROVE  /\ userConns[NodeOf[c]][UserOf[c]] > 0
           /\ \A r \in rooms[c] : r \in Rooms /\ roomCount[NodeOf[c]][r] > 0
<1> DEFINE n == NodeOf[c]
           u == UserOf[c]
<1>1. /\ n \in Nodes /\ u \in Users
      /\ userConns \in [Nodes -> [Users -> Nat]] /\ roomCount \in [Nodes -> [Rooms -> Nat]]
      /\ rooms[c] \subseteq Rooms /\ rooms[c] \subseteq userRooms[n][u]
    BY RouterAssumption DEF RouterTypeOK, CountInv
<1>2. userConns[n][u] > 0
  <2>1. c \in Here(n, u)
    BY DEF Here
  <2>2. Cardinality(Here(n, u)) # 0
    BY <2>1, HereFinite, FS_EmptySet
  <2>3. userConns[n][u] = Cardinality(Here(n, u)) /\ userConns[n][u] \in Nat
    BY <1>1 DEF CountInv
  <2> QED
    BY <2>2, <2>3
<1>3. ASSUME NEW r \in rooms[c] PROVE r \in Rooms /\ roomCount[n][r] > 0
  <2>1. u \in Holders(n, r) /\ r \in Rooms
    BY <1>1 DEF Holders
  <2>2. Cardinality(Holders(n, r)) # 0 /\ Cardinality(Holders(n, r)) \in Nat
    BY <2>1, HoldersFinite, FS_EmptySet, FS_CardinalityType
  <2>3. roomCount[n][r] >= Cardinality(Holders(n, r)) /\ roomCount[n][r] \in Nat
    BY <1>1, <2>1 DEF CountInv
  <2> QED
    BY <2>1, <2>2, <2>3
<1> QED
    BY <1>2, <1>3

\* What Reachable says of one connection.
Found(c) ==
    /\ NodeOf[c] \in userNodes[UserOf[c]] \/ <<NodeOf[c], UserOf[c]>> \in lapsed
    /\ \A r \in rooms[c] :
          NodeOf[c] \in roomNodes[r] \/ <<NodeOf[c], r>> \in lapsed \/ members[r] = {}

LEMMA ReachableStep ==
    ASSUME RouterTypeOK, CountInv, Reachable, [RouterNext]_routerVars
    PROVE  Reachable'
<1>0. /\ \A c \in Conns : NodeOf[c] \in Nodes /\ UserOf[c] \in Users /\ rooms[c] \subseteq Rooms
      /\ \A c \in Conns : stage[c] = "live" => Found(c)
      /\ userNodes \in [Users -> SUBSET Nodes] /\ roomNodes \in [Rooms -> SUBSET Nodes]
      /\ members \in [Rooms -> SUBSET Users]
      /\ Users \cap Rooms = {}
    BY RouterAssumption DEF RouterTypeOK, Reachable, Found
<1>1. ASSUME \A c \in Conns : stage'[c] = "live" => Found(c)' PROVE Reachable'
    BY <1>1 DEF Reachable, Found
<1>2. ASSUME UNCHANGED <<redisVars, members, lapsed>>,
             \A c \in Conns : stage'[c] = "live" => stage[c] = "live" /\ rooms'[c] = rooms[c]
      PROVE  Reachable'
    BY <1>0, <1>1, <1>2 DEF Found, redisVars
<1>3. ASSUME NEW c \in Conns, Connect(c) PROVE Reachable'
  <2>1. UNCHANGED <<redisVars, members, lapsed>> /\ Goto(c, "new", "counted")
    BY <1>3 DEF Connect
  <2>2. rooms' = [rooms EXCEPT ![c] = {r \in Rooms : UserOf[c] \in members[r]}]
    BY <1>3 DEF Connect
  <2>3. /\ stage'[c] # "live"
        /\ \A x \in Conns \ {c} : stage'[x] = stage[x] /\ rooms'[x] = rooms[x]
    BY <2>1, <2>2, GotoFacts DEF Stages, RouterTypeOK
  <2> QED
    BY <1>2, <2>1, <2>3
<1>4. ASSUME NEW c \in Conns, Announce(c) PROVE Reachable'
  <2>1. /\ userNodes' = [userNodes EXCEPT ![UserOf[c]] = @ \cup {NodeOf[c]}]
        /\ roomNodes' = [r \in Rooms |-> roomNodes[r] \cup (IF r \in rooms[c] THEN {NodeOf[c]} ELSE {})]
        /\ lapsed' = lapsed \ ({<<NodeOf[c], UserOf[c]>>} \cup {<<NodeOf[c], r>> : r \in rooms[c]})
        /\ UNCHANGED <<rooms, members>> /\ Goto(c, "counted", "live")
    BY <1>4 DEF Announce
  <2>2. \A x \in Conns \ {c} : stage'[x] = stage[x]
    BY <2>1, GotoFacts DEF Stages
  <2>3. ASSUME NEW x \in Conns, stage'[x] = "live" PROVE Found(x)'
    <3> DEFINE k == NodeOf[x]
               w == UserOf[x]
    <3>1. x = c \/ Found(x)
      BY <1>0, <2>2, <2>3
    <3>2. k \in userNodes'[w] \/ <<k, w>> \in lapsed'
      <4>1. CASE k = NodeOf[c] /\ w = UserOf[c]
        BY <1>0, <2>1, <4>1
      <4>2. CASE k # NodeOf[c] \/ w # UserOf[c]
        <5>1. k \in userNodes[w] \/ <<k, w>> \in lapsed
          BY <3>1, <4>2 DEF Found
        <5>2. <<k, w>> \in lapsed => <<k, w>> \in lapsed'
          BY <1>0, <2>1, <4>2
        <5>3. userNodes[w] \subseteq userNodes'[w]
          BY <1>0, <2>1
        <5> QED
          BY <5>1, <5>2, <5>3
      <4> QED
        BY <4>1, <4>2
    <3>3. ASSUME NEW r \in rooms[x]
          PROVE  k \in roomNodes'[r] \/ <<k, r>> \in lapsed' \/ members'[r] = {}
      <4>0. r \in Rooms /\ r # UserOf[c]
        BY <1>0
      <4>1. CASE k = NodeOf[c] /\ r \in rooms[c]
        BY <2>1, <4>0, <4>1
      <4>2. CASE k # NodeOf[c] \/ r \notin rooms[c]
        <5>1. k \in roomNodes[r] \/ <<k, r>> \in lapsed \/ members[r] = {}
          BY <3>1, <4>2 DEF Found
        <5>2. <<k, r>> \in lapsed => <<k, r>> \in lapsed'
          BY <2>1, <4>0, <4>2
        <5>3. roomNodes[r] \subseteq roomNodes'[r]
          BY <2>1, <4>0
        <5> QED
          BY <2>1, <5>1, <5>2, <5>3
      <4> QED
        BY <4>1, <4>2
    <3> QED
      BY <2>1, <3>2, <3>3 DEF Found
  <2> QED
    BY <1>1, <2>3
<1>5. ASSUME NEW c \in Conns, AnnounceFails(c) PROVE Reachable'
  <2>1. /\ UNCHANGED <<rooms, members, roomNodes>> /\ Goto(c, "counted", "live")
        /\ \/ /\ userNodes' = [userNodes EXCEPT ![UserOf[c]] = @ \cup {NodeOf[c]}]
              /\ lapsed' = (lapsed \ {<<NodeOf[c], UserOf[c]>>})
                               \cup {<<NodeOf[c], r>> : r \in rooms[c]}
           \/ /\ UNCHANGED userNodes
              /\ lapsed' = lapsed \cup {<<NodeOf[c], UserOf[c]>>}
                               \cup {<<NodeOf[c], r>> : r \in rooms[c]}
    BY <1>5 DEF AnnounceFails
  <2>2. \A x \in Conns \ {c} : stage'[x] = stage[x]
    BY <2>1, GotoFacts DEF Stages
  <2>3. /\ \A y \in lapsed : y # <<NodeOf[c], UserOf[c]>> => y \in lapsed'
        /\ \A r \in rooms[c] : <<NodeOf[c], r>> \in lapsed'
        /\ NodeOf[c] \in userNodes'[UserOf[c]] \/ <<NodeOf[c], UserOf[c]>> \in lapsed'
        /\ \A u \in Users : userNodes[u] \subseteq userNodes'[u]
    BY <1>0, <2>1
  <2>4. ASSUME NEW x \in Conns, stage'[x] = "live" PROVE Found(x)'
    <3> DEFINE k == NodeOf[x]
               w == UserOf[x]
    <3>1. CASE x = c
      BY <2>1, <2>3, <3>1 DEF Found
    <3>2. CASE x # c
      <4>1. Found(x) /\ w \in Users /\ rooms[x] \subseteq Rooms
        BY <1>0, <2>2, <2>4, <3>2
      <4>2. k \in userNodes'[w] \/ <<k, w>> \in lapsed'
        <5>1. CASE <<k, w>> = <<NodeOf[c], UserOf[c]>>
          BY <2>3, <5>1
        <5>2. CASE <<k, w>> # <<NodeOf[c], UserOf[c]>>
          BY <2>3, <4>1, <5>2 DEF Found
        <5> QED
          BY <5>1, <5>2
      <4>3. \A r \in rooms[x] : <<k, r>> # <<NodeOf[c], UserOf[c]>>
        BY <1>0, <4>1
      <4>4. \A r \in rooms[x] :
                k \in roomNodes'[r] \/ <<k, r>> \in lapsed' \/ members'[r] = {}
        BY <2>1, <2>3, <4>1, <4>3 DEF Found
      <4> QED
        BY <2>1, <4>2, <4>4 DEF Found
    <3> QED
      BY <3>1, <3>2
  <2> QED
    BY <1>1, <2>4
<1>6. ASSUME NEW c \in Conns, Leave(c) \/ LeaveDropped(c) PROVE Reachable'
  <2>1. UNCHANGED <<redisVars, members, lapsed, rooms>> /\ Goto(c, "live", "uncounted")
    BY <1>6 DEF Leave, LeaveDropped
  <2> QED
    BY <1>2, <2>1, GotoFacts DEF Stages
<1>7. ASSUME NEW c \in Conns, Retract(c) PROVE Reachable'
  <2> DEFINE n == NodeOf[c]
             u == UserOf[c]
             d == retract[c]
  <2>1. /\ userNodes' = [userNodes EXCEPT ![u] = IF d.user THEN @ \ {n} ELSE @]
        /\ roomNodes' = [x \in Rooms |-> roomNodes[x] \ (IF x \in d.rooms THEN {n} ELSE {})]
        /\ lapsed' = lapsed \cup {<<n, v>> : v \in {w \in {u} : d.user /\ userConns[n][w] > 0}}
                            \cup {<<n, x>> : x \in {y \in d.rooms : roomCount[n][y] > 0}}
        /\ UNCHANGED <<rooms, members>> /\ Goto(c, "uncounted", "gone")
    BY <1>7 DEF Retract
  <2>2. \A x \in Conns : stage'[x] = "live" => stage[x] = "live"
    BY <2>1, GotoFacts DEF Stages
  <2>3. /\ lapsed \subseteq lapsed'
        /\ d.user /\ userConns[n][u] > 0 => <<n, u>> \in lapsed'
        /\ \A r \in d.rooms : roomCount[n][r] > 0 => <<n, r>> \in lapsed'
    BY <2>1
  <2>4. \A x \in Users : \A k \in userNodes[x] :
            k \in userNodes'[x] \/ (x = u /\ k = n /\ d.user)
    BY <1>0, <2>1
  <2>5. \A x \in Rooms : \A k \in roomNodes[x] :
            k \in roomNodes'[x] \/ (k = n /\ x \in d.rooms)
    BY <1>0, <2>1
  <2> HIDE DEF d
  <2>6. ASSUME NEW x \in Conns, stage'[x] = "live" PROVE Found(x)'
    <3> DEFINE k == NodeOf[x]
               w == UserOf[x]
    <3>1. Found(x) /\ w \in Users /\ rooms[x] \subseteq Rooms
      BY <1>0, <2>2, <2>6
    <3>2. /\ userConns[k][w] > 0
          /\ \A r \in rooms[x] : r \in Rooms /\ roomCount[k][r] > 0
      <4>1. stage[x] \in Open
        BY <2>2, <2>6 DEF Open
      <4> QED
        BY <4>1, OpenIsCounted
    <3>3. k \in userNodes'[w] \/ <<k, w>> \in lapsed'
      BY <2>3, <2>4, <3>1, <3>2 DEF Found
    <3>4. \A r \in rooms[x] : k \in roomNodes'[r] \/ <<k, r>> \in lapsed' \/ members'[r] = {}
      BY <2>1, <2>3, <2>5, <3>1, <3>2 DEF Found
    <3> QED
      BY <2>1, <3>3, <3>4 DEF Found
  <2> QED
    BY <1>1, <2>6
<1>8. ASSUME NEW c \in Conns, RetractFails(c) PROVE Reachable'
  <2>1. UNCHANGED <<redisVars, members, lapsed, rooms>> /\ Goto(c, "uncounted", "gone")
    BY <1>8 DEF RetractFails
  <2> QED
    BY <1>2, <2>1, GotoFacts DEF Stages
<1>9. ASSUME NEW r \in Rooms, Membership(r) PROVE Reachable'
  <2>1. UNCHANGED <<stage, rooms, userNodes, lapsed>>
    BY <1>9 DEF Membership, AddMember, Dismiss
  <2>2. \A x \in Rooms : \/ members'[x] = {}
                         \/ roomNodes[x] \subseteq roomNodes'[x] /\ members[x] # {}
    <3>1. CASE Dismiss(r)
      <4>1. members' = [members EXCEPT ![r] = {}] /\ roomNodes' = [roomNodes EXCEPT ![r] = {}]
        BY <3>1 DEF Dismiss
      <4> QED
        BY <1>0, <4>1
    <3>2. ASSUME NEW u \in Users, AddMember(r, u)
          PROVE  \A x \in Rooms : \/ members'[x] = {}
                                  \/ roomNodes[x] \subseteq roomNodes'[x] /\ members[x] # {}
      <4>1. /\ members[r] # {} /\ members' = [members EXCEPT ![r] = @ \cup {u}]
            /\ roomNodes' = [roomNodes EXCEPT ![r] = @ \cup userNodes[u]]
        BY <3>2 DEF AddMember
      <4> QED
        BY <1>0, <4>1
    <3> QED
      BY <1>9, <3>1, <3>2 DEF Membership
  <2> QED
    BY <1>0, <1>1, <2>1, <2>2 DEF Found
<1>10. CASE \/ \E m \in Messages : Routing(m)
            \/ \E n \in Nodes : Receive(n)
            \/ UNCHANGED routerVars
  <2>1. UNCHANGED <<stage, rooms>>
    BY <1>10, MessageKeepsCounts
  <2>2. UNCHANGED <<redisVars, members, lapsed>>
    BY <1>10 DEF Routing, Start, SendLocal, Publish, Receive, routerVars
  <2> QED
    BY <1>2, <2>1, <2>2
<1>11. ASSUME NEW n \in Nodes, Restart(n) PROVE Reachable'
  <2>1. UNCHANGED <<rooms, got, redisVars, members, lapsed>>
    BY <1>11, Zenon DEF Restart
  <2>2. \A c \in Conns : stage'[c] = "gone" \/ stage'[c] = stage[c]
    BY <1>11, Zenon DEF Restart
  <2> QED
    BY <1>2, <2>1, <2>2
<1> QED
    BY <1>3, <1>4, <1>5, <1>6, <1>7, <1>8, <1>9, <1>10, <1>11 DEF RouterNext, Connection

\* A connection that is set up is in the sets by which other nodes find it, but
\* for the named race of an older connection's SREM and failing Redis calls
\* (OnConnect, OnDisconnect).
THEOREM LiveIsReachable == RouterSpec => []Reachable
<1>1. RouterInit => Reachable
    BY DEF RouterInit, Reachable
<1>2. CountInv /\ Reachable /\ RouterTypeOK /\ [RouterNext]_routerVars => CountInv' /\ Reachable'
    BY CountStep, ReachableStep
<1> QED
    BY <1>1, <1>2, CountInitially, RouterTypeCorrect, PTL DEF RouterSpec
=============================================================================
