------------------------------- MODULE ChatLog --------------------------------
(***************************************************************************)
(* What a room promises its members: one history, to which messages are    *)
(* only ever appended.  A message gets the next number, quotes a message   *)
(* that is already there, and stands behind everything its own author      *)
(* posted before it.                                                       *)
(***************************************************************************)
EXTENDS Naturals, Sequences

CONSTANT Senders

VARIABLE log        \* the room's messages in the order they were committed

MayFollow(m) ==
    /\ m.sender \in Senders /\ m.post \in Nat
    /\ m.seq = Len(log) + 1
    /\ m.parent \in 0 .. Len(log)
    /\ \A i \in 1 .. Len(log) : log[i].sender = m.sender => log[i].post <= m.post

LogInit == log = <<>>

LogNext ==
    /\ Len(log') = Len(log) + 1
    /\ log' = Append(log, log'[Len(log) + 1])
    /\ MayFollow(log'[Len(log) + 1])

LogSpec == LogInit /\ [][LogNext]_log
==============================================================================
