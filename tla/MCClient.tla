------------------------------ MODULE MCClient -------------------------------
(***************************************************************************)
(* What a client keeps: its tokens, a room, a history it pages through. The*)
(* three share no state: a behaviour of the run is one of either.          *)
(***************************************************************************)
EXTENDS AuthSession, RoomSync, History, TLC

CONSTANTS c1, c2, a1, a2

VARIABLE part \* the one that moves

ClientInit == AuthInit /\ SyncInit /\ HistoryInit /\ part \in {"auth", "sync", "history"}

ClientNext ==
    \/ part = "auth" /\ AuthNext /\ UNCHANGED <<part, syncVars, historyVars>>
    \/ part = "sync" /\ SyncNext /\ UNCHANGED <<part, authVars, historyVars>>
    \/ part = "history" /\ HistoryNext /\ UNCHANGED <<part, authVars, syncVars>>

ClientSpec == ClientInit /\ [][ClientNext]_<<part, authVars, syncVars, historyVars>>

Symmetry == Permutations(Calls) \cup Permutations(Senders)
=============================================================================
