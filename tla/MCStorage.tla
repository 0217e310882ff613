------------------------------ MODULE MCStorage ------------------------------
(***************************************************************************)
(* The index and the files, which share no state: what one does says       *)
(* nothing of the other, so a behaviour of the run is one of either.       *)
(***************************************************************************)
EXTENDS RAGIndex, Files, TLC

CONSTANTS r1, r2, u1, u2

VARIABLE part \* the one that moves

MCArrivals == {[kind |-> "line", pause |-> 0], [kind |-> "long", pause |-> 1]}

StorageInit == Init /\ FilesInit /\ part \in {"index", "files"}

StorageNext ==
    \/ part = "index" /\ Next /\ UNCHANGED <<part, filesVars>>
    \/ part = "files" /\ FilesNext /\ UNCHANGED <<part, vars>>

StorageSpec == StorageInit /\ [][StorageNext]_<<part, vars, filesVars>>

Symmetry == Permutations(Runs) \cup Permutations(Handlers)
=============================================================================
