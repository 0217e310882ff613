----------------------------- MODULE MCModelRPC -----------------------------
(* ModelRPC for TLC: a call for images, which needs more of one bucket than   *)
(* it holds, and a small one; two workers.                                    *)
EXTENDS ModelRPC, TLC

CONSTANTS c1, c2, w1, w2, minute, day

MCImages == c1 :> 2 @@ c2 :> 0
MCCapacity == minute :> 2 @@ day :> 3
MCRefill == minute :> 2 @@ day :> 1
MCNeed == c1 :> (minute :> 3 @@ day :> 3) @@ c2 :> (minute :> 1 @@ day :> 2)
=============================================================================
