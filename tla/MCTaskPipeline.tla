---------------------------- MODULE MCTaskPipeline ----------------------------
(* TaskPipeline for TLC: two tasks submitted with one request id and a third  *)
(* with its own.                                                              *)
EXTENDS TaskPipeline, TLC

CONSTANTS t1, t2, t3, r1, r2, w1, w2

MCRequestOf == t1 :> r1 @@ t2 :> r1 @@ t3 :> r2
==============================================================================
