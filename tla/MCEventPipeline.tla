-------------------------- MODULE MCEventPipeline --------------------------
(* EventPipeline with two shards of one pool each. *)
EXTENDS EventPipeline, TLC

CONSTANTS w1, w2, p1, p2
TwoShards == p1 :> w1 @@ p2 :> w2
=============================================================================
