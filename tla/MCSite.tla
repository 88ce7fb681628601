------------------------------- MODULE MCSite -------------------------------
(* The site with the erasure code of the nodes, K = 4 and M = 2, on a file   *)
(* of one byte per shard; the code is linear, so one set bit in each data    *)
(* shard is enough to tell what four shards give back.                       *)
EXTENDS Site

MCChunks == {[i \in 0..3 |-> IF i = j THEN 1 ELSE 0] : j \in 0..3}

ASSUME DecodeAssumption == AnyShardsDecode
=============================================================================
