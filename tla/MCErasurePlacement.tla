-------------------------- MODULE MCErasurePlacement --------------------------
(***************************************************************************)
(* ErasurePlacement with the four data and two parity shards a node starts *)
(* with, on a ring with a node for each shard and on one of three nodes.   *)
(***************************************************************************)
EXTENDS ErasurePlacement

CONSTANTS n1, n2, n3, n4, n5, n6

Nodes == {n1, n2, n3, n4, n5, n6}
Large == <<n1, n2, n3, n4, n5, n6>>
Small == <<n3, n1, n2>>
BothRings == {Large, Small}
SmallRing == {Small}

Zeros == [i \in 0..3 |-> 0]

\* Every chunk with a single bit.  Encoding and reconstruction are linear, so
\* what holds for these holds for their sums, which are all chunks.
SingleBits == {[Zeros EXCEPT ![i] = 2^b] : i \in 0..3, b \in 0..7}
=============================================================================
