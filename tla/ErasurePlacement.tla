--------------------------- MODULE ErasurePlacement ---------------------------
(***************************************************************************)
(* The shards of one chunk in erasure mode: the write that places them one *)
(* after the other, the collector, and the read that looks for them.       *)
(*                                                                         *)
(* Source: PutErasureChunk and ReadErasureChunk of                         *)
(* internal/coordinator/erasure.go, and the sweep of internal/gc/gc.go.    *)
(*                                                                         *)
(* Shard i of chunk c is the file c.si.  A manifest lists the chunk c and  *)
(* its locations.  Which K shards give the chunk back is computed by       *)
(* ErasureCode.  The node that writes and reads is not one of the targets  *)
(* and keeps running.  The names differ from those of ReplicaRepair, the   *)
(* other storage mode, so that one module of proofs extends both.          *)
(***************************************************************************)
EXTENDS ErasureCode, Sequences

CONSTANTS
  ShardNode,
  Rings,       \* what GetNodesForKey(chunk, K + M) may return: distinct nodes
  MaxFlips,    \* bound: crashes and restarts of nodes
  MaxLosses,   \* bound: shard writes to a live node that fail
  MaxSweeps    \* bound: collections

ASSUME ShardRingAssumption == Rings \subseteq Seq(ShardNode) \ {<<>>}
ASSUME ShardBoundAssumption == {MaxFlips, MaxLosses, MaxSweeps} \subseteq Nat

VARIABLES
  targets,  \* targetNodes
  shardUp,  \* the nodes that run
  holds,    \* holds[n]: the shards n has on disk
  next,     \* the shard the write is at
  written,  \* the shards that were acknowledged
  shardLocs, \* the locations of the acknowledged writes, in their order
  outcome,  \* of the write
  flips, losses, sweeps  \* what the bounds leave

shardBudget == <<flips, losses, sweeps>>
shardVars == <<targets, shardUp, holds, next, written, shardLocs, outcome, shardBudget>>

ShardTypeOK ==
  /\ targets \in Rings
  /\ shardUp \in SUBSET ShardNode
  /\ holds \in [ShardNode -> SUBSET Index]
  /\ next \in 0..(K + M)
  /\ written \in SUBSET Index /\ Cardinality(written) = Len(shardLocs)
  /\ shardLocs \in Seq(ShardNode)
  /\ outcome \in {"writing", "stored", "failed"}
  /\ flips \in 0..MaxFlips /\ losses \in 0..MaxLosses /\ sweeps \in 0..MaxSweeps

ShardInit ==
  /\ targets \in Rings
  /\ shardUp = ShardNode
  /\ holds = [n \in ShardNode |-> {}]
  /\ next = 0
  /\ written = {}
  /\ shardLocs = <<>>
  /\ outcome = "writing"
  /\ flips = MaxFlips /\ losses = MaxLosses /\ sweeps = MaxSweeps

\* nodes[i % len(nodes)]
Turn(nodes, i) == nodes[(i % Len(nodes)) + 1]

-----------------------------------------------------------------------------
(* PutErasureChunk *)

TargetOf(i) == Turn(targets, i)

Acknowledge(i) ==
  /\ shardLocs' = Append(shardLocs, TargetOf(i))
  /\ written' = written \cup {i}

\* Faulty: the location is listed for every shard.
WriteShardListed(ok) ==
  LET i == next
      n == TargetOf(i)
  IN /\ outcome = "writing" /\ i < K + M
     /\ next' = i + 1
     /\ shardLocs' = Append(shardLocs, n)
     /\ \/ /\ ok /\ n \in shardUp
           /\ holds' = [holds EXCEPT ![n] = @ \cup {i}]
           /\ written' = written \cup {i}
           /\ UNCHANGED losses
        \/ /\ ~ok /\ n \notin shardUp
           /\ UNCHANGED <<holds, written, losses>>
        \/ /\ ~ok /\ n \in shardUp
           /\ losses > 0 /\ losses' = losses - 1
           /\ holds' \in {holds, [holds EXCEPT ![n] = @ \cup {i}]}
           /\ UNCHANGED written
     /\ UNCHANGED <<targets, shardUp, outcome, flips, sweeps>>

\* The location of a shard is appended when its write is acknowledged.
WriteShard(ok) ==
  LET i == next
      n == TargetOf(i)
  IN /\ outcome = "writing" /\ i < K + M
     /\ next' = i + 1
     /\ \/ /\ ok /\ n \in shardUp
           /\ holds' = [holds EXCEPT ![n] = @ \cup {i}]
           /\ Acknowledge(i)
           /\ UNCHANGED losses
        \/ /\ ~ok /\ n \notin shardUp
           /\ UNCHANGED <<holds, written, shardLocs, losses>>
        \/ /\ ~ok /\ n \in shardUp
           /\ losses > 0 /\ losses' = losses - 1
           /\ holds' \in {holds, [holds EXCEPT ![n] = @ \cup {i}]}
           /\ UNCHANGED <<written, shardLocs>>
     /\ UNCHANGED <<targets, shardUp, outcome, flips, sweeps>>

PutReturns ==
  /\ outcome = "writing" /\ next = K + M
  /\ outcome' = IF Cardinality(written) < K THEN "failed" ELSE "stored"
  /\ UNCHANGED <<targets, shardUp, holds, next, written, shardLocs, shardBudget>>

-----------------------------------------------------------------------------
(* ReadErasureChunk *)

\* The shards it could fetch: it asks for shard i at the i-th location.
FoundShards == {i \in Index : Turn(shardLocs, i) \in shardUp /\ i \in holds[Turn(shardLocs, i)]}

\* It stops at K shards.
FetchedShards == {i \in FoundShards : Cardinality({j \in FoundShards : j < i}) < K}

Readable == FetchedShards \in DecodableSets

-----------------------------------------------------------------------------
(* Nodes *)

ShardNodeCrashes(n) ==
  /\ n \in shardUp /\ flips > 0
  /\ flips' = flips - 1
  /\ shardUp' = shardUp \ {n}
  /\ UNCHANGED <<targets, holds, next, written, shardLocs, outcome, losses, sweeps>>

ShardNodeReturns(n) ==
  /\ n \notin shardUp /\ flips > 0
  /\ flips' = flips - 1
  /\ shardUp' = shardUp \cup {n}
  /\ UNCHANGED <<targets, holds, next, written, shardLocs, outcome, losses, sweeps>>

\* A collection on n: no manifest, registry or upload record names a shard file,
\* so the sweep deletes every one, that of a recorded chunk too.
CollectGarbage(n) ==
  /\ n \in shardUp /\ sweeps > 0
  /\ sweeps' = sweeps - 1
  /\ holds' = [holds EXCEPT ![n] = {}]
  /\ UNCHANGED <<targets, shardUp, next, written, shardLocs, outcome, flips, losses>>

-----------------------------------------------------------------------------
ShardNext ==
  \/ \E ok \in BOOLEAN : WriteShard(ok)
  \/ PutReturns
  \/ \E n \in ShardNode : ShardNodeCrashes(n) \/ ShardNodeReturns(n) \/ CollectGarbage(n)

ShardSpec == ShardInit /\ [][ShardNext]_shardVars

-----------------------------------------------------------------------------
(* Properties *)

Unswept == sweeps = MaxSweeps

\* The reader looks for shard i at the i-th location of the list, or where the
\* list starts again.  When the acknowledged shards are the first ones, that is
\* where they are: any K of them on nodes that run give the chunk back, on rings
\* with enough nodes or too few, whoever crashed or came back meanwhile
\* (coordinator/erasure.go:66, erasure.go:85).
PrefixIsReadable ==
  outcome = "stored" /\ Unswept /\ written = 0..(Cardinality(written) - 1) =>
    (Cardinality({i \in written : TargetOf(i) \in shardUp}) >= K => Readable)

\* decisions.md:190: the sweep "purges unreferenced chunks", so a chunk that
\* was stored outlives a collection.
StoredOutlivesSweep ==
  outcome = "stored" /\ written = Index /\ shardUp = ShardNode => Readable
=============================================================================
