----------------------------- MODULE ReplicaRepair -----------------------------
(***************************************************************************)
(* The replicas of one chunk: the quorum write that creates them, the      *)
(* quorum read, and the repair that every node runs when it declares       *)
(* another one dead.                                                       *)
(*                                                                         *)
(* Source: PutChunk, WriteChunk and ReadChunk of internal/coordinator,     *)
(* RepairDeadNode of internal/replication/repair.go, and                   *)
(* UpdateChunkLocations of internal/metadata/store.go, in the replication  *)
(* storage mode, with the hash ring of each node (Ring).                   *)
(*                                                                         *)
(* Each node has its own ring and its own copy of the chunk's locations; a *)
(* repair changes those of the node it runs on only.  Nodes are numbers, so*)
(* that their order is the order sort.Strings gives their addresses.  A    *)
(* chunk call that fails may have stored the chunk or not.  Chunks are     *)
(* repaired one after the other and share nothing.  Nothing here deletes a *)
(* chunk file: that is ChunkGC.                                            *)
(***************************************************************************)
EXTENDS Ring

CONSTANTS
  Later,        \* Later[n][m]: how many nodes main of n adds to its ring after m
  N,            \* replication factor
  W,            \* write quorum
  MaxPuts,      \* bound: uploads of the chunk
  MaxCrashes,   \* bound: crashes
  MaxReturns,   \* bound: restarts of crashed nodes
  MaxFailures   \* bound: chunk calls to a live node that fail

ASSUME LaterAssumption ==
  /\ Later \in [Node -> [Node -> Nat]]
  /\ \A n, m \in Node : n # m => Later[n][m] < Later[n][n]
ASSUME QuorumAssumption == W \in 1..N /\ N \in Nat
ASSUME BoundAssumption == {MaxPuts, MaxCrashes, MaxReturns, MaxFailures} \subseteq Nat

VARIABLES
  up,       \* the nodes that run
  ring,     \* ring[n]: the nodes on n's ring
  hashToNode,  \* hashToNode[n]: whose each position of n's ring is
  disk,     \* the nodes with the chunk's file
  locs,     \* locs[n]: ChunkLocations in n's manifest, {} without a manifest
  put,      \* the upload under way
  jobs,     \* jobs[n]: dead nodes n has to repair
  repair,   \* repair[n]: the transfer n is coordinating
  budget,   \* what the bounds leave
  orderly   \* history: see SingleDeathHealed

vars == <<up, ring, hashToNode, disk, locs, put, jobs, repair, budget, orderly>>

NoPut == [by |-> 0, targets |-> {}, acked |-> {}]
NoRepair == [dead |-> 0, alive |-> {}, targets |-> {}, copied |-> {}]

TypeOK ==
  /\ up \in SUBSET Node
  /\ ring \in [Node -> SUBSET Node]
  /\ hashToNode \in [Node -> HashRings(Node)]
  /\ disk \in SUBSET Node
  /\ locs \in [Node -> SUBSET Node]
  /\ put \in [by : Node \cup {0}, targets : SUBSET Node, acked : SUBSET Node]
  /\ Cardinality(put.targets) <= N
  /\ jobs \in [Node -> SUBSET Node]
  /\ repair \in [Node -> [dead : Node \cup {0}, alive : SUBSET Node,
                          targets : SUBSET Node, copied : SUBSET Node]]
  /\ budget \in [puts : 0..MaxPuts, crashes : 0..MaxCrashes,
                 returns : 0..MaxReturns, failures : 0..MaxFailures]
  /\ orderly \in BOOLEAN

Init ==
  /\ up = Node
  /\ ring = [n \in Node |-> Node]
  /\ hashToNode = [n \in Node |-> Joined(Later[n])]
  /\ disk = {}
  /\ locs = [n \in Node |-> {}]
  /\ put = NoPut
  /\ jobs = [n \in Node |-> {}]
  /\ repair = [n \in Node |-> NoRepair]
  /\ budget = [puts |-> MaxPuts, crashes |-> MaxCrashes,
               returns |-> MaxReturns, failures |-> MaxFailures]
  /\ orderly = TRUE

Spend(what) ==
  /\ budget[what] > 0
  /\ budget' = [budget EXCEPT ![what] = @ - 1]

-----------------------------------------------------------------------------
(* Faulty variants *)

\* A death that leaves the positions of the dead node on the ring.
NodeDiesOnly(n, d) ==
  /\ n \in up /\ d \notin up
  /\ d \in ring[n]
  /\ ring' = [ring EXCEPT ![n] = @ \ {d}]
  /\ jobs' = [jobs EXCEPT ![n] = @ \cup {d}]
  /\ UNCHANGED <<up, hashToNode, disk, locs, put, repair, budget, orderly>>

\* A repair that only looks at the chunks the dead node held.
NeedsRepairIfHeld(n, d) ==
  /\ d \in locs[n]
  /\ locs[n] \ {d} # {}

\* Locations that count a copy before it is acknowledged.
CopyChunkUnchecked(n, t, ok) ==
  /\ t \in repair[n].targets
  /\ repair' = [repair EXCEPT ![n].targets = @ \ {t}, ![n].copied = @ \cup {t}]
  /\ \/ ok /\ t \in up /\ disk' = disk \cup {t} /\ UNCHANGED <<budget, orderly>>
     \/ ~ok /\ t \notin up /\ UNCHANGED <<disk, budget, orderly>>
  /\ UNCHANGED <<up, ring, hashToNode, locs, put, jobs>>

\* A manifest that is recorded whatever the number of acknowledgments.
RecordUncounted ==
  /\ put.by # 0 /\ put.targets = {}
  /\ put' = NoPut
  /\ locs' = [locs EXCEPT ![put.by] = put.acked]
  /\ UNCHANGED <<up, ring, hashToNode, disk, jobs, repair, budget, orderly>>

-----------------------------------------------------------------------------
(* Placement and chunk calls *)

\* The nodes of n's ring that the chunk belongs on.
GetNodesForKey(n) == Targets(hashToNode[n], N)

\* A chunk PUT sent to t, acknowledged or not.
PutChunkTo(t, ok) ==
  \/ /\ ok
     /\ t \in up
     /\ disk' = disk \cup {t}
     /\ UNCHANGED budget
  \/ /\ ~ok
     /\ t \notin up
     /\ UNCHANGED <<disk, budget>>
  \/ /\ ~ok
     /\ t \in up
     /\ Spend("failures")
     /\ disk' \in {disk, disk \cup {t}}

-----------------------------------------------------------------------------
(* Coordinator *)

PutChunk(c) ==
  /\ c \in up
  /\ put = NoPut
  /\ Spend("puts")
  /\ put' = [by |-> c, targets |-> GetNodesForKey(c), acked |-> {}]
  /\ orderly' = FALSE
  /\ UNCHANGED <<up, ring, hashToNode, disk, locs, jobs, repair>>

\* One of the parallel writes of WriteChunk returns.
WriteChunk(t, ok) ==
  /\ t \in put.targets
  /\ PutChunkTo(t, ok)
  /\ put' = [put EXCEPT !.targets = @ \ {t}, !.acked = IF ok THEN @ \cup {t} ELSE @]
  /\ UNCHANGED <<up, ring, hashToNode, locs, jobs, repair, orderly>>

\* All of them have: with W acknowledgments the manifest is recorded.
RecordLocations ==
  /\ put.by # 0 /\ put.targets = {}
  /\ put' = NoPut
  /\ locs' = IF Cardinality(put.acked) >= W
             THEN [locs EXCEPT ![put.by] = put.acked]
             ELSE locs
  /\ UNCHANGED <<up, ring, hashToNode, disk, jobs, repair, budget, orderly>>

\* n takes m's manifest, by a broadcast or by anti-entropy.  Which of two
\* manifests wins there is left open: see MetadataReplication.
LearnManifest(n, m) ==
  /\ {n, m} \subseteq up
  /\ locs[m] # {} /\ locs[m] # locs[n]
  /\ locs' = [locs EXCEPT ![n] = locs[m]]
  /\ UNCHANGED <<up, ring, hashToNode, disk, put, jobs, repair, budget, orderly>>

-----------------------------------------------------------------------------
(* Failures, and what the heartbeats of a node make of them *)

Crash(n) ==
  /\ n \in up
  /\ Spend("crashes")
  /\ up' = up \ {n}
  /\ put' = IF put.by = n THEN NoPut ELSE put
  /\ jobs' = [jobs EXCEPT ![n] = {}]
  /\ repair' = [repair EXCEPT ![n] = NoRepair]
  /\ orderly' = (up = Node /\ put = NoPut /\ locs[n] \ {n} # {}
                 /\ \A m \in Node : locs[m] = locs[n] /\ ring[m] = Node
                                    /\ jobs[m] = {} /\ repair[m] = NoRepair)
  /\ UNCHANGED <<ring, hashToNode, disk, locs>>

\* A restarted node starts with all its peers on the ring.
Return(n) ==
  /\ n \notin up
  /\ Spend("returns")
  /\ up' = up \cup {n}
  /\ ring' = [ring EXCEPT ![n] = Node]
  /\ hashToNode' = [hashToNode EXCEPT ![n] = Joined(Later[n])]
  /\ UNCHANGED <<disk, locs, put, jobs, repair, orderly>>

NodeDies(n, d) ==
  /\ n \in up /\ d \notin up
  /\ d \in ring[n]
  /\ ring' = [ring EXCEPT ![n] = @ \ {d}]
  /\ hashToNode' = [hashToNode EXCEPT ![n] = RemoveNode(@, d)]
  /\ jobs' = [jobs EXCEPT ![n] = @ \cup {d}]
  /\ UNCHANGED <<up, disk, locs, put, repair, budget, orderly>>

NodeIsBack(n, d) ==
  /\ {n, d} \subseteq up
  /\ d \notin ring[n]
  /\ ring' = [ring EXCEPT ![n] = @ \cup {d}]
  /\ hashToNode' = [hashToNode EXCEPT ![n] = AddNode(@, d)]
  /\ UNCHANGED <<up, disk, locs, put, jobs, repair, budget, orderly>>

-----------------------------------------------------------------------------
(* Repair *)

\* The chunk was on the dead node, or has too few replicas anyway.
NeedsRepair(n, d) ==
  /\ d \in locs[n] \/ Cardinality(locs[n]) < N
  /\ locs[n] \ {d} # {}

\* aliveLocs[0] after the sort.
Elected(n, alive) == n \in alive /\ \A m \in alive : n <= m

\* RepairDeadNode(d) on n up to the first transfer, or to the end when the
\* chunk is not n's to repair.  rm.mu admits one repair at a time.
RepairDeadNode(n, d) ==
  LET alive == locs[n] \ {d}
      needed == GetNodesForKey(n) \ alive
      coordinates == /\ NeedsRepair(n, d)
                     /\ needed # {}
                     /\ Elected(n, alive)
                     /\ alive \cap up \cap disk # {}
  IN /\ n \in up
     /\ d \in jobs[n]
     /\ repair[n] = NoRepair
     /\ jobs' = [jobs EXCEPT ![n] = @ \ {d}]
     /\ \/ /\ coordinates
           /\ repair' = [repair EXCEPT ![n] =
                [dead |-> d, alive |-> alive, targets |-> needed, copied |-> {}]]
        \/ ~coordinates /\ UNCHANGED repair
     /\ UNCHANGED <<up, ring, hashToNode, disk, locs, put, budget, orderly>>

CopyChunk(n, t, ok) ==
  /\ t \in repair[n].targets
  /\ PutChunkTo(t, ok)
  /\ repair' = [repair EXCEPT ![n].targets = @ \ {t},
                              ![n].copied = IF ok THEN @ \cup {t} ELSE @]
  /\ orderly' = (orderly /\ ok)
  /\ UNCHANGED <<up, ring, hashToNode, locs, put, jobs>>

\* The locations found when the repair began are written back, with the copies
\* that were acknowledged.
UpdateChunkLocations(n) ==
  /\ repair[n].dead # 0
  /\ repair[n].targets = {}
  /\ repair' = [repair EXCEPT ![n] = NoRepair]
  /\ locs' = [locs EXCEPT ![n] = IF @ = {} THEN {} ELSE repair[n].alive \cup repair[n].copied]
  /\ UNCHANGED <<up, ring, hashToNode, disk, put, jobs, budget, orderly>>

-----------------------------------------------------------------------------
Next ==
  \/ \E n \in Node :
       \/ PutChunk(n)
       \/ \E ok \in BOOLEAN : WriteChunk(n, ok)
       \/ \E m \in Node :
            \/ LearnManifest(n, m)
            \/ NodeDies(n, m)
            \/ NodeIsBack(n, m)
            \/ RepairDeadNode(n, m)
            \/ \E ok \in BOOLEAN : CopyChunk(n, m, ok)
       \/ UpdateChunkLocations(n)
       \/ Crash(n)
       \/ Return(n)
  \/ RecordLocations

Spec == Init /\ [][Next]_vars

-----------------------------------------------------------------------------
(* Properties *)

\* Where each node would put the chunk.
Placements == {[nodes |-> r[1], chosen |-> Targets(r[2], N)] :
                 r \in {<<ring[n], hashToNode[n]>> : n \in Node}}

\* A chunk belongs on N nodes of a ring, or on all when there are fewer, wherever
\* positions collide; and unless they do, no matter what joins, leaves and restarts
\* each ring has gone through, a node that one ring chooses and a smaller one still
\* has is chosen there too: rings of the same nodes choose the same, and a node that
\* leaves takes only its own chunks elsewhere (ring.go:29-97, decisions.md:101).
PlacementFollowsRing ==
  \A p, q \in Placements :
    /\ p.chosen \subseteq p.nodes
    /\ Cardinality(p.chosen) <= N
    /\ Cardinality(p.chosen) < N => p.chosen = p.nodes
    /\ NoCollision /\ p.nodes \subseteq q.nodes => q.chosen \cap p.nodes \subseteq p.chosen

\* A node that some manifest lists has the chunk: neither a write that failed,
\* nor a repair that works on old locations or was cut short by a crash, lists
\* a node too many (write.go:50-63, repair.go:119-135).
LocationsHoldChunk == \A n \in Node : locs[n] \subseteq disk

\* A manifest loses at most one location of its write quorum for each crash,
\* whatever order repairs, restarts and manifests of other nodes come in
\* (repair.go:120-135).
LocationsKeepQuorum ==
  \A n \in Node :
    locs[n] # {} => Cardinality(locs[n]) + (MaxCrashes - budget.crashes) >= W

\* Nothing is left to do: every node knows who is up, and all repairs are over.
Settled ==
  /\ put = NoPut
  /\ \A n \in up : ring[n] = up /\ jobs[n] = {} /\ repair[n] = NoRepair

FullyReplicated ==
  Cardinality(disk \cap up) >= N \/ up \subseteq disk

\* A node that crashes while all nodes are on every ring and hold the same
\* manifest, which lists another node, is made up for unless a transfer fails or
\* a new upload begins: some survivor coordinates, and it copies to enough
\* nodes, also for a chunk that had less than N replicas (repair.go:74-110).
SingleDeathHealed ==
  Settled /\ orderly /\ Cardinality(up) < Cardinality(Node) => FullyReplicated
=============================================================================
