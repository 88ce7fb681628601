-------------------------------- MODULE Ring --------------------------------
(***************************************************************************)
(* The consistent-hash ring: positions of virtual nodes, joins and leaves, *)
(* and the walk that finds the targets of a chunk.                         *)
(*                                                                         *)
(* Source: internal/ring/ring.go.                                          *)
(*                                                                         *)
(* A ring is its hashToNode, the function from occupied positions to nodes;*)
(* sortedHashes are its arguments in order, and r.nodes is kept by the     *)
(* modules that use it.  Positions are 32-bit hashes, so two nodes may have*)
(* one in common: the one that joins last then owns it, and whoever of them*)
(* leaves first takes it away.                                             *)
(***************************************************************************)
EXTENDS Naturals, FiniteSets

CONSTANTS
  Node,      \* the nodes, as numbers
  RingSize,  \* the number of positions, 2^32 in the code
  Marks,     \* Marks[n]: the positions of n's virtual nodes
  KeyHash    \* the position of the chunk

Positions == 0..(RingSize - 1)

\* A position of n that no other node has.
Own(n, h) == h \in Marks[n] /\ \A m \in Node \ {n} : h \notin Marks[m]

ASSUME NodeAssumption == Node \subseteq Nat \ {0} /\ IsFiniteSet(Node)
ASSUME RingAssumption == RingSize \in Nat /\ KeyHash \in Positions
                         /\ Marks \in [Node -> SUBSET Positions]
\* Of 150 positions of a node not all are another's as well.
ASSUME OwnAssumption == \A n \in Node : \E h \in Positions : Own(n, h)

HashRings(nodes) == UNION {[D -> nodes] : D \in SUBSET Positions}

-----------------------------------------------------------------------------
(* The ring and its walk *)

AddNode(at, n) ==
  [h \in DOMAIN at \cup Marks[n] |-> IF h \in Marks[n] THEN n ELSE at[h]]

RemoveNode(at, n) == [h \in DOMAIN at \ Marks[n] |-> at[h]]

\* The ring of a process that has just added its nodes, each before later[n]
\* others.
Joined(later) ==
  [h \in UNION {Marks[n] : n \in DOMAIN later} |->
     CHOOSE n \in DOMAIN later :
       /\ h \in Marks[n]
       /\ \A m \in DOMAIN later : h \in Marks[m] => later[n] <= later[m]]

\* How far clockwise of the chunk a position is: sort.Search finds the nearest,
\* and the loop goes on from the last position to the first.
Ahead(h) == IF h >= KeyHash THEN h - KeyHash ELSE h + RingSize - KeyHash

\* The nodes that the walk has seen when it comes to h.
Seen(at, h) == {at[g] : g \in {g \in DOMAIN at : Ahead(g) < Ahead(h)}}

\* GetNodesForKey: the walk goes on until it has seen k nodes.
Targets(at, k) == {at[h] : h \in {h \in DOMAIN at : Cardinality(Seen(at, h)) < k}}

-----------------------------------------------------------------------------
\* No two nodes have a position in common.
NoCollision == \A n \in Node, h \in Positions : h \in Marks[n] => Own(n, h)
=============================================================================
