--------------------------- MODULE MCReplicaRepair ---------------------------
(***************************************************************************)
(* ReplicaRepair with three nodes of two virtual nodes each.  The walk of  *)
(* the chunk meets 2, then 3, and 1 beyond the end of the positions.       *)
(*                                                                         *)
(* The rings of the run have no collisions.  Two assumptions evaluate those*)
(* of another ring, on which 1 and 3 have a position in common, after every*)
(* short sequence of joins and leaves.                                     *)
(***************************************************************************)
EXTENDS ReplicaRepair

Three == 1..3
TwoMarks == <<{2, 8}, {3, 10}, {12, 14}>>
LocalFirst == <<<<2, 1, 0>>, <<1, 2, 0>>, <<1, 0, 2>>>>

-----------------------------------------------------------------------------
Colliding == INSTANCE Ring WITH Marks <- <<{2, 12}, {3, 10}, {12, 14}>>

\* AddNode(n) and RemoveNode(n) with their tests of r.nodes.
Toggle(r, n) ==
  IF n \in r.nodes
    THEN [nodes |-> r.nodes \ {n}, at |-> Colliding!RemoveNode(r.at, n)]
    ELSE [nodes |-> r.nodes \cup {n}, at |-> Colliding!AddNode(r.at, n)]
NewRing == [nodes |-> {}, at |-> [h \in {} |-> 0]]
Grown(rings) == rings \cup {Toggle(r, n) : r \in rings, n \in Three}

\* The rings after up to six joins and leaves.
Histories == Grown(Grown(Grown(Grown(Grown(Grown({NewRing}))))))

\* A collision takes no target from a chunk and adds none that is not on the ring.
ASSUME CollisionsKeepTargets ==
  \A r \in Histories, k \in 1..3 :
    LET chosen == Colliding!Targets(r.at, k)
    IN /\ chosen \subseteq r.nodes
       /\ chosen = r.nodes \/ Cardinality(chosen) = k

\* But rings of the same nodes no longer choose the same.
ASSUME CollisionsSplitRings ==
  \E r, s \in Histories :
    r.nodes = s.nodes /\ Colliding!Targets(r.at, 2) # Colliding!Targets(s.at, 2)
=============================================================================
