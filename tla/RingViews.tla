------------------------------ MODULE RingViews ------------------------------
(***************************************************************************)
(* Two views of the consistent-hash ring.                                  *)
(*                                                                         *)
(* VaultRing3D ("vault") plays how a chunk reaches the hub and leaves it   *)
(* for three tumblers; it is drawn frame by frame, only while it plays.    *)
(* ConsistentHashRing ("ring") shows where the ring puts four chunks; its  *)
(* nodes can be switched off and on, but the placement is a table.         *)
(***************************************************************************)
EXTENDS Integers, FiniteSets

VARIABLES
    ringView,         \* the view that is mounted
    vaultPlaying, vaultSpeed,
    stillView,        \* prefersReducedMotion: no scene is drawn
    selectedTumbler,  \* selectedTumblerId, or 0 for null
    progress,         \* progress.current, in tenths
    packet,           \* where the packet was put: how far on which way
    replicaPackets,   \* the same for the two replicas; 0 while invisible
    activeNodes,      \* nodes[i].active
    currentChunk

ringVars == <<ringView, vaultPlaying, vaultSpeed, stillView, selectedTumbler,
              progress, packet, replicaPackets, activeNodes, currentChunk>>

-----------------------------------------------------------------------------
(* The tables. *)

InitialTumblers ==
    << "Replica", "Primary", "Replica", "Standby", "Standby", "Replica" >>
Tumblers == DOMAIN InitialTumblers

RingNodes == 1..5
RingAngle(n) == 72 * (n - 1)

ChunkAngleMap == [a |-> 54, b |-> 195, c |-> 345, d |-> 120]

\* Variant: the table of MasterSystemCanvas.
SampleChunksOfCanvas ==
    [a |-> [primary |-> 2, replicas |-> {3, 4}],
     b |-> [primary |-> 4, replicas |-> {5, 1}],
     c |-> [primary |-> 1, replicas |-> {2, 3}],
     d |-> [primary |-> 3, replicas |-> {1, 5}]]

\* The table a chunk's placement is shown from.
SampleChunks ==
    [a |-> [primary |-> 2, replicas |-> {3, 4}],
     b |-> [primary |-> 4, replicas |-> {5, 1}],
     c |-> [primary |-> 1, replicas |-> {2, 3}],
     d |-> [primary |-> 3, replicas |-> {4, 5}]]

-----------------------------------------------------------------------------
(* What is shown. *)

\* The inspector falls back to tumbler 2 when no tumbler is selected.
Inspected == IF selectedTumbler = 0 THEN 2 ELSE selectedTumbler

\* A node is drawn as the primary or a replica of the chunk, also when it has
\* been switched off.
DrawnAs(n) ==
    IF n = SampleChunks[currentChunk].primary THEN "primary"
    ELSE IF n \in SampleChunks[currentChunk].replicas THEN "replica"
    ELSE IF n \in activeNodes THEN "active"
    ELSE "off"

\* "First successor on ring", "Next distinct physical nodes".
ShownPlacement ==
    [primary  |-> SampleChunks[currentChunk].primary,
     replicas |-> SampleChunks[currentChunk].replicas]

-----------------------------------------------------------------------------
Nowhere == <<"nowhere", 0>>

RingInit ==
    /\ ringView \in {"vault", "ring"}
    /\ vaultPlaying = TRUE /\ vaultSpeed = 2 /\ stillView \in BOOLEAN
    /\ selectedTumbler = 2
    /\ progress = 0 /\ packet = Nowhere /\ replicaPackets = <<0, 0>>
    /\ activeNodes = RingNodes /\ currentChunk = "a"

MountRing(v) ==
    /\ ringView' = v
    /\ vaultPlaying' = TRUE /\ vaultSpeed' = 2 /\ stillView' \in BOOLEAN
    /\ selectedTumbler' = 2
    /\ progress' = 0 /\ packet' = Nowhere /\ replicaPackets' = <<0, 0>>
    /\ activeNodes' = RingNodes /\ currentChunk' = "a"

\* A frame of the stream, any time after the one before: below 0.4 of the way
\* the packet goes to the hub and the replicas are hidden; after that all
\* three go to their tumblers.
StreamFrame ==
    /\ ringView = "vault" /\ ~stillView /\ vaultPlaying
    /\ \E t \in 0..9 :
         /\ progress' = t
         /\ IF t < 4
            THEN packet' = <<"hub", t>> /\ replicaPackets' = <<0, 0>>
            ELSE packet' = <<"tumbler", t - 3>> /\ replicaPackets' = <<t - 3, t - 3>>
    /\ UNCHANGED <<ringView, vaultPlaying, vaultSpeed, stillView, selectedTumbler,
                   activeNodes, currentChunk>>

ToggleVault ==
    /\ ringView = "vault" /\ vaultPlaying' = ~vaultPlaying
    /\ UNCHANGED <<ringView, vaultSpeed, stillView, selectedTumbler, progress,
                   packet, replicaPackets, activeNodes, currentChunk>>

SetVaultSpeed(v) ==
    /\ ringView = "vault" /\ vaultSpeed' = v
    /\ UNCHANGED <<ringView, vaultPlaying, stillView, selectedTumbler, progress,
                   packet, replicaPackets, activeNodes, currentChunk>>

\* A click on the selected tumbler selects none.
SelectTumbler(t) ==
    /\ ringView = "vault" /\ ~stillView
    /\ selectedTumbler' = IF selectedTumbler = t THEN 0 ELSE t
    /\ UNCHANGED <<ringView, vaultPlaying, vaultSpeed, stillView, progress,
                   packet, replicaPackets, activeNodes, currentChunk>>

\* The listener of the media query: the scene goes, or is mounted anew.
VaultMotionChanges ==
    /\ ringView = "vault"
    /\ stillView' = ~stillView
    /\ progress' = 0 /\ packet' = Nowhere /\ replicaPackets' = <<0, 0>>
    /\ UNCHANGED <<ringView, vaultPlaying, vaultSpeed, selectedTumbler,
                   activeNodes, currentChunk>>

ToggleNode(n) ==
    /\ ringView = "ring"
    /\ activeNodes' = IF n \in activeNodes THEN activeNodes \ {n}
                      ELSE activeNodes \cup {n}
    /\ UNCHANGED <<ringView, vaultPlaying, vaultSpeed, stillView, selectedTumbler,
                   progress, packet, replicaPackets, currentChunk>>

SelectRingChunk(c) ==
    /\ ringView = "ring" /\ currentChunk' = c
    /\ UNCHANGED <<ringView, vaultPlaying, vaultSpeed, stillView, selectedTumbler,
                   progress, packet, replicaPackets, activeNodes>>

RingNext ==
    \/ StreamFrame
    \/ ToggleVault
    \/ \E v \in {1, 2, 4} : SetVaultSpeed(v)
    \/ \E t \in Tumblers : SelectTumbler(t)
    \/ VaultMotionChanges
    \/ \E n \in RingNodes : ToggleNode(n)
    \/ \E c \in DOMAIN ChunkAngleMap : SelectRingChunk(c)

-----------------------------------------------------------------------------
RingTypeOK ==
    /\ ringView \in {"vault", "ring"}
    /\ vaultPlaying \in BOOLEAN /\ vaultSpeed \in {1, 2, 4} /\ stillView \in BOOLEAN
    /\ selectedTumbler \in 0..6 /\ progress \in 0..9
    /\ packet \in {"nowhere", "hub", "tumbler"} \X (0..6)
    /\ replicaPackets \in (0..6) \X (0..6)
    /\ activeNodes \subseteq RingNodes /\ currentChunk \in DOMAIN ChunkAngleMap

\* The three copies leave the hub together and none is left over from the
\* round before, wherever frames are skipped and the scene is paused.
CopiesLeaveTogether ==
    \A i \in 1..2 : replicaPackets[i] = IF packet[1] = "tumbler" THEN packet[2] ELSE 0

\* The first three nodes clockwise from an angle, of those that are switched on.
Clockwise(angle, n) == (RingAngle(n) - angle + 360) % 360
SuccessorsOn(angle, nodes) ==
    {n \in nodes : Cardinality({m \in nodes : Clockwise(angle, m) < Clockwise(angle, n)}) < 3}

\* The placement table is the ring: as long as no node it names is switched
\* off, whatever others are, it names the three successors of the chunk among
\* the nodes that are on, and the primary is the first of them.
PlacementIsRing ==
    LET p == ShownPlacement
        holders == {p.primary} \cup p.replicas
        angle == ChunkAngleMap[currentChunk]
    IN holders \subseteq activeNodes =>
         /\ holders = SuccessorsOn(angle, activeNodes)
         /\ \A n \in p.replicas : Clockwise(angle, p.primary) < Clockwise(angle, n)
         /\ \A n \in RingNodes : DrawnAs(n) \in {"primary", "replica"} <=> n \in holders

\* Both views show a placement the ring could have made.
RingViewsAreRight == CopiesLeaveTogether /\ PlacementIsRing
=============================================================================
