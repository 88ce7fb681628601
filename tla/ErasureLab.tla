----------------------------- MODULE ErasureLab -----------------------------
(***************************************************************************)
(* The three demonstrations of erasure coding on the documentation site:   *)
(* ErasureCoding3D ("scene"), ErasureCanvas ("canvas") and                 *)
(* ErasureCodingPlayground ("playground").  A click takes one of six       *)
(* shards away or brings it back; the scene can also reconstruct: a        *)
(* timeout of 1200 ms brings every shard back, and neither a click nor a   *)
(* reset clears it.                                                        *)
(*                                                                         *)
(* What the demonstrations say can be reconstructed is compared with what  *)
(* the erasure code of the nodes (ErasureCode) can decode.                 *)
(***************************************************************************)
EXTENDS ErasureCode

CONSTANT MaxPending     \* bound: reconstructions under way at one time

ASSUME MaxPendingAssumption == MaxPending \in Nat

VARIABLES
    lab,                \* the demonstration that is mounted
    mode,               \* what the playground compares
    alive,              \* the shards whose alive flag is set
    isReconstructing,
    pending,            \* timeouts armed by handleReconstruct
    disturbed           \* history: a click or a reset met a pending timeout

labVars == <<lab, mode, alive, isReconstructing, pending, disturbed>>

Labs == {"scene", "canvas", "playground"}
LabShards == 0..5

ErasureLabInit ==
    /\ lab \in Labs /\ mode = "erasure"
    /\ alive = LabShards
    /\ isReconstructing = FALSE /\ pending = 0 /\ disturbed = FALSE

MountLab(l) ==
    /\ lab' = l /\ mode' = "erasure"
    /\ alive' = LabShards
    /\ isReconstructing' = FALSE /\ pending' = 0 /\ disturbed' = FALSE

-----------------------------------------------------------------------------
(* What is shown: the verdict, the shards that can be clicked, whether the  *)
(* buttons are there, and the shards the beams of a reconstruction leave.   *)

\* Variant: three shards are taken to be enough.
CanReconstructFromThree == Cardinality(alive) >= 3

CanReconstruct == Cardinality(alive) >= 4

\* surviving.slice(0, 4)
FirstFour(s) == {i \in s : Cardinality({j \in s : j < i}) < 4}

SceneLab ==
    [verdict     |-> CASE alive = LabShards -> "healthy"
                       [] alive # LabShards /\ CanReconstruct -> "degraded"
                       [] ~CanReconstruct -> "lost",
     clickable   |-> LabShards,
     reset       |-> TRUE,
     reconstruct |-> alive # LabShards /\ CanReconstruct /\ ~isReconstructing,
     beams       |-> IF isReconstructing /\ alive # LabShards
                     THEN FirstFour(alive) ELSE {}]

CanvasLab ==
    [verdict     |-> IF CanReconstruct THEN "degraded" ELSE "lost",
     clickable   |-> LabShards,
     reset       |-> TRUE,
     reconstruct |-> FALSE,
     beams       |-> {}]

\* The shards and their button are shown in erasure mode only.
PlaygroundLab ==
    [verdict     |-> CASE mode = "replication" -> "none"
                       [] mode = "erasure" /\ CanReconstruct -> "degraded"
                       [] mode = "erasure" /\ ~CanReconstruct -> "lost",
     clickable   |-> IF mode = "erasure" THEN LabShards ELSE {},
     reset       |-> mode = "erasure",
     reconstruct |-> FALSE,
     beams       |-> {}]

LabView == CASE lab = "scene"      -> SceneLab
             [] lab = "canvas"     -> CanvasLab
             [] lab = "playground" -> PlaygroundLab

-----------------------------------------------------------------------------
(* The handlers. *)

Disturb == disturbed' = (disturbed \/ pending > 0)

ToggleShard(s) ==
    /\ s \in LabView.clickable
    /\ alive' = IF s \in alive THEN alive \ {s} ELSE alive \cup {s}
    /\ Disturb
    /\ UNCHANGED <<lab, mode, isReconstructing, pending>>

HandleReconstruct ==
    /\ LabView.reconstruct
    /\ pending < MaxPending
    /\ isReconstructing' = TRUE
    /\ pending' = pending + 1
    /\ UNCHANGED <<lab, mode, alive, disturbed>>

\* The timeout of a reconstruction, also of one that was reset: whatever was
\* clicked in between, every shard comes back.
Reconstructed ==
    /\ pending > 0
    /\ alive' = LabShards /\ isReconstructing' = FALSE
    /\ pending' = pending - 1
    /\ disturbed' = (disturbed /\ pending' > 0)
    /\ UNCHANGED <<lab, mode>>

ResetLab ==
    /\ LabView.reset
    /\ alive' = LabShards /\ isReconstructing' = FALSE
    /\ Disturb
    /\ UNCHANGED <<lab, mode, pending>>

SetMode(m) ==
    /\ lab = "playground" /\ mode' = m
    /\ UNCHANGED <<lab, alive, isReconstructing, pending, disturbed>>

ErasureLabNext ==
    \/ \E s \in LabShards : ToggleShard(s)
    \/ HandleReconstruct
    \/ Reconstructed
    \/ ResetLab
    \/ \E m \in {"erasure", "replication"} : SetMode(m)

-----------------------------------------------------------------------------
(* What the demonstrations promise. *)

ErasureLabTypeOK ==
    /\ lab \in Labs /\ mode \in {"erasure", "replication"}
    /\ alive \subseteq LabShards
    /\ isReconstructing \in BOOLEAN /\ disturbed \in BOOLEAN
    /\ pending \in 0..MaxPending

\* What is left when two shards are lost, where the code of the nodes decodes it.
Decodes == {d \in {LabShards \ lost : lost \in kSubset(2, LabShards)} : d \in DecodableSets}
Decodable(s) == \E d \in Decodes : d \subseteq s

\* The verdict counts shards.  It is what the code of the nodes decides with
\* its matrix: data is called lost exactly when no four shards that are left
\* give it back.
VerdictIsRight ==
    LabView.verdict # "none" => (LabView.verdict = "lost" <=> ~Decodable(alive))

\* A reconstruction that no click disturbs has one timeout of its own, shows
\* itself until that fires, and draws its beams from shards that suffice.
UndisturbedRepairIsSound ==
    ~disturbed =>
      /\ pending = IF isReconstructing THEN 1 ELSE 0
      /\ isReconstructing => Decodable(LabView.beams)

\* What the demonstrations say of the shards is right.
ErasureLabIsSound == VerdictIsRight /\ UndisturbedRepairIsSound

\* The button says "Solving" and is disabled while a reconstruction runs: it
\* does not stay so, whatever is clicked meanwhile.
ReconstructionEnds == isReconstructing ~> ~isReconstructing
=============================================================================
