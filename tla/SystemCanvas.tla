---------------------------- MODULE SystemCanvas ----------------------------
(***************************************************************************)
(* The picture of the whole system (MasterSystemCanvas): an upload in five *)
(* steps that play by themselves, with a row of step buttons and playback  *)
(* controls.  An effect arms a timeout for the next step; it runs again,   *)
(* and clears the old timeout, whenever the play flag, the step or the     *)
(* speed changes.                                                          *)
(***************************************************************************)
EXTENDS Integers, FiniteSets

VARIABLES
    step,
    isPlaying,
    speed,          \* in halves
    selectedChunk,
    inspectedNode,  \* a node, or 0
    effectDue,      \* a step was rendered and the effect has yet to run
    armed,          \* a timeout is pending
    timerId         \* which: the effect arms another one each time

canvasVars == <<step, isPlaying, speed, selectedChunk, inspectedNode,
                effectDue, armed, timerId>>

CanvasSteps == 1..5
CanvasSpeeds == 1..4
CanvasNodes == 1..5

\* The four chunks: their place on the ring in degrees, and where they go.
ChunksData ==
    [a |-> [angle |-> 54,  primary |-> 2, replicas |-> {3, 4}],
     b |-> [angle |-> 195, primary |-> 4, replicas |-> {5, 1}],
     c |-> [angle |-> 330, primary |-> 1, replicas |-> {2, 3}],
     d |-> [angle |-> 120, primary |-> 3, replicas |-> {1, 5}]]

\* Where the nodes are drawn, as degrees clockwise from the top of the ring.
NodeCoords == <<0, 58, 134, 226, 302>>

CanvasInit ==
    /\ step = 3 /\ isPlaying = TRUE /\ speed = 2
    /\ selectedChunk = "d" /\ inspectedNode = 0
    /\ effectDue = TRUE /\ armed = FALSE /\ timerId = 0

MountCanvas ==
    /\ step' = 3 /\ isPlaying' = TRUE /\ speed' = 2
    /\ selectedChunk' = "d" /\ inspectedNode' = 0
    /\ effectDue' = TRUE /\ armed' = FALSE /\ timerId' = 0

-----------------------------------------------------------------------------
(* What is shown at a step. *)

Chunk == ChunksData[selectedChunk]

\* Variant: the primary is drawn at step 3 only.
FlowTargetsAtStep ==
    {n \in CanvasNodes : \/ step = 3 /\ n = Chunk.primary
                         \/ step >= 4 /\ n \in Chunk.replicas}

\* The nodes that lines and packets lead to.
FlowTargets ==
    {n \in CanvasNodes : \/ step >= 3 /\ n = Chunk.primary
                         \/ step >= 4 /\ n \in Chunk.replicas}

\* The nodes with a check mark.
AckedNodes == IF step = 5 THEN FlowTargets ELSE {}

\* The nodes from which the two acknowledgements are drawn to the hub.
ReturnAcks == IF step = 5 THEN {3, 1} ELSE {}

\* The banner that says "QUORUM COMMITTED (W=2/2 ACKs)".
QuorumBanner == step = 5

-----------------------------------------------------------------------------
(* The effect and the handlers. *)

\* Variant: the effect arms a timeout also when paused.
RearmAlways ==
    /\ effectDue' = FALSE
    /\ armed' = TRUE
    /\ timerId' = 1 - timerId

\* The effect after a change: the old timeout is cleared and, while playing,
\* a new one armed.  After a click it runs with the update itself.
Rearm ==
    /\ effectDue' = FALSE
    /\ armed' = isPlaying'
    /\ timerId' = 1 - timerId

\* A state that is set to what it was renders nothing and runs no effect.
RearmIfChanged ==
    IF <<step, isPlaying, speed>>' # <<step, isPlaying, speed>> THEN Rearm
    ELSE UNCHANGED <<effectDue, armed, timerId>>

RunEffect ==
    /\ effectDue
    /\ UNCHANGED <<step, isPlaying, speed, selectedChunk, inspectedNode>>
    /\ Rearm

\* Variant: the last step is kept.
NextStepStays == IF step >= 5 THEN 5 ELSE step + 1

NextStep == IF step >= 5 THEN 1 ELSE step + 1

\* The timeout: its effect runs after the render, not with it.
AutoStep(id) ==
    /\ armed /\ timerId = id
    /\ step' = NextStep
    /\ armed' = FALSE /\ effectDue' = TRUE
    /\ UNCHANGED <<isPlaying, speed, selectedChunk, inspectedNode, timerId>>

SetStep(s) ==
    /\ step' = s
    /\ UNCHANGED <<isPlaying, speed, selectedChunk, inspectedNode>>
    /\ RearmIfChanged

StepForward == SetStep(NextStep)

TogglePlay ==
    /\ isPlaying' = ~isPlaying
    /\ UNCHANGED <<step, speed, selectedChunk, inspectedNode>>
    /\ RearmIfChanged

ResetCanvas ==
    /\ isPlaying' = FALSE /\ step' = 1
    /\ UNCHANGED <<speed, selectedChunk, inspectedNode>>
    /\ RearmIfChanged

SetSpeed(v) ==
    /\ speed' = v
    /\ UNCHANGED <<step, isPlaying, selectedChunk, inspectedNode>>
    /\ RearmIfChanged

SelectChunk(c) ==
    /\ selectedChunk' = c
    /\ UNCHANGED <<step, isPlaying, speed, inspectedNode, effectDue, armed, timerId>>

InspectNode(n) ==
    /\ inspectedNode' = IF n = inspectedNode THEN 0 ELSE n
    /\ UNCHANGED <<step, isPlaying, speed, selectedChunk, effectDue, armed, timerId>>

PlaysByItself == RunEffect \/ \E id \in {0, 1} : AutoStep(id)

CanvasClick ==
    \/ \E s \in CanvasSteps : SetStep(s)
    \/ StepForward
    \/ TogglePlay
    \/ ResetCanvas
    \/ \E v \in CanvasSpeeds : SetSpeed(v)
    \/ \E c \in DOMAIN ChunksData : SelectChunk(c)
    \/ \E n \in CanvasNodes : InspectNode(n)

CanvasNext == PlaysByItself \/ CanvasClick

-----------------------------------------------------------------------------
CanvasTypeOK ==
    /\ step \in CanvasSteps /\ isPlaying \in BOOLEAN /\ speed \in CanvasSpeeds
    /\ selectedChunk \in DOMAIN ChunksData /\ inspectedNode \in 0..5
    /\ effectDue \in BOOLEAN /\ armed \in BOOLEAN /\ timerId \in {0, 1}

\* Nothing is left armed when the canvas is paused or reset, whatever was
\* clicked between a step and its effect, and while it plays a timeout is
\* armed or about to be: it neither runs on nor gets stuck.
TimerFollowsPlay ==
    /\ armed => isPlaying
    /\ isPlaying => armed \/ effectDue

\* The first node clockwise from an angle.
Successor(angle) ==
    LET way(n) == (NodeCoords[n] - angle + 360) % 360
    IN CHOOSE n \in CanvasNodes : \A m \in CanvasNodes : way(n) <= way(m)

\* While one chunk stays selected, the nodes it is drawn to only grow until
\* the steps begin again; with the banner three nodes carry a check mark, the
\* ring successor of the chunk among them.
PlacementGrows ==
    [][ /\ step' > step /\ selectedChunk' = selectedChunk
            => FlowTargets \subseteq FlowTargets'
        /\ QuorumBanner' => /\ Cardinality(AckedNodes') = 3
                            /\ Successor(Chunk.angle)' \in AckedNodes' ]_canvasVars
=============================================================================
