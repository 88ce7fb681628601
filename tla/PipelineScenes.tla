--------------------------- MODULE PipelineScenes ---------------------------
(***************************************************************************)
(* The page that walks through the write pipeline (Pipeline3DScroll): six  *)
(* stages, each an animated scene that runs in a cycle, with buttons to    *)
(* step through them.                                                      *)
(*                                                                         *)
(* A scene is drawn frame by frame.  A frame computes the time in its      *)
(* cycle from a clock that all scenes share, so a scene may start in the   *)
(* middle of its cycle and frames may be far apart (a slow machine, a tab  *)
(* in the background): a frame comes at any time of the cycle.  Objects    *)
(* are moved by the frame itself; the caption is React state, which the    *)
(* frame only asks to set and which is rendered afterwards.                *)
(***************************************************************************)
EXTENDS Integers, FiniteSets

VARIABLES
    activeStage,    \* activeStageId
    showCode,
    reducedMotion,  \* prefersReducedMotion: no scene is drawn
    frameTime,      \* the time in its cycle at which the scene was last drawn
    dupAway,        \* stage 3: how far the duplicate is from the stored chunk
    caption,        \* isDeduplicated / quorumMet / isSealed, as rendered
    captionNext     \* the value last asked for

pipelineVars ==
    <<activeStage, showCode, reducedMotion, frameTime, dupAway, caption, captionNext>>

PipelineStages == 1..6
NotDrawn == -1

\* Times and distances are in fifths, which all the scenes change at.  A cycle
\* has 3.0, in stage 4 2.5, of which a frame sees the fifths below 2.5.
CycleLength(s) == IF s = 4 THEN 13 ELSE 15

Lesser(a, b) == IF a <= b THEN a ELSE b
Greater(a, b) == IF a >= b THEN a ELSE b

-----------------------------------------------------------------------------
(* The scenes at time t of their cycle: how far each movement has come, of   *)
(* its full length, and whether the caption says that the stage is done.     *)

\* Wheel and bolts open during the first second; the stream is seen from 0.8.
S3Ingestion(t) ==
    [unlocked |-> <<Lesser(t, 5), 5>>, streaming |-> t > 4, done |-> FALSE]

\* The laser passes, then the shards drift apart.
FastCDCChunking(t) ==
    [laser |-> t < 5, drift |-> <<Greater(0, t - 5), 10>>, done |-> FALSE]

\* The duplicate moves to the chunk it matches, then shrinks away; its scale
\* is 1 - 1.5 * (t - 1.2) / 1.8, and never below 0.
CASDedup(t) ==
    [travelled |-> <<Lesser(t, 6), 6>>,
     scale     |-> <<Greater(0, 6 - Greater(0, t - 6)), 6>>,
     done      |-> t >= 6]

\* The packet leaves for the primary at 0.4; its way is not cut off at the end.
HashRingRouting(t) ==
    [packet |-> <<Greater(0, t - 2), 8>>, done |-> FALSE]

\* Two acknowledgements come in, the third replica is still under way.
QuorumReplication(t) ==
    [ack1  |-> <<Lesser(4, Greater(0, t - 3)), 4>>,
     ack2  |-> <<Lesser(4, Greater(0, t - 4)), 4>>,
     trail |-> <<t, 15>>,
     done  |-> t >= 8]

\* The stamp comes down on the journal and stays there.
WALSeal(t) ==
    [stamp |-> <<Lesser(t, 6), 6>>, done |-> t >= 6]

Scene(s, t) == CASE s = 1 -> S3Ingestion(t)
                 [] s = 2 -> FastCDCChunking(t)
                 [] s = 3 -> CASDedup(t)
                 [] s = 4 -> HashRingRouting(t)
                 [] s = 5 -> QuorumReplication(t)
                 [] s = 6 -> WALSeal(t)

Arrived(way) == way[1] >= way[2]

\* The caption that frame t asks for; stages 1, 2 and 4 have a fixed one.
AsksFor(s, t) == Scene(s, t).done

-----------------------------------------------------------------------------
PipelineInit ==
    /\ activeStage = 1 /\ showCode = TRUE /\ reducedMotion \in BOOLEAN
    /\ frameTime = NotDrawn /\ dupAway = 6
    /\ caption = FALSE /\ captionNext = FALSE

MountPipeline ==
    /\ activeStage' = 1 /\ showCode' = TRUE /\ reducedMotion' \in BOOLEAN
    /\ frameTime' = NotDrawn /\ dupAway' = 6
    /\ caption' = FALSE /\ captionNext' = FALSE

\* Variant: the scenes share the caption.
FreshSceneKeepsCaption ==
    /\ frameTime' = NotDrawn /\ dupAway' = 6
    /\ UNCHANGED <<caption, captionNext>>

\* The scene of another stage is mounted, with its objects and caption in
\* their initial state.  A caption that was asked for and not rendered is lost.
FreshScene ==
    /\ frameTime' = NotDrawn /\ dupAway' = 6
    /\ caption' = FALSE /\ captionNext' = FALSE

StageScene(s) ==
    /\ activeStage' = s
    /\ IF s = activeStage
       THEN UNCHANGED <<frameTime, dupAway, caption, captionNext>>
       ELSE FreshScene
    /\ UNCHANGED <<showCode, reducedMotion>>

\* A tab, and the two buttons, which are disabled at the ends.
SelectStage == \E s \in PipelineStages : StageScene(s)
PreviousStage == activeStage # 1 /\ StageScene(Greater(1, activeStage - 1))
NextStage == activeStage # 6 /\ StageScene(Lesser(6, activeStage + 1))

ToggleCode ==
    /\ showCode' = ~showCode
    /\ UNCHANGED <<activeStage, reducedMotion, frameTime, dupAway, caption, captionNext>>

\* The listener of the media query: the canvas goes, or is mounted anew.
MotionPreferenceChanges ==
    /\ reducedMotion' = ~reducedMotion
    /\ FreshScene
    /\ UNCHANGED <<activeStage, showCode>>

\* A frame at any time of the cycle.  Only stage 3 leaves an object where the
\* frame before put it: from 1.2 on the duplicate is scaled but not moved.
DrawFrame ==
    /\ ~reducedMotion
    /\ \E t \in 0..(CycleLength(activeStage) - 1) :
         /\ frameTime' = t
         /\ dupAway' = IF activeStage = 3 /\ t < 6 THEN 6 - t ELSE dupAway
         /\ captionNext' = AsksFor(activeStage, t)
    /\ UNCHANGED <<activeStage, showCode, reducedMotion, caption>>

\* React renders the caption.
RenderCaption ==
    /\ caption # captionNext
    /\ caption' = captionNext
    /\ UNCHANGED <<activeStage, showCode, reducedMotion, frameTime, dupAway, captionNext>>

PipelineNext ==
    \/ SelectStage
    \/ PreviousStage
    \/ NextStage
    \/ ToggleCode
    \/ MotionPreferenceChanges
    \/ DrawFrame
    \/ RenderCaption

-----------------------------------------------------------------------------
PipelineTypeOK ==
    /\ activeStage \in PipelineStages
    /\ showCode \in BOOLEAN /\ reducedMotion \in BOOLEAN
    /\ frameTime \in NotDrawn..14 /\ dupAway \in 1..6
    /\ caption \in BOOLEAN /\ captionNext \in BOOLEAN

Drawn == frameTime # NotDrawn
Shown == Scene(activeStage, frameTime)

\* Once rendered, the caption tells what the scene shows, whatever frames and
\* stage changes came before: the quorum is met when both acknowledgements are
\* in and the third replica is not, the journal is sealed when the stamp is
\* down, and the chunk is deduplicated when the duplicate begins to vanish.
CaptionTellsScene ==
    caption = captionNext =>
      /\ caption => Drawn
      /\ Drawn => /\ activeStage = 3 /\ ~caption => Shown.scale[1] = 6
                  /\ activeStage = 5 => (caption <=> Arrived(Shown.ack1) /\ Arrived(Shown.ack2))
                  /\ activeStage = 5 /\ caption => ~Arrived(Shown.trail)
                  /\ activeStage = 6 => (caption <=> Arrived(Shown.stamp))

\* A caption that was asked for is rendered or taken back.
CaptionIsRendered == caption # captionNext ~> caption = captionNext
=============================================================================
