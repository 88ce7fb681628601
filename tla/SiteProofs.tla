------------------------------ MODULE SiteProofs ------------------------------
(***************************************************************************)
(* Theorems about the documentation site, for any number of failures and   *)
(* of labels that overlap.                                                 *)
(*                                                                         *)
(* A step of the site is, for each of its parts, a step of that part, its  *)
(* mounting, or nothing (the lemma PartsStep).  So what is proved of a     *)
(* part by itself holds of the site, wherever visitors go and whatever     *)
(* runs at the same time.                                                  *)
(***************************************************************************)
EXTENDS Site, FiniteSetTheorems, TLAPS

FailureStep == FailureNext \/ \E d \in Demos : MountDemo(d)
PipelineStep == PipelineNext \/ MountPipeline
CanvasStep == CanvasNext \/ MountCanvas
RingStep == RingNext \/ \E v \in {"vault", "ring"} : MountRing(v)
LabStep == ErasureLabNext \/ \E l \in Labs : MountLab(l)
LockStep == LockClick \/ DialRuns \/ TakeDown \/ \E shown \in BOOLEAN : MountLock(shown)
LabelStep == \/ \E b \in CopyButtons : ClickCopy(b) \/ LabelTimeout(b)
             \/ \E bs \in SUBSET CopyButtons : DropLabels(bs)

\* A page mounts a demonstration that there is.
LEMMA DemoOnPage == ASSUME NEW p PROVE DemoOn(p) \in Demos
BY DEF DemoOn, Demos

LEMMA PartsStep ==
  ASSUME [SiteNext]_siteVars
  PROVE  /\ [FailureStep]_failureVars
         /\ [PipelineStep]_pipelineVars
         /\ [CanvasStep]_canvasVars
         /\ [LockStep]_lockVars
         /\ [LabelStep]_labelVars
<1> DEFINE Parts == /\ [FailureStep]_failureVars
                    /\ [PipelineStep]_pipelineVars
                    /\ [CanvasStep]_canvasVars
                    /\ [LockStep]_lockVars
                    /\ [LabelStep]_labelVars
<1>1. ASSUME NEW p \in Pages, Navigate(p) PROVE Parts
  <2>1. \E d \in Demos : MountDemo(d)
    BY <1>1, DemoOnPage DEF Navigate, MountDemonstrations
  <2>2. MountPipeline /\ MountCanvas /\ DropLabels(CopyButtons)
    BY <1>1 DEF Navigate
  <2>3. \E shown \in BOOLEAN : MountLock(shown)
    BY <1>1 DEF Navigate
  <2> QED BY <2>1, <2>2, <2>3 DEF FailureStep, PipelineStep, CanvasStep, LockStep, LabelStep
<1>2. CASE LockRuns
  <2>1. LockStep
    BY <1>2 DEF LockRuns, LockStep
  <2>2. UNCHANGED <<failureVars, pipelineVars, canvasVars, labelVars>>
    BY <1>2 DEF LockRuns, NotLock
  <2> QED BY <2>1, <2>2
<1>3. CASE SwitchTab
  <2>1. UNCHANGED <<failureVars, pipelineVars, canvasVars, lockVars, labelVars>>
    BY <1>3 DEF SwitchTab
  <2> QED BY <2>1
<1>4. CASE SwitchDemonstration
  <2>1. \E d \in Demos : MountDemo(d)
    BY <1>4, DemoOnPage DEF SwitchDemonstration, MountDemonstrations
  <2>2. UNCHANGED <<pipelineVars, canvasVars, lockVars, labelVars>>
    BY <1>4 DEF SwitchDemonstration
  <2> QED BY <2>1, <2>2 DEF FailureStep
<1>5. CASE FailureRuns
  <2>1. FailureStep
    BY <1>5 DEF FailureRuns, FailureStep
  <2>2. UNCHANGED <<pipelineVars, canvasVars, lockVars, labelVars>>
    BY <1>5 DEF FailureRuns, NotFailure
  <2> QED BY <2>1, <2>2
<1>6. CASE ErasureRuns
  <2>1. UNCHANGED <<failureVars, pipelineVars, canvasVars, lockVars, labelVars>>
    BY <1>6 DEF ErasureRuns, NotErasure
  <2> QED BY <2>1
<1>7. CASE RingRuns
  <2>1. UNCHANGED <<failureVars, pipelineVars, canvasVars, lockVars, labelVars>>
    BY <1>7 DEF RingRuns, NotRing
  <2> QED BY <2>1
<1>8. CASE LabsRun
  <2>1. UNCHANGED <<failureVars, pipelineVars, canvasVars, lockVars>>
    BY <1>8 DEF LabsRun, NotLabs
  <2>2. DropLabels({"sdk"}) \/ UNCHANGED labelVars
    BY <1>8 DEF LabsRun
  <2>3. {"sdk"} \in SUBSET CopyButtons
    BY DEF CopyButtons, CopyBlocks
  <2> QED BY <2>1, <2>2, <2>3 DEF LabelStep
<1>9. CASE CanvasRuns
  <2>1. CanvasStep
    BY <1>9 DEF CanvasRuns, CanvasStep
  <2>2. UNCHANGED <<failureVars, pipelineVars, lockVars, labelVars>>
    BY <1>9 DEF CanvasRuns, NotCanvas
  <2> QED BY <2>1, <2>2
<1>10. CASE PipelineRuns
  <2>1. PipelineStep
    BY <1>10 DEF PipelineRuns, PipelineStep
  <2>2. UNCHANGED <<failureVars, canvasVars, lockVars>>
    BY <1>10 DEF PipelineRuns, NotPipeline
  <2>3. DropLabels({"code"}) \/ UNCHANGED labelVars
    BY <1>10 DEF PipelineRuns
  <2>4. {"code"} \in SUBSET CopyButtons
    BY DEF CopyButtons, CopyBlocks
  <2> QED BY <2>1, <2>2, <2>3, <2>4 DEF LabelStep
<1>11. CASE LabelsRun
  <2>1. UNCHANGED <<failureVars, pipelineVars, canvasVars, lockVars>>
    BY <1>11 DEF LabelsRun, NotLabels
  <2>2. \E b \in CopyButtons : ClickCopy(b) \/ LabelTimeout(b)
    BY <1>11 DEF LabelsRun, HandleCopy, HandleCopyOneLiner, CopyInstall, CopyBenchCmd,
                 CopyButtons, CopyBlocks
  <2> QED BY <2>1, <2>2 DEF LabelStep
<1>12. CASE UNCHANGED siteVars
  <2>1. UNCHANGED <<failureVars, pipelineVars, canvasVars, lockVars, labelVars>>
    BY <1>12 DEF siteVars
  <2> QED BY <2>1
<1> QED
  BY <1>1, <1>2, <1>3, <1>4, <1>5, <1>6, <1>7, <1>8, <1>9, <1>10, <1>11, <1>12 DEF SiteNext

-----------------------------------------------------------------------------
(* The system canvas. *)

CanvasInv == isPlaying \in BOOLEAN /\ armed \in BOOLEAN /\ effectDue \in BOOLEAN /\ TimerFollowsPlay

LEMMA CanvasKept == CanvasInv /\ [CanvasStep]_canvasVars => CanvasInv'
<1> SUFFICES ASSUME CanvasInv, [CanvasStep]_canvasVars PROVE CanvasInv'
  OBVIOUS
<1> USE DEF CanvasInv, TimerFollowsPlay
<1>1. CASE UNCHANGED canvasVars
  BY <1>1 DEF canvasVars
<1>2. CASE MountCanvas
  BY <1>2 DEF MountCanvas
<1>3. CASE RunEffect
  BY <1>3 DEF RunEffect, Rearm
<1>4. ASSUME NEW id \in {0, 1}, AutoStep(id) PROVE CanvasInv'
  BY <1>4 DEF AutoStep
<1>5. ASSUME isPlaying' \in BOOLEAN, RearmIfChanged PROVE CanvasInv'
  <2>1. CASE Rearm
    BY <1>5, <2>1 DEF Rearm
  <2>2. CASE isPlaying' = isPlaying /\ UNCHANGED <<effectDue, armed, timerId>>
    BY <2>2
  <2> QED BY <1>5, <2>1, <2>2 DEF RearmIfChanged
<1>6. ASSUME NEW s, SetStep(s) PROVE CanvasInv'
  BY <1>5, <1>6 DEF SetStep
<1>7. CASE TogglePlay \/ ResetCanvas
  BY <1>5, <1>7 DEF TogglePlay, ResetCanvas
<1>8. ASSUME NEW v, SetSpeed(v) PROVE CanvasInv'
  BY <1>5, <1>8 DEF SetSpeed
<1>9. ASSUME NEW c, SelectChunk(c) PROVE CanvasInv'
  BY <1>9 DEF SelectChunk
<1>10. ASSUME NEW n, InspectNode(n) PROVE CanvasInv'
  BY <1>10 DEF InspectNode
<1> QED
  BY <1>1, <1>2, <1>3, <1>4, <1>6, <1>7, <1>8, <1>9, <1>10
     DEF CanvasStep, CanvasNext, PlaysByItself, CanvasClick, StepForward

\* While the system canvas plays a timeout is armed or about to be, and none is
\* when it is paused, whatever is clicked between a step and its effect
\* (MasterSystemCanvas.tsx:84-93).
THEOREM CanvasTimerFollows == SiteSpec => []TimerFollowsPlay
<1>1. SiteInit => CanvasInv
  BY DEF SiteInit, CanvasInit, CanvasInv, TimerFollowsPlay
<1>2. CanvasInv /\ [SiteNext]_siteVars => CanvasInv'
  BY CanvasKept, PartsStep
<1>3. CanvasInv => TimerFollowsPlay
  BY DEF CanvasInv
<1> QED BY <1>1, <1>2, <1>3, PTL DEF SiteSpec

-----------------------------------------------------------------------------
(* The vault dial. *)

LockInv ==
  /\ hovered => dialShown
  /\ hoverEffect => dialShown
  /\ CursorIsAccountedFor

LEMMA LockKept == LockInv /\ [LockStep]_lockVars => LockInv'
<1> SUFFICES ASSUME LockInv, [LockStep]_lockVars PROVE LockInv'
  OBVIOUS
<1> USE DEF LockInv, CursorIsAccountedFor
<1>1. CASE UNCHANGED lockVars
  BY <1>1 DEF lockVars
<1>2. ASSUME NEW shown \in BOOLEAN, MountLock(shown) PROVE LockInv'
  BY <1>2 DEF MountLock, FreshDial
<1>3. CASE LockMotionChanges
  BY <1>3 DEF LockMotionChanges, FreshDial
<1>4. CASE TakeDown
  BY <1>4 DEF TakeDown
<1>5. ASSUME NEW v, SetLocked(v) PROVE LockInv'
  BY <1>5 DEF SetLocked
<1>6. ASSUME NEW over \in BOOLEAN, Hover(over) PROVE LockInv'
  BY <1>6 DEF Hover
<1>7. CASE RunHoverEffect
  <2>1. bodyCursor' = "pointer" => hovered
    BY <1>7 DEF RunHoverEffect, DialView
  <2> QED BY <1>7, <2>1 DEF RunHoverEffect
<1>8. CASE RunLockEffect \/ LockFrame
  BY <1>8 DEF RunLockEffect, LockFrame
<1> QED
  BY <1>1, <1>2, <1>3, <1>4, <1>5, <1>6, <1>7, <1>8
     DEF LockStep, LockClick, DialRuns, HandleDialClick, ClickLockButton

\* The document has the pointer cursor only while the dial asks for it, or
\* something is under way that takes it back, on whichever page
\* (FullBleedVaultLock3D.tsx:78-84).
THEOREM CursorIsGivenUp == SiteSpec => []CursorIsAccountedFor
<1>1. SiteInit => LockInv
  BY DEF SiteInit, LockInit, LockInv, CursorIsAccountedFor
<1>2. LockInv /\ [SiteNext]_siteVars => LockInv'
  BY LockKept, PartsStep
<1>3. LockInv => CursorIsAccountedFor
  BY DEF LockInv
<1> QED BY <1>1, <1>2, <1>3, PTL DEF SiteSpec

-----------------------------------------------------------------------------
(* The copy buttons. *)

LabelInv ==
  /\ copied \subseteq CopyButtons
  /\ labelTimers \in [CopyButtons -> Nat]
  /\ LabelIsTimed

LEMMA LabelKept == LabelInv /\ [LabelStep]_labelVars => LabelInv'
<1> SUFFICES ASSUME LabelInv, [LabelStep]_labelVars PROVE LabelInv'
  OBVIOUS
<1> USE DEF LabelInv, LabelIsTimed
<1>1. CASE UNCHANGED labelVars
  BY <1>1 DEF labelVars
<1>2. ASSUME NEW b \in CopyButtons, ClickCopy(b) PROVE LabelInv'
  BY <1>2 DEF ClickCopy
<1>3. ASSUME NEW b \in CopyButtons, LabelTimeout(b) PROVE LabelInv'
  BY <1>3 DEF LabelTimeout
<1>4. ASSUME NEW bs \in SUBSET CopyButtons, DropLabels(bs) PROVE LabelInv'
  BY <1>4 DEF DropLabels
<1> QED BY <1>1, <1>2, <1>3, <1>4 DEF LabelStep

\* However many timeouts of copy buttons overlap, a label that is shown has one
\* that takes it away (CodeBlock.tsx:142-146).
THEOREM LabelsGo == SiteSpec => []LabelIsTimed
<1>1. SiteInit => LabelInv
  BY DEF SiteInit, LabelInit, LabelInv, LabelIsTimed
<1>2. LabelInv /\ [SiteNext]_siteVars => LabelInv'
  BY LabelKept, PartsStep
<1>3. LabelInv => LabelIsTimed
  BY DEF LabelInv
<1> QED BY <1>1, <1>2, <1>3, PTL DEF SiteSpec
-----------------------------------------------------------------------------
(* The pipeline page. *)

PipelineInv ==
  /\ activeStage \in PipelineStages
  /\ frameTime \in {NotDrawn} \cup Nat
  /\ caption \in BOOLEAN /\ captionNext \in BOOLEAN
  /\ captionNext <=> (Drawn /\ AsksFor(activeStage, frameTime))
  /\ frameTime < CycleLength(activeStage)

\* Whether a caption is asked for is a truth value.
LEMMA AsksType ==
  ASSUME NEW s \in PipelineStages, NEW t \in Nat
  PROVE  /\ AsksFor(s, t) \in BOOLEAN
         /\ s = 3 => (AsksFor(s, t) <=> t >= 6)
         /\ s = 5 => (AsksFor(s, t) <=> t >= 8)
         /\ s = 6 => (AsksFor(s, t) <=> t >= 6)
<1>1. CASE s = 1
  <2>1. Scene(1, t) = S3Ingestion(t)
    BY DEF Scene
  <2>2. S3Ingestion(t).done = FALSE
    BY DEF S3Ingestion
  <2>3. AsksFor(1, t) = FALSE
    BY <2>1, <2>2 DEF AsksFor
  <2>4. AsksFor(1, t) \in BOOLEAN
    BY <2>3, Zenon
  <2> QED BY <1>1, <2>4
<1>2. CASE s = 2
  <2>1. Scene(2, t) = FastCDCChunking(t)
    BY DEF Scene
  <2>2. FastCDCChunking(t).done = FALSE
    BY DEF FastCDCChunking
  <2>3. AsksFor(2, t) = FALSE
    BY <2>1, <2>2 DEF AsksFor
  <2>4. AsksFor(2, t) \in BOOLEAN
    BY <2>3, Zenon
  <2> QED BY <1>2, <2>4
<1>3. CASE s = 3
  <2>1. Scene(3, t) = CASDedup(t)
    BY DEF Scene
  <2>2. CASDedup(t).done = (t >= 6)
    BY DEF CASDedup
  <2>3. AsksFor(3, t) = (t >= 6)
    BY <2>1, <2>2 DEF AsksFor
  <2>4. (t >= 6) \in BOOLEAN
    OBVIOUS
  <2>5. AsksFor(3, t) \in BOOLEAN
    BY <2>3, <2>4, Zenon
  <2>6. AsksFor(3, t) <=> t >= 6
    BY <2>3
  <2> QED BY <1>3, <2>5, <2>6
<1>4. CASE s = 4
  <2>1. Scene(4, t) = HashRingRouting(t)
    BY DEF Scene
  <2>2. HashRingRouting(t).done = FALSE
    BY DEF HashRingRouting
  <2>3. AsksFor(4, t) = FALSE
    BY <2>1, <2>2 DEF AsksFor
  <2>4. AsksFor(4, t) \in BOOLEAN
    BY <2>3, Zenon
  <2> QED BY <1>4, <2>4
<1>5. CASE s = 5
  <2>1. Scene(5, t) = QuorumReplication(t)
    BY DEF Scene
  <2>2. QuorumReplication(t).done = (t >= 8)
    BY DEF QuorumReplication
  <2>3. AsksFor(5, t) = (t >= 8)
    BY <2>1, <2>2 DEF AsksFor
  <2>4. (t >= 8) \in BOOLEAN
    OBVIOUS
  <2>5. AsksFor(5, t) \in BOOLEAN
    BY <2>3, <2>4, Zenon
  <2>6. AsksFor(5, t) <=> t >= 8
    BY <2>3
  <2> QED BY <1>5, <2>5, <2>6
<1>6. CASE s = 6
  <2>1. Scene(6, t) = WALSeal(t)
    BY DEF Scene
  <2>2. WALSeal(t).done = (t >= 6)
    BY DEF WALSeal
  <2>3. AsksFor(6, t) = (t >= 6)
    BY <2>1, <2>2 DEF AsksFor
  <2>4. (t >= 6) \in BOOLEAN
    OBVIOUS
  <2>5. AsksFor(6, t) \in BOOLEAN
    BY <2>3, <2>4, Zenon
  <2>6. AsksFor(6, t) <=> t >= 6
    BY <2>3
  <2> QED BY <1>6, <2>5, <2>6
<1> QED BY <1>1, <1>2, <1>3, <1>4, <1>5, <1>6 DEF PipelineStages

LEMMA FreshKept ==
  ASSUME FreshScene, activeStage' \in PipelineStages
  PROVE  PipelineInv'
<1>1. frameTime' = NotDrawn /\ caption' = FALSE /\ captionNext' = FALSE
  BY DEF FreshScene
<1>2. ~captionNext' /\ ~Drawn'
  BY <1>1 DEF Drawn
<1>3. caption' \in BOOLEAN /\ captionNext' \in BOOLEAN
  BY <1>1, Zenon
<1>4. frameTime' \in {NotDrawn} \cup Nat /\ frameTime' < CycleLength(activeStage')
  BY <1>1 DEF NotDrawn, CycleLength
<1> QED BY <1>2, <1>3, <1>4 DEF PipelineInv

LEMMA PipelineKept == PipelineInv /\ [PipelineStep]_pipelineVars => PipelineInv'
<1> SUFFICES ASSUME PipelineInv, [PipelineStep]_pipelineVars PROVE PipelineInv'
  OBVIOUS
<1>1. CASE UNCHANGED pipelineVars
  BY <1>1 DEF pipelineVars, PipelineInv, Drawn
<1>2. CASE MountPipeline
  <2>1. FreshScene /\ activeStage' \in PipelineStages
    BY <1>2 DEF MountPipeline, FreshScene, PipelineStages
  <2> QED BY <2>1, FreshKept
<1>3. ASSUME NEW s \in PipelineStages, StageScene(s) PROVE PipelineInv'
  <2>1. CASE s = activeStage
    BY <1>3, <2>1 DEF StageScene, PipelineInv, Drawn
  <2>2. CASE s # activeStage
    BY <1>3, <2>2, FreshKept DEF StageScene
  <2> QED BY <2>1, <2>2
<1>4. CASE ToggleCode
  BY <1>4 DEF ToggleCode, PipelineInv, Drawn
<1>5. CASE MotionPreferenceChanges
  BY <1>5, FreshKept DEF MotionPreferenceChanges, PipelineInv
<1>6. CASE DrawFrame
  <2>1. PICK t \in 0..(CycleLength(activeStage) - 1) :
          frameTime' = t /\ captionNext' = AsksFor(activeStage, t)
    BY <1>6 DEF DrawFrame
  <2>2. t \in Nat /\ t < CycleLength(activeStage) /\ Drawn'
    BY <2>1 DEF CycleLength, Drawn, NotDrawn
  <2>3. UNCHANGED <<activeStage, caption>>
    BY <1>6 DEF DrawFrame
  <2>4. AsksFor(activeStage, t) \in BOOLEAN
    BY <2>2, AsksType DEF PipelineInv
  <2>5. AsksFor(activeStage, frameTime)' = AsksFor(activeStage, t)
    BY <2>1, <2>3
  <2> QED BY <2>1, <2>2, <2>3, <2>4, <2>5 DEF PipelineInv
<1>7. CASE RenderCaption
  <2>1. captionNext \in BOOLEAN
    BY AsksType DEF PipelineInv, Drawn
  <2> QED BY <1>7, <2>1 DEF RenderCaption, PipelineInv, Drawn
<1>8. CASE SelectStage \/ PreviousStage \/ NextStage
  <2>1. ASSUME activeStage # 1, activeStage \in PipelineStages
        PROVE  Greater(1, activeStage - 1) \in PipelineStages
    BY <2>1 DEF Greater, PipelineStages
  <2>2. ASSUME activeStage # 6, activeStage \in PipelineStages
        PROVE  Lesser(6, activeStage + 1) \in PipelineStages
    BY <2>2 DEF Lesser, PipelineStages
  <2>3. activeStage \in PipelineStages
    BY DEF PipelineInv
  <2> QED BY <1>3, <1>8, <2>1, <2>2, <2>3 DEF SelectStage, PreviousStage, NextStage
<1> QED
  BY <1>1, <1>2, <1>4, <1>5, <1>6, <1>7, <1>8 DEF PipelineStep, PipelineNext

\* What the caption of each scene claims is what its objects show.
LEMMA CaptionFits ==
  ASSUME PipelineInv, caption = captionNext
  PROVE  CaptionTellsScene
<1> USE DEF PipelineInv
<1>1. caption => Drawn
  OBVIOUS
<1>2. ASSUME Drawn
      PROVE  /\ activeStage = 3 /\ ~caption => Shown.scale[1] = 6
             /\ activeStage = 5 => (caption <=> Arrived(Shown.ack1) /\ Arrived(Shown.ack2))
             /\ activeStage = 5 /\ caption => ~Arrived(Shown.trail)
             /\ activeStage = 6 => (caption <=> Arrived(Shown.stamp))
  <2>1. frameTime \in Nat /\ (caption <=> AsksFor(activeStage, frameTime))
    BY <1>2, AsksType DEF Drawn
  <2>2. CASE activeStage = 3
    <3>1. caption <=> (frameTime >= 6)
      BY <2>1, <2>2, AsksType
    <3>2. Shown.scale = <<Greater(0, 6 - Greater(0, frameTime - 6)), 6>>
      BY <2>2 DEF Shown, Scene, CASDedup
    <3> QED BY <2>1, <2>2, <3>1, <3>2 DEF Greater
  <2>3. CASE activeStage = 5
    <3>1. caption <=> (frameTime >= 8)
      BY <2>1, <2>3, AsksType
    <3>2. /\ Shown.ack1 = <<Lesser(4, Greater(0, frameTime - 3)), 4>>
          /\ Shown.ack2 = <<Lesser(4, Greater(0, frameTime - 4)), 4>>
          /\ Shown.trail = <<frameTime, 15>>
      BY <2>3 DEF Shown, Scene, QuorumReplication
    <3>3. frameTime < 15
      BY <2>3 DEF CycleLength
    <3> QED BY <2>1, <2>3, <3>1, <3>2, <3>3 DEF Greater, Lesser, Arrived
  <2>4. CASE activeStage = 6
    <3>1. caption <=> (frameTime >= 6)
      BY <2>1, <2>4, AsksType
    <3>2. Shown.stamp = <<Lesser(frameTime, 6), 6>>
      BY <2>4 DEF Shown, Scene, WALSeal
    <3> QED BY <2>1, <2>4, <3>1, <3>2 DEF Lesser, Arrived
  <2> QED BY <2>2, <2>3, <2>4
<1> QED BY <1>1, <1>2 DEF CaptionTellsScene

\* A rendered caption tells what the scene beside it shows, whatever frames were
\* skipped and stages changed (Pipeline3DScroll.tsx:450-468, 627-659, 730-745).
THEOREM CaptionsFit == SiteSpec => []CaptionTellsScene
<1>1. SiteInit => PipelineInv
  <2> SUFFICES ASSUME PipelineInit PROVE PipelineInv
    BY DEF SiteInit
  <2>1. activeStage = 1 /\ frameTime = NotDrawn /\ caption = FALSE /\ captionNext = FALSE
    BY DEF PipelineInit
  <2>2. ~captionNext /\ ~Drawn
    BY <2>1 DEF Drawn
  <2>3. caption \in BOOLEAN /\ captionNext \in BOOLEAN
    BY <2>1, Zenon
  <2>4. frameTime \in {NotDrawn} \cup Nat /\ frameTime < CycleLength(activeStage)
    BY <2>1 DEF NotDrawn, CycleLength
  <2> QED BY <2>1, <2>2, <2>3, <2>4 DEF PipelineInv, PipelineStages
<1>2. PipelineInv /\ [SiteNext]_siteVars => PipelineInv'
  BY PipelineKept, PartsStep
<1>3. PipelineInv => CaptionTellsScene
  BY CaptionFits DEF CaptionTellsScene
<1> QED BY <1>1, <1>2, <1>3, PTL DEF SiteSpec

-----------------------------------------------------------------------------
(* The failure demonstrations. *)

OnlyDead(v) ==
  /\ \A t \in timers : t.victim = v
  /\ \A n \in DemoNodes \ {v} :
       /\ status[n] \notin {"failed", "timeout"}
       /\ chunks[n] = InitialNodes[n] \/ (n = RepairTarget /\ chunks[n] = {"B", "C", "D"})

\* A run ends with its recovery, which comes last; and while no run plays into
\* another, all that is pending or shown dead belongs to one node.
FailureInv ==
  /\ demo \in Demos
  /\ kills \in 0..MaxKills
  /\ timers \subseteq Timeout
  /\ status \in [DemoNodes -> Statuses] /\ DOMAIN chunks = DemoNodes
  /\ \A t \in timers : t.stage # "recovered" => [t EXCEPT !.stage = "recovered"] \in timers
  /\ phase = "idle" => status = Healthy /\ chunks = InitialNodes
  /\ RestsRecovered
  /\ ~overrun => /\ phase = "idle" => timers = {}
                 /\ phase = "repairing" => status[RepairTarget] = "repairing"
                 /\ \E v \in DemoNodes : OnlyDead(v)

LEMMA RankOfStages ==
  /\ Rank("idle") = 0 /\ Rank("lost") = 1
  /\ Rank("failed") = 2 /\ Rank("repairing") = 3 /\ Rank("recovered") = 4
<1>1. /\ Stages[1] = "lost" /\ Stages[2] = "failed"
      /\ Stages[3] = "repairing" /\ Stages[4] = "recovered"
  BY DEF Stages
<1>2. \A i \in 1..4 : i = 1 \/ i = 2 \/ i = 3 \/ i = 4
  OBVIOUS
<1>3. /\ \A i \in 1..4 : Stages[i] = "lost" <=> i = 1
      /\ \A i \in 1..4 : Stages[i] = "failed" <=> i = 2
      /\ \A i \in 1..4 : Stages[i] = "repairing" <=> i = 3
      /\ \A i \in 1..4 : Stages[i] = "recovered" <=> i = 4
  BY <1>1, <1>2
<1> QED BY <1>3 DEF Rank

\* A node is killed only in the healthy cluster.
LEMMA KillsWhenIdle ==
  ASSUME demo \in Demos, View.kill # {}
  PROVE  phase = "idle"
BY DEF Demos, View, SceneView, CanvasView, SimulatorView, Showing

LEMMA KillKept ==
  ASSUME FailureInv, NEW v \in DemoNodes, KillNode(v),
         status' \in [DemoNodes -> Statuses],
         \A n \in DemoNodes \ {v} : status'[n] = status[n]
  PROVE  FailureInv'
<1>1. phase = "idle" /\ status = Healthy /\ chunks = InitialNodes
  BY KillsWhenIdle DEF FailureInv, KillNode
<1>2. phase' = "lost" /\ kills' = kills + 1 /\ kills' \in 0..MaxKills
  BY MaxKillsAssumption DEF FailureInv, KillNode
<1>3. UNCHANGED <<demo, chunks, overrun>>
  BY DEF KillNode
<1> DEFINE t(i) == [kill |-> kills + 1, victim |-> v, stage |-> Stages[i]]
<1>4. timers' = timers \cup {t(2), t(3), t(4)}
  <2>1. 2..4 = {2, 3, 4}
    OBVIOUS
  <2> QED BY <2>1 DEF KillNode
<1>5. t(2).stage = "failed" /\ t(3).stage = "repairing" /\ t(4).stage = "recovered"
  BY DEF Stages
<1>6. t(2) \in Timeout /\ t(3) \in Timeout /\ t(4) \in Timeout
  BY <1>2, <1>5 DEF Timeout, FailureInv
<1>7. /\ [t(2) EXCEPT !.stage = "recovered"] = t(4)
      /\ [t(3) EXCEPT !.stage = "recovered"] = t(4)
  BY DEF Stages
<1>8. timers' \subseteq Timeout
  BY <1>4, <1>6 DEF FailureInv
<1>9. \A u \in timers' : u.stage # "recovered" => [u EXCEPT !.stage = "recovered"] \in timers'
  <2> SUFFICES ASSUME NEW u \in timers', u.stage # "recovered"
               PROVE  [u EXCEPT !.stage = "recovered"] \in timers'
    OBVIOUS
  <2>1. CASE u \in timers
    BY <1>4, <2>1 DEF FailureInv
  <2>2. CASE u = t(2) \/ u = t(3)
    BY <1>4, <1>7, <2>2
  <2>3. u # t(4)
    BY <1>5
  <2> QED BY <1>4, <2>1, <2>2, <2>3
<1>10. ~overrun => OnlyDead(v)'
  <2> SUFFICES ASSUME ~overrun PROVE OnlyDead(v)'
    OBVIOUS
  <2>1. timers' = {t(2), t(3), t(4)}
    BY <1>1, <1>4 DEF FailureInv
  <2>2. \A u \in timers' : u.victim = v
    BY <2>1
  <2>3. \A n \in DemoNodes \ {v} : status'[n] = "healthy" /\ chunks'[n] = InitialNodes[n]
    BY <1>1, <1>3 DEF Healthy
  <2> QED BY <2>2, <2>3 DEF OnlyDead
<1>11. timers' # {}
  BY <1>4
<1> QED
  BY <1>2, <1>3, <1>8, <1>9, <1>10, <1>11 DEF FailureInv, RestsRecovered

LEMMA FireKept ==
  ASSUME FailureInv, NEW t \in timers, FireTimeout(t)
  PROVE  FailureInv'
<1>1. /\ t \in Timeout /\ t.victim \in DemoNodes
      /\ t.stage \in {"failed", "repairing", "recovered"}
  BY DEF FailureInv, Timeout
<1>2. timers' = timers \ {t} /\ phase' = t.stage /\ UNCHANGED <<demo, kills, overrun>>
  BY DEF FireTimeout
<1>3. \A u \in timers' : u.stage # "recovered" => [u EXCEPT !.stage = "recovered"] \in timers'
  <2> SUFFICES ASSUME NEW u \in timers', u.stage # "recovered",
                      [u EXCEPT !.stage = "recovered"] \notin timers'
               PROVE  FALSE
    OBVIOUS
  <2>1. u \in timers /\ u \in Timeout
    BY <1>2 DEF FailureInv
  <2>2. t = [u EXCEPT !.stage = "recovered"]
    BY <1>2, <2>1 DEF FailureInv
  <2>3. t.kill = u.kill /\ t.stage = "recovered" /\ u.kill \in Int
        /\ u.stage \in {"failed", "repairing"}
    BY <2>1, <2>2, MaxKillsAssumption DEF Timeout
  <2>4. Rank(u.stage) <= Rank(t.stage) /\ u.kill <= t.kill
    BY <2>3, RankOfStages
  <2>5. u \in timers \ {t}
    BY <1>2
  <2> QED BY <2>4, <2>5 DEF FireTimeout, Due
<1>4. t.stage # "recovered" => timers' # {}
  <2> SUFFICES ASSUME t.stage # "recovered" PROVE timers' # {}
    OBVIOUS
  <2>1. [t EXCEPT !.stage = "recovered"] \in timers
    BY DEF FailureInv
  <2>2. [t EXCEPT !.stage = "recovered"] # t
    BY <1>1 DEF Timeout
  <2> QED BY <1>2, <2>1, <2>2
<1>5. /\ t.stage = "failed" => MarkFailed(t)
      /\ t.stage = "repairing" => MarkRepairing(t)
      /\ t.stage = "recovered" => MarkRecovered(t)
  BY DEF FireTimeout
<1>6. status' \in [DemoNodes -> Statuses]
  BY <1>1, <1>5 DEF FailureInv, MarkFailed, MarkRepairing, MarkRecovered, Healthy, Statuses
<1>7. RestsRecovered'
  <2>1. t.stage = "recovered" => status' = [Healthy EXCEPT ![t.victim] = "failed"]
    BY <1>5 DEF MarkRecovered
  <2> QED BY <1>1, <1>2, <1>4, <2>1 DEF RestsRecovered
<1>8. t.stage = "repairing" => status'[RepairTarget] = "repairing"
  BY <1>5 DEF MarkRepairing, FailureInv, RepairTarget, DemoNodes
<1>9. ASSUME ~overrun PROVE \E v \in DemoNodes : OnlyDead(v)'
  <2>1. PICK v \in DemoNodes : OnlyDead(v)
    BY <1>9 DEF FailureInv
  <2>2. t.victim = v /\ \A u \in timers' : u.victim = v
    BY <1>2, <2>1 DEF OnlyDead
  <2>3. ASSUME NEW n \in DemoNodes \ {v}
        PROVE  /\ status'[n] \notin {"failed", "timeout"}
               /\ \/ chunks'[n] = InitialNodes[n]
                  \/ n = RepairTarget /\ chunks'[n] = {"B", "C", "D"}
    <3>1. /\ status[n] \notin {"failed", "timeout"} /\ n # t.victim
          /\ chunks[n] = InitialNodes[n] \/ (n = RepairTarget /\ chunks[n] = {"B", "C", "D"})
      BY <2>1, <2>2 DEF OnlyDead
    <3>2. CASE t.stage = "failed"
      <4>1. status'[n] \in {"warning", status[n]}
        BY <1>5, <3>1, <3>2 DEF MarkFailed
      <4>2. chunks'[n] = chunks[n]
        BY <1>5, <3>1, <3>2 DEF MarkFailed, FailureInv
      <4> QED BY <3>1, <4>1, <4>2
    <3>3. CASE t.stage = "repairing"
      <4>1. status'[n] \in {"repairing", status[n]} /\ chunks'[n] = chunks[n]
        BY <1>5, <3>3 DEF MarkRepairing, FailureInv
      <4> QED BY <3>1, <4>1
    <3>4. CASE t.stage = "recovered"
      <4>1. status'[n] = "healthy"
        BY <1>5, <3>1, <3>4 DEF MarkRecovered, Healthy
      <4>2. chunks'[n] = chunks[n] \/ (n = RepairTarget /\ chunks'[n] = {"B", "C", "D"})
        BY <1>5, <3>1, <3>4 DEF MarkRecovered
      <4> QED BY <3>1, <4>1, <4>2
    <3> QED BY <1>1, <3>2, <3>3, <3>4
  <2> QED BY <2>2, <2>3 DEF OnlyDead
<1>10. DOMAIN chunks' = DemoNodes
  BY <1>1, <1>5 DEF FailureInv, MarkFailed, MarkRepairing, MarkRecovered
<1> QED
  BY <1>1, <1>2, <1>3, <1>6, <1>7, <1>8, <1>9, <1>10 DEF FailureInv

LEMMA FailureFresh ==
  /\ Healthy \in [DemoNodes -> Statuses]
  /\ \A n \in DemoNodes : Healthy[n] \notin {"failed", "timeout"}
  /\ DOMAIN InitialNodes = DemoNodes
BY DEF Healthy, Statuses, InitialNodes, DemoNodes

LEMMA FailureKept == FailureInv /\ [FailureStep]_failureVars => FailureInv'
<1> SUFFICES ASSUME FailureInv, [FailureStep]_failureVars PROVE FailureInv'
  OBVIOUS
<1>1. CASE UNCHANGED failureVars
  BY <1>1 DEF failureVars, FailureInv, RestsRecovered, OnlyDead
<1>2. ASSUME NEW d \in Demos, MountDemo(d) PROVE FailureInv'
  <2>1. timers' = {} /\ status' = Healthy /\ chunks' = InitialNodes /\ phase' = "idle"
        /\ demo' \in Demos /\ kills' = 0
    BY <1>2 DEF MountDemo
  <2>2. OnlyDead(1)' /\ 1 \in DemoNodes
    BY <2>1, FailureFresh DEF OnlyDead, DemoNodes
  <2>3. 0 \in 0..MaxKills
    BY MaxKillsAssumption
  <2> QED BY <2>1, <2>2, <2>3, FailureFresh DEF FailureInv, RestsRecovered
<1>3. ASSUME NEW v \in DemoNodes, SceneKill(v) PROVE FailureInv'
  <2>1. status' = [status EXCEPT ![v] = "timeout"] /\ KillNode(v)
    BY <1>3 DEF SceneKill
  <2> QED BY <2>1, KillKept DEF FailureInv, Statuses
<1>4. CASE CanvasKill
  <2>1. status' = [status EXCEPT ![3] = "timeout"] /\ KillNode(3) /\ 3 \in DemoNodes
    BY <1>4 DEF CanvasKill, DemoNodes
  <2> QED BY <2>1, KillKept DEF FailureInv, Statuses
<1>5. CASE SimulatorKill
  <2>1. status' = status /\ KillNode(3) /\ 3 \in DemoNodes
    BY <1>5 DEF SimulatorKill, DemoNodes
  <2> QED BY <2>1, KillKept DEF FailureInv
<1>6. CASE HandleReset
  <2>1. /\ timers' = timers /\ status' = Healthy /\ chunks' = InitialNodes /\ phase' = "idle"
        /\ overrun' = (timers # {}) /\ demo' = demo /\ kills' = kills
    BY <1>6 DEF HandleReset
  <2>2. ~overrun' => timers' = {}
    BY <2>1
  <2>3. timers' = {} => OnlyDead(1)' /\ 1 \in DemoNodes
    BY <2>1, FailureFresh DEF OnlyDead, DemoNodes
  <2> QED BY <2>1, <2>2, <2>3, FailureFresh DEF FailureInv, RestsRecovered
<1>7. CASE Fire
  BY <1>7, FireKept DEF Fire
<1> QED
  BY <1>1, <1>2, <1>3, <1>4, <1>5, <1>6, <1>7 DEF FailureStep, FailureNext

LEMMA FailureStarts == SiteInit => FailureInv
<1> SUFFICES ASSUME FailureInit PROVE FailureInv
  BY DEF SiteInit
<1>1. /\ timers = {} /\ status = Healthy /\ chunks = InitialNodes /\ phase = "idle"
      /\ demo \in Demos /\ kills = 0
  BY DEF FailureInit
<1>2. OnlyDead(1) /\ 1 \in DemoNodes
  BY <1>1, FailureFresh DEF OnlyDead, DemoNodes
<1>3. 0 \in 0..MaxKills
  BY MaxKillsAssumption
<1> QED BY <1>1, <1>2, <1>3, FailureFresh DEF FailureInv, RestsRecovered

\* However often a demonstration is reset and started again, and whatever
\* timeouts play into a later run, the cluster in which a node can be killed is
\* healthy and every demonstration comes to rest with one dead node
\* (FailureRecovery3D.tsx:67-107).
THEOREM FailuresRest == SiteSpec => []RestsAreRight
<1>1. FailureInv /\ [SiteNext]_siteVars => FailureInv'
  BY FailureKept, PartsStep
<1>2. FailureInv => RestsAreRight
  BY KillsWhenIdle DEF FailureInv, RestsAreRight, KillableIsHealthy
<1> QED BY FailureStarts, <1>1, <1>2, PTL DEF SiteSpec

\* A run into which no other plays shows a copy of every chunk outside the dead
\* node, whichever node was killed (FailureRecovery3D.tsx:26-32, 67-100).
THEOREM FailuresKeepCopies == SiteSpec => []CopiesSurvive
<1>1. FailureInv /\ [SiteNext]_siteVars => FailureInv'
  BY FailureKept, PartsStep
<1>2. FailureInv => CopiesSurvive
  <2> SUFFICES ASSUME FailureInv, ~overrun
               PROVE  /\ \A c \in Replicas : \E n \in DemoNodes \ View.dead : c \in chunks[n]
                      /\ Cardinality(View.dead) <= 1
                      /\ View.stream # << >> => status[View.stream[2]] = "repairing"
    BY DEF CopiesSurvive
  <2>1. PICK v \in DemoNodes : OnlyDead(v)
    BY DEF FailureInv
  <2>2. /\ View.dead \subseteq {n \in DemoNodes : status[n] \in {"failed", "timeout"}}
        /\ View.stream # << >> => phase = "repairing" /\ View.stream = <<1, RepairTarget>>
    BY DEF View, SceneView, CanvasView, SimulatorView, Showing, DrawnDead, RepairStreamBeam,
           FailureInv, Demos
  <2>3. View.dead \subseteq {v}
    BY <2>1, <2>2 DEF OnlyDead
  <2>4. \A c \in Replicas : \E n \in DemoNodes \ {v} : c \in chunks[n]
    <3>1. \A n \in DemoNodes \ {v} : n # RepairTarget => chunks[n] = InitialNodes[n]
      BY <2>1 DEF OnlyDead
    <3>2. RepairTarget # v => "D" \in chunks[RepairTarget]
      BY <2>1 DEF OnlyDead, InitialNodes, RepairTarget, DemoNodes
    <3>3. /\ "A" \in InitialNodes[1] /\ "B" \in InitialNodes[1] /\ "C" \in InitialNodes[1]
          /\ "A" \in InitialNodes[2] /\ "B" \in InitialNodes[2]
          /\ "C" \in InitialNodes[3] /\ "D" \in InitialNodes[3]
      BY DEF InitialNodes
    <3>4. \A c \in {"A", "B"} : \E n \in {1, 2} \ {v} : c \in chunks[n]
      BY <3>1, <3>3 DEF RepairTarget, DemoNodes
    <3>5. \E n \in {1, 3} \ {v} : "C" \in chunks[n]
      BY <3>1, <3>3 DEF RepairTarget, DemoNodes
    <3>6. \E n \in {3, 4} \ {v} : "D" \in chunks[n]
      BY <3>1, <3>2, <3>3 DEF RepairTarget, DemoNodes
    <3> QED BY <3>4, <3>5, <3>6 DEF Replicas, DemoNodes
  <2>5. Cardinality(View.dead) <= 1
    <3>1. IsFiniteSet({v}) /\ Cardinality({v}) = 1
      BY FS_Singleton
    <3> QED BY <2>3, <3>1, FS_Subset
  <2>6. View.stream # << >> => status[View.stream[2]] = "repairing"
    BY <2>2 DEF FailureInv
  <2> QED BY <2>3, <2>4, <2>5, <2>6
<1> QED BY FailureStarts, <1>1, <1>2, PTL DEF SiteSpec

-----------------------------------------------------------------------------
(* The phases of a run. *)

\* What is left of the timeouts of the k-th run after its r-th stage.
RunTimers(k, v, r) ==
  {[kill |-> k, victim |-> v, stage |-> Stages[i]] : i \in (r + 1)..4}

\* While no run plays into another, the timeouts that are left are those of the
\* stages to come, and the time line has an entry for each that has come.
RunInv ==
  /\ phase \in Phases
  /\ events \in Seq(Phases)
  /\ phase = "idle" => events = << >>
  /\ ~overrun => /\ demo = "simulator" => Len(events) = Rank(phase)
                 /\ phase # "idle" =>
                      \E k \in Nat, v \in DemoNodes : timers = RunTimers(k, v, Rank(phase))

PhaseStep ==
  ~overrun /\ ~overrun' /\ phase' # "idle" /\ phase' # phase
    => /\ Rank(phase') = Rank(phase) + 1
       /\ demo = "simulator" => Len(events') = Rank(phase')

LEMMA PhasesAre == Phases = {"idle", "lost", "failed", "repairing", "recovered"}
<1>1. 1..4 = {1, 2, 3, 4}
  OBVIOUS
<1>2. /\ Stages[1] = "lost" /\ Stages[2] = "failed"
      /\ Stages[3] = "repairing" /\ Stages[4] = "recovered"
  BY DEF Stages
<1> QED BY <1>1, <1>2 DEF Phases

LEMMA RankOfPhase ==
  ASSUME NEW p \in Phases
  PROVE  /\ Rank(p) \in 0..4
         /\ p # "idle" => Rank(p) \in 1..4 /\ Stages[Rank(p)] = p
BY PhasesAre, RankOfStages DEF Stages

LEMMA RecordKept ==
  ASSUME RunInv, NEW p \in Phases, Record(p)
  PROVE  /\ events' \in Seq(Phases)
         /\ demo = "simulator" => Len(events') = Len(events) + 1
<1>1. CASE demo = "simulator"
  <2>1. events' = <<p>> \o events
    BY <1>1 DEF Record
  <2>2. <<p>> \in Seq(Phases) /\ events \in Seq(Phases) /\ Len(<<p>>) = 1
    BY DEF RunInv
  <2>3. Len(events') = 1 + Len(events)
    BY <2>1, <2>2
  <2> QED BY <2>1, <2>2, <2>3
<1>2. CASE demo # "simulator"
  BY <1>2 DEF Record, RunInv
<1> QED BY <1>1, <1>2

LEMMA KillStep ==
  ASSUME FailureInv, RunInv, NEW v \in DemoNodes, KillNode(v)
  PROVE  RunInv' /\ PhaseStep
<1>1. phase = "idle" /\ phase' = "lost" /\ Record("lost") /\ UNCHANGED <<demo, overrun>>
  BY KillsWhenIdle DEF FailureInv, KillNode
<1>2. "lost" \in Phases
  BY PhasesAre
<1>3. ~overrun => timers' = RunTimers(kills + 1, v, Rank(phase'))
  <2>1. ~overrun => timers = {}
    BY <1>1 DEF FailureInv
  <2>2. Rank(phase') + 1 = 2
    BY <1>1, RankOfStages
  <2> QED BY <2>1, <2>2 DEF KillNode, RunTimers
<1>4. kills + 1 \in Nat
  BY MaxKillsAssumption DEF FailureInv
<1>5. ~overrun /\ demo = "simulator" => Len(events') = Rank(phase')
  <2> SUFFICES ASSUME ~overrun, demo = "simulator" PROVE Len(events') = Rank(phase')
    OBVIOUS
  <2>1. Len(events) = 0
    BY <1>1, RankOfStages DEF RunInv
  <2>2. Len(events') = Len(events) + 1
    BY <1>1, <1>2, RecordKept
  <2> QED BY <1>1, <2>1, <2>2, RankOfStages
<1> QED
  BY <1>1, <1>2, <1>3, <1>4, <1>5, RecordKept, RankOfStages DEF RunInv, PhaseStep

LEMMA FireStep ==
  ASSUME FailureInv, RunInv, NEW t \in timers, FireTimeout(t)
  PROVE  RunInv' /\ PhaseStep
<1>1. /\ timers' = timers \ {t} /\ phase' = t.stage /\ Record(t.stage)
      /\ UNCHANGED <<demo, kills, overrun>> /\ Due(t)
  BY DEF FireTimeout
<1>2. phase' \in Phases /\ phase' # "idle"
  BY <1>1, PhasesAre DEF FailureInv, Timeout
<1>3. ASSUME ~overrun
      PROVE  /\ Rank(phase') = Rank(phase) + 1
             /\ \E k \in Nat, v \in DemoNodes : timers' = RunTimers(k, v, Rank(phase'))
  <2>1. PICK k \in Nat, v \in DemoNodes : timers = RunTimers(k, v, Rank(phase))
    BY <1>3 DEF RunInv, FailureInv
  <2>2. PICK j \in (Rank(phase) + 1)..4 :
          t = [kill |-> k, victim |-> v, stage |-> Stages[j]]
    BY <2>1 DEF RunTimers
  <2> DEFINE r == Rank(phase)
             u == [kill |-> k, victim |-> v, stage |-> Stages[r + 1]]
  <2>3. r \in 0..4 /\ j \in 1..4 /\ r + 1 \in 1..4
    BY <2>2, RankOfPhase DEF RunInv
  <2>4. Rank(Stages[j]) = j /\ Rank(Stages[r + 1]) = r + 1
    BY <2>3, RankOfStages DEF Stages
  <2>5. u \in timers
    BY <2>1, <2>3 DEF RunTimers
  <2>6. j = r + 1
    <3> SUFFICES ASSUME j # r + 1 PROVE FALSE
      OBVIOUS
    <3>1. u.stage # t.stage
      BY <2>2, <2>4
    <3>2. u.kill <= t.kill /\ Rank(u.stage) <= Rank(t.stage)
      BY <2>2, <2>3, <2>4
    <3> QED BY <1>1, <2>5, <3>1, <3>2 DEF Due
  <2>7. Rank(phase') = r + 1
    BY <1>1, <2>2, <2>4, <2>6
  <2>8. timers' = RunTimers(k, v, r + 1)
    <3>1. \A i \in (r + 2)..4 : Stages[i] # Stages[j]
      <4> TAKE i \in (r + 2)..4
      <4>1. i \in 1..4 /\ i # j
        BY <2>3, <2>6
      <4>2. Rank(Stages[i]) = i
        BY <4>1, RankOfStages DEF Stages
      <4> QED BY <2>4, <4>1, <4>2
    <3>2. \A i \in (r + 1)..4 : i = j \/ i \in (r + 2)..4
      BY <2>3, <2>6
    <3>3. \A i \in (r + 2)..4 : i \in (r + 1)..4
      BY <2>3
    <3>4. r + 1 + 1 = r + 2
      BY <2>3
    <3>5. timers' \subseteq RunTimers(k, v, r + 1)
      BY <1>1, <2>1, <2>2, <3>2, <3>4 DEF RunTimers
    <3>6. RunTimers(k, v, r + 1) \subseteq timers'
      <4> SUFFICES ASSUME NEW i \in (r + 2)..4
                   PROVE  [kill |-> k, victim |-> v, stage |-> Stages[i]] \in timers'
        BY <3>4 DEF RunTimers
      <4>1. [kill |-> k, victim |-> v, stage |-> Stages[i]] \in timers
        BY <2>1, <3>3 DEF RunTimers
      <4>2. [kill |-> k, victim |-> v, stage |-> Stages[i]].stage # t.stage
        BY <2>2, <3>1
      <4> QED BY <1>1, <4>1, <4>2
    <3> QED BY <3>5, <3>6
  <2> QED BY <2>7, <2>8
<1>4. ~overrun /\ demo = "simulator" => Len(events') = Rank(phase')
  <2>1. ~overrun /\ demo = "simulator" => Len(events) = Rank(phase)
    BY DEF RunInv
  <2> QED BY <1>1, <1>2, <1>3, <2>1, RecordKept
<1>5. events' \in Seq(Phases)
  BY <1>1, <1>2, RecordKept
<1> QED BY <1>1, <1>2, <1>3, <1>4, <1>5 DEF RunInv, PhaseStep

LEMMA RunKept ==
  FailureInv /\ RunInv /\ [FailureStep]_failureVars => RunInv' /\ PhaseStep
<1> SUFFICES ASSUME FailureInv, RunInv, [FailureStep]_failureVars
             PROVE  RunInv' /\ PhaseStep
  OBVIOUS
<1>1. CASE UNCHANGED failureVars
  BY <1>1 DEF failureVars, RunInv, PhaseStep, RunTimers
<1>2. CASE phase' = "idle" /\ events' = << >>
  <2>1. Len(events') = Rank(phase') /\ phase' \in Phases /\ events' \in Seq(Phases)
    BY <1>2, RankOfStages, PhasesAre
  <2> QED BY <1>2, <2>1 DEF RunInv, PhaseStep
<1>3. ASSUME NEW d \in Demos, MountDemo(d) PROVE RunInv' /\ PhaseStep
  BY <1>2, <1>3 DEF MountDemo
<1>4. CASE HandleReset
  BY <1>2, <1>4 DEF HandleReset
<1>5. CASE \E v \in DemoNodes : KillNode(v)
  BY <1>5, KillStep
<1>6. CASE Fire
  BY <1>6, FireStep DEF Fire
<1>7. (\E v \in DemoNodes : SceneKill(v)) \/ CanvasKill \/ SimulatorKill
        => \E v \in DemoNodes : KillNode(v)
  BY DEF SceneKill, CanvasKill, SimulatorKill, DemoNodes
<1> QED BY <1>1, <1>3, <1>4, <1>5, <1>6, <1>7 DEF FailureStep, FailureNext

\* The phases of a run that no other plays into come one after the other until
\* it is reset, in whatever order the browser may fire timeouts, and the time
\* line of the simulator has one entry for each (FailureRecovery3D.tsx:67-100,
\* FailureRecoverySimulator.tsx:39-97).
THEOREM PhasesCome == SiteSpec => PhasesInOrder
<1>1. SiteInit => RunInv
  <2> SUFFICES ASSUME FailureInit PROVE RunInv
    BY DEF SiteInit
  <2>1. phase = "idle" /\ events = << >> /\ Len(<< >>) = 0
    BY DEF FailureInit
  <2> QED BY <2>1, RankOfStages, PhasesAre DEF RunInv
<1>2. FailureInv /\ [SiteNext]_siteVars => FailureInv'
  BY FailureKept, PartsStep
<1>3. FailureInv /\ RunInv /\ [SiteNext]_siteVars => RunInv' /\ PhaseStep
  BY RunKept, PartsStep
<1>4. PhaseStep => [~overrun /\ ~overrun' /\ phase' # "idle"
                      => /\ Rank(phase') = Rank(phase) + 1
                         /\ demo = "simulator" => Len(events') = Rank(phase')]_phase
  BY DEF PhaseStep
<1> QED BY FailureStarts, <1>1, <1>2, <1>3, <1>4, PTL DEF SiteSpec, PhasesInOrder

-----------------------------------------------------------------------------
(* The demonstrations of erasure coding. *)

\* A page mounts a demonstration that there is.
LEMMA LabOnPage == ASSUME NEW p PROVE LabOn(p) \in Labs
BY DEF LabOn, Labs

LEMMA LabPart ==
  ASSUME [SiteNext]_siteVars
  PROVE  [LabStep]_labVars
<1>1. ASSUME NEW p, MountDemonstrations(p) PROVE LabStep
  BY <1>1, LabOnPage DEF MountDemonstrations, LabStep
<1>2. CASE \/ \E p \in Pages : Navigate(p)
           \/ SwitchDemonstration
  BY <1>1, <1>2 DEF Navigate, SwitchDemonstration
<1>3. CASE ErasureRuns
  BY <1>3 DEF ErasureRuns, LabStep
<1>4. CASE \/ LockRuns \/ SwitchTab \/ FailureRuns \/ RingRuns \/ LabsRun \/ CanvasRuns
           \/ PipelineRuns \/ LabelsRun
  <2>1. UNCHANGED labVars
    BY <1>4 DEF LockRuns, NotLock, SwitchTab, FailureRuns, NotFailure, RingRuns, NotRing,
       LabsRun, NotLabs, CanvasRuns, NotCanvas, PipelineRuns, NotPipeline, LabelsRun, NotLabels
  <2> QED BY <2>1
<1>5. CASE UNCHANGED siteVars
  BY <1>5 DEF siteVars
<1> QED
  BY <1>2, <1>3, <1>4, <1>5 DEF SiteNext

\* A reconstruction that nothing disturbs has one timeout, and while it runs
\* four shards are left.
LabInv ==
  /\ lab \in Labs /\ mode \in {"erasure", "replication"}
  /\ alive \subseteq LabShards /\ pending \in Nat
  /\ isReconstructing \in BOOLEAN /\ disturbed \in BOOLEAN
  /\ isReconstructing => lab = "scene"
  /\ ~disturbed =>
       /\ pending = IF isReconstructing THEN 1 ELSE 0
       /\ isReconstructing => alive # LabShards /\ CanReconstruct

LEMMA LabKept == LabInv /\ [LabStep]_labVars => LabInv'
<1> SUFFICES ASSUME LabInv, [LabStep]_labVars PROVE LabInv'
  OBVIOUS
<1>1. CASE UNCHANGED labVars
  BY <1>1 DEF labVars, LabInv, CanReconstruct
<1>2. ASSUME NEW l \in Labs, MountLab(l) PROVE LabInv'
  BY <1>2 DEF MountLab, LabInv, CanReconstruct
<1>3. ASSUME NEW s \in LabShards, ToggleShard(s) PROVE LabInv'
  <2>1. alive' \subseteq LabShards
    BY <1>3 DEF ToggleShard, LabInv
  <2>2. ~disturbed' => ~disturbed /\ pending = 0 /\ ~isReconstructing
    BY <1>3 DEF ToggleShard, Disturb, LabInv
  <2>3. disturbed' \in BOOLEAN /\ UNCHANGED <<lab, mode, isReconstructing, pending>>
    BY <1>3 DEF ToggleShard, Disturb
  <2> QED BY <2>1, <2>2, <2>3 DEF LabInv
<1>4. CASE HandleReconstruct
  <2>1. LabView.reconstruct
    BY <1>4 DEF HandleReconstruct
  <2>2. lab = "scene"
    BY <2>1 DEF LabView, SceneLab, CanvasLab, PlaygroundLab, LabInv, Labs
  <2>3. alive # LabShards /\ CanReconstruct /\ ~isReconstructing
    BY <2>1, <2>2 DEF LabView, SceneLab
  <2>4. /\ isReconstructing' = TRUE /\ pending' = pending + 1
        /\ UNCHANGED <<lab, mode, alive, disturbed>>
    BY <1>4 DEF HandleReconstruct
  <2>5. ~disturbed => pending = 0
    BY <2>3 DEF LabInv
  <2>6. CanReconstruct'
    BY <2>3, <2>4 DEF CanReconstruct
  <2> QED BY <2>2, <2>3, <2>4, <2>5, <2>6 DEF LabInv
<1>5. CASE Reconstructed
  <2>1. /\ pending > 0 /\ alive' = LabShards /\ isReconstructing' = FALSE
        /\ pending' = pending - 1 /\ disturbed' = (disturbed /\ pending' > 0)
        /\ UNCHANGED <<lab, mode>>
    BY <1>5 DEF Reconstructed
  <2>2. pending' \in Nat
    BY <2>1 DEF LabInv
  <2>3. ~disturbed => pending = 1
    BY <2>1 DEF LabInv
  <2>4. ~disturbed' => ~disturbed \/ ~(pending' > 0)
    BY <2>1
  <2>5. ASSUME ~disturbed' PROVE pending' = 0
    <3>1. CASE ~disturbed
      BY <2>1, <2>3, <3>1
    <3>2. CASE ~(pending' > 0)
      BY <2>2, <3>2
    <3> QED BY <2>4, <2>5, <3>1, <3>2
  <2> QED BY <2>1, <2>2, <2>5 DEF LabInv
<1>6. CASE ResetLab
  <2>1. ~disturbed' => pending = 0
    BY <1>6 DEF ResetLab, Disturb, LabInv
  <2> QED BY <1>6, <2>1 DEF ResetLab, Disturb, LabInv
<1>7. ASSUME NEW m \in {"erasure", "replication"}, SetMode(m) PROVE LabInv'
  BY <1>7 DEF SetMode, LabInv, CanReconstruct
<1> QED
  BY <1>1, <1>2, <1>3, <1>4, <1>5, <1>6, <1>7 DEF LabStep, ErasureLabNext

LEMMA ShardsFinite ==
  ASSUME NEW s \in SUBSET LabShards
  PROVE  IsFiniteSet(s) /\ Cardinality(s) \in Nat
<1>1. 0 \in Int /\ 5 \in Int
  OBVIOUS
<1>2. IsFiniteSet(LabShards)
  BY <1>1, FS_Interval DEF LabShards
<1>3. IsFiniteSet(s)
  BY <1>2, FS_Subset
<1> QED BY <1>3, FS_CardinalityType

LEMMA AllShardsSuffice == Cardinality(LabShards) = 6
<1>1. 0 \in Int /\ 5 \in Int
  OBVIOUS
<1>2. Cardinality(0..5) = IF 0 > 5 THEN 0 ELSE 5 - 0 + 1
  BY <1>1, FS_Interval
<1> QED BY <1>2 DEF LabShards

LEMMA FirstShard ==
  ASSUME NEW s \in SUBSET LabShards, Cardinality(s) >= 1
  PROVE  \E m \in s : /\ \A j \in s : m <= j
                      /\ Cardinality(s \ {m}) = Cardinality(s) - 1
<1>1. s # {}
  BY FS_EmptySet
<1>2. \A i \in s : i \in {0, 1, 2, 3, 4, 5}
  BY DEF LabShards
<1>3. \E m \in s : \A j \in s : m <= j
  BY <1>1, <1>2
<1> QED BY <1>3, ShardsFinite, FS_RemoveElement

LEMMA ThreeOf ==
  ASSUME NEW x, NEW y, NEW z, x # y, x # z, y # z
  PROVE  IsFiniteSet({x, y, z}) /\ Cardinality({x, y, z}) = 3
<1>1. IsFiniteSet({x}) /\ Cardinality({x}) = 1
  BY FS_Singleton
<1>2. IsFiniteSet({x} \cup {y}) /\ Cardinality({x} \cup {y}) = Cardinality({x}) + 1
  BY <1>1, FS_AddElement
<1>3. z \notin {x} \cup {y}
  OBVIOUS
<1>4. /\ IsFiniteSet(({x} \cup {y}) \cup {z})
      /\ Cardinality(({x} \cup {y}) \cup {z}) = Cardinality({x} \cup {y}) + 1
  BY <1>2, <1>3, FS_AddElement
<1>5. ({x} \cup {y}) \cup {z} = {x, y, z}
  OBVIOUS
<1>6. Cardinality({x} \cup {y}) = 2
  BY <1>1, <1>2
<1> QED BY <1>4, <1>5, <1>6

\* Of four or more shards the first four are four.
LEMMA FirstFourAreFour ==
  ASSUME NEW s \in SUBSET LabShards, Cardinality(s) >= 4
  PROVE  \E d \in kSubset(4, FirstFour(s)) : d \subseteq s
<1>1. PICK a \in s : (\A j \in s : a <= j) /\ Cardinality(s \ {a}) = Cardinality(s) - 1
  BY FirstShard, ShardsFinite
<1> DEFINE t == s \ {a}
<1>2. t \in SUBSET LabShards /\ Cardinality(t) >= 3
  BY <1>1, ShardsFinite
<1>3. PICK b \in t : (\A j \in t : b <= j) /\ Cardinality(t \ {b}) = Cardinality(t) - 1
  BY <1>2, FirstShard, ShardsFinite
<1> DEFINE u == t \ {b}
<1>4. u \in SUBSET LabShards /\ Cardinality(u) >= 2
  BY <1>2, <1>3, ShardsFinite
<1>5. PICK c \in u : (\A j \in u : c <= j) /\ Cardinality(u \ {c}) = Cardinality(u) - 1
  BY <1>4, FirstShard, ShardsFinite
<1> DEFINE v == u \ {c}
<1>6. v \in SUBSET LabShards /\ Cardinality(v) >= 1
  BY <1>4, <1>5, ShardsFinite
<1>7. PICK e \in v : \A j \in v : e <= j
  BY <1>6, FirstShard, ShardsFinite
<1> DEFINE d == {a, b, c, e}
<1>8. \A i \in s : i \in Nat
  BY DEF LabShards
<1>9. IsFiniteSet({a, b, c}) /\ Cardinality({a, b, c}) = 3
  <2>1. a # b /\ a # c /\ b # c
    BY <1>3, <1>5
  <2> QED BY <2>1, ThreeOf
<1>10. Cardinality(d) = 4
  <2>1. e \notin {a, b, c}
    BY <1>7
  <2>2. Cardinality({a, b, c} \cup {e}) = Cardinality({a, b, c}) + 1
    BY <1>9, <2>1, FS_AddElement
  <2>3. {a, b, c} \cup {e} = d
    OBVIOUS
  <2> QED BY <1>9, <2>2, <2>3
<1>11. ASSUME NEW i \in d PROVE i \in FirstFour(s)
  <2>1. \A j \in s : j < i => j \in {a, b, c}
    BY <1>1, <1>3, <1>5, <1>7, <1>8
  <2>2. {j \in s : j < i} \in SUBSET {a, b, c}
    BY <2>1
  <2>3. Cardinality({j \in s : j < i}) <= 3
    BY <1>9, <2>2, FS_Subset
  <2>4. Cardinality({j \in s : j < i}) \in Nat
    BY <1>9, <2>2, FS_Subset, FS_CardinalityType
  <2>5. i \in s
    BY <1>1, <1>3, <1>5, <1>7
  <2>6. Cardinality({j \in s : j < i}) < 4
    BY <2>3, <2>4
  <2> QED BY <2>5, <2>6 DEF FirstFour
<1>12. d \in kSubset(4, FirstFour(s))
  BY <1>10, <1>11 DEF kSubset
<1>13. d \subseteq s
  BY <1>1, <1>3, <1>5, <1>7
<1> QED BY <1>12, <1>13

\* With the code of the nodes, shards give the data back if there are four.
LEMMA FourDecode ==
  ASSUME K = 4, M = 2, AnyShardsDecode, NEW s \in SUBSET LabShards
  PROVE  Decodable(s) <=> Cardinality(s) >= 4
<1>1. Index = LabShards
  BY DEF Index, LabShards
<1>2. ASSUME NEW d \in SUBSET LabShards
      PROVE  Cardinality(LabShards \ d) = 6 - Cardinality(d)
  <2>1. IsFiniteSet(LabShards) /\ Cardinality(LabShards) = 6
    BY ShardsFinite, AllShardsSuffice
  <2>2. LabShards \cap d = d
    OBVIOUS
  <2>3. Cardinality(LabShards \ d) = Cardinality(LabShards) - Cardinality(LabShards \cap d)
    BY <2>1, FS_Difference, ShardsFinite
  <2> QED BY <2>1, <2>2, <2>3
<1>3. ASSUME NEW d \in SUBSET LabShards, Cardinality(d) = 4 PROVE d \in Decodes
  <2>1. d \in kSubset(4, Index)
    BY <1>1, <1>3 DEF kSubset
  <2>2. d \in DecodableSets
    BY <2>1 DEF AnyShardsDecode
  <2>3. LabShards \ d \in SUBSET LabShards /\ Cardinality(LabShards \ d) = 2
    BY <1>2, <1>3
  <2>4. LabShards \ d \in kSubset(2, LabShards) /\ d = LabShards \ (LabShards \ d)
    BY <2>3 DEF kSubset
  <2> QED BY <2>2, <2>4 DEF Decodes
<1>4. ASSUME Cardinality(s) >= 4 PROVE Decodable(s)
  <2>1. PICK d \in kSubset(4, FirstFour(s)) : d \subseteq s
    BY <1>4, FirstFourAreFour
  <2>2. d \in SUBSET LabShards /\ Cardinality(d) = 4
    BY <2>1 DEF kSubset
  <2> QED BY <1>3, <2>1, <2>2 DEF Decodable
<1>5. ASSUME Decodable(s) PROVE Cardinality(s) >= 4
  <2>1. PICK d \in Decodes : d \subseteq s
    BY <1>5 DEF Decodable
  <2>2. PICK lost \in kSubset(2, LabShards) : d = LabShards \ lost
    BY <2>1 DEF Decodes
  <2>3. lost \in SUBSET LabShards /\ Cardinality(lost) = 2
    BY <2>2 DEF kSubset
  <2>4. Cardinality(d) = 4
    BY <1>2, <2>2, <2>3
  <2>5. Cardinality(d) <= Cardinality(s)
    BY <2>1, ShardsFinite, FS_Subset
  <2> QED BY <2>4, <2>5, ShardsFinite
<1> QED BY <1>4, <1>5

\* What the demonstrations of erasure coding say can be reconstructed is what
\* the code of the nodes decodes with four data and two parity shards, and a
\* reconstruction that no click meets ends with its one timeout and draws its
\* beams from shards that suffice (ErasureCoding3D.tsx:150-185).
THEOREM LabsAreSound ==
  ASSUME K = 4, M = 2, AnyShardsDecode
  PROVE  SiteSpec => []ErasureLabIsSound
<1>1. SiteInit => LabInv
  <2>1. SUFFICES ASSUME ErasureLabInit PROVE LabInv
    BY DEF SiteInit
  <2>2. lab \in Labs /\ mode = "erasure" /\ alive = LabShards /\ isReconstructing = FALSE
        /\ pending = 0 /\ disturbed = FALSE
    BY <2>1 DEF ErasureLabInit
  <2> QED BY <2>2 DEF LabInv
<1>2. LabInv /\ [SiteNext]_siteVars => LabInv'
  BY LabKept, LabPart
<1>3. ASSUME LabInv PROVE ErasureLabIsSound
  <2>1. Decodable(alive) <=> CanReconstruct
    BY <1>3, FourDecode DEF LabInv, CanReconstruct
  <2>2. alive = LabShards => CanReconstruct
    BY AllShardsSuffice DEF CanReconstruct
  <2>3. VerdictIsRight
    <3>1. CASE lab = "scene"
      BY <2>1, <2>2, <3>1 DEF VerdictIsRight, LabView, SceneLab
    <3>2. CASE lab = "canvas"
      BY <2>1, <3>2 DEF VerdictIsRight, LabView, CanvasLab
    <3>3. CASE lab = "playground"
      BY <1>3, <2>1, <3>3 DEF VerdictIsRight, LabView, PlaygroundLab, LabInv
    <3> QED BY <1>3, <3>1, <3>2, <3>3 DEF LabInv, Labs
  <2>4. ASSUME ~disturbed, isReconstructing PROVE Decodable(LabView.beams)
    <3>1. LabView.beams = FirstFour(alive) /\ Cardinality(alive) >= 4
      BY <1>3, <2>4 DEF LabInv, LabView, SceneLab, CanReconstruct
    <3>2. PICK d \in kSubset(4, FirstFour(alive)) : d \subseteq alive
      BY <1>3, <3>1, FirstFourAreFour DEF LabInv
    <3>3. FirstFour(alive) \in SUBSET LabShards /\ d \in SUBSET FirstFour(alive)
      BY <1>3, <3>2 DEF LabInv, FirstFour, kSubset
    <3>4. Cardinality(FirstFour(alive)) >= 4
      BY <3>2, <3>3, ShardsFinite, FS_Subset DEF kSubset
    <3> QED BY <3>1, <3>3, <3>4, FourDecode
  <2> QED BY <1>3, <2>3, <2>4 DEF ErasureLabIsSound, UndisturbedRepairIsSound, LabInv
<1> QED BY <1>1, <1>2, <1>3, PTL DEF SiteSpec

-----------------------------------------------------------------------------
(* Where chunks are drawn. *)

\* In the table of the system canvas a chunk has three holders, and the first
\* of them is the node that comes next on the ring.
LEMMA CanvasTable ==
  ASSUME NEW c \in DOMAIN ChunksData
  PROVE  LET d == ChunksData[c]
         IN /\ {d.primary} \cup d.replicas \subseteq CanvasNodes
            /\ Cardinality({d.primary} \cup d.replicas) = 3
            /\ Successor(d.angle) = d.primary
<1> DEFINE d == ChunksData[c]
           way(n) == (NodeCoords[n] - d.angle + 360) % 360
<1>1. c \in {"a", "b", "c", "d"}
  BY DEF ChunksData
<1>2. d.primary \in CanvasNodes
  BY <1>1 DEF ChunksData, CanvasNodes
<1>3. \E y, z \in CanvasNodes : d.replicas = {y, z} /\ y # z /\ d.primary # y /\ d.primary # z
  BY <1>1 DEF ChunksData, CanvasNodes
<1>4. PICK y, z \in CanvasNodes :
        d.replicas = {y, z} /\ y # z /\ d.primary # y /\ d.primary # z
  BY <1>3
<1>5. {d.primary} \cup d.replicas = {d.primary, y, z}
  BY <1>4
<1>6. Cardinality({d.primary} \cup d.replicas) = 3
  <2> HIDE DEF d
  <2>1. Cardinality({d.primary, y, z}) = 3
    BY <1>4, ThreeOf
  <2> QED BY <1>5, <2>1
<1>7. /\ \A n \in CanvasNodes : n \in {1, 2, 3, 4, 5}
      /\ NodeCoords[1] = 0 /\ NodeCoords[2] = 58 /\ NodeCoords[3] = 134
      /\ NodeCoords[4] = 226 /\ NodeCoords[5] = 302
  BY DEF CanvasNodes, NodeCoords
<1>8. \A n \in CanvasNodes : way(n) \in Int /\ (n # d.primary => way(d.primary) < way(n))
  <2>1. CASE c = "a"
    <3>1. d.angle = 54 /\ d.primary = 2
      BY <2>1 DEF ChunksData
    <3> QED BY <1>7, <3>1
  <2>2. CASE c = "b"
    <3>1. d.angle = 195 /\ d.primary = 4
      BY <2>2 DEF ChunksData
    <3> QED BY <1>7, <3>1
  <2>3. CASE c = "c"
    <3>1. d.angle = 330 /\ d.primary = 1
      BY <2>3 DEF ChunksData
    <3> QED BY <1>7, <3>1
  <2>4. CASE c = "d"
    <3>1. d.angle = 120 /\ d.primary = 3
      BY <2>4 DEF ChunksData
    <3> QED BY <1>7, <3>1
  <2> QED BY <1>1, <2>1, <2>2, <2>3, <2>4
<1>9. Successor(d.angle) = d.primary
  <2> HIDE DEF d
  <2> SUFFICES (CHOOSE n \in CanvasNodes : \A m \in CanvasNodes : way(n) <= way(m)) = d.primary
    BY DEF Successor
  <2> DEFINE First(n) == \A m \in CanvasNodes : way(n) <= way(m)
  <2>1. \A n \in CanvasNodes : way(n) \in Int /\ (n # d.primary => way(d.primary) < way(n))
    BY <1>8
  <2> HIDE DEF way
  <2>2. First(d.primary)
    BY <2>1, <1>2
  <2>3. \A n \in CanvasNodes : First(n) => n = d.primary
    BY <2>1, <1>2
  <2> HIDE DEF First
  <2>4. (CHOOSE n \in CanvasNodes : First(n)) = d.primary
    BY <1>2, <2>2, <2>3
  <2> QED BY <2>4 DEF First
<1> QED BY <1>2, <1>4, <1>6, <1>9

CanvasChoice == step \in CanvasSteps /\ selectedChunk \in DOMAIN ChunksData

LEMMA ChoiceKept == CanvasChoice /\ [CanvasStep]_canvasVars => CanvasChoice'
<1> SUFFICES ASSUME CanvasChoice, [CanvasStep]_canvasVars PROVE CanvasChoice'
  OBVIOUS
<1>1. NextStep \in CanvasSteps /\ 1 \in CanvasSteps /\ 3 \in CanvasSteps
  BY DEF CanvasChoice, CanvasSteps, NextStep
<1>2. "d" \in DOMAIN ChunksData
  BY DEF ChunksData
<1>3. CASE UNCHANGED canvasVars
  BY <1>3 DEF canvasVars, CanvasChoice
<1>4. CASE MountCanvas
  BY <1>1, <1>2, <1>4 DEF MountCanvas, CanvasChoice
<1>5. CASE PlaysByItself
  BY <1>1, <1>5 DEF PlaysByItself, RunEffect, AutoStep, CanvasChoice
<1>6. CASE CanvasClick
  BY <1>1, <1>6 DEF CanvasClick, SetStep, StepForward, TogglePlay, ResetCanvas, SetSpeed,
                    SelectChunk, InspectNode, CanvasChoice
<1> QED
  BY <1>3, <1>4, <1>5, <1>6 DEF CanvasStep, CanvasNext

\* While one chunk stays selected on the system canvas, the nodes it is drawn
\* to only grow until the steps begin again, and with the banner it has three
\* check marks, the next node of the ring among them
\* (MasterSystemCanvas.tsx:20-60, 84-93).
THEOREM CanvasPlacementGrows == SiteSpec => PlacementGrows
<1>1. SiteInit => CanvasChoice
  <2> SUFFICES ASSUME CanvasInit PROVE CanvasChoice
    BY DEF SiteInit
  <2>1. step = 3 /\ selectedChunk = "d"
    BY DEF CanvasInit
  <2> QED BY <2>1 DEF CanvasChoice, CanvasSteps, ChunksData
<1>2. CanvasChoice /\ [SiteNext]_siteVars => CanvasChoice'
  BY ChoiceKept, PartsStep
<1> DEFINE Grows ==
      /\ step' > step /\ selectedChunk' = selectedChunk => FlowTargets \subseteq FlowTargets'
      /\ QuorumBanner' => /\ Cardinality(AckedNodes') = 3
                          /\ Successor(Chunk.angle)' \in AckedNodes'
<1>3. ASSUME CanvasChoice, CanvasChoice' PROVE Grows
  <2>1. ASSUME step' > step, selectedChunk' = selectedChunk
        PROVE  FlowTargets \subseteq FlowTargets'
    <3>1. Chunk' = Chunk
      BY <2>1 DEF Chunk
    <3>2. step \in Nat /\ step' \in Nat
      BY <1>3 DEF CanvasChoice, CanvasSteps
    <3> QED BY <2>1, <3>1, <3>2 DEF FlowTargets
  <2>2. ASSUME QuorumBanner'
        PROVE  Cardinality(AckedNodes') = 3 /\ Successor(Chunk.angle)' \in AckedNodes'
    <3> DEFINE c == selectedChunk'
    <3>1. step' = 5 /\ Chunk' = ChunksData[c] /\ c \in DOMAIN ChunksData
      BY <1>3, <2>2 DEF QuorumBanner, Chunk, CanvasChoice
    <3>2. AckedNodes' = {n \in CanvasNodes : n = Chunk'.primary \/ n \in Chunk'.replicas}
      BY <3>1 DEF AckedNodes, FlowTargets
    <3>3. /\ {Chunk'.primary} \cup Chunk'.replicas \subseteq CanvasNodes
          /\ Cardinality({Chunk'.primary} \cup Chunk'.replicas) = 3
          /\ Successor(Chunk'.angle) = Chunk'.primary
      BY <3>1, CanvasTable
    <3>4. AckedNodes' = {Chunk'.primary} \cup Chunk'.replicas
      BY <3>2, <3>3
    <3>5. Successor(Chunk.angle)' = Successor(Chunk'.angle)
      BY DEF Successor
    <3> QED BY <3>3, <3>4, <3>5
  <2> QED BY <2>1, <2>2
<1>4. CanvasChoice /\ CanvasChoice' => [Grows]_canvasVars
  BY <1>3
<1> QED BY <1>1, <1>2, <1>4, PTL DEF SiteSpec, PlacementGrows

-----------------------------------------------------------------------------
(* The views of the ring. *)

LEMMA RingPart ==
  ASSUME [SiteNext]_siteVars
  PROVE  [RingStep]_ringVars
<1>1. ASSUME NEW p, MountDemonstrations(p) PROVE RingStep
  BY <1>1 DEF MountDemonstrations, RingStep, RingOn
<1>2. CASE \/ \E p \in Pages : Navigate(p)
           \/ SwitchDemonstration
  BY <1>1, <1>2 DEF Navigate, SwitchDemonstration
<1>3. CASE RingRuns
  BY <1>3 DEF RingRuns, RingStep
<1>4. CASE \/ LockRuns \/ SwitchTab \/ FailureRuns \/ ErasureRuns \/ LabsRun \/ CanvasRuns
           \/ PipelineRuns \/ LabelsRun
  <2>1. UNCHANGED ringVars
    BY <1>4 DEF LockRuns, NotLock, SwitchTab, FailureRuns, NotFailure, ErasureRuns, NotErasure,
       LabsRun, NotLabs, CanvasRuns, NotCanvas, PipelineRuns, NotPipeline, LabelsRun, NotLabels
  <2> QED BY <2>1
<1>5. CASE UNCHANGED siteVars
  BY <1>5 DEF siteVars
<1> QED
  BY <1>2, <1>3, <1>4, <1>5 DEF SiteNext

RingInv ==
  /\ activeNodes \subseteq RingNodes /\ currentChunk \in DOMAIN ChunkAngleMap
  /\ CopiesLeaveTogether

LEMMA RingKept == RingInv /\ [RingStep]_ringVars => RingInv'
<1> SUFFICES ASSUME RingInv, [RingStep]_ringVars PROVE RingInv'
  OBVIOUS
<1>1. "a" \in DOMAIN ChunkAngleMap
  BY DEF ChunkAngleMap
<1>2. CASE UNCHANGED <<packet, replicaPackets>>
  <2>1. CopiesLeaveTogether'
    BY <1>2 DEF RingInv, CopiesLeaveTogether
  <2>2. activeNodes' \subseteq RingNodes /\ currentChunk' \in DOMAIN ChunkAngleMap
    <3>1. CASE UNCHANGED <<activeNodes, currentChunk>>
      BY <3>1 DEF RingInv
    <3>2. ASSUME NEW n \in RingNodes, ToggleNode(n)
          PROVE  activeNodes' \subseteq RingNodes /\ UNCHANGED currentChunk
      BY <3>2 DEF ToggleNode, RingInv
    <3>3. ASSUME NEW c \in DOMAIN ChunkAngleMap, SelectRingChunk(c)
          PROVE  currentChunk' = c /\ UNCHANGED activeNodes
      BY <3>3 DEF SelectRingChunk
    <3>4. ASSUME NEW v, MountRing(v)
          PROVE  activeNodes' = RingNodes /\ currentChunk' = "a"
      BY <3>4 DEF MountRing
    <3>5. CASE \/ UNCHANGED ringVars \/ StreamFrame \/ ToggleVault \/ VaultMotionChanges
               \/ \E v \in {1, 2, 4} : SetVaultSpeed(v)
               \/ \E t \in Tumblers : SelectTumbler(t)
      BY <3>1, <3>5 DEF ringVars, StreamFrame, ToggleVault, SetVaultSpeed, SelectTumbler,
         VaultMotionChanges
    <3> QED BY <1>1, <3>2, <3>3, <3>4, <3>5 DEF RingStep, RingNext, RingInv
  <2> QED BY <2>1, <2>2 DEF RingInv
<1>3. ASSUME packet' = Nowhere, replicaPackets' = <<0, 0>> PROVE CopiesLeaveTogether'
  BY <1>3 DEF CopiesLeaveTogether, Nowhere
<1>4. ASSUME NEW v, MountRing(v) PROVE RingInv'
  BY <1>1, <1>3, <1>4 DEF MountRing, RingInv
<1>5. CASE VaultMotionChanges
  BY <1>3, <1>5 DEF VaultMotionChanges, RingInv
<1>6. CASE StreamFrame
  <2>1. PICK t \in 0..9 :
          IF t < 4 THEN packet' = <<"hub", t>> /\ replicaPackets' = <<0, 0>>
          ELSE packet' = <<"tumbler", t - 3>> /\ replicaPackets' = <<t - 3, t - 3>>
    BY <1>6 DEF StreamFrame
  <2>2. ASSUME t < 4 PROVE CopiesLeaveTogether'
    BY <2>1, <2>2 DEF CopiesLeaveTogether
  <2>3. ASSUME ~(t < 4) PROVE CopiesLeaveTogether'
    BY <2>1, <2>3 DEF CopiesLeaveTogether
  <2>4. UNCHANGED <<activeNodes, currentChunk>>
    BY <1>6 DEF StreamFrame
  <2> QED BY <2>2, <2>3, <2>4 DEF RingInv
<1>7. CASE \/ UNCHANGED ringVars \/ ToggleVault
           \/ \E v \in {1, 2, 4} : SetVaultSpeed(v)
           \/ \E t \in Tumblers : SelectTumbler(t)
           \/ \E n \in RingNodes : ToggleNode(n)
           \/ \E c \in DOMAIN ChunkAngleMap : SelectRingChunk(c)
  BY <1>2, <1>7 DEF ringVars, ToggleVault, SetVaultSpeed, SelectTumbler, ToggleNode,
     SelectRingChunk
<1> QED
  BY <1>4, <1>5, <1>6, <1>7 DEF RingStep, RingNext

\* Three nodes that come before all others are the three successors, whichever
\* of the others are switched on.
LEMMA ThreeSuccessors ==
  ASSUME NEW angle \in Nat, NEW nodes \in SUBSET RingNodes,
         NEW p \in nodes, NEW q \in nodes, NEW r \in nodes,
         \A n \in RingNodes : Clockwise(angle, n) \in Int,
         Clockwise(angle, p) < Clockwise(angle, q),
         Clockwise(angle, q) < Clockwise(angle, r),
         \A n \in RingNodes \ {p, q, r} : Clockwise(angle, r) < Clockwise(angle, n)
  PROVE  SuccessorsOn(angle, nodes) = {p, q, r}
<1> DEFINE Closer(n) == {m \in nodes : Clockwise(angle, m) < Clockwise(angle, n)}
<1>1. IsFiniteSet(nodes)
  <2>1. 1 \in Int /\ 5 \in Int
    OBVIOUS
  <2>2. IsFiniteSet(RingNodes)
    BY <2>1, FS_Interval DEF RingNodes
  <2> QED BY <2>2, FS_Subset
<1>2. \A n \in nodes : IsFiniteSet(Closer(n)) /\ Cardinality(Closer(n)) \in Nat
  BY <1>1, FS_Subset, FS_CardinalityType
<1>3. p # q /\ p # r /\ q # r
  OBVIOUS
<1>4. IsFiniteSet({p, q, r}) /\ Cardinality({p, q, r}) = 3
  BY <1>3, ThreeOf
<1>5. ASSUME NEW n \in {p, q, r} PROVE Cardinality(Closer(n)) < 3
  <2>1. \A m \in Closer(n) : m \in {p, q}
    OBVIOUS
  <2>2. Closer(n) \in SUBSET {p, q, r} /\ r \notin Closer(n)
    BY <1>3, <2>1
  <2>3. Closer(n) # {p, q, r}
    BY <2>2
  <2> HIDE DEF Closer
  <2>4. /\ Cardinality(Closer(n)) <= Cardinality({p, q, r})
        /\ Cardinality(Closer(n)) # Cardinality({p, q, r})
    BY <1>4, <2>2, <2>3, FS_Subset
  <2> QED BY <1>2, <1>4, <2>4
<1>6. ASSUME NEW n \in nodes \ {p, q, r} PROVE ~(Cardinality(Closer(n)) < 3)
  <2>1. {p, q, r} \in SUBSET Closer(n)
    OBVIOUS
  <2>2. Cardinality({p, q, r}) <= Cardinality(Closer(n))
    BY <1>2, <2>1, FS_Subset
  <2> QED BY <1>2, <1>4, <2>2
<1>7. SuccessorsOn(angle, nodes) = {n \in nodes : Cardinality(Closer(n)) < 3}
  BY DEF SuccessorsOn
<1> HIDE DEF Closer
<1> QED BY <1>5, <1>6, <1>7

\* The table names, for each chunk, the three nodes that come first.
LEMMA RingTable ==
  ASSUME NEW c \in DOMAIN ChunkAngleMap
  PROVE  LET angle == ChunkAngleMap[c]
             p == SampleChunks[c].primary
         IN /\ angle \in Nat
            /\ \A n \in RingNodes : Clockwise(angle, n) \in Int
            /\ \E q, r \in RingNodes :
                 /\ SampleChunks[c].replicas = {q, r}
                 /\ Clockwise(angle, p) < Clockwise(angle, q)
                 /\ Clockwise(angle, q) < Clockwise(angle, r)
                 /\ \A n \in RingNodes \ {p, q, r} : Clockwise(angle, r) < Clockwise(angle, n)
<1>1. c \in {"a", "b", "c", "d"}
  BY DEF ChunkAngleMap
<1>2. \A n \in RingNodes : n \in {1, 2, 3, 4, 5}
  BY DEF RingNodes
<1>3. {1, 2, 3, 4, 5} \subseteq RingNodes
  BY DEF RingNodes
<1> DEFINE way(angle, n) == (72 * (n - 1) - angle + 360) % 360
<1>4. \A angle, n : Clockwise(angle, n) = way(angle, n)
  BY DEF Clockwise, RingAngle
<1>5. CASE c = "a"
  <2>1. /\ ChunkAngleMap[c] = 54 /\ SampleChunks[c].primary = 2
        /\ SampleChunks[c].replicas = {3, 4}
    BY <1>5 DEF ChunkAngleMap, SampleChunks
  <2>2. /\ way(54, 1) = 306 /\ way(54, 2) = 18 /\ way(54, 3) = 90 /\ way(54, 4) = 162
        /\ way(54, 5) = 234
    OBVIOUS
  <2> HIDE DEF way
  <2> QED BY <1>2, <1>3, <1>4, <2>1, <2>2
<1>6. CASE c = "b"
  <2>1. /\ ChunkAngleMap[c] = 195 /\ SampleChunks[c].primary = 4
        /\ SampleChunks[c].replicas = {5, 1}
    BY <1>6 DEF ChunkAngleMap, SampleChunks
  <2>2. /\ way(195, 1) = 165 /\ way(195, 2) = 237 /\ way(195, 3) = 309 /\ way(195, 4) = 21
        /\ way(195, 5) = 93
    OBVIOUS
  <2> HIDE DEF way
  <2> QED BY <1>2, <1>3, <1>4, <2>1, <2>2
<1>7. CASE c = "c"
  <2>1. /\ ChunkAngleMap[c] = 345 /\ SampleChunks[c].primary = 1
        /\ SampleChunks[c].replicas = {2, 3}
    BY <1>7 DEF ChunkAngleMap, SampleChunks
  <2>2. /\ way(345, 1) = 15 /\ way(345, 2) = 87 /\ way(345, 3) = 159 /\ way(345, 4) = 231
        /\ way(345, 5) = 303
    OBVIOUS
  <2> HIDE DEF way
  <2> QED BY <1>2, <1>3, <1>4, <2>1, <2>2
<1>8. CASE c = "d"
  <2>1. /\ ChunkAngleMap[c] = 120 /\ SampleChunks[c].primary = 3
        /\ SampleChunks[c].replicas = {4, 5}
    BY <1>8 DEF ChunkAngleMap, SampleChunks
  <2>2. /\ way(120, 1) = 240 /\ way(120, 2) = 312 /\ way(120, 3) = 24 /\ way(120, 4) = 96
        /\ way(120, 5) = 168
    OBVIOUS
  <2> HIDE DEF way
  <2> QED BY <1>2, <1>3, <1>4, <2>1, <2>2
<1> QED BY <1>1, <1>5, <1>6, <1>7, <1>8

\* The table of the ring view is a placement the ring makes, whichever nodes
\* that it does not name are switched off; the copies of the vault leave the
\* hub together, wherever frames are skipped (ConsistentHashRing.tsx:17-60,
\* VaultRing3D.tsx:150-200).
THEOREM RingViewsAgree == SiteSpec => []RingViewsAreRight
<1>1. SiteInit => RingInv
  <2> SUFFICES ASSUME RingInit PROVE RingInv
    BY DEF SiteInit
  <2>1. /\ activeNodes = RingNodes /\ currentChunk = "a"
        /\ packet = Nowhere /\ replicaPackets = <<0, 0>>
    BY DEF RingInit
  <2> QED BY <2>1 DEF RingInv, CopiesLeaveTogether, Nowhere, ChunkAngleMap
<1>2. RingInv /\ [SiteNext]_siteVars => RingInv'
  BY RingKept, RingPart
<1>3. ASSUME RingInv PROVE RingViewsAreRight
  <2> DEFINE c == currentChunk
             angle == ChunkAngleMap[c]
             p == SampleChunks[c].primary
             holders == {p} \cup SampleChunks[c].replicas
  <2>1. c \in DOMAIN ChunkAngleMap
    BY <1>3 DEF RingInv
  <2>2. angle \in Nat /\ \A n \in RingNodes : Clockwise(angle, n) \in Int
    BY <2>1, RingTable
  <2>3. PICK q, r \in RingNodes :
          /\ SampleChunks[c].replicas = {q, r}
          /\ Clockwise(angle, p) < Clockwise(angle, q)
          /\ Clockwise(angle, q) < Clockwise(angle, r)
          /\ \A n \in RingNodes \ {p, q, r} : Clockwise(angle, r) < Clockwise(angle, n)
    BY <2>1, RingTable
  <2>4. holders = {p, q, r}
    BY <2>3
  <2>5. PlacementIsRing <=>
          (holders \subseteq activeNodes =>
             /\ holders = SuccessorsOn(angle, activeNodes)
             /\ \A n \in SampleChunks[c].replicas : Clockwise(angle, p) < Clockwise(angle, n)
             /\ \A n \in RingNodes : DrawnAs(n) \in {"primary", "replica"} <=> n \in holders)
    BY DEF PlacementIsRing, ShownPlacement
  <2>6. ASSUME holders \subseteq activeNodes
        PROVE  /\ holders = SuccessorsOn(angle, activeNodes)
               /\ \A n \in SampleChunks[c].replicas : Clockwise(angle, p) < Clockwise(angle, n)
    <3>1. activeNodes \in SUBSET RingNodes /\ p \in activeNodes /\ q \in activeNodes /\ r \in activeNodes
      BY <1>3, <2>4, <2>6 DEF RingInv
    <3> HIDE DEF c, angle, p, holders
    <3>2. SuccessorsOn(angle, activeNodes) = {p, q, r}
      BY <2>2, <2>3, <3>1, ThreeSuccessors
    <3>3. \A n \in {q, r} : Clockwise(angle, p) < Clockwise(angle, n)
      BY <2>2, <2>3, <3>1
    <3> QED BY <2>3, <2>4, <3>2, <3>3
  <2>7. \A n \in RingNodes : DrawnAs(n) \in {"primary", "replica"} <=> n \in holders
    BY DEF DrawnAs
  <2>8. PlacementIsRing
    BY <2>5, <2>6, <2>7
  <2> QED BY <1>3, <2>8 DEF RingInv, RingViewsAreRight
<1> QED BY <1>1, <1>2, <1>3, PTL DEF SiteSpec

-----------------------------------------------------------------------------
(* The calculators.  What they claim of three and five nodes is claimed of *)
(* finite sets: that some quorum is up, that every two meet, and that the   *)
(* sizes of chunks add up.                                                 *)

LEMMA LeastOf ==
  ASSUME NEW T \in SUBSET Nat, T # {}
  PROVE  \E n \in T : \A m \in T : n <= m
<1> DEFINE R == OpToRel(<, Nat)
<1>1. PICK n \in T : \A m \in T : <<m, n>> \notin R
  <2>1. IsWellFoundedOn(R, Nat)
    BY NatLessThanWellFounded
  <2> HIDE DEF R
  <2> QED BY <2>1, WFMin
<1>2. \A m \in T : ~(m < n)
  BY <1>1 DEF OpToRel
<1> QED BY <1>2

\* A set has subsets of every smaller size.
LEMMA SubsetOfSize ==
  ASSUME NEW S, IsFiniteSet(S), NEW k \in Nat, k <= Cardinality(S)
  PROVE  \E t \in SUBSET S : Cardinality(t) = k
<1> DEFINE sizes == {Cardinality(t) : t \in {u \in SUBSET S : Cardinality(u) >= k}}
<1>1. \A t \in SUBSET S : IsFiniteSet(t) /\ Cardinality(t) \in Nat
  BY FS_Subset, FS_CardinalityType
<1>2. PICK n \in sizes : \A m \in sizes : n <= m
  <2>1. sizes \in SUBSET Nat /\ sizes # {}
    BY <1>1
  <2> HIDE DEF sizes
  <2> QED BY <2>1, LeastOf
<1>3. PICK t \in SUBSET S : Cardinality(t) = n /\ n >= k
  BY <1>2
<1>4. ASSUME n # k PROVE FALSE
  <2>1. n \in Nat /\ n - 1 >= k /\ n >= 1
    BY <1>1, <1>3, <1>4
  <2>2. PICK x : x \in t
    BY <1>3, <2>1, FS_EmptySet
  <2>3. Cardinality(t \ {x}) = n - 1
    BY <1>1, <1>3, <2>2, FS_RemoveElement
  <2>4. n - 1 \in sizes
    BY <2>1, <2>3
  <2> HIDE DEF sizes
  <2>5. n <= n - 1
    BY <1>2, <2>4
  <2> QED BY <2>1, <2>5
<1> QED BY <1>3, <1>4

\* Some quorum avoids a node exactly when enough other nodes are left.
LEMMA QuorumIsUp ==
  ASSUME NEW S, IsFiniteSet(S), NEW q \in Nat, NEW down
  PROVE  Cardinality(S \ {down}) >= q <=> \E up \in kSubset(q, S) : down \notin up
<1>1. IsFiniteSet(S \ {down}) /\ Cardinality(S \ {down}) \in Nat
  BY FS_RemoveElement, FS_CardinalityType
<1>2. ASSUME Cardinality(S \ {down}) >= q
      PROVE  \E up \in kSubset(q, S) : down \notin up
  <2>1. PICK t \in SUBSET (S \ {down}) : Cardinality(t) = q
    BY <1>1, <1>2, SubsetOfSize
  <2>2. t \in kSubset(q, S)
    BY <2>1 DEF kSubset
  <2> QED BY <2>2
<1>3. ASSUME NEW up \in kSubset(q, S), down \notin up
      PROVE  Cardinality(S \ {down}) >= q
  <2>1. up \in SUBSET (S \ {down}) /\ Cardinality(up) = q
    BY <1>3 DEF kSubset
  <2>2. Cardinality(up) <= Cardinality(S \ {down})
    BY <1>1, <2>1, FS_Subset
  <2> QED BY <1>1, <2>1, <2>2
<1> QED BY <1>2, <1>3

\* Every two quorums meet exactly when their sizes exceed the number of nodes.
LEMMA QuorumsMeet ==
  ASSUME NEW S, IsFiniteSet(S), NEW w \in Nat, NEW r \in Nat
  PROVE  w + r > Cardinality(S) <=>
           \A ws \in kSubset(w, S), rs \in kSubset(r, S) : ws \cap rs # {}
<1> DEFINE n == Cardinality(S)
<1>1. n \in Nat
  BY FS_CardinalityType
<1>2. ASSUME w + r > n, NEW ws \in kSubset(w, S), NEW rs \in kSubset(r, S), ws \cap rs = {}
      PROVE  FALSE
  <2>1. ws \in SUBSET S /\ rs \in SUBSET S /\ Cardinality(ws) = w /\ Cardinality(rs) = r
    BY DEF kSubset
  <2>2. Cardinality(ws \cup rs) = w + r - Cardinality(ws \cap rs)
    BY <2>1, FS_Subset, FS_Union
  <2>3. Cardinality(ws \cap rs) = 0
    BY <1>2, FS_EmptySet
  <2>4. ws \cup rs \in SUBSET S
    BY <2>1
  <2>5. Cardinality(ws \cup rs) <= n
    BY <2>4, FS_Subset
  <2>6. w + r <= n
    BY <2>2, <2>3, <2>5
  <2> QED BY <1>1, <1>2, <2>6
<1>3. ASSUME ~(w + r > n)
      PROVE  \E ws \in kSubset(w, S), rs \in kSubset(r, S) : ws \cap rs = {}
  <2>1. w <= n /\ r <= n - w
    BY <1>1, <1>3
  <2>2. PICK ws \in SUBSET S : Cardinality(ws) = w
    BY <2>1, SubsetOfSize
  <2>3. S \cap ws = ws
    BY <2>2
  <2>4. IsFiniteSet(S \ ws) /\ Cardinality(S \ ws) = n - w
    BY <2>2, <2>3, FS_Difference
  <2>5. PICK rs \in SUBSET (S \ ws) : Cardinality(rs) = r
    BY <2>1, <2>4, SubsetOfSize
  <2>6. ws \in kSubset(w, S) /\ rs \in kSubset(r, S) /\ ws \cap rs = {}
    BY <2>2, <2>5 DEF kSubset
  <2> QED BY <2>6
<1> QED BY <1>2, <1>3

\* The function that SumFunctionOnSet iterates, on the subsets of S.
Summing(f, S, h) ==
  h = [s \in SUBSET S |-> IF s = {} THEN 0
                          ELSE f[CHOOSE x \in s : TRUE] + h[s \ {CHOOSE x \in s : TRUE}]]

\* g adds the value of each element that a set has.
Adds(f, S, g) ==
  /\ g \in [SUBSET S -> Nat]
  /\ g[{}] = 0
  /\ \A s \in SUBSET S : \A x \in s : g[s] = f[x] + g[s \ {x}]

LEMMA SumIs ==
  ASSUME NEW S, IsFiniteSet(S), NEW f, NEW g, Adds(f, S, g)
  PROVE  SumFunctionOnSet(f, S) = g[S]
<1> USE DEF Adds
<1> DEFINE h == CHOOSE i : Summing(f, S, i)
<1>1. SumFunctionOnSet(f, S) = h[S]
  BY DEF SumFunctionOnSet, FoldFunctionOnSet, MapThenFoldSet, Summing
<1>2. Summing(f, S, g)
  <2>1. \A s \in SUBSET S : s # {} =>
          g[s] = f[CHOOSE x \in s : TRUE] + g[s \ {CHOOSE x \in s : TRUE}]
    OBVIOUS
  <2>2. \A s \in SUBSET S :
          g[s] = IF s = {} THEN 0
                 ELSE f[CHOOSE x \in s : TRUE] + g[s \ {CHOOSE x \in s : TRUE}]
    BY <2>1
  <2>3. [s \in SUBSET S |-> g[s]] =
          [s \in SUBSET S |-> IF s = {} THEN 0
                ELSE f[CHOOSE x \in s : TRUE] + g[s \ {CHOOSE x \in s : TRUE}]]
    BY <2>2
  <2> QED BY <2>3, Zenon DEF Summing
<1>3. Summing(f, S, h)
  BY <1>2, Zenon
<1> HIDE DEF h
<1>4. ASSUME h[S] # g[S] PROVE FALSE
  <2> DEFINE differ == {s \in SUBSET S : h[s] # g[s]}
             sizes == {Cardinality(s) : s \in differ}
  <2>1. \A s \in SUBSET S : IsFiniteSet(s) /\ Cardinality(s) \in Nat
    BY FS_Subset, FS_CardinalityType
  <2>2. PICK n \in sizes : \A m \in sizes : n <= m
    <3>1. sizes \in SUBSET Nat
      BY <2>1
    <3>2. S \in differ
      BY <1>4
    <3>3. sizes # {}
      BY <3>2
    <3> HIDE DEF sizes
    <3> QED BY <3>1, <3>3, LeastOf
  <2>3. PICK s \in differ : Cardinality(s) = n
    BY <2>2
  <2>4. s # {}
    BY <1>3, <2>3 DEF Summing
  <2> DEFINE x == CHOOSE y \in s : TRUE
  <2>5. x \in s
    BY <2>4
  <2>6. h[s] = f[x] + h[s \ {x}]
    BY <1>3, <2>3, <2>4 DEF Summing
  <2> HIDE DEF x
  <2>7. h[s \ {x}] # g[s \ {x}]
    BY <2>3, <2>5, <2>6
  <2>8. s \ {x} \in differ
    BY <2>3, <2>7
  <2>9. Cardinality(s \ {x}) = n - 1
    BY <2>1, <2>3, <2>5, FS_RemoveElement
  <2>10. n - 1 \in sizes
    BY <2>8, <2>9
  <2>11. n <= n - 1 /\ n \in Nat
    <3>1. n \in Nat
      BY <2>1, <2>3
    <3> HIDE DEF sizes
    <3> QED BY <2>2, <2>10, <3>1
  <2> QED BY <2>11
<1> QED BY <1>1, <1>4
LabsStep == \/ SetQuorums \/ \E node \in QuorumNodes : ToggleNodeFail(node)
            \/ \E v \in BOOLEAN : UploadV2(v)
            \/ ResetUploads \/ \E edit \in BOOLEAN : HandleSecondUpload(edit)
            \/ ChooseCluster \/ \E t \in SdkTabs : SetSdkTab(t)
            \/ MountLabs

LEMMA LabsPart ==
  ASSUME [SiteNext]_siteVars
  PROVE  [LabsStep]_labsVars
<1>1. ASSUME NEW p, MountDemonstrations(p) PROVE LabsStep
  BY <1>1 DEF MountDemonstrations, LabsStep
<1>2. CASE \/ \E p \in Pages : Navigate(p)
           \/ SwitchDemonstration
  BY <1>1, <1>2 DEF Navigate, SwitchDemonstration
<1>3. CASE LabsRun
  BY <1>3 DEF LabsRun, LabsStep
<1>4. CASE \/ LockRuns \/ SwitchTab \/ FailureRuns \/ ErasureRuns \/ RingRuns \/ CanvasRuns
           \/ PipelineRuns \/ LabelsRun
  <2>1. UNCHANGED labsVars
    BY <1>4 DEF LockRuns, NotLock, SwitchTab, FailureRuns, NotFailure, ErasureRuns, NotErasure,
       RingRuns, NotRing, CanvasRuns, NotCanvas, PipelineRuns, NotPipeline, LabelsRun, NotLabels
  <2> QED BY <2>1
<1>5. CASE UNCHANGED siteVars
  BY <1>5 DEF siteVars
<1> QED
  BY <1>2, <1>3, <1>4, <1>5 DEF SiteNext

LEMMA LabsKept == LabsTypeOK /\ [LabsStep]_labsVars => LabsTypeOK'
<1> SUFFICES ASSUME LabsTypeOK, [LabsStep]_labsVars PROVE LabsTypeOK'
  OBVIOUS
<1> USE DEF LabsTypeOK, quorumVars, uploadVars, composeVars
<1>1. CASE SetQuorums
  BY <1>1 DEF SetQuorums
<1>2. ASSUME NEW node \in QuorumNodes, ToggleNodeFail(node) PROVE LabsTypeOK'
  BY <1>2 DEF ToggleNodeFail, QuorumNodes, QuorumN
<1>3. ASSUME NEW v \in BOOLEAN, UploadV2(v) PROVE LabsTypeOK'
  BY <1>3 DEF UploadV2
<1>4. CASE ResetUploads
  <2>1. hasEdit' \in BOOLEAN
    BY <1>4, Zenon DEF ResetUploads
  <2> QED BY <1>4, <2>1 DEF ResetUploads
<1>5. ASSUME NEW edit \in BOOLEAN, HandleSecondUpload(edit) PROVE LabsTypeOK'
  BY <1>5 DEF HandleSecondUpload
<1>6. CASE ChooseCluster
  BY <1>6 DEF ChooseCluster
<1>7. ASSUME NEW t \in SdkTabs, SetSdkTab(t) PROVE LabsTypeOK'
  BY <1>7 DEF SetSdkTab
<1>8. CASE MountLabs
  <2>1. hasUploadedV2' \in BOOLEAN /\ hasEdit' \in BOOLEAN /\ enableMTLS' \in BOOLEAN
    BY <1>8, Zenon DEF MountLabs
  <2> QED BY <1>8, <2>1 DEF MountLabs, SdkTabs
<1>9. CASE UNCHANGED labsVars
  BY <1>9 DEF labsVars
<1> QED
  BY <1>1, <1>2, <1>3, <1>4, <1>5, <1>6, <1>7, <1>8, <1>9 DEF LabsStep

LEMMA NodesUpTo ==
  ASSUME NEW n \in Nat \ {0}
  PROVE  /\ IsFiniteSet(1..n) /\ Cardinality(1..n) = n
         /\ \A down \in 1..n : Cardinality((1..n) \ {down}) = n - 1
<1>1. IsFiniteSet(1..n) /\ Cardinality(1..n) = n
  <2>1. Cardinality(1..n) = IF 1 > n THEN 0 ELSE n - 1 + 1
    BY FS_Interval
  <2> QED BY <2>1, FS_Interval
<1> QED BY <1>1, FS_RemoveElement

LEMMA QuorumsAreTold == LabsTypeOK => QuorumClaimsAreRight
<1> SUFFICES ASSUME LabsTypeOK PROVE QuorumClaimsAreRight
  OBVIOUS
<1> DEFINE nodes == 1..3
<1>1. /\ writeQuorum \in Nat /\ readQuorum \in Nat /\ failedNode \in 0..3
      /\ IsFiniteSet(nodes) /\ Cardinality(nodes) = 3
  <2>1. IsFiniteSet(nodes) /\ Cardinality(nodes) = 3
    <3>1. 3 \in Nat \ {0}
      OBVIOUS
    <3> QED BY <3>1, NodesUpTo, Zenon
  <2> QED BY <2>1 DEF LabsTypeOK
<1>2. QuorumNodes = nodes /\ QuorumN = 3
  BY DEF QuorumNodes, QuorumN
<1>3. Acks = nodes \ {failedNode}
  BY <1>2 DEF Acks
<1>4. QuorumBadges.achieved = (Cardinality(nodes \ {failedNode}) >= writeQuorum)
  BY <1>3 DEF QuorumBadges
<1>5. QuorumBadges.guaranteed = (writeQuorum + readQuorum > Cardinality(nodes))
  BY <1>1, <1>2 DEF QuorumBadges
<1> HIDE DEF nodes
<1>6. (Cardinality(nodes \ {failedNode}) >= writeQuorum)
        <=> \E ws \in kSubset(writeQuorum, nodes) : failedNode \notin ws
  BY <1>1, QuorumIsUp
<1>7. (writeQuorum + readQuorum > Cardinality(nodes))
        <=> \A ws \in kSubset(writeQuorum, nodes), rs \in kSubset(readQuorum, nodes) :
              ws \cap rs # {}
  BY <1>1, QuorumsMeet
<1> QED
  BY <1>2, <1>4, <1>5, <1>6, <1>7, Zenon DEF QuorumClaimsAreRight

\* A node that finds none of the names in its environment has the defaults.
LEMMA NothingIsSet ==
  ASSUME NEW env,
         "CLOUDWEAVE_PORT" \notin DOMAIN env, "CLOUDWEAVE_PEERS" \notin DOMAIN env,
         "CLOUDWEAVE_N" \notin DOMAIN env, "CLOUDWEAVE_STORAGE_MODE" \notin DOMAIN env,
         "CLOUDWEAVE_TLS_CERT" \notin DOMAIN env
  PROVE  LET node == NodeSettings(env)
         IN /\ node.peers = {} /\ node.n = 1 /\ node.w = 1 /\ node.r = 1
            /\ node.mode = "replication" /\ ~node.tls
            /\ node.port = 9000
<1>1. NodeSettings(env).port = 9000
  BY DEF NodeSettings
<1>2. NodeSettings(env).peers = {}
  BY DEF NodeSettings
<1>3. NodeSettings(env).n = 1
  BY DEF NodeSettings
<1>4. NodeSettings(env).w = 1 /\ NodeSettings(env).r = 1
  BY DEF NodeSettings
<1>5. NodeSettings(env).mode = "replication"
  BY DEF NodeSettings
<1>6. ~NodeSettings(env).tls
  BY DEF NodeSettings
<1> QED BY <1>1, <1>2, <1>3, <1>4, <1>5, <1>6

LEMMA ComposeIsTold == LabsTypeOK => ComposeNodesStandAlone
<1> SUFFICES ASSUME LabsTypeOK, NEW i \in 1..clusterSize
             PROVE  LET file == GenerateCompose(i)
                        node == NodeSettings(file)
                    IN /\ clusterSize > 1 =>
                            /\ \A down \in file.PEERS : \A q \in {file.QUORUM_W, file.QUORUM_R} :
                                   \E up \in kSubset(q, file.PEERS) : down \notin up
                            /\ \A ws \in kSubset(file.QUORUM_W, file.PEERS),
                                  rs \in kSubset(file.QUORUM_R, file.PEERS) : ws \cap rs # {}
                       /\ node.peers = {} /\ node.n = 1 /\ node.w = 1 /\ node.r = 1
                       /\ node.mode = "replication" /\ ~node.tls
                       /\ node.port = file.PORT <=> i = 1
  BY Zenon DEF ComposeNodesStandAlone
<1> DEFINE file == GenerateCompose(i)
           node == NodeSettings(file)
           N == clusterSize
           W == file.QUORUM_W
           R == file.QUORUM_R
<1>1. clusterSize \in {1, 3, 5}
  BY DEF LabsTypeOK
<1>2. ASSUME clusterSize > 1
      PROVE  /\ \A down \in file.PEERS : \A q \in {W, R} :
                    \E up \in kSubset(q, file.PEERS) : down \notin up
             /\ \A ws \in kSubset(W, file.PEERS), rs \in kSubset(R, file.PEERS) : ws \cap rs # {}
  <2>1. /\ N \in Nat \ {0} /\ W \in Nat /\ R \in Nat
        /\ W + R > N /\ W <= N - 1 /\ R <= N - 1
    BY <1>1, <1>2 DEF GenerateCompose
  <2>2. file.PEERS = 1..N
    BY <1>1, <1>2 DEF GenerateCompose
  <2>3. /\ IsFiniteSet(1..N) /\ Cardinality(1..N) = N
        /\ \A down \in 1..N : Cardinality((1..N) \ {down}) = N - 1
    BY <2>1, NodesUpTo
  <2> HIDE DEF W, R, file
  <2>4. ASSUME NEW down \in 1..N, NEW q \in {W, R}
        PROVE  \E up \in kSubset(q, 1..N) : down \notin up
    <3>1. q \in Nat /\ Cardinality((1..N) \ {down}) >= q
      BY <2>1, <2>3
    <3> QED BY <2>3, <3>1, QuorumIsUp
  <2>5. \A ws \in kSubset(W, 1..N), rs \in kSubset(R, 1..N) : ws \cap rs # {}
    BY <2>1, <2>3, QuorumsMeet
  <2> QED BY <2>2, <2>4, <2>5
<1>3. /\ "CLOUDWEAVE_PORT" \notin DOMAIN file /\ "CLOUDWEAVE_PEERS" \notin DOMAIN file
      /\ "CLOUDWEAVE_N" \notin DOMAIN file /\ "CLOUDWEAVE_STORAGE_MODE" \notin DOMAIN file
      /\ "CLOUDWEAVE_TLS_CERT" \notin DOMAIN file
  BY <1>1 DEF GenerateCompose
<1>4. file.PORT = 8999 + i
  BY <1>1 DEF GenerateCompose
<1> HIDE DEF file
<1>5. /\ node.peers = {} /\ node.n = 1 /\ node.w = 1 /\ node.r = 1
      /\ node.mode = "replication" /\ ~node.tls
      /\ node.port = 9000
  BY <1>3, NothingIsSet
<1> HIDE DEF node
<1>6. node.port = file.PORT <=> i = 1
  BY <1>1, <1>4, <1>5
<1> QED BY <1>2, <1>5, <1>6 DEF file, node

LEMMA FourOf ==
  ASSUME NEW x, NEW y, NEW z, NEW u, x # y, x # z, y # z, u \notin {x, y, z}
  PROVE  IsFiniteSet({x, y, z, u}) /\ Cardinality({x, y, z, u}) = 4
<1>1. IsFiniteSet({x, y, z}) /\ Cardinality({x, y, z}) = 3
  BY ThreeOf
<1>2. {x, y, z} \cup {u} = {x, y, z, u}
  OBVIOUS
<1> QED BY <1>1, <1>2, FS_AddElement

\* The sizes of chunks of the playground, and of the canvas.
UploadSum(s) == (IF "A" \in s THEN 12 ELSE 0) + (IF "B" \in s THEN 18 ELSE 0)
                  + (IF "C" \in s THEN 9 ELSE 0) + (IF "D" \in s THEN 21 ELSE 0)
                  + (IF "B2" \in s THEN 18 ELSE 0)
CanvasSum(s) == (IF "A" \in s THEN 16 ELSE 0) + (IF "B" \in s THEN 64 ELSE 0)
                  + (IF "C" \in s THEN 32 ELSE 0) + (IF "D" \in s THEN 48 ELSE 0)
                  + (IF "B2" \in s THEN 64 ELSE 0)
FiveChunks == {"A", "B", "C", "D", "B2"}

LEMMA ChunksFinite == ASSUME NEW s \in SUBSET FiveChunks PROVE IsFiniteSet(s)
<1>1. IsFiniteSet({"A", "B", "C", "D"} \cup {"B2"})
  BY FourOf, FS_AddElement
<1>2. {"A", "B", "C", "D"} \cup {"B2"} = FiveChunks
  BY DEF FiveChunks
<1> QED BY <1>1, <1>2, FS_Subset

LEMMA UploadSums ==
  ASSUME NEW S \in SUBSET FiveChunks
  PROVE  SumFunctionOnSet(UploadSize, S) = UploadSum(S)
<1> DEFINE g == [s \in SUBSET S |-> UploadSum(s)]
<1>1. UploadSize = [c \in FiveChunks |-> CASE c = "A" -> 12 [] c = "B" -> 18 [] c = "C" -> 9
                                           [] c = "D" -> 21 [] c = "B2" -> 18]
  BY DEF UploadSize, Original, UploadChunks, FiveChunks
<1>2. g \in [SUBSET S -> Nat] /\ g[{}] = 0 /\ g[S] = UploadSum(S)
  BY DEF UploadSum
<1>3. ASSUME NEW s \in SUBSET S, NEW x \in s PROVE g[s] = UploadSize[x] + g[s \ {x}]
  <2>1. UploadSum(s) = UploadSize[x] + UploadSum(s \ {x})
    BY <1>1 DEF UploadSum, FiveChunks
  <2> QED BY <2>1
<1> HIDE DEF g
<1>4. Adds(UploadSize, S, g)
  BY <1>2, <1>3 DEF Adds
<1> QED BY <1>2, <1>4, ChunksFinite, SumIs

LEMMA CanvasSums ==
  ASSUME NEW S \in SUBSET FiveChunks
  PROVE  SumFunctionOnSet(CanvasSize, S) = CanvasSum(S)
<1> DEFINE g == [s \in SUBSET S |-> CanvasSum(s)]
<1>1. CanvasSize = [c \in FiveChunks |-> CASE c = "A" -> 16 [] c = "B" -> 64 [] c = "C" -> 32
                                           [] c = "D" -> 48 [] c = "B2" -> 64]
  BY DEF CanvasSize, ChunksV1, ChunksV2, FiveChunks
<1>2. g \in [SUBSET S -> Nat] /\ g[{}] = 0 /\ g[S] = CanvasSum(S)
  BY DEF CanvasSum
<1>3. ASSUME NEW s \in SUBSET S, NEW x \in s PROVE g[s] = CanvasSize[x] + g[s \ {x}]
  <2>1. CanvasSum(s) = CanvasSize[x] + CanvasSum(s \ {x})
    BY <1>1 DEF CanvasSum, FiveChunks
  <2> QED BY <2>1
<1> HIDE DEF g
<1>4. Adds(CanvasSize, S, g)
  BY <1>2, <1>3 DEF Adds
<1> QED BY <1>2, <1>4, ChunksFinite, SumIs

LEMMA FiguresAreTold == LabsTypeOK => DedupFiguresFollow
<1> SUFFICES ASSUME LabsTypeOK PROVE DedupFiguresFollow
  OBVIOUS
<1> DEFINE hits == DOMAIN ChunksV2 \cap DOMAIN ChunksV1
           shown == IF hasUploadedV2 THEN DOMAIN ChunksV2 ELSE {}
           again == IF uploadCount = 2 THEN Again ELSE {}
           f == UploadFigures
<1>1. DOMAIN ChunksV1 = {"A", "B", "C", "D"} /\ DOMAIN ChunksV2 = {"A", "B2", "C", "D"}
  BY DEF ChunksV1, ChunksV2
<1>2. Original = {"A", "B", "C", "D"} /\ DOMAIN UploadChunks = {"A", "B", "C", "D"}
  BY DEF Original, UploadChunks
<1>3. hasUploadedV2 \in BOOLEAN /\ hasEdit \in BOOLEAN /\ uploadCount \in {1, 2}
  BY DEF LabsTypeOK
<1>4. /\ DedupStrip.physical = SumFunctionOnSet(CanvasSize, DOMAIN ChunksV1 \cup shown)
      /\ DedupStrip.logical =
           SumFunctionOnSet(CanvasSize, DOMAIN ChunksV1) + SumFunctionOnSet(CanvasSize, shown)
  <2>1. {DOMAIN ChunksV1, shown, DOMAIN ChunksV1 \cup shown} \subseteq SUBSET FiveChunks
    BY <1>1 DEF FiveChunks
  <2>2. /\ CanvasSum(DOMAIN ChunksV1 \cup shown) = DedupStrip.physical
        /\ CanvasSum(DOMAIN ChunksV1) + CanvasSum(shown) = DedupStrip.logical
    BY <1>1, <1>3 DEF CanvasSum, DedupStrip
  <2> HIDE DEF shown
  <2> QED BY <2>1, <2>2, CanvasSums
<1>5. hits = {c \in DOMAIN ChunksV2 : ChunksV2[c].reused}
  BY <1>1 DEF ChunksV2
<1>6. again = IF uploadCount = 1 THEN {}
              ELSE IF hasEdit THEN {"A", "C", "D", "B2"} ELSE {"A", "B", "C", "D"}
  BY <1>2, <1>3 DEF Again
<1> HIDE DEF again
<1>7. f.physical = SumFunctionOnSet(UploadSize, Original \cup again)
  <2>1. Original \cup again \in SUBSET FiveChunks
    BY <1>2, <1>6 DEF FiveChunks
  <2>2. UploadSum(Original \cup again) = f.physical
    BY <1>2, <1>3, <1>6 DEF UploadSum, UploadFigures
  <2> QED BY <2>1, <2>2, UploadSums
<1>8. f.logical = SumFunctionOnSet(UploadSize, Original) + SumFunctionOnSet(UploadSize, again)
  <2>1. Original \in SUBSET FiveChunks /\ again \in SUBSET FiveChunks
    BY <1>2, <1>6 DEF FiveChunks
  <2>2. UploadSum(Original) + UploadSum(again) = f.logical
    BY <1>2, <1>3, <1>6 DEF UploadSum, UploadFigures
  <2> QED BY <2>1, <2>2, UploadSums
<1>9. /\ Cardinality({}) = 0 /\ Cardinality({"B2"}) = 1
      /\ Cardinality({"A", "C", "D"}) = 3 /\ Cardinality({"A", "B", "C", "D"}) = 4
  <2>1. Cardinality({}) = 0 /\ Cardinality({"B2"}) = 1
    BY FS_EmptySet, FS_Singleton
  <2>2. Cardinality({"A", "C", "D"}) = 3
    BY ThreeOf
  <2>3. Cardinality({"A", "B", "C", "D"}) = 4
    BY FourOf
  <2> QED BY <2>1, <2>2, <2>3
<1>10. f.reused = Cardinality(again \cap Original)
  <2>1. again \cap Original = IF uploadCount = 1 THEN {}
                              ELSE IF hasEdit THEN {"A", "C", "D"} ELSE {"A", "B", "C", "D"}
    BY <1>2, <1>6
  <2>2. f.reused = IF uploadCount = 1 THEN 0 ELSE IF hasEdit THEN 3 ELSE 4
    BY <1>3 DEF UploadFigures
  <2> QED BY <1>9, <2>1, <2>2
<1>11. f.reused = Cardinality(MatchedCards)
  <2>1. MatchedCards = again \cap Original
    BY <1>2, <1>3, <1>6 DEF MatchedCards
  <2> QED BY <1>10, <2>1
<1>12. uploadCount = 2 => f.new = Cardinality(again \ Original)
  <2>1. uploadCount = 2 => again \ Original = IF hasEdit THEN {"B2"} ELSE {}
    BY <1>2, <1>6
  <2>2. uploadCount = 2 => f.new = IF hasEdit THEN 1 ELSE 0
    BY <1>3 DEF UploadFigures
  <2> QED BY <1>9, <2>1, <2>2
<1>13. /\ Cardinality(DOMAIN ChunksV2) = 4 /\ Cardinality(hits) = 3
       /\ SumFunctionOnSet(CanvasSize, DOMAIN ChunksV2) = 160
       /\ SumFunctionOnSet(CanvasSize, hits) = 96
  <2>1. DOMAIN ChunksV2 = {"A", "B2", "C", "D"} /\ hits = {"A", "C", "D"}
    BY <1>1
  <2>2. Cardinality({"A", "B2", "C", "D"}) = 4
    BY FourOf
  <2>3. {"A", "B2", "C", "D"} \in SUBSET FiveChunks /\ {"A", "C", "D"} \in SUBSET FiveChunks
    BY DEF FiveChunks
  <2>4. CanvasSum({"A", "B2", "C", "D"}) = 160 /\ CanvasSum({"A", "C", "D"}) = 96
    BY DEF CanvasSum
  <2> QED BY <1>9, <2>1, <2>2, <2>3, <2>4, CanvasSums
<1>14. hasUploadedV2 =>
         /\ DedupStrip.saved * Cardinality(DOMAIN ChunksV2) = 100 * Cardinality(hits)
         /\ DedupStrip.saved * SumFunctionOnSet(CanvasSize, DOMAIN ChunksV2)
              > 100 * SumFunctionOnSet(CanvasSize, hits)
         /\ DedupStrip.saved * DedupStrip.logical
              > 100 * (DedupStrip.logical - DedupStrip.physical)
  <2>1. hasUploadedV2 => /\ DedupStrip.saved = 75
                         /\ DedupStrip.logical = 320 /\ DedupStrip.physical = 224
    BY DEF DedupStrip
  <2> QED BY <1>13, <2>1
<1> HIDE DEF hits, shown, f
<1> QED
  BY <1>4, <1>5, <1>7, <1>8, <1>10, <1>11, <1>12, <1>14
     DEF DedupFiguresFollow, hits, shown, again, f

\* Whatever is chosen, failed, uploaded and reset, and wherever the visitor goes
\* in between: the quorum badges claim what holds of sets of nodes; the figures of
\* both deduplication demonstrations are sums over their chunks, and the saving of
\* the canvas counts chunks, of which it claims more than of bytes; the generated
\* file starts nodes that stand alone (QuorumVisualizer.tsx, DedupCanvas.tsx,
\* DeduplicationPlayground.tsx, GetStartedView.tsx, cmd/node/main.go).
THEOREM CalculatorsTold == SiteSpec => []CalculatorsTell
<1>1. SiteInit => LabsTypeOK
  <2> SUFFICES ASSUME LabsInit PROVE LabsTypeOK
    BY DEF SiteInit
  <2>1. hasUploadedV2 \in BOOLEAN /\ hasEdit \in BOOLEAN /\ enableMTLS \in BOOLEAN
    BY Zenon DEF LabsInit
  <2> QED BY <2>1 DEF LabsInit, LabsTypeOK, SdkTabs
<1>2. LabsTypeOK /\ [SiteNext]_siteVars => LabsTypeOK'
  BY LabsPart, LabsKept
<1>3. LabsTypeOK => CalculatorsTell
  BY QuorumsAreTold, FiguresAreTold, ComposeIsTold DEF CalculatorsTell
<1> QED BY <1>1, <1>2, <1>3, PTL DEF SiteSpec
=============================================================================
