-------------------------------- MODULE Site --------------------------------
(***************************************************************************)
(* The documentation site: one page is shown at a time, and only what it   *)
(* mounts does anything.  Going to a page mounts its components in their   *)
(* initial state.  Components that no route mounts are pages of their own. *)
(*                                                                         *)
(* What outlives a page is the cursor of the document, and the timeouts    *)
(* that a component armed and no longer sees.                              *)
(***************************************************************************)
EXTENDS FailureDemo, ErasureLab, PipelineScenes, SystemCanvas, RingViews,
        VaultLock, CopyLabels, Labs, PlaygroundShell

VARIABLE page

siteVars == <<page, shellVars, failureVars, labVars, pipelineVars, canvasVars,
              ringVars, lockVars, labelVars, labsVars>>

\* The routes that mount a component with state, and the components that no
\* route mounts.
Routes == {"landing", "howItWorks", "playground", "benchmarks", "docs"}
Unrouted == {"MasterSystemCanvas", "FailureCanvas", "FailureRecoverySimulator",
             "ErasureCanvas", "ErasureCodingPlayground", "ConsistentHashRing",
             "QuorumVisualizer", "DeduplicationPlayground", "GetStartedView"}
Pages == Routes \cup Unrouted

Shows(experiment) == page = "playground" /\ shownExperiment = experiment

\* Which of the demonstrations a module describes a page mounts.
DemoOn(p) == CASE p = "FailureCanvas" -> "canvas"
               [] p = "FailureRecoverySimulator" -> "simulator"
               [] OTHER -> "scene"
LabOn(p) == CASE p = "ErasureCanvas" -> "canvas"
              [] p = "ErasureCodingPlayground" -> "playground"
              [] OTHER -> "scene"
RingOn(p) == IF p = "ConsistentHashRing" THEN "ring" ELSE "vault"

-----------------------------------------------------------------------------
SiteInit ==
    /\ page = "docs"
    /\ ShellInit /\ FailureInit /\ ErasureLabInit /\ PipelineInit /\ CanvasInit
    /\ RingInit /\ LockInit /\ LabelInit /\ LabsInit
    /\ demo = "scene" /\ lab = "scene" /\ ringView = "vault"
    /\ reducedMotion = FALSE /\ stillView = FALSE

\* The demonstrations of the playground, mounted anew.
MountDemonstrations(p) ==
    /\ MountDemo(DemoOn(p)) /\ MountLab(LabOn(p)) /\ MountRing(RingOn(p))
    /\ stillView' = FALSE
    /\ MountLabs

\* A link to the page that is shown mounts nothing.  The components without a
\* route are gone to from "docs".
Navigate(p) ==
    /\ p # page /\ (p \in Unrouted => page = "docs")
    /\ page' = p
    /\ MountShell
    /\ MountDemonstrations(p)
    /\ MountPipeline /\ (p # "howItWorks" => reducedMotion' = FALSE)
    /\ MountCanvas
    /\ MountLock(p = "landing")
    /\ DropLabels(CopyButtons)

-----------------------------------------------------------------------------
(* What a mounted component does. *)

NotFailure  == <<page, shellVars, labVars, pipelineVars, canvasVars, ringVars,
                 lockVars, labelVars, labsVars>>
NotErasure  == <<page, shellVars, failureVars, pipelineVars, canvasVars, ringVars,
                 lockVars, labelVars, labsVars>>
NotRing     == <<page, shellVars, failureVars, labVars, pipelineVars, canvasVars,
                 lockVars, labelVars, labsVars>>
NotLabs     == <<page, shellVars, failureVars, labVars, pipelineVars, canvasVars,
                 ringVars, lockVars>>
NotCanvas   == <<page, shellVars, failureVars, labVars, pipelineVars, ringVars,
                 lockVars, labelVars, labsVars>>
NotPipeline == <<page, shellVars, failureVars, labVars, canvasVars, ringVars,
                 lockVars, labsVars>>
NotLock     == <<page, shellVars, failureVars, labVars, pipelineVars, canvasVars,
                 ringVars, labelVars, labsVars>>
NotLabels   == <<page, shellVars, failureVars, labVars, pipelineVars, canvasVars,
                 ringVars, lockVars, labsVars>>

FailureRuns ==
    /\ Shows("failure") \/ page \in {"FailureCanvas", "FailureRecoverySimulator"}
    /\ FailureNext
    /\ UNCHANGED NotFailure

ErasureRuns ==
    /\ Shows("erasure") \/ page \in {"ErasureCanvas", "ErasureCodingPlayground"}
    /\ ErasureLabNext
    /\ UNCHANGED NotErasure

RingRuns ==
    /\ Shows("pipeline") \/ page = "ConsistentHashRing"
    /\ RingNext
    /\ UNCHANGED NotRing

LabsRun ==
    /\ \/ /\ page = "QuorumVisualizer"
          /\ SetQuorums \/ \E node \in QuorumNodes : ToggleNodeFail(node)
       \/ /\ Shows("dedup")
          /\ \E v \in BOOLEAN : UploadV2(v)
       \/ /\ page = "DeduplicationPlayground"
          /\ ResetUploads \/ \E edit \in BOOLEAN : HandleSecondUpload(edit)
       \/ /\ page = "GetStartedView"
          /\ ChooseCluster \/ \E t \in SdkTabs : SetSdkTab(t)
    \* Each of these tabs has a code block of its own.
    /\ IF sdkTab' = sdkTab THEN UNCHANGED labelVars ELSE DropLabels({"sdk"})
    /\ UNCHANGED NotLabs

CanvasRuns ==
    /\ page = "MasterSystemCanvas"
    /\ CanvasNext
    /\ UNCHANGED NotCanvas

\* The code block of the page goes with showCode; the code of another stage is
\* shown by the same one.
PipelineRuns ==
    /\ page = "howItWorks"
    /\ PipelineNext
    /\ IF showCode' = showCode THEN UNCHANGED labelVars ELSE DropLabels({"code"})
    /\ UNCHANGED NotPipeline

\* Taking down a scene that has gone is not bound to a page.
LockRuns ==
    /\ \/ page = "landing" /\ (LockClick \/ DialRuns)
       \/ TakeDown
    /\ UNCHANGED NotLock

LabelsRun ==
    /\ \/ /\ page \in {"docs", "benchmarks", "GetStartedView"} \/ (page = "howItWorks" /\ showCode)
          /\ HandleCopy("code")
       \/ page = "GetStartedView" /\ (HandleCopy("sdk") \/ HandleCopyOneLiner)
       \/ page = "landing" /\ LockPanel = "install" /\ CopyInstall
       \/ page = "benchmarks" /\ CopyBenchCmd
       \/ \E b \in CopyButtons : LabelTimeout(b)
    /\ UNCHANGED NotLabels

SwitchTab ==
    /\ page = "playground"
    /\ \E e \in Experiments : SetActiveExperiment(e)
    /\ UNCHANGED <<page, failureVars, labVars, pipelineVars, canvasVars, ringVars,
                   lockVars, labelVars, labsVars>>

\* The demonstration that has faded out is unmounted, the next one mounted.
SwitchDemonstration ==
    /\ page = "playground"
    /\ ExitEnds
    /\ MountDemonstrations(page)
    /\ UNCHANGED <<page, pipelineVars, canvasVars, lockVars, labelVars>>

\* A scene of the dial that has gone is taken down before anything but the
\* landing page does something; nothing else reads what this changes.
SiteNext ==
    \/ \E p \in Pages : Navigate(p)
    \/ LockRuns
    \/ /\ ~takeDown
       /\ \/ SwitchTab
          \/ SwitchDemonstration
          \/ FailureRuns
          \/ ErasureRuns
          \/ RingRuns
          \/ LabsRun
          \/ CanvasRuns
          \/ PipelineRuns
          \/ LabelsRun

\* What the browser and React do by themselves on the page that is shown:
\* timeouts fire, effects run, what was asked for is rendered, animations end,
\* the dial is drawn frame by frame.  Visitors need not do anything.
SiteFairness ==
    /\ WF_siteVars(Fire /\ UNCHANGED NotFailure)
    /\ WF_siteVars(Reconstructed /\ UNCHANGED NotErasure)
    /\ \A b \in CopyButtons : WF_siteVars(LabelTimeout(b) /\ UNCHANGED NotLabels)
    /\ WF_siteVars(SwitchDemonstration)
    /\ WF_siteVars(page = "howItWorks" /\ RenderCaption /\ UNCHANGED <<labelVars, NotPipeline>>)
    /\ WF_siteVars(page = "MasterSystemCanvas" /\ RunEffect /\ UNCHANGED NotCanvas)
    /\ \A id \in {0, 1} :
         WF_siteVars(page = "MasterSystemCanvas" /\ AutoStep(id) /\ UNCHANGED NotCanvas)
    /\ WF_siteVars(page = "landing" /\ RunHoverEffect /\ UNCHANGED NotLock)
    /\ WF_siteVars(page = "landing" /\ RunLockEffect /\ UNCHANGED NotLock)
    /\ WF_siteVars(page = "landing" /\ LockFrame /\ UNCHANGED NotLock)
    /\ WF_siteVars(TakeDown /\ UNCHANGED NotLock)

SiteSpec == SiteInit /\ [][SiteNext]_siteVars /\ SiteFairness

-----------------------------------------------------------------------------
(* What holds of the site as a whole; the modules of its parts state the rest. *)

SiteTypeOK ==
    /\ page \in Pages
    /\ ShellTypeOK /\ FailureTypeOK /\ ErasureLabTypeOK /\ PipelineTypeOK
    /\ CanvasTypeOK /\ RingTypeOK /\ LockTypeOK /\ LabelTypeOK /\ LabsTypeOK

\* Whatever is clicked meanwhile, what a visitor starts comes to its end, or to
\* that of its page: a failure, a reconstruction, a caption, the cursor of the
\* dial, the dial itself and a change of tabs.
WhatIsStartedEnds ==
    /\ KillIsPlayedOut
    /\ ReconstructionEnds
    /\ CaptionIsRendered
    /\ CursorIsGivenBack
    /\ DialSettles
    /\ TabIsShown

\* Whoever stays on the page of the system canvas, lets it play and touches
\* nothing sees the steps begin anew again and again.
LeftAloneItPlays ==
    (/\ <>[](page = "MasterSystemCanvas" /\ isPlaying)
     /\ <>[][PlaysByItself]_canvasVars)
        => []<>(step = 1)
=============================================================================
