--------------------------- MODULE PlaygroundShell ---------------------------
(***************************************************************************)
(* The playground page: a row of tabs and one demonstration at a time.     *)
(* AnimatePresence in its mode "wait" lets the demonstration that was      *)
(* deselected fade out, mounted and open to clicks, before it mounts the   *)
(* one that is selected by then.  Selecting it again before it has gone    *)
(* brings it back as it is.                                                *)
(***************************************************************************)

VARIABLES
    activeExperiment,   \* the tab that is selected
    shownExperiment     \* the demonstration that is mounted

shellVars == <<activeExperiment, shownExperiment>>

Experiments == {"pipeline", "failure", "dedup", "erasure"}

ShellInit == activeExperiment = "pipeline" /\ shownExperiment = "pipeline"

MountShell == activeExperiment' = "pipeline" /\ shownExperiment' = "pipeline"

SetActiveExperiment(e) ==
    /\ activeExperiment' = e
    /\ UNCHANGED shownExperiment

\* The exit animation has ended: the key of the child is the tab's.
ExitEnds ==
    /\ shownExperiment # activeExperiment
    /\ shownExperiment' = activeExperiment
    /\ UNCHANGED activeExperiment

-----------------------------------------------------------------------------
ShellTypeOK == activeExperiment \in Experiments /\ shownExperiment \in Experiments

\* However the tabs are clicked, time and again the demonstration that is
\* mounted is the one whose tab is selected.
TabIsShown == []<>(shownExperiment = activeExperiment)
=============================================================================
