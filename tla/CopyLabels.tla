----------------------------- MODULE CopyLabels -----------------------------
(***************************************************************************)
(* The copy buttons of the documentation site.  Four components hold one:  *)
(* the code block ("code", and "sdk" for a second one on a page), the      *)
(* install command of the landing page, the one-liner of the start page    *)
(* and the benchmark command.  A click writes the clipboard, which nothing *)
(* reads and is left out, shows "Copied" whether or not the write          *)
(* succeeds, and arms a timeout that takes the label away.  No timeout is  *)
(* ever cleared: several may be pending, and the first one takes away the  *)
(* label of a later click.                                                 *)
(***************************************************************************)
EXTENDS Naturals

CONSTANT MaxLabelTimers     \* bound: timeouts of one button pending at a time

ASSUME MaxLabelTimersAssumption == MaxLabelTimers \in Nat

VARIABLES
    copied,         \* the buttons that show "Copied"
    labelTimers     \* how many timeouts of a button are pending

labelVars == <<copied, labelTimers>>

CopyBlocks == {"code", "sdk"}
CopyButtons == CopyBlocks \cup {"install", "oneLiner", "bench"}

LabelInit == copied = {} /\ labelTimers = [b \in CopyButtons |-> 0]

\* The components that hold these buttons are unmounted, or mounted anew; what
\* they have pending no longer changes anything.
DropLabels(buttons) ==
    /\ copied' = copied \ buttons
    /\ labelTimers' = [b \in CopyButtons |-> IF b \in buttons THEN 0 ELSE labelTimers[b]]

\* Variant: a click arms no timeout.
ClickCopyUntimed(b) ==
    /\ labelTimers[b] < MaxLabelTimers
    /\ copied' = copied \cup {b}
    /\ UNCHANGED labelTimers

ClickCopy(b) ==
    /\ labelTimers[b] < MaxLabelTimers
    /\ copied' = copied \cup {b}
    /\ labelTimers' = [labelTimers EXCEPT ![b] = @ + 1]

\* The handlers.
HandleCopy(block) == ClickCopy(block)
CopyInstall == ClickCopy("install")
HandleCopyOneLiner == ClickCopy("oneLiner")
CopyBenchCmd == ClickCopy("bench")

\* A timeout fires: the label goes, whichever click it was armed by.
LabelTimeout(b) ==
    /\ labelTimers[b] > 0
    /\ copied' = copied \ {b}
    /\ labelTimers' = [labelTimers EXCEPT ![b] = @ - 1]

-----------------------------------------------------------------------------
LabelTypeOK ==
    /\ copied \subseteq CopyButtons
    /\ labelTimers \in [CopyButtons -> 0..MaxLabelTimers]

\* However clicks and timeouts overlap, a label that is shown has a timeout
\* that takes it away, unless its component has gone.
LabelIsTimed == \A b \in copied : labelTimers[b] > 0
=============================================================================
