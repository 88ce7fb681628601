------------------------------ MODULE VaultLock ------------------------------
(***************************************************************************)
(* The vault dial at the end of the landing page (FullBleedVaultLock3D)    *)
(* and the panel below it (LandingPage).  A click locks the dial or opens  *)
(* it; bolts and crossbar follow frame by frame and a ring flashes.  With  *)
(* reduced motion a button takes the place of the scene.                   *)
(*                                                                         *)
(* The pointer over the dial changes the cursor of the whole document: an  *)
(* effect sets it after the render and takes it back when the scene goes,  *)
(* and the renderer takes a scene down some time after the page has.       *)
(*                                                                         *)
(* The damped values have three positions: at rest when open, on the way,  *)
(* at rest when locked; the flash is lit or not.                           *)
(***************************************************************************)
EXTENDS Naturals

VARIABLES
    locked,         \* isCtaVaultLocked
    stillLock,      \* prefersReducedMotion
    dialShown,      \* the scene is mounted
    hovered,
    hoverEffect,    \* hovered was rendered and the effect has yet to run
    lockEffect,     \* the same for the effect on isLocked
    takeDown,       \* the scene has gone and its cleanup has yet to run
    bodyCursor,     \* document.body.style.cursor
    dial, bolts,    \* currentAngle, bolt positions: 0 open, 2 locked
    flash           \* flashIntensity

lockVars == <<locked, stillLock, dialShown, hovered, hoverEffect, lockEffect,
              takeDown, bodyCursor, dial, bolts, flash>>

\* The panel below the dial: the install command with its copy button when
\* the dial is locked, a button that locks it when it is not.
LockPanel == IF locked THEN "install" ELSE "lockButton"

\* What the dial says and the cursor it asks for.
DialView ==
    [says   |-> CASE locked -> "CLUSTER LOCKED"
                  [] ~locked /\ hovered -> "CLICK TO ENGAGE LOCK"
                  [] OTHER -> "UNLOCKED",
     cursor |-> IF hovered THEN "pointer" ELSE "auto"]

-----------------------------------------------------------------------------
(* Mounting and unmounting the scene. *)

\* The objects of a new scene are in their open position, also when locked.
FreshDial ==
    /\ hovered' = FALSE /\ hoverEffect' = dialShown' /\ lockEffect' = dialShown'
    /\ dial' = 0 /\ bolts' = 0 /\ flash' = 0

LockInit ==
    /\ locked = FALSE /\ stillLock = FALSE /\ dialShown = FALSE
    /\ hovered = FALSE /\ hoverEffect = FALSE /\ lockEffect = FALSE
    /\ takeDown = FALSE /\ bodyCursor = "auto"
    /\ dial = 0 /\ bolts = 0 /\ flash = 0

\* Variant: a scene that goes has no cleanup.
MountLockUncleaned(shown) ==
    /\ locked' = FALSE /\ stillLock' = FALSE /\ dialShown' = shown
    /\ FreshDial
    /\ UNCHANGED <<takeDown, bodyCursor>>

\* Another page, or this one (shown): what the visitor did here is forgotten,
\* a scene that was there is taken down later.
MountLock(shown) ==
    /\ locked' = FALSE /\ stillLock' = FALSE /\ dialShown' = shown
    /\ FreshDial
    /\ takeDown' = (takeDown \/ dialShown)
    /\ UNCHANGED bodyCursor

\* The listener of the media query: the scene goes, or is mounted anew.
LockMotionChanges ==
    /\ stillLock' = ~stillLock /\ dialShown' = stillLock
    /\ FreshDial
    /\ takeDown' = (takeDown \/ dialShown)
    /\ UNCHANGED <<locked, bodyCursor>>

\* The cleanup of a scene that has gone.
TakeDown ==
    /\ takeDown
    /\ takeDown' = FALSE /\ bodyCursor' = "auto"
    /\ UNCHANGED <<locked, stillLock, dialShown, hovered, hoverEffect, lockEffect,
                   dial, bolts, flash>>

-----------------------------------------------------------------------------
(* Handlers, effects and frames. *)

SetLocked(v) ==
    /\ locked' = v
    /\ lockEffect' = (lockEffect \/ (dialShown /\ locked # v))
    /\ UNCHANGED <<stillLock, dialShown, hovered, hoverEffect, takeDown,
                   bodyCursor, dial, bolts, flash>>

\* A click on the dial, or on the button that stands in for it.
HandleDialClick == SetLocked(~locked)

\* The button of the panel.
ClickLockButton == LockPanel = "lockButton" /\ SetLocked(TRUE)

Hover(over) ==
    /\ dialShown /\ hovered' = over /\ over # hovered
    /\ hoverEffect' = TRUE
    /\ UNCHANGED <<locked, stillLock, dialShown, lockEffect, takeDown,
                   bodyCursor, dial, bolts, flash>>

\* The effect on hovered: its cleanup and the effect itself.
RunHoverEffect ==
    /\ hoverEffect
    /\ hoverEffect' = FALSE /\ bodyCursor' = DialView.cursor
    /\ UNCHANGED <<locked, stillLock, dialShown, hovered, lockEffect, takeDown,
                   dial, bolts, flash>>

\* The effect on isLocked.
RunLockEffect ==
    /\ lockEffect
    /\ lockEffect' = FALSE /\ flash' = IF locked THEN 1 ELSE flash
    /\ UNCHANGED <<locked, stillLock, dialShown, hovered, hoverEffect, takeDown,
                   bodyCursor, dial, bolts>>

\* Where damping may bring a value: nearer to its target, however far.
Damp(value, target) ==
    IF value <= target THEN {v \in value..target : v > value \/ v = target}
    ELSE {v \in target..value : v < value}

\* A frame moves crossbar, bolts and flash at rates of their own.
LockFrame ==
    LET target == IF locked THEN 2 ELSE 0
    IN /\ dialShown
       /\ dial' \in Damp(dial, target)
       /\ bolts' \in Damp(bolts, target)
       /\ flash' \in Damp(flash, 0)
       /\ UNCHANGED <<locked, stillLock, dialShown, hovered, hoverEffect,
                      lockEffect, takeDown, bodyCursor>>

LockClick ==
    \/ HandleDialClick
    \/ ClickLockButton
    \/ \E over \in BOOLEAN : Hover(over)
    \/ LockMotionChanges

DialRuns == RunHoverEffect \/ RunLockEffect \/ LockFrame

-----------------------------------------------------------------------------
LockTypeOK ==
    /\ locked \in BOOLEAN /\ stillLock \in BOOLEAN /\ dialShown \in BOOLEAN
    /\ hovered \in BOOLEAN /\ hoverEffect \in BOOLEAN /\ lockEffect \in BOOLEAN
    /\ takeDown \in BOOLEAN /\ bodyCursor \in {"auto", "pointer"}
    /\ dial \in 0..2 /\ bolts \in 0..2 /\ flash \in 0..1

\* The document keeps the pointer cursor only while the dial asks for it or
\* something is under way that takes it back, whichever page is shown.
CursorIsAccountedFor ==
    bodyCursor = "pointer" =>
        \/ dialShown /\ hovered
        \/ hoverEffect
        \/ takeDown

\* Once the pointer has left, or the page, the cursor is the normal one again.
CursorIsGivenBack == ~hovered ~> bodyCursor = "auto" \/ hovered

DialAtRest ==
    dial = bolts /\ dial = (IF locked THEN 2 ELSE 0) /\ flash = 0 /\ ~lockEffect

\* A dial that is locked and left alone comes to rest as its caption says it
\* is, with the flash gone.
DialSettles == dialShown /\ locked ~> DialAtRest \/ ~dialShown \/ ~locked
=============================================================================
