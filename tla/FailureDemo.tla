---------------------------- MODULE FailureDemo ----------------------------
(***************************************************************************)
(* The three demonstrations of a node failure on the documentation site:   *)
(* FailureRecovery3D ("scene"), FailureCanvas ("canvas") and               *)
(* FailureRecoverySimulator ("simulator").  A click kills a node and arms  *)
(* three timeouts that play detection, repair and recovery; a reset shows  *)
(* the healthy cluster again but clears none of them, so the timeouts of   *)
(* an earlier run may play into a later one.                               *)
(*                                                                         *)
(* Time is not modelled: of two timeouts the browser fires first the one   *)
(* that was armed no later with a delay that is no longer, and all other   *)
(* orders are possible.  The simulator calls its first two stages failed   *)
(* and detected; they are lost and failed here.                            *)
(***************************************************************************)
EXTENDS Integers, FiniteSets, Sequences

CONSTANT MaxKills          \* bound: clicks that kill a node, per mount

ASSUME MaxKillsAssumption == MaxKills \in Nat

VARIABLES
    demo,       \* the demonstration that is mounted
    phase,      \* phase / stage
    status,     \* nodes[i].status
    chunks,     \* nodes[i].chunks; the simulator shows only their number
    timers,     \* timeouts that have not fired
    events,     \* the stages on the simulator's time line, newest first
    kills,      \* clicks that killed a node
    overrun     \* history: the last reset left timeouts behind

failureVars == <<demo, phase, status, chunks, timers, events, kills, overrun>>

Demos == {"scene", "canvas", "simulator"}
DemoNodes == 1..5
RepairTarget == 4
Stages == <<"lost", "failed", "repairing", "recovered">>
Phases == {"idle"} \cup {Stages[i] : i \in 1..4}
Rank(p) == IF p = "idle" THEN 0 ELSE CHOOSE i \in 1..4 : Stages[i] = p
Statuses == {"healthy", "timeout", "warning", "failed", "repairing"}
Replicas == {"A", "B", "C", "D"}

Healthy == [n \in DemoNodes |-> "healthy"]

\* Which chunks the nodes show before a failure.
InitialNodes ==
    << {"A", "B", "C"}, {"A", "B"}, {"C", "D"}, {"B", "D"}, {"A", "D"} >>

Timeout == [kill : 1..MaxKills, victim : DemoNodes,
            stage : {"failed", "repairing", "recovered"}]

FailureInit ==
    /\ demo \in Demos
    /\ phase = "idle" /\ status = Healthy /\ chunks = InitialNodes
    /\ timers = {} /\ events = << >> /\ kills = 0 /\ overrun = FALSE

\* A demonstration is mounted, in its initial state; what the one before it
\* has left pending no longer changes anything that is shown.
MountDemo(d) ==
    /\ demo' = d
    /\ phase' = "idle" /\ status' = Healthy /\ chunks' = InitialNodes
    /\ timers' = {} /\ events' = << >> /\ kills' = 0 /\ overrun' = FALSE

-----------------------------------------------------------------------------
(* What is shown: the nodes that can be killed, whether there is a reset     *)
(* button, the nodes drawn dead, and the way of the repair stream.           *)

\* A node's mesh is drawn dead in some of its statuses.
DrawnDead(deadly) == {n \in DemoNodes : status[n] \in deadly}

\* The beam of copied chunks is there in one phase only.
RepairStreamBeam(way) == IF phase = "repairing" THEN way ELSE << >>

Showing(killable, deadly, way) ==
    [kill   |-> IF phase = "idle" THEN killable ELSE {},
     reset  |-> phase # "idle",
     dead   |-> DrawnDead(deadly),
     stream |-> RepairStreamBeam(way)]

\* Variant: the stream runs from the target to the source.
SceneViewBackwards ==
    Showing(DemoNodes, {"failed", "timeout"}, <<RepairTarget, 1>>)

SceneView == Showing(DemoNodes, {"failed", "timeout"}, <<1, RepairTarget>>)
CanvasView == Showing({3}, {"failed", "timeout"}, <<1, RepairTarget>>)
SimulatorView == Showing({3}, {"failed"}, << >>)

View == CASE demo = "scene"     -> SceneView
          [] demo = "canvas"    -> CanvasView
          [] demo = "simulator" -> SimulatorView

-----------------------------------------------------------------------------
(* The handlers. *)

\* Variant: the time line is replaced instead of extended.
RecordAlone(p) == events' = IF demo = "simulator" THEN <<p>> ELSE events

Record(p) == events' = IF demo = "simulator" THEN <<p>> \o events ELSE events

\* Variant: the last timeout is not armed.
KillNodeUnfinished(v) ==
    /\ v \in View.kill
    /\ kills < MaxKills
    /\ phase' = "lost"
    /\ timers' = timers \cup
         {[kill |-> kills + 1, victim |-> v, stage |-> Stages[i]] : i \in 2..3}
    /\ Record("lost")
    /\ kills' = kills + 1
    /\ UNCHANGED <<demo, chunks, overrun>>

KillNode(v) ==
    /\ v \in View.kill
    /\ kills < MaxKills
    /\ phase' = "lost"
    /\ timers' = timers \cup
         {[kill |-> kills + 1, victim |-> v, stage |-> Stages[i]] : i \in 2..4}
    /\ Record("lost")
    /\ kills' = kills + 1
    /\ UNCHANGED <<demo, chunks, overrun>>

SceneKill(v) ==
    /\ demo = "scene" /\ KillNode(v)
    /\ status' = [status EXCEPT ![v] = "timeout"]

CanvasKill ==
    /\ demo = "canvas" /\ KillNode(3)
    /\ status' = [status EXCEPT ![3] = "timeout"]

\* The simulator leaves the nodes as they are until the failure is detected.
SimulatorKill ==
    /\ demo = "simulator" /\ KillNode(3)
    /\ UNCHANGED status

HandleReset ==
    /\ View.reset
    /\ phase' = "idle" /\ status' = Healthy /\ chunks' = InitialNodes
    /\ events' = << >>
    /\ overrun' = (timers # {})
    /\ UNCHANGED <<demo, timers, kills>>

\* No other timeout is certain to come before t.
Due(t) == \A u \in timers \ {t} :
            ~(u.kill <= t.kill /\ Rank(u.stage) <= Rank(t.stage))

MarkFailed(t) ==
    /\ status' = [n \in DemoNodes |->
                    CASE n = t.victim -> "failed"
                      [] n \in {1, 2} /\ demo = "simulator" -> "warning"
                      [] OTHER -> status[n]]
    /\ chunks' = IF demo = "simulator" THEN chunks
                 ELSE [chunks EXCEPT ![t.victim] = {}]

MarkRepairing(t) ==
    /\ status' = [status EXCEPT ![RepairTarget] = "repairing"]
    /\ UNCHANGED chunks

\* Variant: the target keeps its repairing mark.
MarkRecoveredStill(t) ==
    /\ status' = [status EXCEPT ![t.victim] = "failed"]
    /\ UNCHANGED chunks

MarkRecovered(t) ==
    /\ status' = [Healthy EXCEPT ![t.victim] = "failed"]
    /\ chunks' = IF demo = "simulator" THEN chunks
                 ELSE [n \in DemoNodes |->
                         CASE n = t.victim -> {}
                           [] n = RepairTarget /\ n # t.victim -> {"B", "C", "D"}
                           [] OTHER -> chunks[n]]

\* A timeout fires, whether its run was reset in the meantime or not.
FireTimeout(t) ==
    /\ Due(t)
    /\ timers' = timers \ {t}
    /\ phase' = t.stage
    /\ Record(t.stage)
    /\ CASE t.stage = "failed"    -> MarkFailed(t)
         [] t.stage = "repairing" -> MarkRepairing(t)
         [] t.stage = "recovered" -> MarkRecovered(t)
    /\ UNCHANGED <<demo, kills, overrun>>

Fire == \E t \in timers : FireTimeout(t)

FailureNext ==
    \/ \E v \in DemoNodes : SceneKill(v)
    \/ CanvasKill
    \/ SimulatorKill
    \/ HandleReset
    \/ Fire

-----------------------------------------------------------------------------
(* What the demonstrations promise. *)

FailureTypeOK ==
    /\ demo \in Demos /\ phase \in Phases
    /\ status \in [DemoNodes -> Statuses]
    /\ chunks \in [DemoNodes -> SUBSET Replicas]
    /\ timers \subseteq Timeout
    /\ events \in Seq(Phases)
    /\ kills \in 0..MaxKills /\ overrun \in BOOLEAN

\* While a node can be killed the cluster is as it was before any failure,
\* also when timeouts of a run that was reset are pending.
KillableIsHealthy ==
    View.kill # {} => status = Healthy /\ chunks = InitialNodes

\* Once every timeout has fired, in whatever order the runs overlapped, the
\* demonstration rests: one node is dead, none is left repairing or timing out.
RestsRecovered ==
    timers = {} =>
      \/ phase = "idle"
      \/ /\ phase = "recovered"
         /\ \E v \in DemoNodes : status = [Healthy EXCEPT ![v] = "failed"]

\* What is shown at rest is right, before the first failure and after the last.
RestsAreRight == KillableIsHealthy /\ RestsRecovered

\* A run that no earlier run plays into shows its phases in order, until it is
\* reset, and the simulator's time line tells the same story.
PhasesInOrder ==
    [][ ~overrun /\ ~overrun' /\ phase' # "idle"
          => /\ Rank(phase') = Rank(phase) + 1
             /\ demo = "simulator" => Len(events') = Rank(phase') ]_phase

\* In such a run every chunk keeps a copy on a node that is not drawn dead,
\* at most the victim is drawn dead, and the repair stream ends at the node
\* that is shown as being repaired.
CopiesSurvive ==
    ~overrun =>
      /\ \A c \in Replicas : \E n \in DemoNodes \ View.dead : c \in chunks[n]
      /\ Cardinality(View.dead) <= 1
      /\ View.stream # << >> => status[View.stream[2]] = "repairing"

\* A node that was killed is replaced or the demonstration is reset: it never
\* stops half way.
KillIsPlayedOut == phase = "lost" ~> phase \in {"recovered", "idle"}
=============================================================================
