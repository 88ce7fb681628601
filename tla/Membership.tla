----------------------------- MODULE Membership -----------------------------
(***************************************************************************)
(* One node's view of the cluster: the membership table, the set of nodes  *)
(* on the hash ring, the heartbeat pings that feed the table, and the      *)
(* repair queue that the deaths it announces are submitted to.             *)
(*                                                                         *)
(* Source: internal/cluster/membership.go, internal/cluster/heartbeat.go,  *)
(* internal/replication/worker.go and the wiring in cmd/node/main.go.      *)
(*                                                                         *)
(* Every method of Membership holds m.mu for its whole body except the     *)
(* onNodeDead callback, which runs after the unlock: a method is one       *)
(* action, the callback another.  A ping is answered in one step and its   *)
(* answer is applied in a later one, because each ping runs in a goroutine *)
(* of its own.                                                             *)
(***************************************************************************)
EXTENDS Naturals, Sequences

CONSTANTS
  Node,       \* the addresses the operator may name
  Worker,     \* the goroutines of the repair pool
  MaxMiss,    \* maxConsecutiveMiss (4 in the code)
  DeadAfter,  \* deadTimeout in heartbeat intervals (8s / 2s)
  QueueCap,   \* capacity of jobQueue (100 in the code)
  MaxBusy,    \* bound: goroutines outstanding for one address
  MaxAdmin,   \* bound: joins and leaves the operator issues
  NoJob       \* what an idle worker holds

ASSUME MissAssumption == MaxMiss \in Nat \ {0}
ASSUME DeadAfterAssumption == DeadAfter \in Nat
ASSUME CapAssumption == QueueCap \in Nat \ {0}
ASSUME BoundAssumption == MaxBusy \in Nat \ {0} /\ MaxAdmin \in Nat
ASSUME NoJobAssumption == NoJob \notin Node

VARIABLES
  status,      \* m.nodes: "unknown" when absent, else IsAlive
  failures,    \* ConsecutiveFailures, saturated at MaxMiss
  silence,     \* intervals since LastSeen, saturated at DeadAfter
  ring,        \* r.nodes
  up,          \* does the peer answer /health within the ping timeout
  answers,     \* answers[n][r]: pings of n answered with r, not yet applied
  callbacks,   \* callbacks[n]: onNodeDead(n) calls between unlock and submit
  queue,       \* jobQueue
  working,     \* the job each worker runs
  admin,       \* operator calls left
  unrepaired,  \* history: died, and no repair has started since
  dropped      \* history: a job of this node met a full queue

table == <<status, failures, silence, ring>>
repair == <<queue, working, dropped>>
vars == <<table, repair, up, answers, callbacks, admin, unrepaired>>

Result == {"ok", "failed"}

TypeOK ==
  /\ status \in [Node -> {"unknown", "alive", "dead"}]
  /\ failures \in [Node -> 0..MaxMiss]
  /\ silence \in [Node -> 0..DeadAfter]
  /\ ring \in SUBSET Node
  /\ up \in [Node -> BOOLEAN]
  /\ answers \in [Node -> [Result -> Nat]]
  /\ callbacks \in [Node -> Nat]
  /\ queue \in Seq(Node) /\ Len(queue) <= QueueCap
  /\ working \in [Worker -> Node \cup {NoJob}]
  /\ admin \in 0..MaxAdmin
  /\ unrepaired \in SUBSET Node
  /\ dropped \in SUBSET Node

Init ==
  /\ status = [n \in Node |-> "unknown"]
  /\ failures = [n \in Node |-> 0]
  /\ silence = [n \in Node |-> 0]
  /\ ring = {}
  /\ up \in [Node -> BOOLEAN]
  /\ answers = [n \in Node |-> [r \in Result |-> 0]]
  /\ callbacks = [n \in Node |-> 0]
  /\ queue = <<>>
  /\ working = [w \in Worker |-> NoJob]
  /\ admin = MaxAdmin
  /\ unrepaired = {}
  /\ dropped = {}

Saturate(i, limit) == IF i < limit THEN i + 1 ELSE limit

Busy(n) == answers[n]["ok"] + answers[n]["failed"] + callbacks[n]

Queued(n) == \E i \in DOMAIN queue : queue[i] = n

\* The death of n is announced by the goroutine that found it, after it has
\* released m.mu.
Announce(n) ==
  /\ callbacks' = [callbacks EXCEPT ![n] = @ + 1]
  /\ unrepaired' = unrepaired \cup {n}

-----------------------------------------------------------------------------
(* Faulty variants: each differs from the action it is named after by one    *)
(* plausible mistake, and some property below must notice it.                *)

\* MarkAlive that creates the entry of a node it does not know.
MarkAliveCreates(n) ==
  /\ answers[n]["ok"] > 0
  /\ answers' = [answers EXCEPT ![n]["ok"] = @ - 1]
  /\ status' = [status EXCEPT ![n] = "alive"]
  /\ failures' = [failures EXCEPT ![n] = 0]
  /\ silence' = [silence EXCEPT ![n] = 0]
  /\ ring' = ring \cup {n}
  /\ UNCHANGED <<repair, up, callbacks, admin, unrepaired>>

\* MarkAlive that forgets to put a revived node back on the ring.
MarkAliveOffRing(n) ==
  /\ answers[n]["ok"] > 0
  /\ answers' = [answers EXCEPT ![n]["ok"] = @ - 1]
  /\ \/ status[n] = "unknown" /\ UNCHANGED <<status, failures, silence>>
     \/ /\ status[n] # "unknown"
        /\ status' = [status EXCEPT ![n] = "alive"]
        /\ failures' = [failures EXCEPT ![n] = 0]
        /\ silence' = [silence EXCEPT ![n] = 0]
  /\ UNCHANGED <<ring, repair, up, callbacks, admin, unrepaired>>

\* checkNodes over GetActiveNodes instead of GetAllNodes.
CheckActiveNodes ==
  LET pinged == {n \in Node : status[n] = "alive"}
      outcome(n) == IF up[n] THEN "ok" ELSE "failed"
  IN /\ \A n \in pinged : Busy(n) < MaxBusy
     /\ silence' = [n \in Node |-> IF n \in pinged THEN Saturate(silence[n], DeadAfter)
                                   ELSE silence[n]]
     /\ answers' = [n \in Node |-> IF n \in pinged
                                   THEN [answers[n] EXCEPT ![outcome(n)] = @ + 1]
                                   ELSE answers[n]]
     /\ UNCHANGED <<status, failures, ring, repair, up, callbacks, admin, unrepaired>>

\* A queue that makes room for a new job by forgetting the oldest one.
SubmitOverwrites(n) ==
  /\ callbacks[n] > 0
  /\ callbacks' = [callbacks EXCEPT ![n] = @ - 1]
  /\ queue' = Append(IF Len(queue) < QueueCap THEN queue ELSE Tail(queue), n)
  /\ UNCHANGED <<table, up, answers, working, admin, unrepaired, dropped>>

\* A worker that never comes back from its first repair.
FinishRepairNever(w) == working[w] # NoJob /\ UNCHANGED vars

-----------------------------------------------------------------------------
(* Membership methods *)

\* AddNode: (re)creates the entry as alive, whatever was known before.
AddNode(n) ==
  /\ admin > 0
  /\ admin' = admin - 1
  /\ status' = [status EXCEPT ![n] = "alive"]
  /\ failures' = [failures EXCEPT ![n] = 0]
  /\ silence' = [silence EXCEPT ![n] = 0]
  /\ ring' = ring \cup {n}
  /\ UNCHANGED <<repair, up, answers, callbacks, unrepaired>>

\* RemoveNode (admin leave, admin kill, a peer's leave message): a node that
\* was alive is announced dead, one already dead is only forgotten.
RemoveNode(n) ==
  /\ admin > 0
  /\ admin' = admin - 1
  /\ status' = [status EXCEPT ![n] = "unknown"]
  /\ failures' = [failures EXCEPT ![n] = 0]
  /\ silence' = [silence EXCEPT ![n] = 0]
  /\ ring' = IF status[n] = "unknown" THEN ring ELSE ring \ {n}
  /\ \/ status[n] = "alive" /\ Busy(n) < MaxBusy /\ Announce(n)
     \/ status[n] # "alive" /\ UNCHANGED <<callbacks, unrepaired>>
  /\ UNCHANGED <<repair, up, answers>>

\* MarkAlive: a node the table does not hold stays unknown.
MarkAlive(n) ==
  /\ answers[n]["ok"] > 0
  /\ answers' = [answers EXCEPT ![n]["ok"] = @ - 1]
  /\ \/ status[n] = "unknown" /\ UNCHANGED table
     \/ /\ status[n] # "unknown"
        /\ status' = [status EXCEPT ![n] = "alive"]
        /\ failures' = [failures EXCEPT ![n] = 0]
        /\ silence' = [silence EXCEPT ![n] = 0]
        /\ ring' = ring \cup {n}
  /\ UNCHANGED <<repair, up, callbacks, admin, unrepaired>>

\* RecordFailure: counts the miss, and declares the node dead once it has
\* missed often enough for long enough.
RecordFailure(n) ==
  LET missed == Saturate(failures[n], MaxMiss)
      dies == missed >= MaxMiss /\ silence[n] >= DeadAfter
  IN /\ answers[n]["failed"] > 0
     /\ answers' = [answers EXCEPT ![n]["failed"] = @ - 1]
     /\ \/ status[n] # "alive" /\ UNCHANGED <<table, callbacks, unrepaired>>
        \/ /\ status[n] = "alive"
           /\ failures' = [failures EXCEPT ![n] = missed]
           /\ silence' = silence
           /\ \/ /\ dies
                 /\ status' = [status EXCEPT ![n] = "dead"]
                 /\ ring' = ring \ {n}
                 /\ Announce(n)
              \/ ~dies /\ UNCHANGED <<status, ring, callbacks, unrepaired>>
     /\ UNCHANGED <<repair, up, admin>>

-----------------------------------------------------------------------------
(* Heartbeats *)

\* checkNodes: one interval passes and every address in the table is pinged.
\* pingNode's outcome is what the peer does at that moment; the goroutine
\* applies it in a later step.
CheckNodes ==
  LET pinged == {n \in Node : status[n] # "unknown"}
      outcome(n) == IF up[n] THEN "ok" ELSE "failed"
  IN /\ \A n \in pinged : Busy(n) < MaxBusy
     /\ silence' = [n \in Node |-> IF n \in pinged THEN Saturate(silence[n], DeadAfter)
                                   ELSE silence[n]]
     /\ answers' = [n \in Node |-> IF n \in pinged
                                   THEN [answers[n] EXCEPT ![outcome(n)] = @ + 1]
                                   ELSE answers[n]]
     /\ UNCHANGED <<status, failures, ring, repair, up, callbacks, admin, unrepaired>>

\* The peer crashes, is cut off, or comes back.
PeerFlips(n) ==
  /\ up' = [up EXCEPT ![n] = ~@]
  /\ UNCHANGED <<table, repair, answers, callbacks, admin, unrepaired>>

-----------------------------------------------------------------------------
(* Repair pool *)

\* SubmitDeadNodeJob: a select with a default branch, so a full queue drops
\* the job.
SubmitDeadNodeJob(n) ==
  /\ callbacks[n] > 0
  /\ callbacks' = [callbacks EXCEPT ![n] = @ - 1]
  /\ \/ /\ Len(queue) < QueueCap
        /\ queue' = Append(queue, n)
        /\ UNCHANGED dropped
     \/ /\ Len(queue) >= QueueCap
        /\ dropped' = dropped \cup {n}
        /\ UNCHANGED queue
  /\ UNCHANGED <<table, up, answers, working, admin, unrepaired>>

\* workerLoop receives a job ...
StartRepair(w) ==
  /\ working[w] = NoJob
  /\ queue # <<>>
  /\ working' = [working EXCEPT ![w] = Head(queue)]
  /\ queue' = Tail(queue)
  /\ unrepaired' = unrepaired \ {Head(queue)}
  /\ UNCHANGED <<table, up, answers, callbacks, admin, dropped>>

\* ... and comes back for the next one, whatever RepairDeadNode returned.
FinishRepair(w) ==
  /\ working[w] # NoJob
  /\ working' = [working EXCEPT ![w] = NoJob]
  /\ UNCHANGED <<table, up, answers, callbacks, queue, admin, unrepaired, dropped>>

-----------------------------------------------------------------------------
Next ==
  \/ CheckNodes
  \/ \E n \in Node :
       \/ AddNode(n)
       \/ RemoveNode(n)
       \/ MarkAlive(n)
       \/ RecordFailure(n)
       \/ PeerFlips(n)
       \/ SubmitDeadNodeJob(n)
  \/ \E w \in Worker : StartRepair(w) \/ FinishRepair(w)

Spec == Init /\ [][Next]_vars

\* The ticker keeps firing, goroutines keep running and the pool keeps
\* receiving; nothing is assumed of the peers or of the operator.
Fairness ==
  /\ WF_vars(CheckNodes)
  /\ \A n \in Node :
       /\ WF_vars(MarkAlive(n))
       /\ WF_vars(RecordFailure(n))
       /\ WF_vars(SubmitDeadNodeJob(n))
  /\ \A w \in Worker : WF_vars(StartRepair(w)) /\ WF_vars(FinishRepair(w))

FairSpec == Spec /\ Fairness

-----------------------------------------------------------------------------
(* Properties *)

\* The ring places chunks on exactly the nodes the table holds alive, through
\* every interleaving of joins, leaves and late heartbeat answers
\* (membership.go calls the ring inside each method).
RingIsAliveSet == ring = {n \in Node : status[n] = "alive"}

\* A death is forgotten only by a full queue: until a worker has started the
\* repair of a dead node, its job is about to be submitted, or queued, or was
\* dropped (membership.go:79, worker.go:34).
NoDeathForgotten ==
  \A n \in unrepaired : callbacks[n] > 0 \/ Queued(n) \/ n \in dropped

\* A heartbeat answer never brings back a node the operator has removed, and a
\* node leaves the ring exactly when one death is announced: no join, ping or
\* repair step announces a second one for the same death.
OneAnnouncementPerDeath ==
  [][\A n \in Node :
       /\ (n \in ring /\ n \notin ring') <=> callbacks'[n] > callbacks[n]
       /\ (status[n] = "unknown" /\ status'[n] # "unknown") => admin' < admin]_vars

\* A peer that stops answering for good leaves the ring for good.
SilentPeerLeaves ==
  \A n \in Node : <>[](~up[n]) => <>[](n \notin ring)

\* A peer that answers again for good, and was not removed, is back on the
\* ring for good: late failures cannot take it off any more.
AnsweringPeerReturns ==
  \A n \in Node : <>[](up[n]) => <>[](status[n] # "unknown" => n \in ring)

\* The ring follows what a peer does for good.
RingFollowsPeers == SilentPeerLeaves /\ AnsweringPeerReturns

\* Every announced death is picked up by a worker or dropped by a full queue.
DeathIsHandled ==
  \A n \in Node : (n \in unrepaired) ~> (n \notin unrepaired \/ n \in dropped)
=============================================================================
