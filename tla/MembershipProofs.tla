-------------------------- MODULE MembershipProofs --------------------------
(***************************************************************************)
(* What Membership guarantees for every set of addresses, every queue      *)
(* capacity and every flap-damping threshold.                              *)
(***************************************************************************)
EXTENDS Membership, TLAPS

USE MissAssumption, DeadAfterAssumption, CapAssumption, BoundAssumption, NoJobAssumption

\* A saturating counter stays within its limit.
LEMMA SaturateRange ==
  ASSUME NEW limit \in Nat, NEW i \in 0..limit
  PROVE  Saturate(i, limit) \in 0..limit
BY DEF Saturate

\* Taking a job off the queue loses no other job.
LEMMA TailKeepsOthers ==
  ASSUME NEW S, NEW q \in Seq(S), q # <<>>, NEW i \in DOMAIN q, q[i] # Head(q)
  PROVE  \E j \in DOMAIN Tail(q) : Tail(q)[j] = q[i]
<1>1. i \in 2..Len(q)
  OBVIOUS
<1>2. i - 1 \in 1..Len(Tail(q)) /\ Tail(q)[i - 1] = q[i]
  BY <1>1
<1>3. QED
  BY <1>2

\* Queueing a job keeps the jobs already there and adds the new one last.
LEMMA AppendKeepsAll ==
  ASSUME NEW S, NEW q \in Seq(S), NEW n \in S
  PROVE  /\ \A i \in DOMAIN q : i \in DOMAIN Append(q, n) /\ Append(q, n)[i] = q[i]
         /\ \E j \in DOMAIN Append(q, n) : Append(q, n)[j] = n
<1>1. \A i \in DOMAIN q : i \in DOMAIN Append(q, n) /\ Append(q, n)[i] = q[i]
  OBVIOUS
<1>2. Len(q) + 1 \in DOMAIN Append(q, n) /\ Append(q, n)[Len(q) + 1] = n
  OBVIOUS
<1>3. QED
  BY <1>1, <1>2

\* Announcing a death keeps the types of what it touches.
LEMMA AnnounceType ==
  ASSUME TypeOK, NEW n \in Node,
         Announce(n) \/ UNCHANGED <<callbacks, unrepaired>>
  PROVE  callbacks' \in [Node -> Nat] /\ unrepaired' \in SUBSET Node
<1>1. callbacks' = callbacks \/ callbacks' = [callbacks EXCEPT ![n] = @ + 1]
  BY DEF Announce
<1>2. callbacks \in [Node -> Nat]
  BY DEF TypeOK
<1>3. callbacks' \in [Node -> Nat]
  BY <1>1, <1>2
<1>4. unrepaired' \in SUBSET Node
  BY DEF Announce, TypeOK
<1>5. QED
  BY <1>3, <1>4

-----------------------------------------------------------------------------
\* Every reachable state of the membership table, the ping goroutines and the
\* repair pool is well typed (membership.go, worker.go).
THEOREM TypeCorrect == Spec => []TypeOK
<1>1. Init => TypeOK
  BY DEF Init, TypeOK, Result
<1>2. TypeOK /\ [Next]_vars => TypeOK'
  <2> SUFFICES ASSUME TypeOK, [Next]_vars PROVE TypeOK'
    OBVIOUS
  <2>1. CASE CheckNodes
    <3>1. silence' \in [Node -> 0..DeadAfter]
      BY <2>1, SaturateRange DEF CheckNodes, TypeOK
    <3>2. answers' \in [Node -> [Result -> Nat]]
      BY <2>1 DEF CheckNodes, TypeOK, Result
    <3>3. QED
      BY <2>1, <3>1, <3>2 DEF CheckNodes, TypeOK, repair
  <2>2. ASSUME NEW n \in Node, AddNode(n) PROVE TypeOK'
    BY <2>2 DEF AddNode, TypeOK, repair
  <2>3. ASSUME NEW n \in Node, RemoveNode(n) PROVE TypeOK'
    <3>1. /\ status' \in [Node -> {"unknown", "alive", "dead"}]
          /\ failures' \in [Node -> 0..MaxMiss]
          /\ silence' \in [Node -> 0..DeadAfter]
          /\ ring' \in SUBSET Node
          /\ admin' \in 0..MaxAdmin
      BY <2>3 DEF RemoveNode, TypeOK
    <3>2. \/ UNCHANGED <<callbacks, unrepaired>>
          \/ Announce(n)
      BY <2>3 DEF RemoveNode
    <3>3. callbacks' \in [Node -> Nat] /\ unrepaired' \in SUBSET Node
      BY <3>2, AnnounceType
    <3>4. UNCHANGED <<up, answers, queue, working, dropped>>
      BY <2>3 DEF RemoveNode, repair
    <3>5. QED
      BY <3>1, <3>3, <3>4 DEF TypeOK
  <2>4. ASSUME NEW n \in Node, MarkAlive(n) PROVE TypeOK'
    <3>1. answers' \in [Node -> [Result -> Nat]]
      BY <2>4 DEF MarkAlive, TypeOK, Result
    <3>2. \/ UNCHANGED <<status, failures, silence, ring>>
          \/ /\ status' = [status EXCEPT ![n] = "alive"]
             /\ failures' = [failures EXCEPT ![n] = 0]
             /\ silence' = [silence EXCEPT ![n] = 0]
             /\ ring' = ring \cup {n}
      BY <2>4 DEF MarkAlive, table
    <3>3. /\ status' \in [Node -> {"unknown", "alive", "dead"}]
          /\ failures' \in [Node -> 0..MaxMiss]
          /\ silence' \in [Node -> 0..DeadAfter]
          /\ ring' \in SUBSET Node
      <4>1. CASE UNCHANGED <<status, failures, silence, ring>>
        BY <4>1 DEF TypeOK
      <4>2. CASE /\ status' = [status EXCEPT ![n] = "alive"]
                 /\ failures' = [failures EXCEPT ![n] = 0]
                 /\ silence' = [silence EXCEPT ![n] = 0]
                 /\ ring' = ring \cup {n}
        BY <4>2 DEF TypeOK
      <4>3. QED
        BY <3>2, <4>1, <4>2
    <3>4. UNCHANGED <<up, callbacks, queue, working, admin, unrepaired, dropped>>
      BY <2>4 DEF MarkAlive, repair
    <3>5. QED
      BY <3>1, <3>3, <3>4 DEF TypeOK
  <2>5. ASSUME NEW n \in Node, RecordFailure(n) PROVE TypeOK'
    <3>1. answers' \in [Node -> [Result -> Nat]]
      BY <2>5 DEF RecordFailure, TypeOK, Result
    <3>2. Saturate(failures[n], MaxMiss) \in 0..MaxMiss
      BY SaturateRange DEF TypeOK
    <3>3. \/ UNCHANGED failures
          \/ failures' = [failures EXCEPT ![n] = Saturate(failures[n], MaxMiss)]
      BY <2>5 DEF RecordFailure, table
    <3>4. \/ UNCHANGED <<status, ring, callbacks, unrepaired>>
          \/ /\ status' = [status EXCEPT ![n] = "dead"]
             /\ ring' = ring \ {n}
             /\ Announce(n)
      BY <2>5 DEF RecordFailure, table
    <3>5. failures' \in [Node -> 0..MaxMiss]
      BY <3>2, <3>3 DEF TypeOK
    <3>6. status' \in [Node -> {"unknown", "alive", "dead"}] /\ ring' \in SUBSET Node
      BY <3>4 DEF TypeOK
    <3>7. callbacks' \in [Node -> Nat] /\ unrepaired' \in SUBSET Node
      BY <3>4, AnnounceType
    <3>8. UNCHANGED <<silence, up, queue, working, admin, dropped>>
      BY <2>5 DEF RecordFailure, table, repair
    <3>9. QED
      BY <3>1, <3>5, <3>6, <3>7, <3>8 DEF TypeOK
  <2>6. ASSUME NEW n \in Node, PeerFlips(n) PROVE TypeOK'
    BY <2>6 DEF PeerFlips, TypeOK, table, repair
  <2>7. ASSUME NEW n \in Node, SubmitDeadNodeJob(n) PROVE TypeOK'
    <3>1. queue' \in Seq(Node) /\ Len(queue') <= QueueCap
      <4>1. CASE Len(queue) < QueueCap
        <5>1. queue' = Append(queue, n)
          BY <2>7, <4>1 DEF SubmitDeadNodeJob, TypeOK
        <5>2. QED
          BY <4>1, <5>1 DEF TypeOK
      <4>2. CASE ~(Len(queue) < QueueCap)
        BY <2>7, <4>2 DEF SubmitDeadNodeJob, TypeOK
      <4>3. QED
        BY <4>1, <4>2
    <3>2. callbacks' = [callbacks EXCEPT ![n] = @ - 1] /\ callbacks[n] > 0
      BY <2>7 DEF SubmitDeadNodeJob
    <3>3. callbacks' \in [Node -> Nat]
      BY <3>2 DEF TypeOK
    <3>4. dropped' \in SUBSET Node
      BY <2>7 DEF SubmitDeadNodeJob, TypeOK
    <3>5. UNCHANGED <<table, up, answers, working, admin, unrepaired>>
      BY <2>7 DEF SubmitDeadNodeJob
    <3>6. QED
      BY <3>1, <3>3, <3>4, <3>5 DEF TypeOK, table
  <2>8. ASSUME NEW w \in Worker, StartRepair(w) PROVE TypeOK'
    <3>1. queue # <<>> /\ queue' = Tail(queue) /\ Head(queue) \in Node
      BY <2>8 DEF StartRepair, TypeOK
    <3>2. queue' \in Seq(Node) /\ Len(queue') <= QueueCap
      BY <3>1 DEF TypeOK
    <3>3. working' \in [Worker -> Node \cup {NoJob}] /\ unrepaired' \in SUBSET Node
      BY <2>8, <3>1 DEF StartRepair, TypeOK
    <3>4. UNCHANGED <<table, up, answers, callbacks, admin, dropped>>
      BY <2>8 DEF StartRepair
    <3>5. QED
      BY <3>2, <3>3, <3>4 DEF TypeOK, table
  <2>9. ASSUME NEW w \in Worker, FinishRepair(w) PROVE TypeOK'
    BY <2>9 DEF FinishRepair, TypeOK, table
  <2>10. CASE UNCHANGED vars
    BY <2>10 DEF vars, TypeOK, table, repair
  <2>11. QED
    BY <2>1, <2>2, <2>3, <2>4, <2>5, <2>6, <2>7, <2>8, <2>9, <2>10 DEF Next
<1>3. QED
  BY <1>1, <1>2, PTL DEF Spec

\* The ring holds exactly the alive nodes: each method changes the two under
\* one lock (membership.go:32-121).
THEOREM RingFollowsTable == Spec => []RingIsAliveSet
<1>1. Init => RingIsAliveSet
  BY DEF Init, RingIsAliveSet
<1>2. TypeOK /\ RingIsAliveSet /\ [Next]_vars => RingIsAliveSet'
  <2> SUFFICES ASSUME TypeOK, RingIsAliveSet, [Next]_vars PROVE RingIsAliveSet'
    OBVIOUS
  <2> USE DEF TypeOK, RingIsAliveSet, table
  <2>1. ASSUME NEW n \in Node, AddNode(n) PROVE RingIsAliveSet'
    BY <2>1 DEF AddNode
  <2>2. ASSUME NEW n \in Node, RemoveNode(n) PROVE RingIsAliveSet'
    BY <2>2 DEF RemoveNode
  <2>3. ASSUME NEW n \in Node, MarkAlive(n) PROVE RingIsAliveSet'
    BY <2>3 DEF MarkAlive
  <2>4. ASSUME NEW n \in Node, RecordFailure(n) PROVE RingIsAliveSet'
    BY <2>4 DEF RecordFailure
  <2>5. CASE UNCHANGED <<status, ring>>
    BY <2>5
  <2>6. QED
    BY <2>1, <2>2, <2>3, <2>4, <2>5
       DEF Next, CheckNodes, PeerFlips, SubmitDeadNodeJob, StartRepair, FinishRepair, vars
<1>3. QED
  BY <1>1, <1>2, TypeCorrect, PTL DEF Spec

\* A death whose repair has not started is still on its way to a worker, or
\* was dropped by a full queue (worker.go:34-40).
THEOREM DeathsAreKept == Spec => []NoDeathForgotten
<1>1. Init => NoDeathForgotten
  BY DEF Init, NoDeathForgotten
<1>2. TypeOK /\ NoDeathForgotten /\ [Next]_vars => NoDeathForgotten'
  <2> SUFFICES ASSUME TypeOK, NoDeathForgotten, [Next]_vars,
                      NEW d \in unrepaired'
               PROVE  callbacks'[d] > 0 \/ Queued(d)' \/ d \in dropped'
    BY DEF NoDeathForgotten
  <2> USE DEF TypeOK, NoDeathForgotten, Queued, table, repair
  <2>1. ASSUME NEW n \in Node, RemoveNode(n)
        PROVE  callbacks'[d] > 0 \/ Queued(d)' \/ d \in dropped'
    BY <2>1 DEF RemoveNode, Announce
  <2>2. ASSUME NEW n \in Node, RecordFailure(n)
        PROVE  callbacks'[d] > 0 \/ Queued(d)' \/ d \in dropped'
    BY <2>2 DEF RecordFailure, Announce
  <2>3. ASSUME NEW n \in Node, SubmitDeadNodeJob(n)
        PROVE  callbacks'[d] > 0 \/ Queued(d)' \/ d \in dropped'
    <3>1. d \in unrepaired /\ d \in Node
      BY <2>3 DEF SubmitDeadNodeJob
    <3>2. CASE d = n
      BY <2>3, <3>2, AppendKeepsAll DEF SubmitDeadNodeJob
    <3>3. CASE d # n
      <4>1. callbacks'[d] = callbacks[d] /\ dropped \subseteq dropped'
        BY <2>3, <3>1, <3>3 DEF SubmitDeadNodeJob
      <4>2. queue' = queue \/ queue' = Append(queue, n)
        BY <2>3 DEF SubmitDeadNodeJob
      <4>3. Queued(d) => Queued(d)'
        <5>1. CASE queue' = Append(queue, n)
          <6>1. \A i \in DOMAIN queue : i \in DOMAIN queue' /\ queue'[i] = queue[i]
            BY <5>1, AppendKeepsAll
          <6>2. QED
            BY <6>1
        <5>2. CASE queue' = queue
          BY <5>2
        <5>3. QED
          BY <4>2, <5>1, <5>2
      <4>4. QED
        BY <3>1, <4>1, <4>3
    <3>4. QED
      BY <3>2, <3>3
  <2>4. ASSUME NEW w \in Worker, StartRepair(w)
        PROVE  callbacks'[d] > 0 \/ Queued(d)' \/ d \in dropped'
    <3>1. d \in unrepaired /\ d # Head(queue) /\ queue' = Tail(queue) /\ queue # <<>>
      BY <2>4 DEF StartRepair
    <3>2. Queued(d) => Queued(d)'
      BY <3>1, TailKeepsOthers
    <3>3. QED
      BY <2>4, <3>1, <3>2 DEF StartRepair
  <2>5. CASE UNCHANGED <<callbacks, queue, unrepaired, dropped>>
    BY <2>5
  <2>6. QED
    BY <2>1, <2>2, <2>3, <2>4, <2>5
       DEF Next, CheckNodes, AddNode, MarkAlive, PeerFlips, FinishRepair, vars
<1>3. QED
  BY <1>1, <1>2, TypeCorrect, PTL DEF Spec

\* Leaving the ring and announcing a death are the same event, and only the
\* operator makes an unknown address known (membership.go:48-121).
THEOREM DeathsAreAnnouncedOnce == Spec => OneAnnouncementPerDeath
<1> DEFINE Step == \A n \in Node :
               /\ (n \in ring /\ n \notin ring') <=> callbacks'[n] > callbacks[n]
               /\ (status[n] = "unknown" /\ status'[n] # "unknown") => admin' < admin
<1>1. TypeOK /\ RingIsAliveSet /\ [Next]_vars => [Step]_vars
  <2> SUFFICES ASSUME TypeOK, RingIsAliveSet, Next PROVE Step
    OBVIOUS
  <2> USE DEF TypeOK, RingIsAliveSet, table
  <2>1. ASSUME NEW n \in Node, AddNode(n) PROVE Step
    BY <2>1 DEF AddNode
  <2>2. ASSUME NEW n \in Node, RemoveNode(n) PROVE Step
    BY <2>2 DEF RemoveNode, Announce
  <2>3. ASSUME NEW n \in Node, MarkAlive(n) PROVE Step
    BY <2>3 DEF MarkAlive
  <2>4. ASSUME NEW n \in Node, RecordFailure(n) PROVE Step
    BY <2>4 DEF RecordFailure, Announce
  <2>5. ASSUME NEW n \in Node, SubmitDeadNodeJob(n) PROVE Step
    BY <2>5 DEF SubmitDeadNodeJob
  <2>6. CASE UNCHANGED <<status, ring, callbacks>>
    BY <2>6
  <2>7. QED
    BY <2>1, <2>2, <2>3, <2>4, <2>5, <2>6
       DEF Next, CheckNodes, PeerFlips, StartRepair, FinishRepair
<1>2. QED
  BY <1>1, TypeCorrect, RingFollowsTable, PTL DEF Spec, OneAnnouncementPerDeath
=============================================================================
