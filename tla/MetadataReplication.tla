------------------------- MODULE MetadataReplication -------------------------
(***************************************************************************)
(* The manifest of one file key on every node: uploads, broadcasts to the  *)
(* peers, deletes, the periodic anti-entropy exchange and restarts.  Keys  *)
(* are independent: every operation reads and writes one of them.          *)
(*                                                                         *)
(* Source: RecordPlacement and DeleteScoped of internal/metadata/store.go, *)
(* internal/vectorclock/clock.go, internal/cluster/anti_entropy.go, the    *)
(* put, delete and /internal/manifest handlers and the broadcasts of       *)
(* internal/api/handlers.go, and the replay of cmd/node/main.go.           *)
(*                                                                         *)
(* A manifest is abstracted to its VersionID, its vector clock and the     *)
(* VersionIDs archived in Versions.  VersionIDs are wall-clock strings that*)
(* the code compares: here they are numbers, given out in any order, since *)
(* the clocks of two nodes need not agree.  Every method of the store      *)
(* holds s.mu, so the change in memory and its log record are one step;    *)
(* SyncOnce fetches, looks up and records in three.                        *)
(***************************************************************************)
EXTENDS Naturals, FiniteSets

CONSTANTS
  Node,        \* the nodes, by address
  Local,       \* the clock entry of a store that has no node ID yet
  Ver,         \* VersionIDs
  MaxClock,    \* bound: entries of a vector clock that is replaced
  MaxNet,      \* bound: broadcast requests in flight
  MaxDeletes,  \* bound: DELETE requests of clients
  MaxRestarts  \* bound: restarts

ASSUME LocalAssumption == Local \notin Node
ASSUME VerAssumption == Ver \subseteq Nat \ {0}
ASSUME BoundAssumption == {MaxClock, MaxNet, MaxDeletes, MaxRestarts} \subseteq Nat

VARIABLES
  man,       \* man[n]: the manifest in n's memory
  log,       \* log[n]: the last manifest record in n's write-ahead log
  made,      \* VersionIDs given out so far
  toSend,    \* toSend[n]: uploads recorded on n, not yet broadcast
  net,       \* broadcast requests in flight
  sync,      \* sync[n]: where n's SyncOnce is, and the manifest it fetched
  deletes,   \* client deletes left
  restarts   \* restarts left

vars == <<man, log, made, toSend, net, sync, deletes, restarts>>
bounds == <<deletes, restarts>>

Actor == Node \cup {Local}
Clock == [Actor -> Nat]
Zero == [a \in Actor |-> 0]

\* ver = 0 stands for an empty VersionID.
Manifest == [ver : Ver \cup {0}, clock : Clock, hist : SUBSET Ver]
None == [ver |-> 0, clock |-> Zero, hist |-> {}]

Message == [op : {"put", "delete"}, to : Node, man : Manifest]

TypeOK ==
  /\ man \in [Node -> Manifest]
  /\ log \in [Node -> Manifest]
  /\ made \in SUBSET Ver
  /\ toSend \in [Node -> Nat]
  /\ net \in SUBSET Message
  /\ sync \in [Node -> [step : {"idle", "fetched", "decided"}, man : Manifest]]
  /\ deletes \in 0..MaxDeletes
  /\ restarts \in 0..MaxRestarts

Idle == [step |-> "idle", man |-> None]

Init ==
  /\ man = [n \in Node |-> None]
  /\ log = [n \in Node |-> None]
  /\ made = {}
  /\ toSend = [n \in Node |-> 0]
  /\ net = {}
  /\ sync = [n \in Node |-> Idle]
  /\ deletes = MaxDeletes
  /\ restarts = MaxRestarts

Found(n) == man[n].ver # 0

\* The versions that a manifest lets a reader ask for.
Versions(m) == IF m.ver = 0 THEN {} ELSE {m.ver} \cup m.hist

-----------------------------------------------------------------------------
(* Vector clocks *)

Increment(c, a) == [c EXCEPT ![a] = @ + 1]
Merge(c, d) == [a \in Actor |-> IF c[a] >= d[a] THEN c[a] ELSE d[a]]
AtLeast(c, d) == \A a \in Actor : c[a] >= d[a]
After(c, d) == AtLeast(c, d) /\ ~AtLeast(d, c)
Concurrent(c, d) == ~AtLeast(c, d) /\ ~AtLeast(d, c)

-----------------------------------------------------------------------------
(* The metadata store *)

\* Faulty: the version that is replaced is not archived.
PlacedUnarchived(n, ver, m) ==
  [ver |-> ver,
   clock |-> Merge(Increment(m.clock, n), man[n].clock),
   hist |-> (man[n].hist \cup m.hist) \ {ver}]

\* Faulty: the clock of the manifest that is replaced is not merged.
PlacedUnmerged(n, ver, m) ==
  [ver |-> ver,
   clock |-> Increment(m.clock, n),
   hist |-> man[n].hist \cup (({man[n].ver} \cup m.hist) \ {ver, 0})]

\* What RecordPlacement makes of an incoming manifest m, given ver when its
\* VersionID was empty.  The clock is incremented before it is merged.
Placed(n, ver, m) ==
  IF Found(n)
  THEN [ver |-> ver,
        clock |-> Merge(Increment(m.clock, n), man[n].clock),
        hist |-> man[n].hist \cup (({man[n].ver} \cup m.hist) \ {ver})]
  ELSE [ver |-> ver, clock |-> Increment(m.clock, n), hist |-> m.hist]

RecordPlacement(n, m) ==
  /\ Found(n) => m.clock[n] < MaxClock
  /\ \E v \in Ver :
       /\ \/ m.ver = v /\ UNCHANGED made
          \/ m.ver = 0 /\ v \notin made /\ made' = made \cup {v}
       /\ man' = [man EXCEPT ![n] = Placed(n, v, m)]
       /\ log' = [log EXCEPT ![n] = Placed(n, v, m)]

DeleteScoped(n) ==
  /\ man' = [man EXCEPT ![n] = None]
  /\ log' = [log EXCEPT ![n] = None]

-----------------------------------------------------------------------------
(* Clients *)

\* An upload is recorded; the native API will broadcast it, the S3 API does
\* not.
Upload(n) ==
  /\ RecordPlacement(n, None)
  /\ \/ toSend' = [toSend EXCEPT ![n] = @ + 1]
     \/ UNCHANGED toSend
  /\ UNCHANGED <<net, sync, bounds>>

\* The handler looks the manifest up again and sends what it finds to the
\* peers ps it believes active; when the file is gone it sends the manifest as
\* the client gave it, without a VersionID or a clock.
BroadcastManifest(n, ps) ==
  /\ toSend[n] > 0
  /\ toSend' = [toSend EXCEPT ![n] = @ - 1]
  /\ net' = net \cup {[op |-> "put", to |-> p, man |-> man[n]] : p \in ps}
  /\ Cardinality(net') <= MaxNet
  /\ UNCHANGED <<man, log, made, sync, bounds>>

\* A client's DELETE, broadcast by the native API (ps is empty for S3).
DeleteFile(n, ps) ==
  /\ deletes > 0
  /\ Found(n)
  /\ deletes' = deletes - 1
  /\ DeleteScoped(n)
  /\ net' = net \cup {[op |-> "delete", to |-> p, man |-> None] : p \in ps}
  /\ Cardinality(net') <= MaxNet
  /\ UNCHANGED <<made, toSend, sync, restarts>>

-----------------------------------------------------------------------------
(* Peers *)

\* HandleInternalManifest, POST.
ReceivePut(msg) ==
  /\ msg.op = "put"
  /\ RecordPlacement(msg.to, msg.man)
  /\ net' = net \ {msg}
  /\ UNCHANGED <<toSend, sync, bounds>>

\* HandleInternalManifest, DELETE.
ReceiveDelete(msg) ==
  /\ msg.op = "delete"
  /\ DeleteScoped(msg.to)
  /\ net' = net \ {msg}
  /\ UNCHANGED <<made, toSend, sync, bounds>>

\* A request fails or times out; nobody retries it.
Lose(msg) ==
  /\ net' = net \ {msg}
  /\ UNCHANGED <<man, log, made, toSend, sync, bounds>>

-----------------------------------------------------------------------------
(* Anti-entropy *)

\* fetchPeerManifests: nothing to reconcile when the peer has no manifest.
Fetch(n, p) ==
  /\ n # p
  /\ sync[n].step = "idle"
  /\ Found(p)
  /\ sync' = [sync EXCEPT ![n] = [step |-> "fetched", man |-> man[p]]]
  /\ UNCHANGED <<man, log, made, toSend, net, bounds>>

\* Faulty: a manifest the node does not have is compared like any other.
ShouldUpdateFound(remote, local) ==
  /\ local.ver # 0
  /\ After(remote.clock, local.clock)

ShouldUpdate(remote, local) ==
  \/ local.ver = 0
  \/ After(remote.clock, local.clock)
  \/ /\ Concurrent(remote.clock, local.clock)
     /\ \/ Cardinality(remote.hist) > Cardinality(local.hist)
        \/ remote.ver > local.ver

\* SyncOnce compares the fetched manifest with the local one ...
Decide(n) ==
  /\ sync[n].step = "fetched"
  /\ sync' = [sync EXCEPT ![n] = IF ShouldUpdate(sync[n].man, man[n])
                                 THEN [@ EXCEPT !.step = "decided"]
                                 ELSE Idle]
  /\ UNCHANGED <<man, log, made, toSend, net, bounds>>

\* ... and records it in a step of its own.
Reconcile(n) ==
  /\ sync[n].step = "decided"
  /\ RecordPlacement(n, sync[n].man)
  /\ sync' = [sync EXCEPT ![n] = Idle]
  /\ UNCHANGED <<toSend, net, bounds>>

-----------------------------------------------------------------------------
(* Restart: memory, handlers and the exchange are gone.  The replay records  *)
(* every logged manifest again, before SetNodeID is called: the last record  *)
(* holds all that the earlier ones did, and its Local entry is incremented.  *)

Replayed(m) == IF m.ver = 0 THEN None ELSE [m EXCEPT !.clock = Increment(@, Local)]

Restart(n) ==
  /\ restarts > 0
  /\ log[n].clock[Local] < MaxClock
  /\ restarts' = restarts - 1
  /\ man' = [man EXCEPT ![n] = Replayed(log[n])]
  /\ toSend' = [toSend EXCEPT ![n] = 0]
  /\ sync' = [sync EXCEPT ![n] = Idle]
  /\ UNCHANGED <<log, made, net, deletes>>

-----------------------------------------------------------------------------
Next ==
  \/ \E n \in Node :
       \/ Upload(n)
       \/ \E ps \in SUBSET (Node \ {n}) : BroadcastManifest(n, ps) \/ DeleteFile(n, ps)
       \/ \E p \in Node : Fetch(n, p)
       \/ Decide(n)
       \/ Reconcile(n)
       \/ Restart(n)
  \/ \E msg \in net : ReceivePut(msg) \/ ReceiveDelete(msg) \/ Lose(msg)

Spec == Init /\ [][Next]_vars

\* Every node's reconciler ticks for ever and visits every active peer in each
\* round; broadcasts need not arrive.
Fairness ==
  \A n \in Node :
    /\ \A p \in Node : SF_vars(Fetch(n, p))
    /\ WF_vars(Decide(n))
    /\ WF_vars(Reconcile(n))

FairSpec == Spec /\ Fairness

-----------------------------------------------------------------------------
(* Properties *)

\* The detailed system implements the abstract one: through broadcasts in any
\* order, exchanges that act on stale answers, and restarts, a node loses a
\* version only by a delete (store.go:96-119).
History == INSTANCE VersionHistory WITH known <- [n \in Node |-> Versions(man[n])]
ImplementsHistory == History!Spec

\* A manifest's clock never goes back while the file exists, restarts included:
\* an exchange that decided on a stale answer cannot undo what was recorded in
\* between (store.go:94).
ClockNeverFalls ==
  [][\A n \in Node : Found(n) /\ man'[n].ver # 0 =>
       AtLeast(man'[n].clock, man[n].clock)]_vars

\* A file that some node keeps reaches every node that keeps exchanging with
\* it, whatever broadcasts are lost (anti_entropy.go:97).
MissingIsPulled ==
  \A n, p \in Node : [](<>[]Found(p) => <>Found(n))

\* decisions.md:269 calls the exchange of manifests "completely self-healing":
\* once it has nothing left to change, the nodes serve the same version.
Quiet ==
  /\ net = {}
  /\ \A n \in Node : toSend[n] = 0 /\ sync[n] = Idle
  /\ \A n, p \in Node : Found(p) => ~ShouldUpdate(man[p], man[n])
SelfHealed ==
  Quiet => \A n, p \in Node : man[n].ver = man[p].ver
=============================================================================
