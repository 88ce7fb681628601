------------------------------- MODULE ChunkGC -------------------------------
(***************************************************************************)
(* Uploads and the mark-and-sweep garbage collector over the chunk files   *)
(* of the nodes.                                                           *)
(*                                                                         *)
(* Source: internal/gc/gc.go, internal/storage/inflight.go, the upload and *)
(* delete handlers of internal/api/handlers.go and internal/s3/handlers.go,*)
(* internal/s3/multipart.go, and RecordPlacement and DeleteScoped of       *)
(* internal/metadata/store.go.                                             *)
(*                                                                         *)
(* An upload session runs on the node that received the request (its entry *)
(* node) and writes its chunks to any nodes.  The manifests, the in-flight *)
(* registry and the multipart records a collector reads are those of its   *)
(* own node.  The collector takes its three snapshots, lists the disk and  *)
(* deletes file by file, each under locks of its own: each is one action.  *)
(* A manifest is abstracted to the chunks of its current version and the   *)
(* chunks of the versions archived in it; an empty current version stands  *)
(* for no manifest.                                                        *)
(***************************************************************************)
EXTENDS Naturals, FiniteSets

CONSTANTS
  Node,     \* the nodes, each with a disk, a metadata store and registries
  Chunk,    \* content-addressed chunk IDs
  Object,   \* scoped file keys
  Session,  \* slots for concurrent uploads, reused once an upload is over
  Kinds,    \* the upload APIs in use, a subset of {"stream", "multipart"}
  Run,      \* concurrent POST /admin/gc requests
  W         \* write quorum of PutChunk

ASSUME NodeAssumption == IsFiniteSet(Node)
ASSUME SessionAssumption == IsFiniteSet(Session)
ASSUME KindAssumption == Kinds \subseteq {"stream", "multipart"}
ASSUME QuorumAssumption == W \in Nat \ {0}

VARIABLES
  disk,        \* disk[n]: chunk files on n
  cur,         \* cur[n][o]: ChunkIDs of o's manifest on n
  old,         \* old[n][o]: ChunkIDs of the versions archived in it
  inflight,    \* inflight[n][c]: session count of c in n's registry
  pc,          \* where each session's handler is
  kind,        \* which API the slot's uploads use
  entry,       \* the node that receives them
  object,      \* the key they write
  want,        \* the chunks of its body
  reg,         \* the chunks it has registered in flight
  stored,      \* the chunks PutChunk has acknowledged to it
  parts,       \* the chunks AddPart has recorded in its upload record
  local,       \* history: its chunks the entry node itself has written
  phase,       \* where each collection is
  site,        \* the node it collects
  active,      \* its activeChunks
  todo,        \* listed files it has not looked at yet
  disturbed,   \* history: sessions some collection has overlapped
  kept,        \* history: kept[n][o], chunks n must hold for o, see below
  held,        \* history: chunks one root has held since the run began
  quiet        \* history: only this run has acted since it began

files == <<disk, cur, old>>
slot == <<kind, entry, object>>
session == <<slot, pc, want, reg, stored, parts, local>>
gc == <<phase, site, active, todo>>
history == <<disturbed, kept, held, quiet>>
vars == <<files, inflight, session, gc, history>>

Roots == {"inflight", "parts"}
Phases == {"idle", "registry", "uploads", "list", "sweep"}

TypeOK ==
  /\ disk \in [Node -> SUBSET Chunk]
  /\ cur \in [Node -> [Object -> SUBSET Chunk]]
  /\ old \in [Node -> [Object -> SUBSET Chunk]]
  /\ inflight \in [Node -> [Chunk -> Nat]]
  /\ pc \in [Session -> {"idle", "open", "failed", "detached", "committed"}]
  /\ kind \in [Session -> {"stream", "multipart"}]
  /\ entry \in [Session -> Node]
  /\ object \in [Session -> Object]
  /\ want \in [Session -> SUBSET Chunk]
  /\ reg \in [Session -> SUBSET Chunk]
  /\ stored \in [Session -> SUBSET Chunk]
  /\ parts \in [Session -> SUBSET Chunk]
  /\ local \in [Session -> SUBSET Chunk]
  /\ phase \in [Run -> Phases]
  /\ site \in [Run -> Node]
  /\ active \in [Run -> SUBSET Chunk]
  /\ todo \in [Run -> SUBSET Chunk]
  /\ disturbed \in SUBSET Session
  /\ kept \in [Node -> [Object -> SUBSET Chunk]]
  /\ held \in [Run -> [Roots -> SUBSET Chunk]]
  /\ quiet \in SUBSET Run

Init ==
  /\ disk = [n \in Node |-> {}]
  /\ cur = [n \in Node |-> [o \in Object |-> {}]]
  /\ old = [n \in Node |-> [o \in Object |-> {}]]
  /\ inflight = [n \in Node |-> [c \in Chunk |-> 0]]
  /\ pc = [s \in Session |-> "idle"]
  /\ kind \in [Session -> Kinds]
  /\ entry \in [Session -> Node]
  /\ object \in [Session -> Object]
  /\ want = [s \in Session |-> {}]
  /\ reg = [s \in Session |-> {}]
  /\ stored = [s \in Session |-> {}]
  /\ parts = [s \in Session |-> {}]
  /\ local = [s \in Session |-> {}]
  /\ phase = [g \in Run |-> "idle"]
  /\ site \in [Run -> Node]
  /\ active = [g \in Run |-> {}]
  /\ todo = [g \in Run |-> {}]
  /\ disturbed = {}
  /\ kept = [n \in Node |-> [o \in Object |-> {}]]
  /\ held = [g \in Run |-> [r \in Roots |-> {}]]
  /\ quiet = {}

-----------------------------------------------------------------------------
(* What a node's collector can see *)

Current(n) == UNION {cur[n][o] : o \in Object}
Archived(n) == UNION {old[n][o] : o \in Object}
Referenced(n) == Current(n) \cup Archived(n)

\* InFlightRegistry.GetAllInFlight.  The 15-minute expiry it also applies is
\* left out: main.go bounds a request to 5 minutes of reading.
InFlight(n) == {c \in Chunk : inflight[n][c] > 0}

\* MultipartStore.GetActiveChunkIDs.
UploadedParts(n) == UNION {parts[s] : s \in {t \in Session : entry[t] = n /\ pc[t] = "open"}}

\* What the uploads that run on n rely on, read off their handlers and not
\* off the registry.
Claimed(n, r) ==
  IF r = "parts" THEN UploadedParts(n)
  ELSE UNION {reg[s] : s \in {t \in Session : entry[t] = n}}

Active(s) == pc[s] # "idle"
Collecting == {g \in Run : phase[g] # "idle"}

-----------------------------------------------------------------------------
(* Faulty variants *)

\* Unregister that drops the entry whatever its session count.
UnregisterAll(n, cs) ==
  inflight' = [inflight EXCEPT ![n] = [c \in Chunk |-> IF c \in cs THEN 0 ELSE @[c]]]

\* A handler whose deferred Unregister is missing.
UnregisterForgotten(n, cs) == UNCHANGED inflight

\* A collector that skips one of its roots.
MarkNothing(n) == {}

-----------------------------------------------------------------------------
(* In-flight registry *)

Register(n, c) == inflight' = [inflight EXCEPT ![n][c] = @ + 1]

Unregister(n, cs) ==
  inflight' = [inflight EXCEPT ![n] =
                 [c \in Chunk |-> IF c \in cs /\ @[c] > 0 THEN @[c] - 1 ELSE @[c]]]

\* What a collection takes from each root.
MarkManifests(n) == Referenced(n)
MarkRegistry(n) == InFlight(n)
MarkParts(n) == UploadedParts(n)

-----------------------------------------------------------------------------
(* Upload handlers *)

Reset(s) ==
  /\ pc' = [pc EXCEPT ![s] = "idle"]
  /\ want' = [want EXCEPT ![s] = {}]
  /\ reg' = [reg EXCEPT ![s] = {}]
  /\ stored' = [stored EXCEPT ![s] = {}]
  /\ parts' = [parts EXCEPT ![s] = {}]
  /\ local' = [local EXCEPT ![s] = {}]
  /\ UNCHANGED slot

\* A PUT arrives, or CreateMultipartUpload opens an upload record.
Begin(s, cs) ==
  /\ pc[s] = "idle"
  /\ pc' = [pc EXCEPT ![s] = "open"]
  /\ want' = [want EXCEPT ![s] = cs]
  /\ UNCHANGED <<files, inflight, slot, reg, stored, parts, local, gc, kept>>

\* processChunkFunc registers a chunk before it hands it on.  UploadPart does
\* not register.  A chunk that occurs twice in a body is registered and
\* unregistered twice; it counts once here.
RegisterChunk(s, c) ==
  /\ pc[s] = "open" /\ kind[s] = "stream"
  /\ c \in want[s] \ reg[s]
  /\ Register(entry[s], c)
  /\ reg' = [reg EXCEPT ![s] = @ \cup {c}]
  /\ UNCHANGED <<files, slot, pc, want, stored, parts, local, gc, kept>>

\* PutChunk: the nodes ns acknowledge the write.  With fewer than W of them it
\* fails: a stream upload is over, an uploaded part is rejected and may be
\* retried.  The other workers of a failed stream still drain the job channel.
StoreChunk(s, c, ns) ==
  /\ pc[s] \in {"open", "failed"}
  /\ c \in (IF kind[s] = "stream" THEN reg[s] ELSE want[s]) \ stored[s]
  /\ disk' = [n \in Node |-> IF n \in ns THEN disk[n] \cup {c} ELSE disk[n]]
  /\ \/ /\ Cardinality(ns) >= W
        /\ stored' = [stored EXCEPT ![s] = @ \cup {c}]
        /\ local' = [local EXCEPT ![s] = IF entry[s] \in ns THEN @ \cup {c} ELSE @]
        /\ UNCHANGED pc
     \/ /\ Cardinality(ns) < W
        /\ pc' = [pc EXCEPT ![s] = IF kind[s] = "stream" THEN "failed" ELSE "open"]
        /\ UNCHANGED <<stored, local>>
  /\ UNCHANGED <<cur, old, inflight, slot, want, reg, parts, gc, kept>>

\* The client goes away, or the body does not match its digest.
UploadFails(s) ==
  /\ pc[s] = "open" /\ kind[s] = "stream"
  /\ pc' = [pc EXCEPT ![s] = "failed"]
  /\ UNCHANGED <<files, inflight, slot, want, reg, stored, parts, local, gc, kept>>

\* The end of handleUploadPart.
AddPart(s, c) ==
  /\ pc[s] = "open" /\ kind[s] = "multipart"
  /\ c \in stored[s] \ parts[s]
  /\ parts' = [parts EXCEPT ![s] = @ \cup {c}]
  /\ UNCHANGED <<files, inflight, slot, pc, want, reg, stored, local, gc, kept>>

\* CompleteUpload takes the requested parts out of the upload store; the
\* manifest is recorded in a later step.
CompleteUpload(s, cs) ==
  /\ pc[s] = "open" /\ kind[s] = "multipart"
  /\ cs \subseteq parts[s] /\ cs # {}
  /\ pc' = [pc EXCEPT ![s] = "detached"]
  /\ want' = [want EXCEPT ![s] = cs]
  /\ UNCHANGED <<files, inflight, slot, reg, stored, parts, local, gc, kept>>

AbortUpload(s) ==
  /\ pc[s] = "open" /\ kind[s] = "multipart"
  /\ Reset(s)
  /\ UNCHANGED <<files, inflight, gc, kept>>

\* RecordPlacement on node n: the previous version is archived with what it
\* had archived itself.
RecordPlacement(n, o, chunks, archived) ==
  /\ cur' = [cur EXCEPT ![n][o] = chunks]
  /\ old' = [old EXCEPT ![n][o] = @ \cup cur[n][o] \cup archived]

\* The manifest is recorded once every chunk of the body is stored.
Commit(s) ==
  /\ \/ pc[s] = "open" /\ kind[s] = "stream" /\ stored[s] = want[s]
     \/ pc[s] = "detached"
  /\ RecordPlacement(entry[s], object[s], want[s], {})
  /\ pc' = [pc EXCEPT ![s] = "committed"]
  /\ kept' = IF s \in disturbed THEN kept
             ELSE [kept EXCEPT ![entry[s]][object[s]] = @ \cup (want[s] \cap local[s])]
  /\ UNCHANGED <<disk, inflight, slot, want, reg, stored, parts, local, gc>>

\* The handler returns and its deferred Unregister runs.
Finish(s) ==
  /\ pc[s] \in {"committed", "failed"}
  /\ Unregister(entry[s], reg[s])
  /\ Reset(s)
  /\ UNCHANGED <<files, gc, kept>>

-----------------------------------------------------------------------------
(* Metadata *)

\* A manifest reaches another node: the broadcast of the native API, which is
\* sent once and may be lost, or a later anti-entropy round.  Its delay on the
\* way is left to MetadataReplication: here only the set of chunks a node
\* references matters.
Replicate(m, n, o) ==
  /\ m # n /\ cur[m][o] # {}
  /\ RecordPlacement(n, o, cur[m][o], old[m][o])
  /\ UNCHANGED <<disk, inflight, session, gc, kept>>

\* DeleteScoped, called by a client's DELETE or by a peer's delete broadcast.
Delete(n, o) ==
  /\ cur[n][o] # {}
  /\ cur' = [cur EXCEPT ![n][o] = {}]
  /\ old' = [old EXCEPT ![n][o] = {}]
  /\ kept' = [kept EXCEPT ![n][o] = {}]
  /\ UNCHANGED <<disk, inflight, session, gc>>

\* A node restarts: requests, registry and upload records are gone, the disk
\* and the manifests (replayed from the log) are not.
Crash(n) ==
  LET lost == {s \in Session : entry[s] = n}
      clear(f) == [s \in Session |-> IF s \in lost THEN {} ELSE f[s]]
      stopped == {g \in Run : site[g] = n}
  IN /\ inflight' = [inflight EXCEPT ![n] = [c \in Chunk |-> 0]]
     /\ pc' = [s \in Session |-> IF s \in lost THEN "idle" ELSE pc[s]]
     /\ want' = clear(want) /\ reg' = clear(reg) /\ stored' = clear(stored)
     /\ parts' = clear(parts) /\ local' = clear(local)
     /\ phase' = [g \in Run |-> IF g \in stopped THEN "idle" ELSE phase[g]]
     /\ active' = [g \in Run |-> IF g \in stopped THEN {} ELSE active[g]]
     /\ todo' = [g \in Run |-> IF g \in stopped THEN {} ELSE todo[g]]
     /\ UNCHANGED <<files, slot, site, kept>>

-----------------------------------------------------------------------------
(* CollectGarbageForNamespace *)

GCMarkManifests(g) ==
  /\ phase[g] = "idle"
  /\ phase' = [phase EXCEPT ![g] = "registry"]
  /\ active' = [active EXCEPT ![g] = MarkManifests(site[g])]
  /\ UNCHANGED <<files, inflight, session, site, todo, kept>>

GCMarkInFlight(g) ==
  /\ phase[g] = "registry"
  /\ phase' = [phase EXCEPT ![g] = "uploads"]
  /\ active' = [active EXCEPT ![g] = @ \cup MarkRegistry(site[g])]
  /\ UNCHANGED <<files, inflight, session, site, todo, kept>>

GCMarkMultipart(g) ==
  /\ phase[g] = "uploads"
  /\ phase' = [phase EXCEPT ![g] = "list"]
  /\ active' = [active EXCEPT ![g] = @ \cup MarkParts(site[g])]
  /\ UNCHANGED <<files, inflight, session, site, todo, kept>>

GCListChunks(g) ==
  /\ phase[g] = "list"
  /\ phase' = [phase EXCEPT ![g] = "sweep"]
  /\ todo' = [todo EXCEPT ![g] = disk[site[g]] \ active[g]]
  /\ UNCHANGED <<files, inflight, session, site, active, kept>>

GCSweep(g, c) ==
  /\ phase[g] = "sweep"
  /\ c \in todo[g]
  /\ todo' = [todo EXCEPT ![g] = @ \ {c}]
  /\ disk' = [disk EXCEPT ![site[g]] = @ \ {c}]
  /\ UNCHANGED <<cur, old, inflight, session, phase, site, active, kept>>

GCDone(g) ==
  /\ phase[g] = "sweep"
  /\ todo[g] = {}
  /\ phase' = [phase EXCEPT ![g] = "idle"]
  /\ active' = [active EXCEPT ![g] = {}]
  /\ UNCHANGED <<files, inflight, session, site, todo, kept>>

-----------------------------------------------------------------------------
(* History: which runs overlapped which uploads, and what each run could have *)
(* found under one root at every moment since it began.                      *)

Track ==
  /\ disturbed' = {s \in Session : Active(s)' /\ (s \in disturbed \/ Collecting' # {})}
  /\ held' = [g \in Run |-> [r \in Roots |->
                IF g \notin Collecting' THEN {}
                ELSE IF g \notin Collecting THEN Claimed(site[g], r)'
                ELSE held[g][r] \cap Claimed(site[g], r)']]
  /\ quiet' = {g \in Collecting' : /\ \A s \in Session : ~Active(s)'
                                   /\ g \in Collecting => g \in quiet
                                   /\ UNCHANGED <<cur, old>>}

UploadStep(s) ==
  \/ \E cs \in SUBSET Chunk \ {{}} : Begin(s, cs) \/ CompleteUpload(s, cs)
  \/ \E c \in Chunk : RegisterChunk(s, c) \/ AddPart(s, c)
  \/ \E c \in Chunk, ns \in SUBSET Node : StoreChunk(s, c, ns)
  \/ UploadFails(s)
  \/ AbortUpload(s)
  \/ Commit(s)
  \/ Finish(s)

MetadataStep ==
  \/ \E m, n \in Node, o \in Object : Replicate(m, n, o)
  \/ \E n \in Node, o \in Object : Delete(n, o)
  \/ \E n \in Node : Crash(n)

CollectStep(g) ==
  \/ GCMarkManifests(g)
  \/ GCMarkInFlight(g)
  \/ GCMarkMultipart(g)
  \/ GCListChunks(g)
  \/ \E c \in Chunk : GCSweep(g, c)
  \/ GCDone(g)

Next ==
  /\ \/ \E s \in Session : UploadStep(s)
     \/ MetadataStep
     \/ \E g \in Run : CollectStep(g)
  /\ Track

Spec == Init /\ [][Next]_vars

-----------------------------------------------------------------------------
(* Properties *)

\* The registry's count of a chunk is the number of unfinished uploads on the
\* node that have registered it: one upload's Unregister never takes away the
\* protection of another that shares the chunk (inflight.go:42).
RegistryCountsSessions ==
  \A n \in Node, c \in Chunk :
    inflight[n][c] = Cardinality({s \in Session : entry[s] = n /\ c \in reg[s]})

\* An upload that no collection overlapped stays on disk: whatever collections,
\* overwrites, failed uploads and restarts come later, the chunks its entry
\* node wrote are there until the object is deleted, also once the version is
\* only an archived one (gc.go:67-80).
UndisturbedUploadKept ==
  \A n \in Node, o \in Object : kept[n][o] \subseteq disk[n]

\* A collection spares the chunks an upload of the same node had registered,
\* or recorded as parts, before the collection began and still holds
\* (gc.go:82-99).
SweepSparesHeld ==
  [][\A g \in Run, c \in Chunk :
       GCSweep(g, c) => \A r \in Roots : c \notin held[g][r]]_vars

\* A collection during which nothing else happens leaves no orphan: failed,
\* aborted and crashed uploads do not leak chunks for ever (gc.go:109-125).
QuietRunLeavesNoOrphan ==
  [][\A g \in Run :
       GCDone(g) /\ g \in quiet => disk[site[g]] \subseteq Referenced(site[g])]_vars

\* decisions.md:193 "In-flight uploads are never swept mid-stream", and with
\* it the chunks of every recorded manifest.
NoStreamSwept ==
  [][\A g \in Run, c \in Chunk, s \in Session :
       GCSweep(g, c) /\ pc[s] = "open" /\ kind[s] = "stream" /\ entry[s] = site[g]
         => c \notin stored[s]]_vars
=============================================================================
