# Formal verification of CloudWeave

CloudWeave is a distributed object store written in Go: a consistent-hash ring, quorum writes of
content-addressed chunks, gossip-free membership by heartbeats, repair after a death, manifests
with vector clocks that are exchanged between the nodes, a write-ahead log, a mark-and-sweep
collector, an LRU cache, an S3 gateway and an erasure-coded storage mode. Beside it stands a
documentation site in TypeScript (Next.js, React, three.js), whose pages play these mechanisms:
failures, reconstructions, placements, quorums. This directory holds TLA+ models of both, TLC runs
over small instances, and theorems that TLAPS proves for instances of any size. Every definition is
translated from the Go or TypeScript source; `PROJECT.json` (`map`) says which lines each
definition stands for.

Contents: [inventory](#inventory) · [modules](#modules-and-the-code) · [runs](#runs) ·
[findings](#findings) · [bounds](#bounds) · [fairness](#fairness) · [proofs](#proofs) ·
[what is not modelled](#what-is-not-modelled) · [plan](#plan)

## Inventory

| Component (source) | State | Operations | What makes it correct |
|---|---|---|---|
| Membership and heartbeats (`internal/cluster/membership.go`, `heartbeat.go`) | table of nodes with `LastSeen` and `ConsecutiveFailures`, the ring | `AddNode`, `RemoveNode`, `MarkAlive`, `RecordFailure`, the ticker's `CheckNodes`, pings | the ring is the set of live nodes; each death is announced once; a silent peer leaves, an answering one returns |
| Repair pool (`internal/replication/worker.go`) | bounded `jobQueue`, workers | `SubmitDeadNodeJob`, the worker loop | no announced death is lost silently |
| Ring (`internal/ring`) | hash positions, virtual nodes | `AddNode`, `RemoveNode`, `GetNodesForKey` | N distinct live nodes per key, the same on every node with the same members; a node that leaves moves only its own keys |
| Quorum writes and reads (`internal/coordinator/write.go`, `read.go`) | none of their own | `PutChunk`, `WriteChunk`, `ReadChunk` | an acknowledged write is on W nodes, a manifest lists only holders |
| Repair (`internal/replication/repair.go`) | none of its own | `RepairDeadNode` | replicas lost with a node are made up for, and no location is invented |
| Metadata store (`internal/metadata/store.go`) | manifests with versions and clocks, buckets, credentials | `RecordPlacement`, `DeleteScoped`, `UpdateChunkLocations`, bucket calls | versions are lost only by deletes; clocks only grow |
| Log (`internal/metadata/wal.go`) | `metadata.wal` | `WriteRecord`, `ReplayWAL`, `CompactWAL` | a restart rebuilds what clients were told |
| Anti-entropy (`internal/cluster/anti_entropy.go`) | none of its own | `SyncOnce` per peer and tick | nodes end up with the same manifests |
| HTTP API (`internal/api`) | in-flight broadcasts | upload, download, delete, `/internal/manifest`, `/internal/chunk`, `/admin/*` | a 201 means every chunk is stored |
| Collector and in-flight registry (`internal/gc`, `internal/storage/inflight.go`) | reference counts per chunk | `CollectGarbage`, `Register`, `Unregister` | no chunk in use is swept; orphans are |
| Chunk files and cache (`internal/storage/diskstore.go`, `lru.go`) | files, LRU list, byte count | `Put`, `Get`, `Delete`, `InvalidateChunk` | the cache holds only what is on disk and stays within its capacity |
| Erasure mode (`internal/erasure`, `internal/coordinator/erasure.go`) | shard files | `Encode`, `Reconstruct`, `PutErasureChunk`, `ReadErasureChunk` | any K shards give a chunk back, and the reader finds them |
| S3 gateway (`internal/s3`) | multipart uploads and their parts | object calls, `UploadPart`, `CompleteUpload`, `AbortUpload`, signatures | parts are protected until their object references them |
| Chunking (`internal/chunk`) | none | `SplitStream`, `SplitStreamCDC` | the chunks are the body |
| Keys, client, CLI, metrics | | | not modelled, see below |

The documentation site (`documentation/components`, `documentation/app`):

| Component (source) | State | Operations | What makes it correct |
|---|---|---|---|
| Failure demonstrations (`canvas/FailureRecovery3D`, `canvas/FailureCanvas`, `playground/FailureRecoverySimulator`) | phase, nodes with status and chunks, timeouts, time line | kill a node, reset, three timeouts | phases in order; at rest one dead node; every chunk has a live copy |
| Erasure demonstrations (`canvas/ErasureCoding3D`, `canvas/ErasureCanvas`, `playground/ErasureCodingPlayground`) | which of six shards are alive, a timeout | click a shard, reconstruct, reset, mode | the verdict is what the nodes can decode |
| Write pipeline (`canvas/Pipeline3DScroll`) | stage, caption, scene objects | tabs and buttons, frames, renders | the caption tells what the scene shows |
| System canvas (`canvas/MasterSystemCanvas`) | step, play state, speed, timeout | steps, play, speed, chunk and node selection, the effect | a timeout is armed exactly while it plays; nodes drawn to only grow |
| Rings (`canvas/VaultRing3D`, `playground/UploadChunkingVisualizer`, `playground/ConsistentHashRing`) | stream, selection, active nodes | frames, play, selection, nodes off and on | the placement table is the ring |
| Vault dial (`canvas/FullBleedVaultLock3D`, `landing/LandingPage`) | lock state, hover, bolts, the cursor of the document | clicks, pointer, effects, frames, take-down | the cursor comes back; the dial settles |
| Copy buttons (`CodeBlock`, and the buttons of three pages) | labels, timeouts | click, timeout, unmount | a label has a timeout that takes it away |
| Calculators (`playground/QuorumVisualizer`, `canvas/DedupCanvas`, `playground/DeduplicationPlayground`, `cta/GetStartedView`) | settings | sliders, toggles, uploads, configurator | the figures and claims follow from their definitions |
| Shell and routes (`playground/PlaygroundShell`, `app/*/page.tsx`) | page, tab, tab fading out | navigation, tabs, end of the exit animation | a tab that was chosen is shown |
| Text pages, header, chunking animations | | | not modelled, see below |

**How they interact.** A client request enters any node. The handler splits the body, registers
each chunk in flight and hands it to workers, which call `PutChunk`: it asks the ring for targets
and writes to them over HTTP or to the local disk. Once all chunks are located the handler calls
`RecordPlacement`, which logs and stores the manifest, and broadcasts it; what a peer misses, its
reconciler pulls later. The membership table drives the ring and calls `onNodeDead` after
releasing its lock; `main.go` wires that callback to the repair pool. The collector reads
manifests, the registry, multipart records and the disk directory of its own node, one after the
other. In the site one page is mounted at a time; a component keeps its state in React, and arms
browser timeouts, effects, animation frames and listeners that call back later. What outlives a
page is the cursor of the document and the timeouts nobody clears.

**What is hard.** Nothing spans two locks: the collector reads four sources at four moments;
`Get` reads a file and fills the cache in two steps; `SyncOnce` and `RepairDeadNode` decide on a
copy and write it back later; ping goroutines of several rounds overlap and answer after the
operator has changed the table. Nothing spans two nodes: manifests, rings and elected
coordinators are each node's own. Failures are partial: writes that reach W of N nodes, broadcasts
that are lost, log writes that fail with the error dropped, crashes that tear the record being
written, records that do not pass their own checksum, bodies that are cut off and taken for complete. In the site, timeouts are not cleared by a reset or an unmount, so those of one run play
into the next; a frame may come at any time of a cycle and asks for state that is rendered later;
clicks fall between a state change and its effect; navigation falls anywhere. `PROJECT.json` lists each hazard at its line with the properties aimed at it.

## Modules and the code

Each module of the storage nodes has an `MC...` module, which only names the small sets of an
instance, and a `...Proofs` module. The modules of the site are composed by `Site`, which has one of
each for all of them.

| Module | State ↔ code | Actions ↔ code | Granularity |
|---|---|---|---|
| `Membership` | `status`, `failures`, `silence` ↔ `m.nodes`; `ring` ↔ the ring's nodes; `answers` ↔ pings in goroutines; `callbacks` ↔ `onNodeDead` between unlock and submit; `queue`, `working` ↔ the pool | one action per method of `Membership`, per callback and per worker step | a method holds `m.mu` and is one step; its callback, and the answer of a ping, are later ones |
| `ChunkGC` | `disk`, `cur`, `old`, `inflight`, `parts` ↔ files, manifests, archived versions, registry, multipart records of each node; `reg`, `stored` ↔ locals of the handlers; `active`, `todo` ↔ locals of the collector | the steps of stream and multipart uploads, manifest exchange, delete, restart; one action per source of marks and one per swept file | each lock section |
| `VersionHistory` | what one file promises: known versions | `Create`, `Learn`, `Forget` | abstract |
| `MetadataReplication` | `man` ↔ `store.manifests`; `log` ↔ last record; `toSend`, `net` ↔ broadcasts; `sync` ↔ locals of `SyncOnce` | upload, broadcast and its receipt or loss, delete, fetch/decide/reconcile, restart with replay | each store method; `SyncOnce` in three |
| `UploadPipeline` | `jobs`, `errChan` ↔ the channels of `handlePutFile`; `located` ↔ `chunkLocations`; `reserved` ↔ registry; `task`, `gone` ↔ workers | reserve, offer, every case of each `select`, the end of the body or a cut, the worker loop, the client leaving | each channel operation |
| `Ring` | none of its own: `hashToNode` as a value | `AddNode`, `RemoveNode`, the start of `main` (`Joined`), the walk of `GetNodesForKey` (`Targets`) | each ring method |
| `ReplicaRepair` (extends `Ring`) | `ring`, `hashToNode`, `locs` of every node; `disk` ↔ who has the chunk; `put`, `jobs`, `repair` ↔ calls under way | the write target by target, the repair transfer by transfer, crash, restart, detection | each chunk call |
| `DurableStore` | what a store behind a log promises: `live`, `durable` values, whether the log is `sound` | `Change`, `Interrupted`, `Crash`, `Recover` | abstract |
| `MetadataLog` | `lines`, `ended` ↔ the file, as lines made of pieces of records; `mem` ↔ the store; `offset` ↔ `lastCleanOffset` | change, torn change, failed write, crash, and the replay line by line to the end, to a line at which it cuts the file, or to one with a wrong checksum | each line |
| `DiskStore` | `files`, `items`, `bytes` ↔ directory, `evictList`, `currentBytes`; `op`, `pc`, `chunk` ↔ calls under way | `Put`, `Get`, `Delete` each in its steps, `InvalidateChunk`, restart | each file operation or cache method |
| `ErasureCode` | none: operators only | the field arithmetic, `Encode`, `gfInvertMatrix`, `Reconstruct`; `DecodableSets` says which K shards give every chunk back | byte position |
| `ErasurePlacement` (extends `ErasureCode`) | `targets` ↔ `targetNodes`; `holds` ↔ shard files; `locs` ↔ locations recorded | each shard write, crash, restart, sweep | each shard |
| `FailureDemo` | `phase`, `status`, `chunks`, `events` ↔ `useState`; `timers` ↔ timeouts armed | kill, reset, a timeout firing, in any order the browser may choose | each callback |
| `ErasureLab` (extends `ErasureCode`) | `alive`, `isReconstructing`, `mode` ↔ `useState`; `pending` ↔ timeouts | each handler and the timeout | each callback |
| `PipelineScenes` | `activeStage`, `showCode`, `caption` ↔ `useState`; `captionNext` ↔ the value last set; `frameTime` ↔ the clock of the last frame | buttons, media query, frame, render | each frame and render |
| `SystemCanvas` | `step`, `isPlaying`, `speed`, ... ↔ `useState`; `armed`, `timerId` ↔ the timeout; `effectDue` ↔ an effect not run yet | each handler, the timeout, the effect | a click runs its effect with it, a timeout's effect follows the render |
| `RingViews` | `progress`, `packet`, `replicaPackets` ↔ refs of the stream; `activeNodes`, `currentChunk` ↔ `useState` | frame, handlers, media query | each callback |
| `VaultLock` | `locked`, `hovered` ↔ `useState`; dial and bolts ↔ refs; `bodyCursor` ↔ `document.body.style.cursor`; `takeDown` ↔ a clean-up not run yet | clicks, pointer, both effects, frame, clean-up | each effect and frame |
| `CopyLabels` | `copied`, `labelTimers` ↔ the label and timeouts of each button | click, timeout, unmount | each callback |
| `Labs` | the settings of the four calculators | each handler | each callback |
| `PlaygroundShell` | `activeExperiment` ↔ `useState`; `shownExperiment` ↔ what `AnimatePresence` still shows | tab, end of the exit animation | each callback |
| `Site` | `page` ↔ the route; all of the above | navigation, tabs, and the steps of what is mounted | as its parts |

A few choices a reader should know:

- **Data.** Names, chunk contents and URLs are members of small sets. A manifest is its
  version, its clock and its archived versions in `MetadataReplication`, the chunks of those
  versions in `ChunkGC`, and the location set of one chunk in `ReplicaRepair`. `VersionID`s are
  wall-clock strings that the code compares; they are numbers given out in any order, because the
  clocks of two nodes need not agree.
- **Saturation.** `failures` and `silence` count up to the thresholds that the code compares them
  with; it tells nothing beyond those apart.
- **Positions on the ring** are a parameter of `Ring`: the hash of each virtual node and of the chunk. Two
  nodes may have a position in common. Each node adds itself first and its peers in the order of its
  flags (`Later`), so that after a collision even fresh rings of the same nodes can differ.
- **`mtimeGrace`** of the collector is 0 and set by tests only, so the model has no grace period.
- A part's `PutChunk` that still runs after its upload was aborted or completed is not modelled
  in `ChunkGC`.
- In `ErasurePlacement` the node that writes and reads is none of the targets and keeps running.
  There is no repair action: repair asks for the file `c`, which no node has in erasure mode, and
  changes nothing.
- **Time in the site** is not modelled. Of two timeouts the browser fires first the one that was
  armed no later with a delay no longer; all other orders are possible. A frame comes at any time of
  the cycle, in the units at which the scene changes. Distances are in the same units.
- **Pages.** Components that no route mounts are pages of their own, gone to from the documentation
  page. A clean-up of the dial that is pending runs before anything but the landing page acts; no
  other component reads what it changes. The media preference is chosen anew for each page. The dial's
  `VaultRing3D` on the landing page is exercised in the playground only.
- **Three failure demonstrations in one module.** They share their handlers and differ in what can be
  killed and what is shown; the simulator calls its first two stages failed and detected, which are
  lost and failed here, and its time line has one entry for each stage.
- **History variables** (`unrepaired`, `dropped`; `kept`, `held`, `disturbed`, `quiet`;
  `cut`; `promise`, `intact`, `behind`; `stored`, `clean`, `raced`; `orderly`; `overrun`) record what a property speaks of; no guard
  reads them.

## Runs

There is one run per component of the nodes and one for the whole site, under the specification
that has all of its behaviour, and one for each of three disagreements with the documentation.
"Fails" marks a run in which TLC has to find the counterexample.

| Run | Instance | Shows |
|---|---|---|
| `Membership` | 2 peers, 1 worker, queue of 1, 2 pings or callbacks outstanding per peer, 2 operator calls | through joins, leaves, late answers and a full queue the ring is the set of live nodes, no announced death is forgotten without a trace and each is announced once; a peer silent for good leaves for good, one that answers for good returns for good; each announced death is started or met a full queue |
| `ChunkGC` | 2 nodes, 2 uploads of either kind that share a chunk and an object, 1 collection at a time on either node, restarts | the registry counts uploads; an upload no collection overlapped stays on its entry node; a sweep spares what was held before it began; an undisturbed collection leaves no orphan |
| `ChunkGCStreamSwept` (fails) | 1 node, 1 stream upload, 1 collection | a chunk registered after the registry was read and written before the disk is listed is swept |
| `Metadata` | 2 nodes, 2 uploads of one file, 1 delete, 1 restart, lossy broadcasts | the refinement of `VersionHistory`; clocks never fall; what one node keeps reaches the other |
| `MetadataDiverged` (fails) | concurrent uploads on 2 nodes | equal clocks on different versions: nothing repairs that |
| `Upload` | 6 chunks, 3 workers, channel of 2 | a 201 means that all chunks received are stored, and that they are the body unless it was cut off unnoticed; every write has its reservation; the handler never blocks on workers that are gone |
| `Replica` | 3 nodes of 2 virtual nodes, N=W=2, 2 uploads, 2 crashes, 1 restart, 1 failed call | every ring places the chunk on N of its nodes, rings of the same nodes agree, and a smaller ring keeps what it can of a larger one's choice; manifests list holders only and lose at most one location per crash; one death, with equal manifests, is made up for |
| `Log` | 2 keys, 2 values, 1 record of the 6 that fails its own checksum, 4 changes, 3 crashes, 1 failed write | what was confirmed is served again and the log rebuilds memory, but for the keys recorded at or behind the record that fails, and unless a write failed or lost only its newline; a replay serves and keeps the longest readable prefix, whatever happened; the refinement of `DurableStore` |
| `Disk` | chunks of 1 and 2 bytes, cache of 2 bytes, 3 requests at a time, 1 restart | byte accounting, no duplicates, capacity; cached or confirmed chunks have files, unless a `Delete` hit them in use |
| `Erasure` | K=4, M=2 on 6 nodes and on 3, 3 crashes or returns, 1 failed write, 1 sweep | a chunk whose acknowledged shards are the first ones is given back while K of them are on running nodes; this evaluates the code for every 4 of the 6 shards in every order |
| `ErasureSwept` (fails) | K=4, M=2 on 3 nodes, 2 sweeps | the collector takes shards for orphans |
| `Site` | all pages; 2 failures, 2 reconstructions and 2 labels of a button outstanding | see below |

The run `Site` checks, while visitors go anywhere at any moment:

- `RestsAreRight`: a node can be killed only in the healthy cluster, and a demonstration whose
  timeouts have all fired rests with one dead node, whatever runs overlapped; `CopiesSurvive`,
  `PhasesInOrder`: in a run no other plays into, every chunk has a live copy, and the phases come in
  order;
- `ErasureLabIsSound`: data is called lost exactly when the matrix of the nodes cannot give it back
  (`ErasureCode` decides), and an undisturbed reconstruction uses shards that suffice;
- `CaptionTellsScene`: a rendered caption is true of the scene beside it, whatever frames were skipped;
- `TimerFollowsPlay`, `PlacementGrows`, `LeftAloneItPlays`: the system canvas neither stops nor runs
  on, draws to more and more nodes, and left alone begins anew again and again;
- `RingViewsAreRight`: copies leave together, and the placement table is what the ring would give;
- `CursorIsAccountedFor`, `LabelIsTimed`: what outlives its component is taken back;
- `CalculatorsTell`: the quorum badges hold of sets of nodes; sizes and counts of deduplication follow
  from the chunks shown, and the 75% saving is the share of chunks, more than that of bytes (30% of both
  versions); the generated cluster file names quorums that survive a failure, but starts nodes that each
  stand alone, since `main.go` reads none of its names;
- `WhatIsStartedEnds`: failures, reconstructions, captions, the cursor, the dial and a change of tabs
  come to their end.

Several properties are conjunctions of named parts: `RingFollowsPeers` of `Membership` is
`SilentPeerLeaves` and `AnsweringPeerReturns`, and so on. The type invariants of `Membership`,
`ChunkGC`, `MetadataReplication`, `UploadPipeline`, `MetadataLog`, `ReplicaRepair` and `ErasurePlacement`
are proved and stand in no run; that of `DiskStore`, which counts bytes, is proved and checked. `SiteTypeOK` is the
conjunction of the site's.

Each property of a passing run has a mutant in `PROJECT.json`: a change of a mapped definition of
the kind a bug in that code would be (a dropped guard, a lost reset, a swapped order), under which
the run fails. The faulty variants stand in the modules, marked as such; no specification uses
them.

## Findings

Disagreements between the code and what its documents and comments say, each shown by a run;
`PROJECT.json` has the quoted lines.

1. `ErasureSwept` (code): shard files are `c.si`, and the sweep looks up whole file names among
   chunk IDs, so it deletes all shards.
2. `ChunkGCStreamSwept` (documentation): "in-flight uploads are never swept mid-stream" does not
   hold between the collector's reads of the registry and of the disk.
3. `MetadataDiverged` (documentation): equal clocks on different versions are never reconciled.

The models have further behaviour that the properties step around, because the code promises less
there than its reader may expect:

- the job that meets a full repair queue need not be a duplicate (`Membership`, `dropped`);
- the chunks of a multipart part are in no registry until `AddPart` (`ChunkGC`, `StoreChunk`);
- the clock of a second upload can equal the first's (`MetadataReplication`, `Placed`), so
  `ClockNeverFalls` says "never falls" and not "grows";
- a write acknowledged by W nodes lists only those, and the survivors of a death elect a
  coordinator from manifests that may differ, so that two or none may repair (`ReplicaRepair`):
  `SingleDeathHealed` supposes equal manifests;
- a record torn right before its newline is accepted and left unterminated (wal.go:96, "gracefully
  truncates the torn bytes"); the next record is appended to its line, and the replay after that
  cuts both. A log write whose error is dropped precedes a confirmation (`MetadataLog`, `Torn` and
  `RecordUnlogged`; both excluded by `intact`);
- a body that is cut off with its connection ends in `io.ErrUnexpectedEOF`, which `SplitStream` takes for a
  normal end (chunker.go:89; `SplitStreamCDC` does not): the handler acknowledges and records what it got
  as the file. `AcknowledgedIsStored` says that this is stored, and that it is the whole body otherwise
  (`UploadPipeline`, `BodyEnds`, `cut`);
- the checksum of a record is taken again over what was decoded and marshalled once more (wal.go:139). A
  string with invalid UTF-8, which a file name or a metadata value may be, is written as `\ufffd` and comes
  back as the character itself, so the record fails although it was written whole. With its newline in
  place `ReplayWAL` then returns an error and does not cut the file; `main.go` (238-249) logs a warning and
  serves what came before, later records go behind the line, and every later replay stops there again
  (`MetadataLog`, `ReplayMismatch`; the keys are `behind`). wal.go:95 says that all committed
  records are executed, decisions.md:178 that the log rebuilds the state;
- a `Put` can be confirmed from the cache with no file on disk after a `Delete` raced a fill
  (`DiskStore`, excluded by `clean`);
- a failed shard write shifts the recorded locations of the later shards, so the reader asks the
  wrong nodes (`ErasurePlacement`): hence the condition of `PrefixIsReadable`.

What the site shows differs from what the nodes do, or from what it says, in these places:

- failure demonstrations: timeouts survive a reset, so a second run may be repaired by the first's
  (`overrun`); with node 4 as the victim "restored on Vault-04" is said of the dead node, and with
  node 1 the stream leaves a dead source; "Replication back to N=3" is said while two chunks have
  two copies;
- erasure demonstrations: a reconstruction brings back shards that were clicked away meanwhile, also
  when fewer than four are left, and its timeout acts after a reset (`disturbed`);
- pipeline: a skipped frame may let the duplicate vanish before it has arrived; the packet of stage 4
  passes its target; the stream of stage 1 starts before the wheel has stopped; captions lag a
  frame; the code block is not keyed, so "Copied" may stand beside another stage's code, and the
  code that is copied is not trimmed as the one shown;
- system canvas: the replicas of chunk d, {1, 5}, are not the ring successors {4, 5} of the other
  table, and the acknowledgements are drawn from nodes 3 and 1 for each chunk;
- dial: it says LOCKED before the bolts are out, and flashes again when mounted while locked;
- copy buttons: a second click's label is cut short by the first's timeout, and is shown also when
  writing to the clipboard fails; the one-line installer copies another command than it shows;
- calculators: "75%" of the second version's chunks, and 60% of its bytes, are saved; "2 files
  uploaded" is said after one;
- generated clusters: the compose file sets `PORT`, `PEERS`, `QUORUM_N`, ..., and `cmd/node/main.go`
  (75-92) reads `CLOUDWEAVE_*`, so its nodes run alone; erasure K=4, M=2 is offered for 3 and 5 nodes;
- playground: a tab that is chosen again before its exit animation ends keeps its state and timeouts.

## Bounds

Bounds are CONSTANTS named `Max...` or capacities, used in guards only. They were chosen so that
the interesting interleaving happens and one more of each kind does too:

- `Membership`: two peers are needed for a full queue of one to drop another death; a threshold
  of 2 misses distinguishes the first failure from the last; two pings outstanding overlap the
  rounds of the ticker; two operator calls let a leave and a rejoin meet a late answer.
- `ChunkGC`: two sessions share the chunk, which is what makes the registry a counter; two nodes
  give chunks and manifests from elsewhere, collections on either node and restarts between any
  two steps. A second chunk makes the state space too large; chunks meet only in an upload's set
  and in the collector's sets, and the theorem `UndisturbedUploadsSurvive` is for any number.
- `MetadataReplication`: two nodes and two versions give concurrent clocks, stale exchanges and
  reordered broadcasts; a clock entry of 1 is one upload and one replay per node.
- `UploadPipeline`: six chunks exceed the channel and the workers together, so the handler blocks.
- `Ring` and `ReplicaRepair`: two virtual nodes give a walk in which a node comes up twice and one that
  wraps around; the assumptions of `MCReplicaRepair` evaluate a ring with a collision after each sequence
  of up to six joins and leaves: a chunk still gets its targets (`CollisionsKeepTargets`), and rings of the
  same nodes can disagree (`CollisionsSplitRings`). Three nodes leave one outside N=2 to repair to; two crashes let a repair's own
  coordinator die; the second upload meets manifests and files of the first.
- `MetadataLog`: three crashes allow a tear, a replay that crashes, and a tear again. One garbled record
  can come first, last or between others, be written twice, and be torn or lose its newline; which keys
  have one is not symmetric, so the run uses no symmetry.
- `DiskStore`: three requests are what the rename between the two steps of a `Delete` needs next to
  a fill; the cache holds either chunk and not both.
- `ErasurePlacement`: six nodes hold a shard each, and three nodes hold two each. The code is
  linear over bytes position by position, and `Xor` distributes, so chunks of a single bit span
  all of them; decoding is tried in every order of every K survivors.
- `Site`: two failures are what it takes for timeouts of one run to play into another, two
  reconstructions and two labels likewise for theirs; the theorems of `SiteProofs` are for any number. The
  dial's movement and the frames of a scene are in the fewest units at which something shown changes.
- Symmetry is used in safety runs only, over sets whose members no definition tells apart.

`CHECK_DEADLOCK FALSE` stands where the bounds or the handled request end: an answered upload, a
chunk that was read, changes or uploads used up.

## Fairness

- `Membership`: weak fairness of the ticker (`CheckNodes`), of each
  goroutine that applies an answer or submits a job, and of the pool's workers. Go's scheduler runs
  every runnable goroutine, the ticker of `Start` never stops, and pings carry a timeout, so each
  answers or fails. Nothing is assumed of peers or operator.
- `Metadata`: each reconciler visits every active peer in every round and proceeds with
  what it fetched. Strong fairness of `Fetch` per pair, because the node is busy with other peers
  in between; broadcasts may be lost for ever.
- `Upload`: the handler and each worker keep running; reading the body and `PutChunk`
  have deadlines.
- `Site`: weak fairness of what the browser and React do on the page that is shown: timeouts fire,
  effects run, what was set is rendered, exit animations end, the dial is drawn frame by frame. Visitors
  need not do anything, so nothing is promised that waits for a click.

## Proofs

TLAPS proves the following for every value of the constants that satisfies the `...Assumption`s of
the module: any number of nodes, uploads, chunks, workers and requests, and any bounds.

| Module | Theorem | Property |
|---|---|---|
| `MembershipProofs` | `TypeCorrect`, `RingFollowsTable`, `DeathsAreKept`, `DeathsAreAnnouncedOnce` | `TypeOK`, `RingIsAliveSet`, `NoDeathForgotten`, `OneAnnouncementPerDeath` |
| `ChunkGCProofs` | `TypeCorrect`, `UndisturbedUploadsSurvive`, `RegistryCounts`, `SweepsSpareHeld`, `QuietRunsCollect` | `TypeOK`, `UndisturbedUploadKept`, `RegistryCountsSessions`, `SweepSparesHeld`, `QuietRunLeavesNoOrphan` |
| `MetadataReplicationProofs` | `TypeCorrect`, `VersionsAreKept`, `ClocksAreMonotone` | `TypeOK`, `ImplementsHistory`, `ClockNeverFalls` |
| `UploadPipelineProofs` | `TypeCorrect`, `AcknowledgedUploadsAreStored`, `WritesKeepReservation` | `TypeOK`, `AcknowledgedIsStored`, `WritesAreReserved` |
| `PlacementProofs` | `TypeCorrect`, `RingsPlaceAlike`, `ListedNodesHoldChunk`, `ManifestsKeepQuorum`, `SingleDeathIsHealed` (of `ReplicaRepair`); `ShardTypesCorrect`, `FirstShardsAreReadable` (of `ErasurePlacement`) | `TypeOK`, `PlacementFollowsRing`, `LocationsHoldChunk`, `LocationsKeepQuorum`, `SingleDeathHealed`; `ShardTypeOK`, `PrefixIsReadable` |
| `MetadataLogProofs` | `TypeCorrect`, `CommittedStays`, `LogRebuilds`, `ReplayKeeps`, `LogIsDurable`, `NothingIsLost` | `TypeOK`, `CommittedIsServed`, `LogRebuildsMemory`, `ReplayKeepsReadable`, `ImplementsDurableStore`, `Durable!NothingToLose` |
| `DiskStoreProofs` | `TypeCorrect`, `CacheFollowsDisk`, `ConfirmedChunksAreOnDisk` | `TypeOK`, `CacheIsOnDisk`, `ConfirmedIsOnDisk` |
| `SiteProofs` | `FailuresRest`, `FailuresKeepCopies`, `PhasesCome`, `CaptionsFit`, `CanvasTimerFollows`, `CursorIsGivenUp`, `LabelsGo`, `LabsAreSound`, `CanvasPlacementGrows`, `RingViewsAgree`, `CalculatorsTold` | `RestsAreRight`, `CopiesSurvive`, `PhasesInOrder`, `CaptionTellsScene`, `TimerFollowsPlay`, `CursorIsAccountedFor`, `LabelIsTimed`, `ErasureLabIsSound`, `PlacementGrows`, `RingViewsAreRight`, `CalculatorsTell` |

Two theorems have hypotheses beyond those. `FirstShardsAreReadable` assumes `AnyShardsDecode`: any K
shards decode. `LabsAreSound` assumes it for the K = 4 and M = 2 that the nodes and the demonstrations
use. For these numbers TLC evaluates `AnyShardsDecode`, as an ASSUME of `MCSite`.

The arguments:

- **Membership.** The three invariants are inductive over `TypeOK`; two lemmas say that taking from
  and appending to the queue loses no other job.
- **ChunkGC.** That a kept chunk is on disk is not inductive: a collection may be about to sweep
  it. The strengthening says that what is kept on a node is in its current or archived manifests
  (`KeptReferenced`), that every collection past its first step has marked all of it
  (`MarkedKept`) and has nothing marked on its list (`TodoUnmarked`), and that what an undisturbed
  upload wrote on its entry node is on disk because no collection runs while it does
  (`UndisturbedOnDisk`). The registry counts (`CountInv`) because the uploads that hold a chunk are
  finitely many and a step adds or removes at most one of them. What has been held since a collection
  began is spared (`SpareInv`): it is claimed, hence in the registry or among the parts, hence marked
  once the collection has read that root.
  While a collection is quiet no upload runs (`QuietInv`), so by `CountInv` the registry is empty: what it
  marks is what manifests reference, and what is on disk is on its list or referenced.
- **MetadataReplication.** Each step maps to a step of `VersionHistory` or a stutter once every
  version that a manifest, a message or a fetched copy carries is known to be `made`, and once the
  replay of the log is known to reach at least the clock in memory; these two are `IInv`.
- **UploadPipeline.** A chunk the handler is past is located, queued or being stored, unless an
  error was reported or a worker is gone with one (`Accounted`, `GoneForReason`), and no other chunk is
  (`OnlyReceived`): hence the last look at `errChan` after the workers' end suffices for a 201. Without an
  error the handler stops at the end of the body or where it was cut (`StopsAtEnd`).
- **Ring.** A ring is sound for a set of nodes (`OnRing`) when each position belongs to a node of the set
  that has it, and each node of the set has all positions that are its alone. Joins, leaves and the start
  of a process keep this up whatever positions collide, as long as every node has one position to itself
  (`OwnAssumption`; the code has 150 per node). The walk then meets each node at its nearest position
  (`Met`), the targets are the first N in that order (`TargetsAreFirsts`), and there are N of them or all
  (`FirstsCount`). Without collisions (`NoCollision`, a condition inside the property: 32-bit hashes do not
  guarantee it) a node's positions are the same on all rings that have it, so fewer nodes precede it on a
  smaller ring (`TargetsStay`).
- **ReplicaRepair.** Locations, acknowledgements of a write under way, and the local copies of each
  repair hold only nodes with the file; files are never deleted there. How many locations a manifest
  keeps is not inductive as a number: a crash and the end of its repair are two steps. The invariant
  (`QuorumInv`) says that there is a set of at most as many nodes as there were crashes, all that are down
  or still to be repaired among them, outside which no manifest and no repair has lost a location.
  `SingleDeathHealed` needs to know how far the repair is (`HealInv`): waiting to be started, copying to
  the targets that were missing, or done; and that a chunk has N targets (`TargetsCount`). None of this
  supposes that rings agree, so collisions cannot break it.
- **ErasurePlacement.** A shard that was acknowledged is on the node at its place of the targets, and the
  reader finds the shards of a chunk whose first ones were acknowledged at those places (`ShardInv`).
- **DiskStore.** A chunk that no `Delete` has raced is cached, about to fill the cache or found in
  it only if its file is there and no `Delete` is between its two steps on it; lemmas about the
  cache list (no duplicates, what an eviction removes) carry it through the cache methods. For the byte
  counter, the fold `Bytes` is shown to be the number of bytes of the listed chunks (`BytesAreWeight`), a
  cardinality, to which the theorems on finite sets apply when a chunk is added or evicted.
- **MetadataLog.** What lines hold is stated without the fold of `Replayed`: for each key, what the last
  of them about it says (`Latest`); a closed form of the fold (`ReplayedIsLatest`) connects both. What a
  replay finds (`Recovered`) is that of the lines before the first one that it cannot use (`ReadsFirst`).
  The invariant (`CommitInv`) speaks of keys that are not `behind` a garbled record, and of times at which
  no write has failed and none has lost only its newline: for those keys the file gives a promised value,
  and memory has it while the node serves. Before there is a garbled record all lines but a torn last one
  are readable; from then on the first line that a replay cannot use is a complete record with a wrong
  checksum (`Refused`), at which it stops without cutting the file: nothing behind it changes what is
  recovered.
  The refinement (`LogIsDurable`) takes `Recovered` for the durable values. Each step of the replay keeps
  that, whether it cuts the file or returns with an error, by `ReplayKeeps`, so the replay as a whole is one
  `Recover`. A write adds one record to it, or nothing when an earlier line is damaged or the record
  itself is garbled; and when the last line has lost its newline the write damages that line, which sets
  back the key of one record (`AppendRecovers`). `CommitInv` excludes these while no write has failed and
  nothing is garbled. `NothingIsLost` is proved of `DurableStore` and carried over.
- **Site.** A step of the site is, for each of its parts, a step of that part, its mounting, or
  nothing (`PartsStep`); so each part is proved by itself and its invariant holds wherever visitors go.
  For the failure demonstrations the invariant says that a pending timeout has the recovery of its run
  pending behind it, and that, while no run plays into another, all that is pending or dead belongs to
  one victim (`FailureInv`) and the timeouts left are exactly those of the stages to come (`RunInv`).
  The erasure demonstrations count shards; that the count decides what decodes follows from
  `AnyShardsDecode` and from the first four of at least four shards being four (`FirstFourAreFour`).
  The calculators rest on two facts about any finite set of nodes: some quorum avoids a node exactly
  when enough others are left (`QuorumIsUp`), and all write quorums meet all read quorums exactly when
  w + r exceeds the number of nodes (`QuorumsMeet`). For what they store and save, a sum over any finite
  set is what adds the value of each element (`SumIs`).

Three folds are needed above, and induction over data is out of the provers' reach. Instead each proof
exhibits the function the fold computes, step by step, and shows by a least counterexample (natural
numbers are well founded) that no other function satisfies the same equations.

Only model-checked: liveness (`RingFollowsPeers`, `DeathIsHandled`, `MissingIsPulled`, `HandlerAnswers`,
`LeftAloneItPlays`, `WhatIsStartedEnds`), which needs ENABLED; the arithmetic of the erasure code, which
TLC evaluates for every set of shards but for the K and M of the runs only. Every other property of a
passing run is a theorem.

## What is not modelled

- Reads of replicated chunks, which change no state but the cache.
- SHA-256: the positions it gives are a parameter, and so is how evenly they spread.
- The 15 minute expiry of in-flight registrations: the server reads a request for at most 5 minutes
  (`cmd/node/main.go:343`) and each chunk write has a timeout. `CompactWAL`, which only tests call; a
  bit error in the middle of the log other than a record that fails its checksum from the start.
- Range reads, listings, copies, pagination, the bookkeeping of multipart parts (order, ETags), the
  framing of aws-chunked bodies.
- API keys, signatures and encryption: tables under a lock, string formats and cryptography.
- The client library, the command line client, metrics, the dashboard.
- Of the site: the text pages (concepts, reference, docs, of which `DocsView` and `DocsReader` have
  entries without a panel), the header, the scroll and chunking animations without state that anything
  depends on, layout, colours, camera, the clipboard itself.
- Timeouts of single chunk calls, which appear as failed calls; padding and checksums of shards.
- Shutdown of the repair pool.

## Plan

Done: Membership; ChunkGC; VersionHistory and MetadataReplication; UploadPipeline; Ring and
ReplicaRepair; DurableStore and MetadataLog; DiskStore; ErasureCode and ErasurePlacement; the site's FailureDemo, ErasureLab,
PipelineScenes, SystemCanvas, RingViews, VaultLock, CopyLabels, Labs, PlaygroundShell and their
composition Site; theorems about each of them but PlaygroundShell.

Next, in this order:

1. `ChunkGC`: part uploads that outlive their upload.
2. `AuthKeys`: revocations as records and as broadcasts that a peer does not log, with restarts.
3. `RangeRead`: chunk numbers of a range against content-defined boundaries.
4. `MultipartStore`: part order, replaced parts, ETags, complete against abort.
5. `MetadataLog`: `CompactWAL`.
6. `AwsChunked` framing; the retries of the client over several nodes.
7. A composition of `UploadPipeline` with `ReplicaRepair`'s write.

Theorems planned: that erasure mode's targets are a ring's, too.
