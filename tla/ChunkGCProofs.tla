---------------------------- MODULE ChunkGCProofs ----------------------------
(***************************************************************************)
(* Proofs about ChunkGC, for every set of nodes, chunks, objects, upload   *)
(* slots and collections, and every write quorum.                          *)
(***************************************************************************)
EXTENDS ChunkGC, FiniteSetTheorems, TLAPS

\* The type of everything but the history that Track keeps.
CoreType ==
  /\ disk \in [Node -> SUBSET Chunk]
  /\ cur \in [Node -> [Object -> SUBSET Chunk]]
  /\ old \in [Node -> [Object -> SUBSET Chunk]]
  /\ kept \in [Node -> [Object -> SUBSET Chunk]]
  /\ inflight \in [Node -> [Chunk -> Nat]]
  /\ pc \in [Session -> {"idle", "open", "failed", "detached", "committed"}]
  /\ kind \in [Session -> {"stream", "multipart"}]
  /\ entry \in [Session -> Node]
  /\ object \in [Session -> Object]
  /\ want \in [Session -> SUBSET Chunk]
  /\ reg \in [Session -> SUBSET Chunk]
  /\ stored \in [Session -> SUBSET Chunk]
  /\ parts \in [Session -> SUBSET Chunk]
  /\ local \in [Session -> SUBSET Chunk]
  /\ phase \in [Run -> Phases]
  /\ site \in [Run -> Node]
  /\ active \in [Run -> SUBSET Chunk]
  /\ todo \in [Run -> SUBSET Chunk]

HistoryType ==
  /\ disturbed \in SUBSET Session
  /\ held \in [Run -> [Roots -> SUBSET Chunk]]
  /\ quiet \in SUBSET Run

\* An upload step keeps the core type.
LEMMA UploadType ==
  ASSUME CoreType, NEW s \in Session, UploadStep(s)
  PROVE  CoreType'
<1>1. ASSUME NEW cs \in SUBSET Chunk \ {{}}, Begin(s, cs) PROVE CoreType'
  BY <1>1 DEF CoreType, Begin, files, slot, gc
<1>2. ASSUME NEW cs \in SUBSET Chunk \ {{}}, CompleteUpload(s, cs) PROVE CoreType'
  BY <1>2 DEF CoreType, CompleteUpload, files, slot, gc
<1>3. ASSUME NEW c \in Chunk, RegisterChunk(s, c) PROVE CoreType'
  BY <1>3 DEF CoreType, RegisterChunk, Register, files, slot, gc
<1>4. ASSUME NEW c \in Chunk, AddPart(s, c) PROVE CoreType'
  BY <1>4 DEF CoreType, AddPart, files, slot, gc
<1>5. ASSUME NEW c \in Chunk, NEW ns \in SUBSET Node, StoreChunk(s, c, ns)
      PROVE  CoreType'
  <2>1. disk' \in [Node -> SUBSET Chunk]
    BY <1>5 DEF CoreType, StoreChunk
  <2>2. stored' \in [Session -> SUBSET Chunk] /\ local' \in [Session -> SUBSET Chunk]
    <3>1. \/ UNCHANGED <<stored, local>>
          \/ /\ stored' = [stored EXCEPT ![s] = @ \cup {c}]
             /\ local' = [local EXCEPT ![s] = IF entry[s] \in ns THEN @ \cup {c} ELSE @]
      BY <1>5 DEF StoreChunk
    <3>2. CASE UNCHANGED <<stored, local>>
      BY <3>2 DEF CoreType
    <3>3. CASE /\ stored' = [stored EXCEPT ![s] = @ \cup {c}]
               /\ local' = [local EXCEPT ![s] = IF entry[s] \in ns THEN @ \cup {c} ELSE @]
      <4>1. stored \in [Session -> SUBSET Chunk] /\ local \in [Session -> SUBSET Chunk]
        BY DEF CoreType
      <4>2. stored' \in [Session -> SUBSET Chunk]
        BY <3>3, <4>1
      <4>3. local' \in [Session -> SUBSET Chunk]
        BY <3>3, <4>1
      <4>q. QED
        BY <4>2, <4>3
    <3>q. QED
      BY <3>1, <3>2, <3>3
  <2>3. pc' \in [Session -> {"idle", "open", "failed", "detached", "committed"}]
    <3>1. \/ UNCHANGED pc
          \/ pc' = [pc EXCEPT ![s] = IF kind[s] = "stream" THEN "failed" ELSE "open"]
      BY <1>5 DEF StoreChunk
    <3>q. QED
      BY <3>1 DEF CoreType
  <2>q. QED
    BY <1>5, <2>1, <2>2, <2>3 DEF CoreType, StoreChunk, slot, gc
<1>6. ASSUME UploadFails(s) PROVE CoreType'
  BY <1>6 DEF CoreType, UploadFails, files, slot, gc
<1>7. ASSUME AbortUpload(s) PROVE CoreType'
  BY <1>7 DEF CoreType, AbortUpload, Reset, files, slot, gc
<1>8. ASSUME Commit(s) PROVE CoreType'
  <2>1. cur' \in [Node -> [Object -> SUBSET Chunk]]
    BY <1>8 DEF CoreType, Commit, RecordPlacement
  <2>2. old' \in [Node -> [Object -> SUBSET Chunk]]
    BY <1>8 DEF CoreType, Commit, RecordPlacement
  <2>3. kept' \in [Node -> [Object -> SUBSET Chunk]]
    BY <1>8 DEF CoreType, Commit
  <2>4. pc' \in [Session -> {"idle", "open", "failed", "detached", "committed"}]
    BY <1>8 DEF CoreType, Commit
  <2>q. QED
    BY <1>8, <2>1, <2>2, <2>3, <2>4 DEF CoreType, Commit, slot, gc
<1>9. ASSUME Finish(s) PROVE CoreType'
  BY <1>9 DEF CoreType, Finish, Reset, Unregister, files, slot, gc
<1>q. QED
  BY <1>1, <1>2, <1>3, <1>4, <1>5, <1>6, <1>7, <1>8, <1>9 DEF UploadStep

\* A metadata step or a restart keeps the core type.
LEMMA MetadataType ==
  ASSUME CoreType, MetadataStep
  PROVE  CoreType'
<1>1. ASSUME NEW m \in Node, NEW n \in Node, NEW o \in Object, Replicate(m, n, o)
      PROVE  CoreType'
  BY <1>1 DEF CoreType, Replicate, RecordPlacement, session, slot, gc
<1>2. ASSUME NEW n \in Node, NEW o \in Object, Delete(n, o) PROVE CoreType'
  BY <1>2 DEF CoreType, Delete, session, slot, gc
<1>3. ASSUME NEW n \in Node, Crash(n) PROVE CoreType'
  BY <1>3 DEF CoreType, Crash, files, slot, Phases
<1>q. QED
  BY <1>1, <1>2, <1>3 DEF MetadataStep

\* A collection step keeps the core type.
LEMMA CollectType ==
  ASSUME CoreType, NEW g \in Run, CollectStep(g)
  PROVE  CoreType'
<1>1. ASSUME GCMarkManifests(g) PROVE CoreType'
  BY <1>1 DEF CoreType, GCMarkManifests, MarkManifests, Referenced, Current, Archived,
              Phases, files, session, slot
<1>2. ASSUME GCMarkInFlight(g) PROVE CoreType'
  BY <1>2 DEF CoreType, GCMarkInFlight, MarkRegistry, InFlight, Phases, files, session, slot
<1>3. ASSUME GCMarkMultipart(g) PROVE CoreType'
  BY <1>3 DEF CoreType, GCMarkMultipart, MarkParts, UploadedParts, Phases, files, session, slot
<1>4. ASSUME GCListChunks(g) PROVE CoreType'
  BY <1>4 DEF CoreType, GCListChunks, Phases, files, session, slot
<1>5. ASSUME NEW c \in Chunk, GCSweep(g, c) PROVE CoreType'
  BY <1>5 DEF CoreType, GCSweep, session, slot
<1>6. ASSUME GCDone(g) PROVE CoreType'
  BY <1>6 DEF CoreType, GCDone, Phases, files, session, slot
<1>q. QED
  BY <1>1, <1>2, <1>3, <1>4, <1>5, <1>6 DEF CollectStep
-----------------------------------------------------------------------------
(* Type correctness *)

\* Track keeps the type of the history it writes.
LEMMA TrackType ==
  ASSUME CoreType, CoreType', HistoryType, Track
  PROVE  HistoryType'
<1>1. disturbed' \in SUBSET Session
  BY DEF Track
<1>2. quiet' \in SUBSET Run
  BY DEF Track, Collecting
<1>3. held' \in [Run -> [Roots -> SUBSET Chunk]]
  <2>1. \A g \in Run, r \in Roots : Claimed(site[g], r)' \in SUBSET Chunk
    BY DEF CoreType, Claimed, UploadedParts
  <2>2. \A g \in Run, r \in Roots : held[g][r] \in SUBSET Chunk
    BY DEF HistoryType
  <2>q. QED
    BY <2>1, <2>2 DEF Track
<1>q. QED
  BY <1>1, <1>2, <1>3 DEF HistoryType

\* The variables keep their types in every behaviour.
THEOREM TypeCorrect == Spec => []TypeOK
<1>1. TypeOK <=> CoreType /\ HistoryType
  BY DEF TypeOK, CoreType, HistoryType
<1>2. Init => CoreType /\ HistoryType
  <2>1. ASSUME Init PROVE CoreType
    BY <2>1, KindAssumption DEF Init, CoreType, Phases
  <2>2. ASSUME Init PROVE HistoryType
    BY <2>2 DEF Init, HistoryType
  <2>q. QED
    BY <2>1, <2>2
<1>3. ASSUME CoreType, HistoryType, [Next]_vars
      PROVE  CoreType' /\ HistoryType'
  <2>1. CASE UNCHANGED vars
    BY <1>3, <2>1 DEF CoreType, HistoryType, vars, files, session, slot, gc, history
  <2>2. CASE Next
    <3>1. CoreType'
      BY <1>3, <2>2, UploadType, MetadataType, CollectType DEF Next
    <3>q. QED
      BY <1>3, <2>2, <3>1, TrackType DEF Next
  <2>q. QED
    BY <1>3, <2>1, <2>2
<1>q. QED
  BY <1>1, <1>2, <1>3, PTL DEF Spec

-----------------------------------------------------------------------------
(* Undisturbed uploads are kept *)

\* What a run has marked protects everything it must keep on its node.
MarkedKept ==
  \A g \in Run : phase[g] # "idle" =>
    \A o \in Object : kept[site[g]][o] \subseteq active[g]

\* A run only ever looks at files it has not marked.
TodoUnmarked ==
  \A g \in Run : /\ todo[g] \cap active[g] = {}
                 /\ phase[g] # "sweep" => todo[g] = {}

\* What must be kept is referenced by the manifest, archived or current.
KeptReferenced ==
  \A n \in Node, o \in Object : kept[n][o] \subseteq cur[n][o] \cup old[n][o]

\* No collection runs during an undisturbed upload, whose local chunks are
\* therefore still on disk.
UndisturbedOnDisk ==
  \A s \in Session :
    /\ ~Active(s) => local[s] = {}
    /\ Active(s) /\ s \notin disturbed =>
         Collecting = {} /\ local[s] \subseteq disk[entry[s]]

IInv ==
  /\ MarkedKept
  /\ TodoUnmarked
  /\ KeptReferenced
  /\ UndisturbedOnDisk
  /\ UndisturbedUploadKept

\* An upload still undisturbed after a step was so before it, and no
\* collection runs after the step.
LEMMA TrackDisturbed ==
  ASSUME Track, NEW s \in Session, Active(s)', s \notin disturbed'
  PROVE  s \notin disturbed /\ Collecting' = {}
BY DEF Track

\* Reset frees the slot and nothing else.
LEMMA ResetFrees ==
  ASSUME CoreType, NEW s \in Session, Reset(s)
  PROVE  /\ UNCHANGED slot
         /\ \A t \in Session : t # s => pc'[t] = pc[t] /\ local'[t] = local[t]
         /\ local'[s] = {}
<1>1. UNCHANGED slot /\ pc' = [pc EXCEPT ![s] = "idle"] /\ local' = [local EXCEPT ![s] = {}]
  BY DEF Reset
<1>2. \A t \in Session : t # s => pc'[t] = pc[t]
  BY <1>1 DEF CoreType
<1>3. local'[s] = {} /\ \A t \in Session : t # s => local'[t] = local[t]
  BY <1>1 DEF CoreType
<1>q. QED
  BY <1>1, <1>2, <1>3

\* An upload step leaves the collections alone, only adds files and references,
\* and lets an upload's local chunks grow by what its node has on disk.
LEMMA UploadFrame ==
  ASSUME CoreType, NEW s \in Session, UploadStep(s)
  PROVE  /\ UNCHANGED <<gc, slot>>
         /\ \A n \in Node : disk[n] \subseteq disk'[n]
         /\ \A n \in Node, o \in Object :
              cur[n][o] \cup old[n][o] \subseteq cur'[n][o] \cup old'[n][o]
         /\ \A t \in Session : t # s => pc'[t] = pc[t] /\ local'[t] = local[t]
         /\ local'[s] \subseteq local[s] \cup disk'[entry[s]]
         /\ ~Active(s)' => local'[s] = {} \/ (local'[s] = local[s] /\ ~Active(s))
         /\ UNCHANGED kept \/ Commit(s)
<1> DEFINE Goal ==
         /\ UNCHANGED <<gc, slot>>
         /\ \A n \in Node : disk[n] \subseteq disk'[n]
         /\ \A n \in Node, o \in Object :
              cur[n][o] \cup old[n][o] \subseteq cur'[n][o] \cup old'[n][o]
         /\ \A t \in Session : t # s => pc'[t] = pc[t] /\ local'[t] = local[t]
         /\ local'[s] \subseteq local[s] \cup disk'[entry[s]]
         /\ ~Active(s)' => local'[s] = {} \/ (local'[s] = local[s] /\ ~Active(s))
         /\ UNCHANGED kept \/ Commit(s)
<1>1. ASSUME NEW cs \in SUBSET Chunk \ {{}}, Begin(s, cs) PROVE Goal
  BY <1>1 DEF CoreType, Begin, Active, files
<1>2. ASSUME NEW cs \in SUBSET Chunk \ {{}}, CompleteUpload(s, cs) PROVE Goal
  BY <1>2 DEF CoreType, CompleteUpload, Active, files
<1>3. ASSUME NEW c \in Chunk, RegisterChunk(s, c) PROVE Goal
  BY <1>3 DEF CoreType, RegisterChunk, Active, files
<1>4. ASSUME NEW c \in Chunk, AddPart(s, c) PROVE Goal
  BY <1>4 DEF CoreType, AddPart, Active, files
<1>5. ASSUME NEW c \in Chunk, NEW ns \in SUBSET Node, StoreChunk(s, c, ns)
      PROVE  Goal
  <2>1. UNCHANGED <<gc, slot, cur, old, kept>>
    BY <1>5 DEF StoreChunk
  <2>2. \A n \in Node : disk[n] \subseteq disk'[n]
    BY <1>5 DEF CoreType, StoreChunk
  <2>7. \A n \in ns : c \in disk'[n]
    BY <1>5 DEF CoreType, StoreChunk
  <2>3. /\ Active(s) /\ Active(s)'
        /\ \A t \in Session : t # s => pc'[t] = pc[t]
    BY <1>5 DEF CoreType, StoreChunk, Active
  <2>4. /\ \A t \in Session : t # s => local'[t] = local[t]
        /\ local'[s] \subseteq local[s] \cup disk'[entry[s]]
    <3>1. CASE UNCHANGED local
      BY <3>1
    <3>2. CASE local' = [local EXCEPT ![s] = IF entry[s] \in ns THEN @ \cup {c} ELSE @]
      <4>1. local'[s] = IF entry[s] \in ns THEN local[s] \cup {c} ELSE local[s]
        BY <3>2 DEF CoreType
      <4>2. \A t \in Session : t # s => local'[t] = local[t]
        BY <3>2 DEF CoreType
      <4>3. entry[s] \in Node
        BY DEF CoreType
      <4>4. CASE entry[s] \in ns
        <5>1. c \in disk'[entry[s]]
          BY <2>7, <4>4
        <5>2. local'[s] = local[s] \cup {c}
          BY <4>1, <4>4
        <5>3. local'[s] \subseteq local[s] \cup disk'[entry[s]]
          BY <5>1, <5>2
        <5>q. QED
          BY <4>2, <5>3
      <4>5. CASE entry[s] \notin ns
        BY <4>1, <4>2, <4>5
      <4>q. QED
        BY <4>4, <4>5
    <3>q. QED
      BY <1>5, <3>1, <3>2 DEF StoreChunk
  <2>5. \A n \in Node, o \in Object :
          cur[n][o] \cup old[n][o] \subseteq cur'[n][o] \cup old'[n][o]
    BY <2>1
  <2>6. UNCHANGED <<gc, slot>> /\ UNCHANGED kept
    BY <2>1
  <2>q. QED
    <3>1. ~Active(s)' => local'[s] = {} \/ (local'[s] = local[s] /\ ~Active(s))
      BY <2>3
    <3>q. QED
      BY <2>2, <2>3, <2>4, <2>5, <2>6, <3>1
<1>6. ASSUME UploadFails(s) PROVE Goal
  BY <1>6 DEF CoreType, UploadFails, Active, files
<1>7. ASSUME AbortUpload(s) PROVE Goal
  BY <1>7, ResetFrees DEF AbortUpload, files
<1>8. ASSUME Commit(s) PROVE Goal
  <2>1. UNCHANGED <<gc, slot, disk, local>>
    BY <1>8 DEF Commit
  <2>2. \A n \in Node, o \in Object :
          cur[n][o] \cup old[n][o] \subseteq cur'[n][o] \cup old'[n][o]
    BY <1>8 DEF CoreType, Commit, RecordPlacement
  <2>3. Active(s)' /\ \A t \in Session : t # s => pc'[t] = pc[t]
    BY <1>8 DEF CoreType, Commit, Active
  <2>q. QED
    BY <1>8, <2>1, <2>2, <2>3
<1>9. ASSUME Finish(s) PROVE Goal
  BY <1>9, ResetFrees DEF Finish, files
<1>q. QED
  BY <1>1, <1>2, <1>3, <1>4, <1>5, <1>6, <1>7, <1>8, <1>9 DEF UploadStep

\* Commit is the step that gives a node something to keep, and does so only
\* when no collection runs and the chunks are there.
LEMMA CommitKeeps ==
  ASSUME CoreType, IInv, NEW s \in Session, Commit(s)
  PROVE  \A n \in Node, o \in Object :
           \/ kept'[n][o] = kept[n][o]
           \/ /\ Collecting = {}
              /\ kept'[n][o] \subseteq kept[n][o] \cup (cur'[n][o] \cap disk[n])
<1>1. CASE s \in disturbed
  BY <1>1 DEF Commit
<1>2. CASE s \notin disturbed
  <2>1. Collecting = {} /\ local[s] \subseteq disk[entry[s]]
    <3>1. Active(s)
      BY DEF Commit, Active
    <3>q. QED
      BY <1>2, <3>1 DEF IInv, UndisturbedOnDisk
  <2>2. kept' = [kept EXCEPT ![entry[s]][object[s]] = @ \cup (want[s] \cap local[s])]
    BY <1>2 DEF Commit
  <2>3. cur'[entry[s]][object[s]] = want[s]
    BY DEF CoreType, Commit, RecordPlacement
  <2>4. SUFFICES ASSUME NEW n \in Node, NEW o \in Object, kept'[n][o] # kept[n][o]
                 PROVE  kept'[n][o] \subseteq kept[n][o] \cup (cur'[n][o] \cap disk[n])
    BY <2>1
  <2>5. n = entry[s] /\ o = object[s]
    BY <2>2, <2>4 DEF CoreType
  <2>6. kept'[n][o] = kept[n][o] \cup (want[s] \cap local[s])
    BY <2>2, <2>5 DEF CoreType
  <2>q. QED
    BY <2>1, <2>3, <2>5, <2>6
<1>q. QED
  BY <1>1, <1>2

\* An upload step preserves the invariant.
LEMMA UploadPreserves ==
  ASSUME CoreType, IInv, NEW s \in Session, UploadStep(s), Track
  PROVE  IInv'
<1>1. /\ UNCHANGED <<phase, site, active, todo, entry>>
      /\ \A n \in Node : disk[n] \subseteq disk'[n]
      /\ \A n \in Node, o \in Object :
           cur[n][o] \cup old[n][o] \subseteq cur'[n][o] \cup old'[n][o]
  BY UploadFrame DEF gc, slot
<1>2. \A n \in Node, o \in Object :
        \/ kept'[n][o] = kept[n][o]
        \/ /\ Collecting = {}
           /\ kept'[n][o] \subseteq kept[n][o] \cup (cur'[n][o] \cap disk[n])
  BY UploadFrame, CommitKeeps
<1>3. \A g \in Run : site[g] \in Node
  BY DEF CoreType
<1>4. MarkedKept'
  BY <1>1, <1>2, <1>3 DEF IInv, MarkedKept, Collecting
<1>5. TodoUnmarked'
  BY <1>1 DEF IInv, TodoUnmarked
<1>6. KeptReferenced'
  BY <1>1, <1>2 DEF IInv, KeptReferenced
<1>7. UndisturbedUploadKept'
  BY <1>1, <1>2 DEF IInv, UndisturbedUploadKept
<1>8. UndisturbedOnDisk'
  <2> SUFFICES ASSUME NEW t \in Session
               PROVE  /\ ~Active(t)' => local'[t] = {}
                      /\ Active(t)' /\ t \notin disturbed' =>
                           Collecting' = {} /\ local'[t] \subseteq disk'[entry[t]]
    BY <1>1 DEF UndisturbedOnDisk
  <2>1. /\ ~Active(t) => local[t] = {}
        /\ Active(t) /\ t \notin disturbed => local[t] \subseteq disk[entry[t]]
    BY DEF IInv, UndisturbedOnDisk
  <2>2. disk[entry[t]] \subseteq disk'[entry[t]]
    BY <1>1 DEF CoreType
  <2>3. /\ local'[t] \subseteq local[t] \cup disk'[entry[t]]
        /\ ~Active(t)' => local'[t] = {} \/ (local'[t] = local[t] /\ ~Active(t))
    <3>1. CASE t = s
      BY <3>1, UploadFrame
    <3>2. CASE t # s
      BY <3>2, UploadFrame DEF Active
    <3>q. QED
      BY <3>1, <3>2
  <2>4. ASSUME Active(t)', t \notin disturbed'
        PROVE  Collecting' = {} /\ local'[t] \subseteq disk'[entry[t]]
    <3>1. t \notin disturbed /\ Collecting' = {}
      BY <2>4, TrackDisturbed
    <3>q. QED
      BY <2>1, <2>2, <2>3, <3>1
  <2>q. QED
    BY <2>1, <2>3, <2>4
<1>q. QED
  BY <1>4, <1>5, <1>6, <1>7, <1>8 DEF IInv

\* A step that keeps disks, uploads and marks, and neither adds to what must be
\* kept nor dereferences it, preserves the invariant.
LEMMA MetadataPreserves ==
  ASSUME CoreType, IInv, MetadataStep, Track
  PROVE  IInv'
<1>1. UNCHANGED <<disk, entry, site>>
  BY DEF MetadataStep, Replicate, Delete, Crash, session, slot, gc, files
<1>2. \A s \in Session :
        \/ UNCHANGED <<pc[s], local[s]>>
        \/ ~Active(s)' /\ local'[s] = {}
  <2>1. ASSUME NEW n \in Node, Crash(n)
        PROVE  \A s \in Session : \/ UNCHANGED <<pc[s], local[s]>>
                                  \/ ~Active(s)' /\ local'[s] = {}
    BY <2>1 DEF CoreType, Crash, Active
  <2>2. (\E n \in Node : Crash(n)) \/ UNCHANGED <<pc, local>>
    BY DEF MetadataStep, Replicate, Delete, session
  <2>q. QED
    BY <2>1, <2>2
<1>3. \A g \in Run :
        \/ UNCHANGED <<phase[g], active[g], todo[g]>>
        \/ phase'[g] = "idle" /\ active'[g] = {} /\ todo'[g] = {}
  <2>1. ASSUME NEW n \in Node, Crash(n)
        PROVE  \A g \in Run :
                 \/ UNCHANGED <<phase[g], active[g], todo[g]>>
                 \/ phase'[g] = "idle" /\ active'[g] = {} /\ todo'[g] = {}
    BY <2>1 DEF CoreType, Crash
  <2>2. (\E n \in Node : Crash(n)) \/ UNCHANGED <<phase, active, todo>>
    BY DEF MetadataStep, Replicate, Delete, gc
  <2>q. QED
    BY <2>1, <2>2
<1>4. \A n \in Node, o \in Object :
        \/ kept'[n][o] = {}
        \/ /\ kept'[n][o] = kept[n][o]
           /\ cur[n][o] \cup old[n][o] \subseteq cur'[n][o] \cup old'[n][o]
  <2> DEFINE Kept(n, o) ==
        \/ kept'[n][o] = {}
        \/ /\ kept'[n][o] = kept[n][o]
           /\ cur[n][o] \cup old[n][o] \subseteq cur'[n][o] \cup old'[n][o]
  <2>1. ASSUME NEW i \in Node, NEW j \in Node, NEW p \in Object, Replicate(i, j, p)
        PROVE  \A n \in Node, o \in Object : Kept(n, o)
    BY <2>1 DEF CoreType, Replicate, RecordPlacement
  <2>2. ASSUME NEW i \in Node, NEW p \in Object, Delete(i, p)
        PROVE  \A n \in Node, o \in Object : Kept(n, o)
    BY <2>2 DEF CoreType, Delete
  <2>3. ASSUME NEW i \in Node, Crash(i)
        PROVE  \A n \in Node, o \in Object : Kept(n, o)
    BY <2>3 DEF Crash, files
  <2>q. QED
    BY <2>1, <2>2, <2>3 DEF MetadataStep
<1>5. \A g \in Run : site[g] \in Node
  BY DEF CoreType
<1>6. MarkedKept'
  BY <1>1, <1>3, <1>4, <1>5 DEF IInv, MarkedKept
<1>7. TodoUnmarked'
  BY <1>3 DEF IInv, TodoUnmarked
<1>8. KeptReferenced'
  BY <1>4 DEF IInv, KeptReferenced
<1>9. UndisturbedUploadKept'
  BY <1>1, <1>4 DEF IInv, UndisturbedUploadKept
<1>10. UndisturbedOnDisk'
  BY <1>1, <1>2, TrackDisturbed DEF IInv, UndisturbedOnDisk, Active
<1>q. QED
  BY <1>6, <1>7, <1>8, <1>9, <1>10 DEF IInv

\* A collection step preserves the invariant: what it deletes it has not
\* marked, and everything that must be kept is marked.
LEMMA CollectPreserves ==
  ASSUME CoreType, IInv, NEW g \in Run, CollectStep(g), Track
  PROVE  IInv'
<1>1. UNCHANGED <<cur, old, kept, site, entry, pc, local>>
  BY DEF CollectStep, GCMarkManifests, GCMarkInFlight, GCMarkMultipart, GCListChunks,
         GCSweep, GCDone, files, session, slot
<1>2. \A h \in Run : h # g => UNCHANGED <<phase[h], active[h], todo[h]>>
  BY DEF CoreType, CollectStep, GCMarkManifests, GCMarkInFlight, GCMarkMultipart,
         GCListChunks, GCSweep, GCDone
<1>3. phase'[g] # "idle" =>
        \/ phase[g] # "idle" /\ active[g] \subseteq active'[g]
        \/ active'[g] = Referenced(site[g])
  <2>1. CASE GCMarkManifests(g)
    BY <2>1 DEF CoreType, GCMarkManifests, MarkManifests
  <2>2. CASE GCMarkInFlight(g)
    BY <2>2 DEF CoreType, GCMarkInFlight
  <2>3. CASE GCMarkMultipart(g)
    BY <2>3 DEF CoreType, GCMarkMultipart
  <2>4. CASE GCListChunks(g)
    BY <2>4 DEF CoreType, GCListChunks
  <2>5. ASSUME NEW c \in Chunk, GCSweep(g, c)
        PROVE  phase[g] # "idle" /\ active[g] \subseteq active'[g]
    BY <2>5 DEF CoreType, GCSweep
  <2>6. CASE GCDone(g)
    BY <2>6 DEF CoreType, GCDone
  <2>q. QED
    BY <2>1, <2>2, <2>3, <2>4, <2>5, <2>6 DEF CollectStep
<1>4. /\ todo'[g] \cap active'[g] = {}
      /\ phase'[g] # "sweep" => todo'[g] = {}
  <2>0. todo[g] \cap active[g] = {} /\ (phase[g] # "sweep" => todo[g] = {})
    BY DEF IInv, TodoUnmarked
  <2>1. CASE GCMarkManifests(g)
    BY <2>0, <2>1 DEF CoreType, GCMarkManifests
  <2>2. CASE GCMarkInFlight(g)
    BY <2>0, <2>2 DEF CoreType, GCMarkInFlight
  <2>3. CASE GCMarkMultipart(g)
    BY <2>0, <2>3 DEF CoreType, GCMarkMultipart
  <2>4. CASE GCListChunks(g)
    BY <2>0, <2>4 DEF CoreType, GCListChunks
  <2>5. ASSUME NEW c \in Chunk, GCSweep(g, c)
        PROVE  /\ todo'[g] \cap active'[g] = {}
               /\ phase'[g] # "sweep" => todo'[g] = {}
    BY <2>0, <2>5 DEF CoreType, GCSweep
  <2>6. CASE GCDone(g)
    BY <2>0, <2>6 DEF CoreType, GCDone
  <2>q. QED
    BY <2>1, <2>2, <2>3, <2>4, <2>5, <2>6 DEF CollectStep
<1>5. KeptReferenced'
  BY <1>1 DEF IInv, KeptReferenced
<1>6. MarkedKept'
  <2>1. ASSUME NEW n \in Node, NEW o \in Object
        PROVE  kept[n][o] \subseteq Referenced(n)
    BY <2>1 DEF IInv, KeptReferenced, Referenced, Current, Archived
  <2>2. \A h \in Run : site[h] \in Node
    BY DEF CoreType
  <2>3. SUFFICES ASSUME NEW h \in Run, phase'[h] # "idle", NEW o \in Object
                 PROVE  kept[site[h]][o] \subseteq active'[h]
    BY <1>1 DEF MarkedKept
  <2>4. CASE h = g
    BY <1>3, <2>1, <2>2, <2>3, <2>4 DEF IInv, MarkedKept
  <2>5. CASE h # g
    BY <1>2, <2>3, <2>5 DEF IInv, MarkedKept
  <2>q. QED
    BY <2>4, <2>5
<1>7. TodoUnmarked'
  BY <1>2, <1>4 DEF IInv, TodoUnmarked
<1>8. \/ UNCHANGED disk
      \/ \E c \in Chunk : GCSweep(g, c)
  BY DEF CollectStep, GCMarkManifests, GCMarkInFlight, GCMarkMultipart, GCListChunks,
         GCDone, files
<1>9. UndisturbedUploadKept'
  <2>1. CASE UNCHANGED disk
    BY <1>1, <2>1 DEF IInv, UndisturbedUploadKept
  <2>2. ASSUME NEW c \in Chunk, GCSweep(g, c) PROVE UndisturbedUploadKept'
    <3>1. c \notin active[g] /\ phase[g] # "idle"
      BY <2>2 DEF GCSweep, IInv, TodoUnmarked
    <3>2. \A o \in Object : c \notin kept[site[g]][o]
      BY <3>1 DEF IInv, MarkedKept
    <3>3. \A n \in Node : IF n = site[g] THEN disk'[n] = disk[n] \ {c} ELSE disk'[n] = disk[n]
      BY <2>2 DEF CoreType, GCSweep
    <3>q. QED
      BY <1>1, <3>2, <3>3 DEF IInv, UndisturbedUploadKept
  <2>q. QED
    BY <1>8, <2>1, <2>2
<1>10. UndisturbedOnDisk'
  <2>1. CASE UNCHANGED disk
    BY <1>1, <2>1, TrackDisturbed DEF IInv, UndisturbedOnDisk, Active
  <2>2. ASSUME NEW c \in Chunk, GCSweep(g, c) PROVE UndisturbedOnDisk'
    <3>1. g \in Collecting'
      BY <2>2 DEF GCSweep, Collecting
    <3>q. QED
      BY <1>1, <3>1, TrackDisturbed DEF IInv, UndisturbedOnDisk, Active
  <2>q. QED
    BY <1>8, <2>1, <2>2
<1>q. QED
  BY <1>5, <1>6, <1>7, <1>9, <1>10 DEF IInv

LEMMA KeptStarts == Init => IInv
BY DEF Init, IInv, MarkedKept, TodoUnmarked, KeptReferenced, UndisturbedOnDisk,
       UndisturbedUploadKept, Active

LEMMA KeptStep == TypeOK /\ IInv /\ [Next]_vars => IInv'
<1> SUFFICES ASSUME TypeOK, IInv, [Next]_vars PROVE IInv'
  OBVIOUS
<1>1. CoreType
  BY DEF TypeOK, CoreType
<1>2. CASE UNCHANGED vars
  <2>1. UNCHANGED <<disk, cur, old, pc, entry, local, phase, site, active, todo,
                    disturbed, kept>>
    BY <1>2 DEF vars, files, session, slot, gc, history
  <2>q. QED
    BY <2>1 DEF IInv, MarkedKept, TodoUnmarked, KeptReferenced, UndisturbedOnDisk,
                UndisturbedUploadKept, Active, Collecting
<1>3. CASE Next
  BY <1>1, <1>3, UploadPreserves, MetadataPreserves, CollectPreserves DEF Next
<1>q. QED
  BY <1>2, <1>3

\* An upload no collection overlapped stays on its node's disk whatever runs
\* later (the mark over current and archived versions in gc.go): the run
\* ChunkGC checks it on two nodes, this theorem for every cluster.
THEOREM UndisturbedUploadsSurvive == Spec => []UndisturbedUploadKept
<1>1. IInv => UndisturbedUploadKept
  BY DEF IInv
<1>q. QED
  BY KeptStarts, KeptStep, <1>1, TypeCorrect, PTL DEF Spec

-----------------------------------------------------------------------------
(* The registry counts uploads *)

\* The uploads on n that have registered c.
Holders(n, c) == {s \in Session : entry[s] = n /\ c \in reg[s]}

CountInv ==
  /\ \A n \in Node, c \in Chunk : inflight[n][c] = Cardinality(Holders(n, c))
  /\ \A s \in Session : kind[s] = "multipart" => reg[s] = {}

LEMMA HoldersFinite ==
  ASSUME NEW n, NEW c
  PROVE  /\ IsFiniteSet(Holders(n, c)) /\ Cardinality(Holders(n, c)) \in Nat
         /\ Cardinality(Holders(n, c)) = 0 <=> Holders(n, c) = {}
<1>1. Holders(n, c) \subseteq Session
  BY DEF Holders
<1>2. IsFiniteSet(Holders(n, c))
  BY <1>1, SessionAssumption, FS_Subset
<1>q. QED
  BY <1>2, FS_CardinalityType, FS_EmptySet

LEMMA RegisterCounts ==
  ASSUME CoreType, CountInv, NEW s \in Session, NEW c \in Chunk, RegisterChunk(s, c)
  PROVE  CountInv'
<1>1. /\ entry' = entry /\ kind' = kind /\ kind[s] = "stream" /\ c \notin reg[s]
      /\ inflight' = [inflight EXCEPT ![entry[s]][c] = @ + 1]
      /\ reg' = [reg EXCEPT ![s] = @ \cup {c}]
  BY DEF RegisterChunk, Register, slot
<1>2. /\ reg'[s] = reg[s] \cup {c}
      /\ \A t \in Session : t # s => reg'[t] = reg[t]
  BY <1>1 DEF CoreType
<1>3. \A t \in Session : kind'[t] = "multipart" => reg'[t] = {}
  BY <1>1, <1>2 DEF CountInv
<1>4. ASSUME NEW n \in Node, NEW d \in Chunk
      PROVE  inflight'[n][d] = Cardinality(Holders(n, d)')
  <2>1. CASE n = entry[s] /\ d = c
    <3>1. Holders(n, d)' = Holders(n, d) \cup {s}
      BY <1>1, <1>2, <2>1 DEF Holders
    <3>2. s \notin Holders(n, d)
      BY <1>1, <2>1 DEF Holders
    <3>3. Cardinality(Holders(n, d)') = Cardinality(Holders(n, d)) + 1
      BY <3>1, <3>2, HoldersFinite, FS_AddElement
    <3>4. inflight'[n][d] = inflight[n][d] + 1
      BY <1>1, <2>1 DEF CoreType
    <3>q. QED
      BY <3>3, <3>4 DEF CountInv
  <2>2. CASE ~(n = entry[s] /\ d = c)
    <3>1. Holders(n, d)' = Holders(n, d)
      BY <1>1, <1>2, <2>2 DEF Holders
    <3>2. inflight'[n][d] = inflight[n][d]
      BY <1>1, <2>2 DEF CoreType
    <3>q. QED
      BY <3>1, <3>2 DEF CountInv
  <2>q. QED
    BY <2>1, <2>2
<1>q. QED
  BY <1>3, <1>4 DEF CountInv

LEMMA FinishCounts ==
  ASSUME CoreType, CountInv, NEW s \in Session, Finish(s)
  PROVE  CountInv'
<1>1. /\ entry' = entry /\ kind' = kind /\ reg' = [reg EXCEPT ![s] = {}]
      /\ Unregister(entry[s], reg[s])
  BY DEF Finish, Reset, slot
<1>2. reg'[s] = {} /\ \A t \in Session : t # s => reg'[t] = reg[t]
  BY <1>1 DEF CoreType
<1>3. \A t \in Session : kind'[t] = "multipart" => reg'[t] = {}
  BY <1>1, <1>2 DEF CountInv
<1>4. ASSUME NEW n \in Node, NEW d \in Chunk
      PROVE  inflight'[n][d] = Cardinality(Holders(n, d)')
  <2>1. CASE n = entry[s] /\ d \in reg[s]
    <3>1. Holders(n, d)' = Holders(n, d) \ {s}
      BY <1>1, <1>2, <2>1 DEF Holders
    <3>2. s \in Holders(n, d)
      BY <2>1 DEF Holders
    <3>3. Cardinality(Holders(n, d)') = Cardinality(Holders(n, d)) - 1
      BY <3>1, <3>2, HoldersFinite, FS_RemoveElement
    <3>4. inflight[n][d] > 0
      BY <3>2, HoldersFinite DEF CountInv
    <3>5. inflight'[n][d] = inflight[n][d] - 1
      BY <1>1, <2>1, <3>4 DEF CoreType, Unregister
    <3>q. QED
      BY <3>3, <3>5 DEF CountInv
  <2>2. CASE ~(n = entry[s] /\ d \in reg[s])
    <3>1. Holders(n, d)' = Holders(n, d)
      BY <1>1, <1>2, <2>2 DEF Holders
    <3>2. inflight'[n][d] = inflight[n][d]
      BY <1>1, <2>2 DEF CoreType, Unregister
    <3>q. QED
      BY <3>1, <3>2 DEF CountInv
  <2>q. QED
    BY <2>1, <2>2
<1>q. QED
  BY <1>3, <1>4 DEF CountInv

LEMMA CrashCounts ==
  ASSUME CoreType, CountInv, NEW m \in Node, Crash(m)
  PROVE  CountInv'
<1>1. /\ entry' = entry /\ kind' = kind
      /\ inflight' = [inflight EXCEPT ![m] = [c \in Chunk |-> 0]]
  BY DEF Crash, slot
<1>2. \A t \in Session : reg'[t] = IF entry[t] = m THEN {} ELSE reg[t]
  BY DEF Crash
<1>3. \A t \in Session : kind'[t] = "multipart" => reg'[t] = {}
  BY <1>1, <1>2 DEF CountInv
<1>4. ASSUME NEW n \in Node, NEW d \in Chunk
      PROVE  inflight'[n][d] = Cardinality(Holders(n, d)')
  <2>1. CASE n = m
    <3>1. Holders(n, d)' = {}
      BY <1>1, <1>2, <2>1 DEF Holders
    <3>2. inflight'[n][d] = 0
      BY <1>1, <2>1 DEF CoreType
    <3>q. QED
      BY <3>1, <3>2, FS_EmptySet
  <2>2. CASE n # m
    <3>1. Holders(n, d)' = Holders(n, d)
      BY <1>1, <1>2, <2>2 DEF Holders
    <3>2. inflight'[n][d] = inflight[n][d]
      BY <1>1, <2>2 DEF CoreType
    <3>q. QED
      BY <3>1, <3>2 DEF CountInv
  <2>q. QED
    BY <2>1, <2>2
<1>q. QED
  BY <1>3, <1>4 DEF CountInv

LEMMA CountStep ==
  ASSUME CoreType, CountInv, [Next]_vars
  PROVE  CountInv'
<1>1. CASE UNCHANGED <<inflight, entry, kind, reg>>
  BY <1>1 DEF CountInv, Holders
<1>2. CASE UNCHANGED vars
  BY <1>1, <1>2 DEF vars, session, slot
<1>3. ASSUME NEW s \in Session, UploadStep(s) PROVE CountInv'
  <2>1. CASE AbortUpload(s)
    <3>1. /\ kind[s] = "multipart" /\ UNCHANGED <<inflight, entry, kind>>
          /\ reg' = [reg EXCEPT ![s] = {}]
      BY <2>1 DEF AbortUpload, Reset, slot
    <3>2. reg[s] = {}
      BY <3>1 DEF CountInv
    <3>3. reg' = reg
      BY <3>1, <3>2 DEF CoreType
    <3>q. QED
      BY <1>1, <3>1, <3>3
  <2>2. CASE \/ UploadFails(s) \/ Commit(s)
             \/ \E cs \in SUBSET Chunk \ {{}} : Begin(s, cs) \/ CompleteUpload(s, cs)
             \/ \E c \in Chunk : AddPart(s, c)
             \/ \E c \in Chunk, ns \in SUBSET Node : StoreChunk(s, c, ns)
    BY <1>1, <2>2 DEF UploadFails, Commit, Begin, CompleteUpload, AddPart, StoreChunk, slot
  <2>q. QED
    BY <1>3, <2>1, <2>2, RegisterCounts, FinishCounts DEF UploadStep
<1>4. CASE MetadataStep
  BY <1>1, <1>4, CrashCounts DEF MetadataStep, Replicate, Delete, session, slot
<1>5. ASSUME NEW g \in Run, CollectStep(g) PROVE CountInv'
  BY <1>1, <1>5 DEF CollectStep, GCMarkManifests, GCMarkInFlight, GCMarkMultipart,
                    GCListChunks, GCSweep, GCDone, session, slot
<1>q. QED
  BY <1>2, <1>3, <1>4, <1>5 DEF Next

LEMMA CountStarts == Init => CountInv
<1> SUFFICES ASSUME Init PROVE CountInv
  OBVIOUS
<1>1. \A n \in Node, c \in Chunk : Holders(n, c) = {} /\ inflight[n][c] = 0
  BY DEF Init, Holders
<1>2. \A s \in Session : reg[s] = {}
  BY DEF Init
<1>q. QED
  BY <1>1, <1>2, FS_EmptySet DEF CountInv

\* The registry's count of a chunk is the number of uploads on the node that
\* have registered it, through failures, aborts and restarts (inflight.go:26-64).
THEOREM RegistryCounts == Spec => []RegistryCountsSessions
<1>1. TypeOK => CoreType
  BY DEF TypeOK, CoreType
<1>2. TypeOK /\ CountInv /\ [Next]_vars => CountInv'
  BY <1>1, CountStep
<1>3. CountInv => RegistryCountsSessions
  BY DEF CountInv, RegistryCountsSessions, Holders
<1>q. QED
  BY CountStarts, <1>2, <1>3, TypeCorrect, PTL DEF Spec

-----------------------------------------------------------------------------
(* What is held is spared *)

\* What has been held since a collection began is still claimed, and is marked
\* once the collection has read the root that holds it.
SpareInv ==
  \A g \in Run :
    /\ phase[g] # "idle" => \A r \in Roots : held[g][r] \subseteq Claimed(site[g], r)
    /\ phase[g] \in {"uploads", "list", "sweep"} => held[g]["inflight"] \subseteq active[g]
    /\ phase[g] \in {"list", "sweep"} => held[g]["parts"] \subseteq active[g]

\* The registry has every chunk an upload relies on.
LEMMA ClaimedIsInFlight ==
  ASSUME CoreType, CountInv, NEW n \in Node
  PROVE  Claimed(n, "inflight") \subseteq InFlight(n)
<1> SUFFICES ASSUME NEW s \in Session, entry[s] = n, NEW c \in reg[s]
             PROVE  c \in InFlight(n)
  BY DEF Claimed
<1>1. c \in Chunk /\ s \in Holders(n, c)
  BY DEF CoreType, Holders
<1>2. inflight[n][c] > 0
  BY <1>1, HoldersFinite DEF CountInv
<1>q. QED
  BY <1>1, <1>2 DEF InFlight

\* What is held only shrinks while a collection runs.
LEMMA HeldShrinks ==
  ASSUME Track, NEW g \in Run, NEW r \in Roots
  PROVE  /\ phase'[g] # "idle" => held'[g][r] \subseteq Claimed(site[g], r)'
         /\ phase[g] # "idle" => held'[g][r] \subseteq held[g][r]
<1>1. held'[g][r] = IF g \notin Collecting' THEN {}
                    ELSE IF g \notin Collecting THEN Claimed(site[g], r)'
                    ELSE held[g][r] \cap Claimed(site[g], r)'
  BY DEF Track
<1>q. QED
  BY <1>1 DEF Collecting

LEMMA SpareStep ==
  ASSUME CoreType, CountInv, SpareInv, Next
  PROVE  SpareInv'
<1> SUFFICES ASSUME NEW g \in Run
             PROVE  /\ phase'[g] # "idle" =>
                         \A r \in Roots : held'[g][r] \subseteq Claimed(site[g], r)'
                    /\ phase'[g] \in {"uploads", "list", "sweep"} =>
                         held'[g]["inflight"] \subseteq active'[g]
                    /\ phase'[g] \in {"list", "sweep"} => held'[g]["parts"] \subseteq active'[g]
  BY DEF SpareInv
<1> DEFINE Marked == /\ phase'[g] \in {"uploads", "list", "sweep"} =>
                          held'[g]["inflight"] \subseteq active'[g]
                     /\ phase'[g] \in {"list", "sweep"} => held'[g]["parts"] \subseteq active'[g]
<1>1. Track /\ "inflight" \in Roots /\ "parts" \in Roots
  BY DEF Next, Roots
<1>2. phase'[g] # "idle" => \A r \in Roots : held'[g][r] \subseteq Claimed(site[g], r)'
  BY <1>1, HeldShrinks
<1>3. phase[g] # "idle" => /\ held'[g]["inflight"] \subseteq held[g]["inflight"]
                           /\ held'[g]["parts"] \subseteq held[g]["parts"]
  BY <1>1, HeldShrinks
<1>4. /\ phase[g] \in {"uploads", "list", "sweep"} => held[g]["inflight"] \subseteq active[g]
      /\ phase[g] \in {"list", "sweep"} => held[g]["parts"] \subseteq active[g]
      /\ phase[g] # "idle" => /\ held[g]["inflight"] \subseteq Claimed(site[g], "inflight")
                              /\ held[g]["parts"] \subseteq Claimed(site[g], "parts")
  BY <1>1 DEF SpareInv
<1>5. CASE UNCHANGED <<phase[g], active[g]>> \/ phase'[g] = "idle"
  BY <1>2, <1>3, <1>4, <1>5
<1>6. ASSUME NEW s \in Session, UploadStep(s) PROVE Marked
  BY <1>5, <1>6, UploadFrame DEF gc
<1>7. CASE MetadataStep
  <2>1. UNCHANGED <<phase, active>> \/ \E n \in Node : Crash(n)
    BY <1>7 DEF MetadataStep, Replicate, Delete, gc
  <2>2. ASSUME NEW n \in Node, Crash(n)
        PROVE  UNCHANGED <<phase[g], active[g]>> \/ phase'[g] = "idle"
    BY <2>2 DEF Crash
  <2>q. QED
    BY <1>5, <2>1, <2>2
<1>8. ASSUME NEW h \in Run, h # g, CollectStep(h) PROVE Marked
  <2>1. UNCHANGED <<phase[g], active[g]>>
    BY <1>8 DEF CoreType, CollectStep, GCMarkManifests, GCMarkInFlight, GCMarkMultipart,
                GCListChunks, GCSweep, GCDone
  <2>q. QED
    BY <1>5, <2>1
<1>9. CASE CollectStep(g)
  <2>1. CASE GCMarkManifests(g)
    <3>1. phase'[g] = "registry"
      BY <2>1 DEF CoreType, GCMarkManifests
    <3>q. QED
      BY <1>2, <3>1
  <2>2. CASE GCMarkInFlight(g)
    <3>1. /\ phase[g] = "registry" /\ phase'[g] = "uploads"
          /\ active'[g] = active[g] \cup InFlight(site[g])
      BY <2>2 DEF CoreType, GCMarkInFlight, MarkRegistry
    <3>2. Claimed(site[g], "inflight") \subseteq InFlight(site[g])
      BY ClaimedIsInFlight DEF CoreType
    <3>q. QED
      BY <1>2, <1>3, <1>4, <3>1, <3>2
  <2>3. CASE GCMarkMultipart(g)
    <3>1. /\ phase[g] = "uploads" /\ phase'[g] = "list"
          /\ active'[g] = active[g] \cup UploadedParts(site[g])
      BY <2>3 DEF CoreType, GCMarkMultipart, MarkParts
    <3>2. Claimed(site[g], "parts") = UploadedParts(site[g])
      BY DEF Claimed
    <3>q. QED
      BY <1>2, <1>3, <1>4, <3>1, <3>2
  <2>4. CASE GCListChunks(g)
    <3>1. phase[g] = "list" /\ phase'[g] = "sweep" /\ active'[g] = active[g]
      BY <2>4 DEF CoreType, GCListChunks
    <3>q. QED
      BY <1>2, <1>3, <1>4, <3>1
  <2>5. ASSUME NEW c \in Chunk, GCSweep(g, c) PROVE Marked
    BY <1>5, <2>5 DEF GCSweep
  <2>6. CASE GCDone(g)
    <3>1. phase'[g] = "idle"
      BY <2>6 DEF CoreType, GCDone
    <3>q. QED
      BY <1>2, <3>1
  <2>q. QED
    BY <1>2, <1>9, <2>1, <2>2, <2>3, <2>4, <2>5, <2>6 DEF CollectStep
<1>q. QED
  BY <1>2, <1>6, <1>7, <1>8, <1>9 DEF Next

\* A collection never sweeps a chunk that an upload of the node has registered,
\* or recorded as a part, since before it began (gc.go:82-125).
THEOREM SweepsSpareHeld == Spec => SweepSparesHeld
<1>1. TypeOK => CoreType
  BY DEF TypeOK, CoreType
<1>2. TypeOK /\ CountInv /\ [Next]_vars => CountInv'
  BY <1>1, CountStep
<1>3. Init => SpareInv
  BY DEF Init, SpareInv
<1>4. ASSUME TypeOK, CountInv, SpareInv, [Next]_vars PROVE SpareInv'
  <2>1. CASE UNCHANGED vars
    BY <1>4, <2>1 DEF vars, session, slot, gc, history, SpareInv, Claimed, UploadedParts
  <2>q. QED
    BY <1>1, <1>4, <2>1, SpareStep
<1>5. ASSUME TypeOK, IInv, SpareInv, NEW g \in Run, NEW c \in Chunk, GCSweep(g, c)
      PROVE  \A r \in Roots : c \notin held[g][r]
  <2>1. phase[g] = "sweep" /\ c \in todo[g]
    BY <1>5 DEF GCSweep
  <2>2. c \notin active[g]
    BY <1>5, <2>1 DEF IInv, TodoUnmarked
  <2>3. held[g]["inflight"] \subseteq active[g] /\ held[g]["parts"] \subseteq active[g]
    BY <1>5, <2>1 DEF SpareInv
  <2>q. QED
    BY <2>2, <2>3 DEF Roots
<1>6. TypeOK /\ IInv /\ SpareInv =>
        [\A g \in Run, c \in Chunk :
           GCSweep(g, c) => \A r \in Roots : c \notin held[g][r]]_vars
  BY <1>5
<1>q. QED
  BY CountStarts, KeptStarts, KeptStep, <1>2, <1>3, <1>4, <1>6, TypeCorrect, PTL
     DEF Spec, SweepSparesHeld

-----------------------------------------------------------------------------
(* A quiet collection leaves no orphan *)

\* During a quiet collection no upload runs, what it has marked is referenced,
\* and what its node has on disk is on its list or referenced.
QuietInv ==
  /\ \A s \in Session : ~Active(s) => reg[s] = {}
  /\ \A g \in quiet :
       /\ phase[g] # "idle"
       /\ \A s \in Session : ~Active(s)
       /\ active[g] \subseteq Referenced(site[g])
       /\ phase[g] = "sweep" => disk[site[g]] \subseteq todo[g] \cup Referenced(site[g])

\* While no upload runs, neither the registry nor the upload store has a chunk.
LEMMA NothingHeld ==
  ASSUME CoreType, CountInv, QuietInv, \A s \in Session : ~Active(s), NEW n \in Node
  PROVE  InFlight(n) = {} /\ UploadedParts(n) = {}
<1>1. ASSUME NEW c \in Chunk PROVE inflight[n][c] = 0
  <2>1. Holders(n, c) = {}
    BY DEF Holders, QuietInv
  <2>q. QED
    BY <2>1, HoldersFinite DEF CountInv
<1>2. InFlight(n) = {}
  BY <1>1 DEF InFlight
<1>3. UploadedParts(n) = {}
  BY DEF UploadedParts, Active
<1>q. QED
  BY <1>2, <1>3

\* An upload that is over has nothing registered.
LEMMA FreeSlotsStep ==
  ASSUME CoreType, QuietInv, Next
  PROVE  \A s \in Session : ~Active(s)' => reg'[s] = {}
<1> SUFFICES ASSUME NEW s \in Session, ~Active(s)' PROVE reg'[s] = {}
  OBVIOUS
<1>1. CASE pc'[s] = pc[s] /\ reg'[s] = reg[s]
  BY <1>1 DEF QuietInv, Active
<1>2. ASSUME NEW t \in Session, UploadStep(t) PROVE reg'[s] = {}
  <2>1. ASSUME t = s, AbortUpload(s) \/ Finish(s) PROVE reg'[s] = {}
    BY <2>1 DEF CoreType, AbortUpload, Finish, Reset
  <2>2. ASSUME t = s, ~AbortUpload(s), ~Finish(s) PROVE FALSE
    <3>1. ASSUME NEW cs \in SUBSET Chunk \ {{}}, Begin(s, cs) PROVE FALSE
      BY <3>1 DEF CoreType, Begin, Active
    <3>2. ASSUME NEW cs \in SUBSET Chunk \ {{}}, CompleteUpload(s, cs) PROVE FALSE
      BY <3>2 DEF CoreType, CompleteUpload, Active
    <3>3. ASSUME NEW c \in Chunk, RegisterChunk(s, c) \/ AddPart(s, c) PROVE FALSE
      BY <3>3 DEF CoreType, RegisterChunk, AddPart, Active
    <3>4. ASSUME NEW c \in Chunk, NEW ns \in SUBSET Node, StoreChunk(s, c, ns) PROVE FALSE
      BY <3>4 DEF CoreType, StoreChunk, Active
    <3>5. ASSUME UploadFails(s) \/ Commit(s) PROVE FALSE
      BY <3>5 DEF CoreType, UploadFails, Commit, Active
    <3>q. QED
      BY <1>2, <2>2, <3>1, <3>2, <3>3, <3>4, <3>5 DEF UploadStep
  <2>3. CASE t # s
    <3>1. pc'[s] = pc[s]
      BY <1>2, <2>3, UploadFrame
    <3>2. reg'[s] = reg[s]
      BY <1>2, <2>3 DEF CoreType, UploadStep, Begin, CompleteUpload, RegisterChunk, AddPart,
           StoreChunk, UploadFails, AbortUpload, Commit, Finish, Reset
    <3>q. QED
      BY <1>1, <3>1, <3>2
  <2>q. QED
    BY <2>1, <2>2, <2>3
<1>3. CASE MetadataStep
  <2>1. ASSUME NEW n \in Node, Crash(n) PROVE reg'[s] = {}
    BY <1>1, <2>1 DEF Crash
  <2>2. CASE UNCHANGED <<pc, reg>>
    BY <1>1, <2>2
  <2>q. QED
    BY <1>3, <2>1, <2>2 DEF MetadataStep, Replicate, Delete, session
<1>4. ASSUME NEW g \in Run, CollectStep(g) PROVE reg'[s] = {}
  <2>1. UNCHANGED <<pc, reg>>
    BY <1>4 DEF CollectStep, GCMarkManifests, GCMarkInFlight, GCMarkMultipart,
                GCListChunks, GCSweep, GCDone, session
  <2>q. QED
    BY <1>1, <2>1
<1>q. QED
  BY <1>2, <1>3, <1>4 DEF Next

LEMMA QuietStep ==
  ASSUME CoreType, HistoryType, CountInv, QuietInv, Next
  PROVE  QuietInv'
<1> SUFFICES ASSUME NEW g \in quiet'
             PROVE  /\ phase'[g] # "idle"
                    /\ \A s \in Session : ~Active(s)'
                    /\ active'[g] \subseteq Referenced(site[g])'
                    /\ phase'[g] = "sweep" =>
                         disk'[site'[g]] \subseteq todo'[g] \cup Referenced(site[g])'
  BY FreeSlotsStep DEF QuietInv
<1> DEFINE Goal == /\ active'[g] \subseteq Referenced(site[g])'
                   /\ phase'[g] = "sweep" =>
                        disk'[site'[g]] \subseteq todo'[g] \cup Referenced(site[g])'
<1>1. /\ g \in Run /\ phase'[g] # "idle" /\ \A s \in Session : ~Active(s)'
      /\ phase[g] # "idle" => g \in quiet
      /\ UNCHANGED <<cur, old>>
  BY DEF Next, Track, Collecting
<1>2. site' = site
  BY UploadFrame DEF Next, MetadataStep, Replicate, Delete, Crash, CollectStep, GCMarkManifests,
     GCMarkInFlight, GCMarkMultipart, GCListChunks, GCSweep, GCDone, gc
<1>3. Referenced(site[g])' = Referenced(site[g]) /\ site[g] \in Node
  BY <1>1, <1>2 DEF CoreType, Referenced, Current, Archived
<1>4. phase[g] # "idle" =>
        /\ \A s \in Session : ~Active(s)
        /\ active[g] \subseteq Referenced(site[g])
        /\ phase[g] = "sweep" => disk[site[g]] \subseteq todo[g] \cup Referenced(site[g])
        /\ InFlight(site[g]) = {} /\ UploadedParts(site[g]) = {}
  BY <1>1, <1>3, NothingHeld DEF QuietInv
<1>5. ASSUME UNCHANGED <<phase[g], active[g], todo[g]>>, disk'[site[g]] \subseteq disk[site[g]]
      PROVE  Goal
  BY <1>1, <1>2, <1>3, <1>4, <1>5
<1>6. ASSUME NEW s \in Session, UploadStep(s) PROVE Goal
  <2>1. phase[g] # "idle"
    BY <1>1, <1>6, UploadFrame DEF gc
  <2>2. pc[s] = "idle" /\ pc'[s] = "idle"
    BY <1>1, <1>4, <2>1 DEF Active
  <2>3. FALSE
    BY <1>6, <2>2 DEF CoreType, UploadStep, Begin, CompleteUpload, RegisterChunk, AddPart,
       StoreChunk, UploadFails, AbortUpload, Commit, Finish
  <2>q. QED
    BY <2>3
<1>7. CASE MetadataStep
  <2>1. UNCHANGED <<disk, phase, active, todo>> \/ \E n \in Node : Crash(n)
    BY <1>7 DEF MetadataStep, Replicate, Delete, gc
  <2>2. ASSUME NEW n \in Node, Crash(n)
        PROVE  UNCHANGED <<disk, phase[g], active[g], todo[g]>>
    BY <1>1, <2>2 DEF Crash, files
  <2>q. QED
    BY <1>1, <1>3, <1>5, <2>1, <2>2
<1>8. ASSUME NEW h \in Run, h # g, CollectStep(h) PROVE Goal
  <2>1. UNCHANGED <<phase[g], active[g], todo[g]>>
    BY <1>1, <1>8 DEF CoreType, CollectStep, GCMarkManifests, GCMarkInFlight, GCMarkMultipart,
                GCListChunks, GCSweep, GCDone
  <2>2. disk'[site[g]] \subseteq disk[site[g]]
    <3>1. UNCHANGED disk \/ \E c \in Chunk : GCSweep(h, c)
      BY <1>8 DEF CollectStep, GCMarkManifests, GCMarkInFlight, GCMarkMultipart,
                  GCListChunks, GCDone, files
    <3>2. ASSUME NEW c \in Chunk, GCSweep(h, c) PROVE disk'[site[g]] \subseteq disk[site[g]]
      BY <1>3, <3>2 DEF CoreType, GCSweep
    <3>q. QED
      BY <3>1, <3>2
  <2>q. QED
    BY <1>5, <2>1, <2>2
<1>9. CASE CollectStep(g)
  <2>1. CASE GCMarkManifests(g)
    <3>1. phase'[g] = "registry" /\ active'[g] = Referenced(site[g])
      BY <1>1, <2>1 DEF CoreType, GCMarkManifests, MarkManifests
    <3>q. QED
      BY <1>1, <1>3, <3>1
  <2>2. CASE GCMarkInFlight(g)
    <3>1. /\ phase[g] = "registry" /\ phase'[g] = "uploads"
          /\ active'[g] = active[g] \cup InFlight(site[g])
      BY <1>1, <2>2 DEF CoreType, GCMarkInFlight, MarkRegistry
    <3>q. QED
      BY <1>1, <1>3, <1>4, <3>1
  <2>3. CASE GCMarkMultipart(g)
    <3>1. /\ phase[g] = "uploads" /\ phase'[g] = "list"
          /\ active'[g] = active[g] \cup UploadedParts(site[g])
      BY <1>1, <2>3 DEF CoreType, GCMarkMultipart, MarkParts
    <3>q. QED
      BY <1>1, <1>3, <1>4, <3>1
  <2>4. CASE GCListChunks(g)
    <3>1. /\ phase[g] = "list" /\ active'[g] = active[g] /\ disk' = disk
          /\ todo'[g] = disk[site[g]] \ active[g]
      BY <1>1, <2>4 DEF CoreType, GCListChunks, files
    <3>q. QED
      BY <1>1, <1>2, <1>3, <1>4, <3>1
  <2>5. ASSUME NEW c \in Chunk, GCSweep(g, c) PROVE Goal
    <3>1. /\ phase[g] = "sweep" /\ active'[g] = active[g]
          /\ todo'[g] = todo[g] \ {c} /\ disk'[site[g]] = disk[site[g]] \ {c}
      BY <1>1, <1>3, <2>5 DEF CoreType, GCSweep
    <3>q. QED
      BY <1>1, <1>2, <1>3, <1>4, <3>1
  <2>6. CASE GCDone(g)
    BY <1>1, <2>6 DEF CoreType, GCDone
  <2>q. QED
    BY <1>1, <1>9, <2>1, <2>2, <2>3, <2>4, <2>5, <2>6 DEF CollectStep
<1>q. QED
  BY <1>1, <1>6, <1>7, <1>8, <1>9 DEF Next

\* A collection beside which nothing else happened leaves on its node only
\* chunks that a current or archived version refers to: what failed, aborted
\* and crashed uploads left is collected (gc.go:109-125).
THEOREM QuietRunsCollect == Spec => QuietRunLeavesNoOrphan
<1>1. TypeOK => CoreType /\ HistoryType
  BY DEF TypeOK, CoreType, HistoryType
<1>2. TypeOK /\ CountInv /\ [Next]_vars => CountInv'
  BY <1>1, CountStep
<1>3. Init => QuietInv
  BY DEF Init, QuietInv, Active
<1>4. ASSUME TypeOK, CountInv, QuietInv, [Next]_vars PROVE QuietInv'
  <2>1. CASE UNCHANGED vars
    BY <1>4, <2>1 DEF vars, files, session, slot, gc, history, QuietInv, Active, Referenced,
       Current, Archived
  <2>q. QED
    BY <1>1, <1>4, <2>1, QuietStep
<1>5. ASSUME QuietInv, NEW g \in Run, GCDone(g), g \in quiet
      PROVE  disk[site[g]] \subseteq Referenced(site[g])
  BY <1>5 DEF QuietInv, GCDone
<1>6. QuietInv =>
        [\A g \in Run :
           GCDone(g) /\ g \in quiet => disk[site[g]] \subseteq Referenced(site[g])]_vars
  BY <1>5
<1>q. QED
  BY CountStarts, <1>2, <1>3, <1>4, <1>6, TypeCorrect, PTL DEF Spec, QuietRunLeavesNoOrphan
=============================================================================
