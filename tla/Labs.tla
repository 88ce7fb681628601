-------------------------------- MODULE Labs --------------------------------
(***************************************************************************)
(* The calculators of the documentation site: QuorumVisualizer ("quorum"), *)
(* DedupCanvas ("dedup"), DeduplicationPlayground ("upload") and the       *)
(* cluster configurator of GetStartedView ("compose").  They keep a few    *)
(* settings and state what follows from them for the storage nodes: which  *)
(* quorums answer and overlap, what deduplication saves, with which        *)
(* settings to start the nodes of a cluster.  The statements are compared  *)
(* with their definition on sets of nodes and of chunks, and the settings  *)
(* with those that the node program reads.                                 *)
(***************************************************************************)
EXTENDS Integers, FiniteSets, FiniteSetsExt

VARIABLES
    writeQuorum, readQuorum,    \* w, r
    failedNode,                 \* a node, or 0 for null
    hasUploadedV2,
    uploadCount, hasEdit,
    clusterSize, storageMode, enableMTLS, sdkTab

quorumVars == <<writeQuorum, readQuorum, failedNode>>
uploadVars == <<uploadCount, hasEdit>>
composeVars == <<clusterSize, storageMode, enableMTLS, sdkTab>>
labsVars == <<quorumVars, hasUploadedV2, uploadVars, composeVars>>

QuorumN == 3
QuorumNodes == 1..QuorumN
SdkTabs == {"aws-cli", "python", "go", "cweave"}

LabsInit ==
    /\ writeQuorum = 2 /\ readQuorum = 2 /\ failedNode = 3
    /\ hasUploadedV2 = FALSE
    /\ uploadCount = 1 /\ hasEdit = FALSE
    /\ clusterSize = 5 /\ storageMode = "replication" /\ enableMTLS = TRUE
    /\ sdkTab = "aws-cli"

MountLabs ==
    /\ writeQuorum' = 2 /\ readQuorum' = 2 /\ failedNode' = 3
    /\ hasUploadedV2' = FALSE
    /\ uploadCount' = 1 /\ hasEdit' = FALSE
    /\ clusterSize' = 5 /\ storageMode' = "replication" /\ enableMTLS' = TRUE
    /\ sdkTab' = "aws-cli"

-----------------------------------------------------------------------------
(* The quorum visualizer. *)

Acks == {node \in QuorumNodes : failedNode # node}

\* Variant: an overlap is promised from N on.
QuorumBadgesFromN ==
    [achieved   |-> Cardinality(Acks) >= writeQuorum,
     guaranteed |-> writeQuorum + readQuorum >= QuorumN]

\* The badge and the banner.
QuorumBadges ==
    [achieved   |-> Cardinality(Acks) >= writeQuorum,
     guaranteed |-> writeQuorum + readQuorum > QuorumN]

SetQuorums ==
    /\ \E q \in 1..3 : \/ writeQuorum' = q /\ UNCHANGED readQuorum
                       \/ readQuorum' = q /\ UNCHANGED writeQuorum
    /\ UNCHANGED <<failedNode, hasUploadedV2, uploadVars, composeVars>>

ToggleNodeFail(node) ==
    /\ failedNode' = IF failedNode = node THEN 0 ELSE node
    /\ UNCHANGED <<writeQuorum, readQuorum, hasUploadedV2, uploadVars, composeVars>>

-----------------------------------------------------------------------------
(* The deduplication canvas: sizes in KB. *)

ChunksV1 == [A |-> 16, B |-> 64, C |-> 32, D |-> 48]

\* The chunks of the second version and whether the canvas calls them reused.
ChunksV2 ==
    [A |-> [size |-> 16, reused |-> TRUE], B2 |-> [size |-> 64, reused |-> FALSE],
     C |-> [size |-> 32, reused |-> TRUE], D |-> [size |-> 48, reused |-> TRUE]]

DedupStrip ==
    \* saved: the percentage beside the second version, which is not shown before
    [logical  |-> IF hasUploadedV2 THEN 320 ELSE 160,
     physical |-> IF hasUploadedV2 THEN 224 ELSE 160,
     saved    |-> IF hasUploadedV2 THEN 75 ELSE 0]

UploadV2(v) ==
    /\ hasUploadedV2 = ~v /\ hasUploadedV2' = v
    /\ UNCHANGED <<quorumVars, uploadVars, composeVars>>

-----------------------------------------------------------------------------
(* The deduplication playground: sizes in MB. *)

UploadChunks == [A |-> 12, B |-> 18, C |-> 9, D |-> 21]

UploadFigures ==
    [reused   |-> CASE uploadCount = 1 -> 0
                    [] uploadCount = 2 -> IF hasEdit THEN 3 ELSE 4,
     new      |-> CASE uploadCount = 1 -> 4
                    [] uploadCount = 2 -> IF hasEdit THEN 1 ELSE 0,
     logical  |-> IF uploadCount = 1 THEN 60 ELSE 120,
     physical |-> IF uploadCount = 2 /\ hasEdit THEN 78 ELSE 60]

\* The cards that say "100% Hash Match".
MatchedCards ==
    {c \in DOMAIN UploadChunks : uploadCount = 2 /\ ~(hasEdit /\ c = "B")}

\* The buttons of the second upload are there after the first one only.
HandleSecondUpload(edit) ==
    /\ uploadCount = 1
    /\ hasEdit' = edit /\ uploadCount' = 2
    /\ UNCHANGED <<quorumVars, hasUploadedV2, composeVars>>

ResetUploads ==
    /\ uploadCount = 2
    /\ uploadCount' = 1 /\ hasEdit' = FALSE
    /\ UNCHANGED <<quorumVars, hasUploadedV2, composeVars>>

-----------------------------------------------------------------------------
(* The cluster configurator. *)

\* The environment that the generated file gives node i.
GenerateCompose(i) ==
    IF clusterSize = 1 THEN [PORT |-> 9000, CLOUDWEAVE_API_KEYS |-> "admin"]
    ELSE [PORT |-> 8999 + i, PEERS |-> 1..clusterSize,
          QUORUM_N |-> IF clusterSize = 3 THEN 3 ELSE 5,
          QUORUM_W |-> IF clusterSize = 3 THEN 2 ELSE 3,
          QUORUM_R |-> IF clusterSize = 3 THEN 2 ELSE 3,
          MTLS_ENABLED |-> enableMTLS,
          STORAGE_ENGINE |-> IF storageMode = "replication" THEN "cas_replication"
                             ELSE "reed_solomon_k4_m2",
          CLOUDWEAVE_API_KEYS |-> "admin"]

\* The settings of a node started with no flags in the environment env.
NodeSettings(env) ==
    LET getEnvOrDefault(key, fallback) == IF key \in DOMAIN env THEN env[key] ELSE fallback
        peers == getEnvOrDefault("CLOUDWEAVE_PEERS", {})
        standalone == peers = {} /\ "CLOUDWEAVE_N" \notin DOMAIN env
    IN [port  |-> getEnvOrDefault("CLOUDWEAVE_PORT", 9000),
        peers |-> peers,
        n     |-> IF standalone THEN 1 ELSE getEnvOrDefault("CLOUDWEAVE_N", 3),
        w     |-> IF standalone THEN 1 ELSE getEnvOrDefault("CLOUDWEAVE_W", 2),
        r     |-> IF standalone THEN 1 ELSE getEnvOrDefault("CLOUDWEAVE_R", 2),
        mode  |-> getEnvOrDefault("CLOUDWEAVE_STORAGE_MODE", "replication"),
        tls   |-> {"CLOUDWEAVE_TLS_CERT", "CLOUDWEAVE_TLS_KEY"} \subseteq DOMAIN env]

ChooseCluster ==
    /\ \/ clusterSize' \in {1, 3, 5} /\ UNCHANGED <<storageMode, enableMTLS>>
       \/ storageMode' \in {"replication", "erasure"} /\ UNCHANGED <<clusterSize, enableMTLS>>
       \/ enableMTLS' \in BOOLEAN /\ UNCHANGED <<clusterSize, storageMode>>
    /\ UNCHANGED <<sdkTab, quorumVars, hasUploadedV2, uploadVars>>

SetSdkTab(t) ==
    /\ sdkTab' = t
    /\ UNCHANGED <<clusterSize, storageMode, enableMTLS, quorumVars, hasUploadedV2, uploadVars>>

-----------------------------------------------------------------------------
LabsTypeOK ==
    /\ writeQuorum \in 1..3 /\ readQuorum \in 1..3 /\ failedNode \in 0..3
    /\ hasUploadedV2 \in BOOLEAN /\ uploadCount \in 1..2 /\ hasEdit \in BOOLEAN
    /\ clusterSize \in {1, 3, 5} /\ storageMode \in {"replication", "erasure"}
    /\ enableMTLS \in BOOLEAN /\ sdkTab \in SdkTabs

\* The badge is green exactly when some write quorum is up, and the banner
\* promises an overlap exactly when every write quorum meets every read quorum.
QuorumClaimsAreRight ==
    /\ QuorumBadges.achieved <=>
         \E ws \in kSubset(writeQuorum, QuorumNodes) : failedNode \notin ws
    /\ QuorumBadges.guaranteed <=>
         \A ws \in kSubset(writeQuorum, QuorumNodes), rs \in kSubset(readQuorum, QuorumNodes) :
             ws \cap rs # {}

\* What a content-addressed store keeps of two versions: each distinct chunk once.
Original == DOMAIN UploadChunks
Again == IF hasEdit THEN (Original \ {"B"}) \cup {"B2"} ELSE Original
UploadSize == [c \in Original \cup {"B2"} |-> UploadChunks[IF c = "B2" THEN "B" ELSE c]]
CanvasSize == [c \in DOMAIN ChunksV1 \cup DOMAIN ChunksV2 |->
                 IF c \in DOMAIN ChunksV1 THEN ChunksV1[c] ELSE ChunksV2[c].size]

\* The sizes and the counts of both deduplication demonstrations follow from
\* the chunks they show, in every state of the upload buttons.  The saving of the
\* canvas is the share of the chunks that are not stored again, and more than the
\* share of the bytes, of the second version or of both.
DedupFiguresFollow ==
    LET hits == DOMAIN ChunksV2 \cap DOMAIN ChunksV1
        shown == IF hasUploadedV2 THEN DOMAIN ChunksV2 ELSE {}
        again == IF uploadCount = 2 THEN Again ELSE {}
        size == SumFunctionOnSet(CanvasSize, DOMAIN ChunksV2)
        sizeHit == SumFunctionOnSet(CanvasSize, hits)
    IN /\ DedupStrip.physical = SumFunctionOnSet(CanvasSize, DOMAIN ChunksV1 \cup shown)
       /\ DedupStrip.logical =
            SumFunctionOnSet(CanvasSize, DOMAIN ChunksV1) + SumFunctionOnSet(CanvasSize, shown)
       /\ hits = {c \in DOMAIN ChunksV2 : ChunksV2[c].reused}
       /\ hasUploadedV2 =>
            /\ DedupStrip.saved * Cardinality(DOMAIN ChunksV2) = 100 * Cardinality(hits)
            /\ DedupStrip.saved * size > 100 * sizeHit
            /\ DedupStrip.saved * DedupStrip.logical
                 > 100 * (DedupStrip.logical - DedupStrip.physical)
       /\ UploadFigures.physical = SumFunctionOnSet(UploadSize, Original \cup again)
       /\ UploadFigures.logical =
            SumFunctionOnSet(UploadSize, Original) + SumFunctionOnSet(UploadSize, again)
       /\ UploadFigures.reused = Cardinality(again \cap Original)
       /\ UploadFigures.reused = Cardinality(MatchedCards)
       /\ uploadCount = 2 => UploadFigures.new = Cardinality(again \ Original)

\* The file generated for several nodes names quorums that answer with any one
\* node down and that overlap; but the node program reads none of the names it
\* uses for them, nor those for port, peers, storage and TLS.  Whatever is
\* chosen, each node it starts stands alone: without peers, its own quorum of
\* one, replicated storage, no TLS, and on the port of the first.
ComposeNodesStandAlone ==
    \A i \in 1..clusterSize :
        LET file == GenerateCompose(i)
            node == NodeSettings(file)
        IN /\ clusterSize > 1 =>
                /\ \A down \in file.PEERS : \A q \in {file.QUORUM_W, file.QUORUM_R} :
                       \E up \in kSubset(q, file.PEERS) : down \notin up
                /\ \A ws \in kSubset(file.QUORUM_W, file.PEERS),
                      rs \in kSubset(file.QUORUM_R, file.PEERS) : ws \cap rs # {}
           /\ node.peers = {} /\ node.n = 1 /\ node.w = 1 /\ node.r = 1
           /\ node.mode = "replication" /\ ~node.tls
           /\ node.port = file.PORT <=> i = 1

\* What the calculators claim of quorums holds; the figures of the deduplication
\* follow from its chunks, the saving from their number; and the cluster
\* configurator starts nodes that do not form the cluster it describes.
CalculatorsTell ==
    QuorumClaimsAreRight /\ DedupFiguresFollow /\ ComposeNodesStandAlone
=============================================================================
