------------------------------ MODULE MCChunkGC ------------------------------
(***************************************************************************)
(* ChunkGC with one or two nodes and uploads, one chunk and one object.    *)
(***************************************************************************)
EXTENDS ChunkGC, TLC

CONSTANTS n1, n2, c1, o1, s1, s2, g1

OneNode == {n1}
TwoNodes == {n1, n2}
OneChunk == {c1}
OneObject == {o1}
OneSession == {s1}
TwoSessions == {s1, s2}
OneRun == {g1}
Stream == {"stream"}
BothKinds == {"stream", "multipart"}

SessionSymmetry == Permutations(TwoSessions)
=============================================================================
