----------------------------- MODULE MCDiskStore -----------------------------
(***************************************************************************)
(* DiskStore with a chunk of one byte and one of two, and three requests   *)
(* at a time.                                                              *)
(***************************************************************************)
EXTENDS DiskStore
CONSTANTS c1, c2, p1, p2, p3

TwoChunks == {c1, c2}
ThreeProcs == {p1, p2, p3}
Sizes2 == (c1 :> 1) @@ (c2 :> 2)
Symmetry == Permutations(ThreeProcs)
=============================================================================
