------------------------ MODULE MCMetadataReplication ------------------------
(***************************************************************************)
(* MetadataReplication with two nodes.                                     *)
(***************************************************************************)
EXTENDS MetadataReplication

CONSTANTS n1, n2

TwoNodes == {n1, n2}
=============================================================================
