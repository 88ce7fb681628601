--------------------------- MODULE MCMetadataLog ---------------------------
(***************************************************************************)
(* MetadataLog with two keys and two values; k2 with v2 is garbled.        *)
(***************************************************************************)
EXTENDS MetadataLog

CONSTANTS k1, k2, v1, v2

Keys == {k1, k2}
Vals == {v1, v2}
GarbledRecords == {[key |-> k2, val |-> v2]}
=============================================================================
