-------------------------- MODULE MCUploadPipeline --------------------------
(***************************************************************************)
(* UploadPipeline with three workers.                                      *)
(***************************************************************************)
EXTENDS UploadPipeline

CONSTANTS w1, w2, w3

Three == {w1, w2, w3}
=============================================================================
