--------------------------- MODULE MCMembership ---------------------------
(***************************************************************************)
(* Membership with two peers and one worker.                               *)
(***************************************************************************)
EXTENDS Membership

CONSTANTS n1, n2, w1

Peers == {n1, n2}
Pool == {w1}
=============================================================================
