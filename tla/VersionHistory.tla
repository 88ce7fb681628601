--------------------------- MODULE VersionHistory ---------------------------
(***************************************************************************)
(* What the replicated metadata promises for one file key: the versions a  *)
(* node can still serve (the current one and the archived ones) only grow, *)
(* by a new upload or by what some node has known, until the file is       *)
(* deleted there.                                                          *)
(***************************************************************************)
CONSTANTS Node, Ver

VARIABLES
  known,  \* known[n]: the versions node n can serve
  made    \* the VersionIDs given out so far

TypeOK ==
  /\ known \in [Node -> SUBSET Ver]
  /\ made \in SUBSET Ver

Init ==
  /\ known = [n \in Node |-> {}]
  /\ made = {}

\* A new version of the file, and whatever came with it.
Create(n) ==
  \E v \in Ver \ made, vs \in SUBSET made :
    /\ made' = made \cup {v}
    /\ known' = [known EXCEPT ![n] = @ \cup {v} \cup vs]

\* Versions arrive from another node.
Learn(n) ==
  \E vs \in SUBSET made :
    /\ known' = [known EXCEPT ![n] = @ \cup vs]
    /\ UNCHANGED made

\* The file is deleted on n.
Forget(n) ==
  /\ known' = [known EXCEPT ![n] = {}]
  /\ UNCHANGED made

Next == \E n \in Node : Create(n) \/ Learn(n) \/ Forget(n)

Spec == Init /\ [][Next]_<<known, made>>
=============================================================================
