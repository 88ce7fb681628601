---------------------------- MODULE PlacementProofs ----------------------------
(***************************************************************************)
(* Theorems about ReplicaRepair, the copies of a chunk in replication      *)
(* mode with the hash rings that place them, and about ErasurePlacement,   *)
(* its shards in erasure mode: for any number of nodes, any quorums, any   *)
(* positions on the ring and any number of crashes.                        *)
(*                                                                         *)
(* Both take the first nodes or shards of some order, as many as they      *)
(* need; FirstsCount says that they get as many as there are.              *)
(*                                                                         *)
(* That the targets of a chunk are such nodes holds for each ring that has *)
(* a position of every node (OnRing), which joins and leaves keep so: the  *)
(* order is that of the nodes' nearest positions (Met).                    *)
(*                                                                         *)
(* LocationsHoldChunk is not inductive: a write records what was           *)
(* acknowledged to it, and a repair writes back locations it read before   *)
(* its transfers.  Sound says that both are on disk while they wait.       *)
(* LocationsKeepQuorum needs the nodes that have crashed, which no variable*)
(* keeps: QuorumInv says that there is such a set.  SingleDeathHealed needs*)
(* how far the repair of the dead node is: HealInv says that its           *)
(* coordinator has yet to begin, or copies to enough nodes, or is done.    *)
(***************************************************************************)
EXTENDS ReplicaRepair, ErasurePlacement, NaturalsInduction, WellFoundedInduction,
        FiniteSetTheorems, FunctionTheorems, TLAPS

-----------------------------------------------------------------------------
(* Counting *)

\* The elements of S that come before x in the order p.
Before(S, p, x) == {y \in S : p[y] < p[x]}

\* The first k elements of S.
Firsts(S, p, k) == {x \in S : Cardinality(Before(S, p, x)) < k}

\* There are k of them, or all of S: the number of its predecessors is a
\* bijection from S to 0..|S|-1.
LEMMA FirstsCount ==
  ASSUME NEW S, IsFiniteSet(S), NEW p \in [S -> Nat],
         \A x, y \in S : p[x] = p[y] => x = y,
         NEW k \in Nat
  PROVE  IF k <= Cardinality(S) THEN Cardinality(Firsts(S, p, k)) = k
         ELSE Firsts(S, p, k) = S
<1> DEFINE B(x) == Before(S, p, x)
           rank == [x \in S |-> Cardinality(B(x))]
           low == 0..(Cardinality(S) - 1)
<1>1. Cardinality(S) \in Nat
  BY FS_CardinalityType
<1>2. ASSUME NEW x \in S
      PROVE  /\ B(x) \subseteq S /\ x \notin B(x) /\ IsFiniteSet(B(x))
             /\ Cardinality(B(x)) \in low
  <2>1. B(x) \subseteq S /\ x \notin B(x)
    BY DEF Before
  <2>2. IsFiniteSet(B(x)) /\ Cardinality(B(x)) \in Nat /\ Cardinality(B(x)) <= Cardinality(S)
    BY <2>1, FS_Subset, FS_CardinalityType
  <2>3. Cardinality(B(x)) # Cardinality(S)
    BY <2>1, FS_Subset
  <2> HIDE DEF B
  <2> QED BY <1>1, <2>1, <2>2, <2>3
<1>3. ASSUME NEW x \in S, NEW y \in S, p[x] < p[y]
      PROVE  Cardinality(B(x)) < Cardinality(B(y))
  <2>1. B(x) \in SUBSET B(y) /\ x \in B(y)
    BY <1>3 DEF Before
  <2>2. Cardinality(B(x)) <= Cardinality(B(y)) /\ Cardinality(B(x)) # Cardinality(B(y))
    BY <1>2, <2>1, FS_Subset
  <2> HIDE DEF B
  <2> QED BY <1>2, <2>2
<1>4. rank \in [S -> low] /\ \A x, y \in S : rank[x] = rank[y] => x = y
  <2>1. \A x, y \in S : x # y => p[x] < p[y] \/ p[y] < p[x]
    OBVIOUS
  <2>2. \A x \in S : Cardinality(B(x)) \in Nat
    BY <1>2
  <2> HIDE DEF B
  <2> QED BY <1>1, <1>2, <1>3, <2>1, <2>2
<1>5. rank \in Surjection(S, low)
  <2>1. rank \in Injection(S, low)
    BY <1>4, Fun_IsInj
  <2>2. IsFiniteSet(low) /\ Cardinality(low) = Cardinality(S)
    <3>1. IsFiniteSet(low) /\ Cardinality(low) = IF 0 > Cardinality(S) - 1 THEN 0 ELSE Cardinality(S) - 1 - 0 + 1
      BY <1>1, FS_Interval
    <3> QED BY <1>1, <3>1
  <2> HIDE DEF low, rank
  <2> QED BY <2>1, <2>2, FS_Injection
<1>6. CASE k <= Cardinality(S)
  <2> DEFINE F == Firsts(S, p, k)
             g == [x \in F |-> rank[x]]
  <2>1. F \subseteq S /\ \A x \in S : x \in F <=> rank[x] < k
    BY DEF Firsts
  <2>2. g \in [F -> 0..(k - 1)] /\ \A x, y \in F : g[x] = g[y] => x = y
    BY <1>4, <2>1
  <2>3. \A i \in 0..(k - 1) : \E x \in F : g[x] = i
    <3>1. \A i \in low : \E x \in S : rank[x] = i
      <4> HIDE DEF rank, low
      <4> QED BY <1>5, Fun_SurjectionProperties
    <3>2. 0..(k - 1) \subseteq low
      BY <1>1, <1>6
    <3> HIDE DEF rank, F, low
    <3> QED BY <2>1, <3>1, <3>2
  <2>4. g \in Injection(F, 0..(k - 1)) /\ g \in Surjection(F, 0..(k - 1))
    <3> HIDE DEF g, F
    <3> QED BY <2>2, <2>3, Fun_IsInj, Fun_IsSurj
  <2>5. IsFiniteSet(0..(k - 1)) /\ Cardinality(0..(k - 1)) = k
    <3>1. IsFiniteSet(0..(k - 1)) /\ Cardinality(0..(k - 1)) = IF 0 > k - 1 THEN 0 ELSE k - 1 - 0 + 1
      BY FS_Interval
    <3> QED BY <3>1
  <2> HIDE DEF g, F
  <2>6. Cardinality(F) = k
    BY <2>4, <2>5, FS_Injection
  <2> QED BY <1>6, <2>6 DEF F
<1>7. CASE ~(k <= Cardinality(S))
  <2>1. \A x \in S : Cardinality(B(x)) < k
    <3> HIDE DEF B
    <3> QED BY <1>1, <1>2, <1>7
  <2> QED BY <1>7, <2>1 DEF Firsts
<1> QED
  BY <1>6, <1>7

\* At most k elements are among the first k.
LEMMA FirstsAtMost ==
  ASSUME NEW S, IsFiniteSet(S), NEW p \in [S -> Nat],
         \A x, y \in S : p[x] = p[y] => x = y,
         NEW k \in Nat
  PROVE  Cardinality(Firsts(S, p, k)) <= k
<1>1. Cardinality(S) \in Nat
  BY FS_CardinalityType
<1> QED BY <1>1, FirstsCount

\* A set of numbers has a least one.
LEMMA LeastExists ==
  ASSUME NEW S \in SUBSET Nat, S # {}
  PROVE  \E x \in S : \A y \in S : x <= y
<1> DEFINE R == OpToRel(<, Nat)
<1>1. IsWellFoundedOn(R, Nat)
  BY NatLessThanWellFounded
<1>2. PICK x \in S : \A y \in S : <<y, x>> \notin R
  <2> HIDE DEF R
  <2> QED BY <1>1, WFMin
<1>3. \A y \in S : ~(y < x)
  BY <1>2 DEF OpToRel
<1> QED BY <1>3

-----------------------------------------------------------------------------
(* The ring *)

\* No two positions are equally far.
LEMMA DistancesDiffer ==
  /\ \A g \in Positions : Ahead(g) \in Nat
  /\ \A g, h \in Positions : Ahead(g) = Ahead(h) => g = h
BY RingAssumption DEF Positions, Ahead

\* A ring of the nodes R: positions belong to nodes that have them, and no node
\* lacks a position of its own.
OnRing(at, R) ==
  /\ at \in HashRings(Node)
  /\ \A h \in DOMAIN at : at[h] \in R /\ h \in Marks[at[h]]
  /\ \A m \in R, h \in Positions : Own(m, h) => h \in DOMAIN at /\ at[h] = m

LEMMA HashRingIs ==
  \A at : at \in HashRings(Node) <=>
            \E D \in SUBSET Positions : at \in [D -> Node]
BY DEF HashRings

\* The nodes of main are on its ring, whatever their order (main.go:288-300).
LEMMA JoinedOnRing ==
  ASSUME NEW later \in [Node -> Nat]
  PROVE  OnRing(Joined(later), Node)
<1> DEFINE D == UNION {Marks[n] : n \in Node}
           at == Joined(later)
           Last(h, n) == /\ h \in Marks[n]
                         /\ \A m \in Node : h \in Marks[m] => later[n] <= later[m]
<1>1. at = [h \in D |-> CHOOSE n \in Node : Last(h, n)] /\ D \in SUBSET Positions
  BY RingAssumption DEF Joined
<1>2. ASSUME NEW h \in D PROVE at[h] \in Node /\ Last(h, at[h])
  <2> DEFINE S == {later[n] : n \in {n \in Node : h \in Marks[n]}}
  <2>1. S \in SUBSET Nat /\ S # {}
    OBVIOUS
  <2>2. PICK x \in S : \A y \in S : x <= y
    BY <2>1, LeastExists
  <2>3. \E n \in Node : Last(h, n)
    BY <2>2
  <2>4. at[h] = CHOOSE n \in Node : Last(h, n)
    BY <1>1
  <2> HIDE DEF Last, at
  <2> QED BY <2>3, <2>4
<1>3. at \in [D -> Node]
  <2> HIDE DEF Last, D
  <2> QED BY <1>1, <1>2
<1>4. at \in HashRings(Node)
  BY <1>1, <1>3, HashRingIs
<1>5. ASSUME NEW m \in Node, NEW h \in Positions, Own(m, h)
      PROVE  h \in DOMAIN at /\ at[h] = m
  <2>1. h \in D /\ DOMAIN at = D
    BY <1>1, <1>5 DEF Own
  <2> QED BY <1>2, <1>5, <2>1 DEF Own
<1> QED BY <1>1, <1>2, <1>4, <1>5 DEF OnRing

\* A node that joins is on the ring, and takes none of its own from another
\* (ring.go:29-43).
LEMMA AddOnRing ==
  ASSUME NEW R \in SUBSET Node, NEW at, OnRing(at, R), NEW d \in Node
  PROVE  OnRing(AddNode(at, d), R \cup {d})
<1> DEFINE bt == AddNode(at, d)
<1>1. PICK D \in SUBSET Positions : at \in [D -> Node]
  BY HashRingIs DEF OnRing
<1>2. /\ D \cup Marks[d] \in SUBSET Positions
      /\ bt = [h \in D \cup Marks[d] |-> IF h \in Marks[d] THEN d ELSE at[h]]
  BY <1>1, RingAssumption DEF AddNode
<1>3. bt \in [D \cup Marks[d] -> Node]
  BY <1>1, <1>2
<1>4. bt \in HashRings(Node)
  BY <1>2, <1>3, HashRingIs
<1>5. \A h \in DOMAIN bt : bt[h] \in R \cup {d} /\ h \in Marks[bt[h]]
  BY <1>1, <1>2 DEF OnRing
<1>6. \A m \in R \cup {d}, h \in Positions : Own(m, h) => h \in DOMAIN bt /\ bt[h] = m
  BY <1>1, <1>2 DEF OnRing, Own
<1> QED BY <1>4, <1>5, <1>6 DEF OnRing

\* A node that leaves is not on the ring, and takes none of its own from another
\* (ring.go:45-59).
LEMMA RemoveOnRing ==
  ASSUME NEW R \in SUBSET Node, NEW at, OnRing(at, R), NEW d \in Node
  PROVE  OnRing(RemoveNode(at, d), R \ {d})
<1> DEFINE bt == RemoveNode(at, d)
<1>1. PICK D \in SUBSET Positions : at \in [D -> Node]
  BY HashRingIs DEF OnRing
<1>2. D \ Marks[d] \in SUBSET Positions /\ bt = [h \in D \ Marks[d] |-> at[h]]
  BY <1>1 DEF RemoveNode
<1>3. bt \in [D \ Marks[d] -> Node]
  BY <1>1, <1>2
<1>4. bt \in HashRings(Node)
  BY <1>2, <1>3, HashRingIs
<1>5. \A h \in DOMAIN bt : bt[h] \in R \ {d} /\ h \in Marks[bt[h]]
  BY <1>1, <1>2 DEF OnRing
<1>6. \A m \in R \ {d}, h \in Positions : Own(m, h) => h \in DOMAIN bt /\ bt[h] = m
  BY <1>1, <1>2 DEF OnRing, Own
<1> QED BY <1>4, <1>5, <1>6 DEF OnRing

-----------------------------------------------------------------------------
(* The walk of the ring *)

\* How far the positions of a node are.
Distances(at, m) == {Ahead(h) : h \in {h \in DOMAIN at : at[h] = m}}

\* How far the walk goes until it meets a node.
Met(at, R) == [m \in R |-> CHOOSE a \in Distances(at, m) : \A b \in Distances(at, m) : a <= b]

\* It meets the node at its nearest position.
LEMMA MetAtNearest ==
  ASSUME NEW R \in SUBSET Node, NEW at, OnRing(at, R), NEW m \in R
  PROVE  /\ Met(at, R)[m] \in Nat
         /\ Met(at, R)[m] \in Distances(at, m)
         /\ \A b \in Distances(at, m) : Met(at, R)[m] <= b
<1>1. DOMAIN at \subseteq Positions
  BY HashRingIs DEF OnRing
<1>2. Distances(at, m) \in SUBSET Nat
  BY <1>1, DistancesDiffer DEF Distances
<1>3. PICK h \in Positions : Own(m, h)
  BY OwnAssumption
<1>4. h \in DOMAIN at /\ at[h] = m
  BY <1>3 DEF OnRing
<1>5. Ahead(h) \in Distances(at, m)
  BY <1>4 DEF Distances
<1>6. \E a \in Distances(at, m) : \A b \in Distances(at, m) : a <= b
  BY <1>2, <1>5, LeastExists
<1> QED BY <1>2, <1>6 DEF Met

\* It meets no two nodes at the same place.
LEMMA MetApart ==
  ASSUME NEW R \in SUBSET Node, NEW at, OnRing(at, R)
  PROVE  /\ Met(at, R) \in [R -> Nat]
         /\ \A x, y \in R : Met(at, R)[x] = Met(at, R)[y] => x = y
<1>1. Met(at, R) \in [R -> Nat]
  BY MetAtNearest DEF Met
<1>2. ASSUME NEW x \in R, NEW y \in R, Met(at, R)[x] = Met(at, R)[y]
      PROVE  x = y
  <2>1. Met(at, R)[x] \in Distances(at, x) /\ Met(at, R)[y] \in Distances(at, y)
    BY MetAtNearest
  <2>2. PICK g \in DOMAIN at : at[g] = x /\ Ahead(g) = Met(at, R)[x]
    BY <2>1 DEF Distances
  <2>3. PICK h \in DOMAIN at : at[h] = y /\ Ahead(h) = Met(at, R)[y]
    BY <2>1 DEF Distances
  <2>4. DOMAIN at \subseteq Positions
    BY HashRingIs DEF OnRing
  <2> QED BY <1>2, <2>2, <2>3, <2>4, DistancesDiffer
<1> QED BY <1>1, <1>2

\* At a position it has seen the nodes it meets before.
LEMMA SeenAreMet ==
  ASSUME NEW R \in SUBSET Node, NEW at, OnRing(at, R), NEW h \in DOMAIN at
  PROVE  Seen(at, h) = {y \in R : Met(at, R)[y] < Ahead(h)}
<1>1. DOMAIN at \subseteq Positions /\ \A g \in DOMAIN at : Ahead(g) \in Nat
  BY HashRingIs, DistancesDiffer DEF OnRing
<1>2. ASSUME NEW g \in DOMAIN at, Ahead(g) < Ahead(h)
      PROVE  at[g] \in R /\ Met(at, R)[at[g]] < Ahead(h)
  <2>1. at[g] \in R /\ Ahead(g) \in Distances(at, at[g])
    BY DEF OnRing, Distances
  <2>2. Met(at, R)[at[g]] \in Nat /\ Met(at, R)[at[g]] <= Ahead(g)
    BY <2>1, MetAtNearest
  <2> QED BY <1>1, <1>2, <2>1, <2>2
<1>3. ASSUME NEW y \in R, Met(at, R)[y] < Ahead(h)
      PROVE  \E g \in DOMAIN at : at[g] = y /\ Ahead(g) < Ahead(h)
  <2>1. Met(at, R)[y] \in Distances(at, y)
    BY MetAtNearest
  <2> QED BY <1>3, <2>1 DEF Distances
<1> QED BY <1>2, <1>3 DEF Seen

\* The targets are the first nodes that the walk meets.
LEMMA TargetsAreFirsts ==
  ASSUME NEW R \in SUBSET Node, NEW at, OnRing(at, R), NEW k \in Nat
  PROVE  Targets(at, k) = Firsts(R, Met(at, R), k)
<1> DEFINE p == Met(at, R)
<1>0. IsFiniteSet(R) /\ DOMAIN at \subseteq Positions
  <2>1. IsFiniteSet(R)
    BY NodeAssumption, FS_Subset
  <2>2. DOMAIN at \subseteq Positions
    BY HashRingIs DEF OnRing
  <2> QED BY <2>1, <2>2
<1>1. ASSUME NEW h \in DOMAIN at, Cardinality(Seen(at, h)) < k
      PROVE  at[h] \in Firsts(R, p, k)
  <2>1. at[h] \in R /\ Ahead(h) \in Distances(at, at[h])
    BY DEF OnRing, Distances
  <2>2. p[at[h]] <= Ahead(h) /\ Ahead(h) \in Nat
    BY <1>0, <2>1, MetAtNearest, DistancesDiffer
  <2>3. p \in [R -> Nat]
    BY MetApart
  <2> HIDE DEF p
  <2>4. Before(R, p, at[h]) \in SUBSET {y \in R : p[y] < Ahead(h)}
    BY <2>1, <2>2, <2>3 DEF Before
  <2>5. Seen(at, h) = {y \in R : p[y] < Ahead(h)}
    BY SeenAreMet DEF p
  <2>6. IsFiniteSet(Seen(at, h))
    BY <1>0, <2>5, FS_Subset
  <2>7. /\ Cardinality(Before(R, p, at[h])) <= Cardinality(Seen(at, h))
        /\ Cardinality(Seen(at, h)) \in Nat /\ Cardinality(Before(R, p, at[h])) \in Nat
    BY <2>4, <2>5, <2>6, FS_Subset, FS_CardinalityType
  <2>8. Cardinality(Before(R, p, at[h])) < k
    BY <1>1, <2>7
  <2> QED BY <2>1, <2>8 DEF Firsts
<1>2. ASSUME NEW m \in Firsts(R, p, k)
      PROVE  \E h \in DOMAIN at : at[h] = m /\ Cardinality(Seen(at, h)) < k
  <2>1. m \in R /\ Cardinality(Before(R, p, m)) < k
    BY DEF Firsts
  <2>2. PICK h \in DOMAIN at : at[h] = m /\ Ahead(h) = p[m]
    BY <2>1, MetAtNearest DEF Distances
  <2>3. Seen(at, h) = Before(R, p, m)
    BY <2>2, SeenAreMet DEF Before
  <2> QED BY <2>1, <2>2, <2>3
<1> HIDE DEF p
<1>3. Targets(at, k) = Firsts(R, p, k)
  BY <1>1, <1>2 DEF Targets
<1> QED BY <1>3 DEF p

\* The ring of each node is one of its nodes.
Ringed ==
  /\ hashToNode \in [Node -> HashRings(Node)]
  /\ \A n \in Node : OnRing(hashToNode[n], ring[n])

\* N nodes are chosen for a chunk, or all of the ring, wherever positions
\* collide (ring.go:63-88).
LEMMA TargetsCount ==
  ASSUME NEW R \in SUBSET Node, NEW at, OnRing(at, R)
  PROVE  /\ Targets(at, N) \subseteq R
         /\ Cardinality(Targets(at, N)) <= N
         /\ Cardinality(Targets(at, N)) = N \/ Targets(at, N) = R
<1>1. Met(at, R) \in [R -> Nat] /\ \A x, y \in R : Met(at, R)[x] = Met(at, R)[y] => x = y
  BY MetApart
<1>2. IsFiniteSet(R) /\ N \in Nat
  BY NodeAssumption, QuorumAssumption, FS_Subset
<1>3. Targets(at, N) = Firsts(R, Met(at, R), N)
  BY <1>2, TargetsAreFirsts
<1>4. IF N <= Cardinality(R) THEN Cardinality(Firsts(R, Met(at, R), N)) = N
      ELSE Firsts(R, Met(at, R), N) = R
  BY <1>1, <1>2, FirstsCount
<1>5. Cardinality(Firsts(R, Met(at, R), N)) <= N
  BY <1>1, <1>2, FirstsAtMost
<1> QED
  BY <1>3, <1>4, <1>5 DEF Firsts

\* Without collisions a node is met at the same place on every ring it is on, so
\* that on a smaller ring it is among the first at least as easily
\* (decisions.md:101).
LEMMA TargetsStay ==
  ASSUME NoCollision, NEW S \in SUBSET Node, NEW R \in SUBSET S,
         NEW at, OnRing(at, R), NEW bt, OnRing(bt, S), NEW k \in Nat
  PROVE  Targets(bt, k) \cap R \subseteq Targets(at, k)
<1> DEFINE p == Met(at, R)
           q == Met(bt, S)
<1>1. ASSUME NEW m \in R PROVE p[m] = q[m]
  <2>1. {h \in DOMAIN at : at[h] = m} = {h \in Positions : h \in Marks[m]}
    <3>1. DOMAIN at \subseteq Positions
      BY HashRingIs DEF OnRing
    <3> QED BY <3>1 DEF OnRing, NoCollision
  <2>2. {h \in DOMAIN bt : bt[h] = m} = {h \in Positions : h \in Marks[m]}
    <3>1. DOMAIN bt \subseteq Positions
      BY HashRingIs DEF OnRing
    <3> QED BY <3>1 DEF OnRing, NoCollision
  <2>3. Distances(at, m) = Distances(bt, m)
    BY <2>1, <2>2 DEF Distances
  <2> QED BY <2>3 DEF Met
<1>2. q \in [S -> Nat] /\ p \in [R -> Nat] /\ IsFiniteSet(S)
  BY MetApart, NodeAssumption, FS_Subset
<1>3. Targets(at, k) = Firsts(R, p, k) /\ Targets(bt, k) = Firsts(S, q, k)
  BY TargetsAreFirsts
<1> HIDE DEF p, q
<1>4. ASSUME NEW m \in R, Cardinality(Before(S, q, m)) < k
      PROVE  Cardinality(Before(R, p, m)) < k
  <2>1. Before(R, p, m) \in SUBSET Before(S, q, m)
    BY <1>1 DEF Before
  <2>2. IsFiniteSet(Before(S, q, m))
    BY <1>2, FS_Subset DEF Before
  <2>3. /\ Cardinality(Before(R, p, m)) <= Cardinality(Before(S, q, m))
        /\ Cardinality(Before(R, p, m)) \in Nat /\ Cardinality(Before(S, q, m)) \in Nat
    BY <2>1, <2>2, FS_Subset, FS_CardinalityType
  <2> QED BY <1>4, <2>3
<1> QED BY <1>3, <1>4 DEF Firsts

-----------------------------------------------------------------------------
(* Locations and files *)

Shape ==
  /\ ring \in [Node -> SUBSET Node] /\ Ringed
  /\ locs \in [Node -> SUBSET Node]
  /\ put \in [by : Node \cup {0}, targets : SUBSET Node, acked : SUBSET Node]
  /\ repair \in [Node -> [dead : Node \cup {0}, alive : SUBSET Node,
                          targets : SUBSET Node, copied : SUBSET Node]]

Sound ==
  /\ \A n \in Node : locs[n] \subseteq disk
  /\ put.acked \subseteq disk
  /\ \A n \in Node : repair[n].alive \subseteq disk
  /\ \A n \in Node : repair[n].copied \subseteq disk

IInv == Shape /\ Sound

-----------------------------------------------------------------------------
\* A chunk call leaves every file where it is, and a call that is
\* acknowledged has stored the chunk (transport/server.go:45-63).
LEMMA CallStores ==
  ASSUME NEW t, NEW ok \in BOOLEAN, PutChunkTo(t, ok)
  PROVE  disk \subseteq disk' /\ (ok => t \in disk')
BY DEF PutChunkTo

\* The nodes chosen for a chunk are nodes of the ring (ring.go:63-88).
LEMMA TargetsAreNodes ==
  ASSUME Shape, NEW n \in Node
  PROVE  /\ GetNodesForKey(n) \subseteq ring[n]
         /\ Cardinality(GetNodesForKey(n)) <= N
         /\ Cardinality(GetNodesForKey(n)) = N \/ GetNodesForKey(n) = ring[n]
<1>1. ring[n] \in SUBSET Node /\ OnRing(hashToNode[n], ring[n])
  BY DEF Shape, Ringed
<1> QED BY <1>1, TargetsCount DEF GetNodesForKey

\* Whoever joins, leaves or restarts, the rings are those of their nodes
\* (membership.go:33-80).
LEMMA NextRinged ==
  ASSUME Shape, [Next]_vars
  PROVE  Ringed'
<1>1. CASE UNCHANGED <<ring, hashToNode>>
  BY <1>1 DEF Shape, Ringed
<1>2. ASSUME NEW n \in Node, NEW at, NEW R \in SUBSET Node, OnRing(at, R),
             ring' = [ring EXCEPT ![n] = R], hashToNode' = [hashToNode EXCEPT ![n] = at]
      PROVE  Ringed'
  <2>1. at \in HashRings(Node)
    BY <1>2 DEF OnRing
  <2>2. hashToNode' \in [Node -> HashRings(Node)]
    BY <1>2, <2>1 DEF Shape, Ringed
  <2>3. \A m \in Node : OnRing(hashToNode'[m], ring'[m])
    BY <1>2 DEF Shape, Ringed
  <2> QED BY <2>2, <2>3 DEF Ringed
<1>3. ASSUME NEW n \in Node, NEW d \in Node, NodeDies(n, d) PROVE Ringed'
  <2>1. OnRing(RemoveNode(hashToNode[n], d), ring[n] \ {d})
    BY RemoveOnRing DEF Shape, Ringed
  <2>2. /\ ring' = [ring EXCEPT ![n] = ring[n] \ {d}] /\ ring[n] \ {d} \in SUBSET Node
        /\ hashToNode' = [hashToNode EXCEPT ![n] = RemoveNode(hashToNode[n], d)]
    BY <1>3 DEF NodeDies, Shape
  <2> QED BY <1>2, <2>1, <2>2
<1>4. ASSUME NEW n \in Node, NEW d \in Node, NodeIsBack(n, d) PROVE Ringed'
  <2>1. OnRing(AddNode(hashToNode[n], d), ring[n] \cup {d})
    BY AddOnRing DEF Shape, Ringed
  <2>2. /\ ring' = [ring EXCEPT ![n] = ring[n] \cup {d}] /\ ring[n] \cup {d} \in SUBSET Node
        /\ hashToNode' = [hashToNode EXCEPT ![n] = AddNode(hashToNode[n], d)]
    BY <1>4 DEF NodeIsBack, Shape
  <2> QED BY <1>2, <2>1, <2>2
<1>5. ASSUME NEW n \in Node, Return(n) PROVE Ringed'
  <2>1. OnRing(Joined(Later[n]), Node)
    BY JoinedOnRing, LaterAssumption
  <2> QED BY <1>2, <1>5, <2>1 DEF Return
<1>6. \/ UNCHANGED <<ring, hashToNode>>
      \/ \E n, d \in Node : NodeDies(n, d) \/ NodeIsBack(n, d)
      \/ \E n \in Node : Return(n)
  BY ZenonT(40) DEF Next, vars, PutChunk, WriteChunk, RecordLocations, LearnManifest,
         RepairDeadNode, CopyChunk, UpdateChunkLocations, Crash
<1> QED BY <1>1, <1>3, <1>4, <1>5, <1>6

\* What a step has to keep, when files only come.
LEMMA FilesOnlyCome ==
  ASSUME IInv, disk \subseteq disk',
         \A n \in Node : locs'[n] \subseteq locs[n] \cup disk',
         put'.acked \subseteq put.acked \cup disk',
         \A n \in Node : repair'[n].alive \subseteq repair[n].alive \cup disk',
         \A n \in Node : repair'[n].copied \subseteq repair[n].copied \cup disk'
  PROVE  Sound'
BY DEF IInv, Sound

\* The invariant holds at the start and no step of any node breaks it.
LEMMA InitIInv == Init => IInv
<1> SUFFICES ASSUME Init PROVE IInv
  OBVIOUS
<1>1. \A n \in Node : OnRing(Joined(Later[n]), Node)
  BY JoinedOnRing, LaterAssumption
<1>2. Ringed
  BY <1>1 DEF Init, Ringed, OnRing
<1> QED BY <1>2 DEF Init, IInv, Shape, Sound, NoPut, NoRepair

LEMMA NextShape == IInv /\ [Next]_vars => Shape'
<1> SUFFICES ASSUME IInv, [Next]_vars PROVE Shape'
  OBVIOUS
<1>0. Ringed'
  BY NextRinged DEF IInv
<1> USE DEF IInv, Shape
<1>1. ASSUME NEW n \in Node, PutChunk(n) PROVE Shape'
  BY <1>0, <1>1, TargetsAreNodes DEF PutChunk
<1>2. ASSUME NEW t \in Node, NEW ok \in BOOLEAN, WriteChunk(t, ok) PROVE Shape'
  <2>1. put'.acked \in SUBSET Node /\ put'.targets \in SUBSET Node
    BY <1>2 DEF WriteChunk
  <2>2. put' \in [by : Node \cup {0}, targets : SUBSET Node, acked : SUBSET Node]
    BY <1>2, <2>1 DEF WriteChunk
  <2> QED BY <1>0, <1>2, <2>2 DEF WriteChunk
<1>3. CASE RecordLocations
  BY <1>0, <1>3 DEF RecordLocations, NoPut
<1>4. ASSUME NEW n \in Node, NEW m \in Node, LearnManifest(n, m) PROVE Shape'
  BY <1>0, <1>4 DEF LearnManifest
<1>5. ASSUME NEW n \in Node, NEW d \in Node, NodeDies(n, d) PROVE Shape'
  BY <1>0, <1>5 DEF NodeDies
<1>6. ASSUME NEW n \in Node, NEW d \in Node, NodeIsBack(n, d) PROVE Shape'
  BY <1>0, <1>6 DEF NodeIsBack
<1>7. ASSUME NEW n \in Node, NEW d \in Node, RepairDeadNode(n, d) PROVE Shape'
  <2>1. GetNodesForKey(n) \subseteq Node
    BY TargetsAreNodes
  <2> QED BY <1>0, <1>7, <2>1 DEF RepairDeadNode
<1>8. ASSUME NEW n \in Node, NEW t \in Node, NEW ok \in BOOLEAN, CopyChunk(n, t, ok)
      PROVE  Shape'
  <2> DEFINE copied == IF ok THEN repair[n].copied \cup {t} ELSE repair[n].copied
             rec == [repair[n] EXCEPT !.targets = @ \ {t}, !.copied = copied]
  <2>1. copied \in SUBSET Node
    BY <1>8
  <2>2. rec \in [dead : Node \cup {0}, alive : SUBSET Node,
                 targets : SUBSET Node, copied : SUBSET Node]
    <3>1. repair[n] \in [dead : Node \cup {0}, alive : SUBSET Node,
                         targets : SUBSET Node, copied : SUBSET Node]
      OBVIOUS
    <3> HIDE DEF copied
    <3> QED BY <2>1, <3>1
  <2>3. repair' = [repair EXCEPT ![n] = rec]
    BY <1>8 DEF CopyChunk
  <2>4. repair' \in [Node -> [dead : Node \cup {0}, alive : SUBSET Node,
                             targets : SUBSET Node, copied : SUBSET Node]]
    <3> HIDE DEF rec
    <3> QED BY <2>2, <2>3
  <2> QED BY <1>0, <1>8, <2>4 DEF CopyChunk
<1>9. ASSUME NEW n \in Node, UpdateChunkLocations(n) PROVE Shape'
  BY <1>0, <1>9 DEF UpdateChunkLocations, NoRepair
<1>10. ASSUME NEW n \in Node, Crash(n) PROVE Shape'
  BY <1>0, <1>10 DEF Crash, NoPut, NoRepair
<1>11. ASSUME NEW n \in Node, Return(n) PROVE Shape'
  BY <1>0, <1>11 DEF Return
<1>12. CASE UNCHANGED vars
  BY <1>0, <1>12 DEF vars
<1> QED
  BY <1>1, <1>2, <1>3, <1>4, <1>5, <1>6, <1>7, <1>8, <1>9, <1>10, <1>11, <1>12 DEF Next

LEMMA NextSound == IInv /\ [Next]_vars => Sound'
<1> SUFFICES ASSUME IInv, [Next]_vars PROVE Sound'
  OBVIOUS
<1> USE DEF IInv, Shape, Sound
<1>1. ASSUME NEW n \in Node, PutChunk(n) PROVE Sound'
  BY <1>1 DEF PutChunk
<1>2. ASSUME NEW t \in Node, NEW ok \in BOOLEAN, WriteChunk(t, ok) PROVE Sound'
  <2>1. disk \subseteq disk' /\ (ok => t \in disk')
    BY <1>2, CallStores DEF WriteChunk
  <2> QED BY <1>2, <2>1, FilesOnlyCome DEF WriteChunk
<1>3. CASE RecordLocations
  BY <1>3 DEF RecordLocations, NoPut
<1>4. ASSUME NEW n \in Node, NEW m \in Node, LearnManifest(n, m) PROVE Sound'
  BY <1>4 DEF LearnManifest
<1>5. ASSUME NEW n \in Node, NEW d \in Node, NodeDies(n, d) PROVE Sound'
  BY <1>5 DEF NodeDies
<1>6. ASSUME NEW n \in Node, NEW d \in Node, NodeIsBack(n, d) PROVE Sound'
  BY <1>6 DEF NodeIsBack
<1>7. ASSUME NEW n \in Node, NEW d \in Node, RepairDeadNode(n, d) PROVE Sound'
  BY <1>7, SMTT(20) DEF RepairDeadNode
<1>8. ASSUME NEW n \in Node, NEW t \in Node, NEW ok \in BOOLEAN, CopyChunk(n, t, ok)
      PROVE  Sound'
  <2>1. disk \subseteq disk' /\ (ok => t \in disk')
    BY <1>8, CallStores DEF CopyChunk
  <2> QED BY <1>8, <2>1, FilesOnlyCome DEF CopyChunk
<1>9. ASSUME NEW n \in Node, UpdateChunkLocations(n) PROVE Sound'
  BY <1>9 DEF UpdateChunkLocations, NoRepair
<1>10. ASSUME NEW n \in Node, Crash(n) PROVE Sound'
  BY <1>10 DEF Crash, NoPut, NoRepair
<1>11. ASSUME NEW n \in Node, Return(n) PROVE Sound'
  BY <1>11 DEF Return
<1>12. CASE UNCHANGED vars
  BY <1>12 DEF vars
<1> QED
  BY <1>1, <1>2, <1>3, <1>4, <1>5, <1>6, <1>7, <1>8, <1>9, <1>10, <1>11, <1>12 DEF Next

\* A node that a manifest lists has the chunk on disk (write.go:50-63,
\* repair.go:119-135).
THEOREM ListedNodesHoldChunk == Spec => []LocationsHoldChunk
<1>1. IInv /\ [Next]_vars => IInv'
  BY NextShape, NextSound DEF IInv
<1>2. IInv => LocationsHoldChunk
  BY DEF IInv, Sound, LocationsHoldChunk
<1> QED
  BY InitIInv, <1>1, <1>2, PTL DEF Spec

\* Every node puts the chunk on N nodes of its ring, or on all, wherever positions
\* collide; without collisions rings of the same nodes choose the same, and a node
\* that leaves or joins changes nothing about the others but what it takes or gives
\* (ring.go:29-97).
THEOREM RingsPlaceAlike == Spec => []PlacementFollowsRing
<1>1. IInv /\ [Next]_vars => IInv'
  BY NextShape, NextSound DEF IInv
<1>2. IInv => PlacementFollowsRing
  <2> SUFFICES ASSUME IInv, NEW n \in Node, NEW m \in Node
               PROVE  /\ Targets(hashToNode[n], N) \subseteq ring[n]
                      /\ Cardinality(Targets(hashToNode[n], N)) <= N
                      /\ Cardinality(Targets(hashToNode[n], N)) < N
                           => Targets(hashToNode[n], N) = ring[n]
                      /\ NoCollision /\ ring[n] \subseteq ring[m] =>
                           Targets(hashToNode[m], N) \cap ring[n] \subseteq Targets(hashToNode[n], N)
    BY DEF PlacementFollowsRing, Placements
  <2>1. /\ ring[n] \in SUBSET Node /\ OnRing(hashToNode[n], ring[n])
        /\ ring[m] \in SUBSET Node /\ OnRing(hashToNode[m], ring[m])
    BY DEF IInv, Shape, Ringed
  <2>2. N \in Nat
    BY QuorumAssumption
  <2>3. NoCollision /\ ring[n] \subseteq ring[m] =>
          Targets(hashToNode[m], N) \cap ring[n] \subseteq Targets(hashToNode[n], N)
    BY <2>1, <2>2, TargetsStay
  <2> QED BY <2>1, <2>2, <2>3, TargetsCount
<1> QED
  BY InitIInv, <1>1, <1>2, PTL DEF Spec

-----------------------------------------------------------------------------
(* Types *)

Rest ==
  /\ up \in SUBSET Node /\ disk \in SUBSET Node
  /\ jobs \in [Node -> SUBSET Node]
  /\ budget \in [puts : 0..MaxPuts, crashes : 0..MaxCrashes,
                 returns : 0..MaxReturns, failures : 0..MaxFailures]
  /\ orderly \in BOOLEAN
  /\ Cardinality(put.targets) <= N

LEMMA SpendType ==
  ASSUME Rest, NEW what \in {"puts", "crashes", "returns", "failures"}, Spend(what)
  PROVE  /\ budget' \in [puts : 0..MaxPuts, crashes : 0..MaxCrashes,
                         returns : 0..MaxReturns, failures : 0..MaxFailures]
         /\ budget.crashes \in 0..MaxCrashes
         /\ budget'.crashes = IF what = "crashes" THEN budget.crashes - 1 ELSE budget.crashes
BY BoundAssumption DEF Rest, Spend

LEMMA CallType ==
  ASSUME Rest, NEW t \in Node, NEW ok \in BOOLEAN, PutChunkTo(t, ok)
  PROVE  /\ disk' \in SUBSET Node
         /\ budget' \in [puts : 0..MaxPuts, crashes : 0..MaxCrashes,
                         returns : 0..MaxReturns, failures : 0..MaxFailures]
         /\ budget'.crashes = budget.crashes
<1>1. disk' \in SUBSET Node
  BY DEF PutChunkTo, Rest
<1>2. CASE UNCHANGED budget
  BY <1>1, <1>2 DEF Rest
<1>3. CASE Spend("failures")
  BY <1>1, <1>3, SpendType
<1> QED BY <1>2, <1>3 DEF PutChunkTo

LEMMA InitRest == Init => Rest
<1>1. Cardinality({}) = 0 /\ N \in Nat
  BY FS_EmptySet, QuorumAssumption
<1> QED BY <1>1, BoundAssumption DEF Init, Rest, NoPut

LEMMA NextRest ==
  ASSUME Shape, Rest, [Next]_vars
  PROVE  Rest'
<1> USE DEF Rest
<1>0. Cardinality({}) <= N
  BY FS_EmptySet, QuorumAssumption
<1>1. ASSUME NEW n \in Node, PutChunk(n) PROVE Rest'
  <2>1. Cardinality(GetNodesForKey(n)) <= N
    BY TargetsAreNodes DEF Shape
  <2>2. put'.targets = GetNodesForKey(n)
    BY <1>1 DEF PutChunk
  <2> QED BY <1>1, <2>1, <2>2, SpendType DEF PutChunk
<1>2. ASSUME NEW t \in Node, NEW ok \in BOOLEAN, WriteChunk(t, ok) PROVE Rest'
  <2>1. put'.targets = put.targets \ {t} /\ put.targets \in SUBSET Node
    BY <1>2 DEF WriteChunk, Shape
  <2>2. Cardinality(put'.targets) <= Cardinality(put.targets) /\ Cardinality(put.targets) \in Nat
        /\ Cardinality(put'.targets) \in Nat
    <3>1. IsFiniteSet(put.targets) /\ IsFiniteSet(put'.targets) /\ put'.targets \in SUBSET put.targets
      BY <2>1, NodeAssumption, FS_Subset
    <3> QED BY <3>1, FS_Subset, FS_CardinalityType
  <2>3. Cardinality(put'.targets) <= N
    BY <2>2, QuorumAssumption
  <2> QED BY <1>2, <2>3, CallType DEF WriteChunk
<1>3. CASE RecordLocations
  BY <1>0, <1>3 DEF RecordLocations, NoPut
<1>4. ASSUME NEW n \in Node, NEW m \in Node, LearnManifest(n, m) PROVE Rest'
  BY <1>4 DEF LearnManifest
<1>5. ASSUME NEW n \in Node, NEW d \in Node, NodeDies(n, d) PROVE Rest'
  BY <1>5 DEF NodeDies
<1>6. ASSUME NEW n \in Node, NEW d \in Node, NodeIsBack(n, d) PROVE Rest'
  BY <1>6 DEF NodeIsBack
<1>7. ASSUME NEW n \in Node, NEW d \in Node, RepairDeadNode(n, d) PROVE Rest'
  BY <1>7 DEF RepairDeadNode
<1>8. ASSUME NEW n \in Node, NEW t \in Node, NEW ok \in BOOLEAN, CopyChunk(n, t, ok)
      PROVE  Rest'
  BY <1>8, CallType DEF CopyChunk
<1>9. ASSUME NEW n \in Node, UpdateChunkLocations(n) PROVE Rest'
  BY <1>9 DEF UpdateChunkLocations
<1>10. ASSUME NEW n \in Node, Crash(n) PROVE Rest'
  <2>1. Cardinality(put'.targets) <= N
    BY <1>0, <1>10 DEF Crash, NoPut
  <2> QED BY <1>10, <2>1, SpendType DEF Crash
<1>11. ASSUME NEW n \in Node, Return(n) PROVE Rest'
  BY <1>11, SpendType DEF Return
<1>12. CASE UNCHANGED vars
  BY <1>12 DEF vars
<1> QED
  BY <1>1, <1>2, <1>3, <1>4, <1>5, <1>6, <1>7, <1>8, <1>9, <1>10, <1>11, <1>12 DEF Next

\* Every reachable state has its types: no upload writes to more than N nodes,
\* whatever the ring of its node looks like (ring.go:63-88).
THEOREM TypeCorrect == Spec => []TypeOK
<1>1. Init => IInv /\ Rest
  BY InitIInv, InitRest
<1>2. IInv /\ Rest /\ [Next]_vars => (IInv /\ Rest)'
  BY NextShape, NextSound, NextRest DEF IInv
<1>3. IInv /\ Rest => TypeOK
  BY DEF IInv, Shape, Ringed, Rest, TypeOK
<1> QED
  BY <1>1, <1>2, <1>3, PTL DEF Spec

-----------------------------------------------------------------------------
(* The write quorum *)

\* L is what is left of W acknowledged copies without the nodes of C.
Written(L, C) == \E Q \in SUBSET Node : Cardinality(Q) >= W /\ Q \ C \subseteq L

\* C holds the nodes that crashed: those that are down, those that somebody has
\* still to repair, and those that manifests and repairs under way have lost.
Accounts(C) ==
  /\ Cardinality(C) <= MaxCrashes - budget.crashes
  /\ Node \ up \subseteq C
  /\ \A n \in Node : jobs[n] \subseteq C
  /\ \A n \in Node : locs[n] # {} => Written(locs[n], C)
  /\ \A n \in Node : repair[n].dead # 0 => Written(repair[n].alive, C)

QuorumInv == \E C \in SUBSET Node : Accounts(C)

\* More locations are at least as good.
LEMMA WrittenGrows ==
  ASSUME NEW L, NEW C, NEW H, Written(L, C), L \ C \subseteq H
  PROVE  Written(H, C)
BY DEF Written

LEMMA NodesAreFinite ==
  ASSUME NEW C \in SUBSET Node
  PROVE  IsFiniteSet(C) /\ Cardinality(C) \in Nat
BY NodeAssumption, FS_Subset, FS_CardinalityType

LEMMA InitQuorum == Init => QuorumInv
<1> SUFFICES ASSUME Init PROVE Accounts({})
  BY DEF QuorumInv
<1>1. Cardinality({}) <= MaxCrashes - budget.crashes
  BY FS_EmptySet, BoundAssumption DEF Init
<1> QED BY <1>1 DEF Init, Accounts, NoRepair

LEMMA NextQuorum ==
  ASSUME Shape, Rest, QuorumInv, [Next]_vars
  PROVE  QuorumInv'
<1> PICK C \in SUBSET Node : Accounts(C)
  BY DEF QuorumInv
<1> SUFFICES \E D \in SUBSET Node : Accounts(D)'
  BY DEF QuorumInv
<1> USE DEF Accounts
<1>1. ASSUME NEW n \in Node, PutChunk(n) PROVE Accounts(C)'
  BY <1>1, SpendType DEF PutChunk, Written
<1>2. ASSUME NEW t \in Node, NEW ok \in BOOLEAN, WriteChunk(t, ok) PROVE Accounts(C)'
  BY <1>2, CallType DEF WriteChunk, Written
<1>3. CASE RecordLocations
  <2>1. put.acked \in SUBSET Node /\ Cardinality(put.acked) >= W => Written(put.acked, C)
    BY DEF Written
  <2>2. ASSUME NEW n \in Node, locs'[n] # {} PROVE Written(locs'[n], C)
    <3>1. CASE locs'[n] = locs[n]
      BY <2>2, <3>1
    <3>2. CASE locs'[n] = put.acked /\ Cardinality(put.acked) >= W
      BY <2>1, <3>2 DEF Shape
    <3> QED BY <1>3, <3>1, <3>2 DEF RecordLocations, Shape
  <2> QED BY <1>3, <2>2 DEF RecordLocations, Written
<1>4. ASSUME NEW n \in Node, NEW m \in Node, LearnManifest(n, m) PROVE Accounts(C)'
  <2>1. ASSUME NEW k \in Node, locs'[k] # {} PROVE Written(locs'[k], C)
    BY <1>4, <2>1 DEF LearnManifest, Shape
  <2> QED BY <1>4, <2>1 DEF LearnManifest, Written
<1>5. ASSUME NEW n \in Node, NEW d \in Node, NodeDies(n, d) PROVE Accounts(C)'
  <2>1. d \in C
    BY <1>5 DEF NodeDies
  <2> QED BY <1>5, <2>1 DEF NodeDies, Rest, Written
<1>6. ASSUME NEW n \in Node, NEW d \in Node, NodeIsBack(n, d) PROVE Accounts(C)'
  BY <1>6 DEF NodeIsBack, Written
<1>7. ASSUME NEW n \in Node, NEW d \in Node, RepairDeadNode(n, d) PROVE Accounts(C)'
  <2>1. d \in C
    BY <1>7 DEF RepairDeadNode
  <2>2. ASSUME NEW k \in Node, repair'[k].dead # 0 PROVE Written(repair'[k].alive, C)
    <3>1. CASE repair'[k] = repair[k]
      BY <2>2, <3>1
    <3>2. CASE repair'[k] # repair[k]
      <4>1. k = n /\ repair'[k].alive = locs[n] \ {d} /\ locs[n] # {}
        BY <1>7, <3>2 DEF RepairDeadNode, Shape
      <4>2. Written(locs[n], C)
        BY <4>1
      <4> QED BY <2>1, <4>1, <4>2, WrittenGrows
    <3> QED BY <3>1, <3>2
  <2> QED BY <1>7, <2>2 DEF RepairDeadNode, Rest, Written
<1>8. ASSUME NEW n \in Node, NEW t \in Node, NEW ok \in BOOLEAN, CopyChunk(n, t, ok)
      PROVE  Accounts(C)'
  <2>1. \A k \in Node : repair'[k].dead = repair[k].dead /\ repair'[k].alive = repair[k].alive
    BY <1>8 DEF CopyChunk, Shape
  <2> QED BY <1>8, <2>1, CallType DEF CopyChunk, Written
<1>9. ASSUME NEW n \in Node, UpdateChunkLocations(n) PROVE Accounts(C)'
  <2>1. ASSUME NEW k \in Node, locs'[k] # {} PROVE Written(locs'[k], C)
    <3>1. CASE k = n
      <4>1. locs'[n] = repair[n].alive \cup repair[n].copied /\ Written(repair[n].alive, C)
        BY <1>9, <2>1, <3>1 DEF UpdateChunkLocations, Shape
      <4> QED BY <3>1, <4>1, WrittenGrows
    <3>2. CASE k # n
      BY <1>9, <2>1, <3>2 DEF UpdateChunkLocations, Shape
    <3> QED BY <3>1, <3>2
  <2>2. \A k \in Node : repair'[k].dead # 0 => repair'[k] = repair[k]
    BY <1>9 DEF UpdateChunkLocations, Shape, NoRepair
  <2> QED BY <1>9, <2>1, <2>2 DEF UpdateChunkLocations, Written
<1>10. ASSUME NEW n \in Node, Crash(n) PROVE Accounts(C \cup {n})'
  <2>1. Cardinality(C \cup {n}) <= Cardinality(C) + 1 /\ Cardinality(C \cup {n}) \in Nat
        /\ Cardinality(C) \in Nat
    <3>1. IsFiniteSet(C) /\ Cardinality(C) \in Nat
      BY NodesAreFinite
    <3>2. /\ IsFiniteSet(C \cup {n})
          /\ Cardinality(C \cup {n}) = IF n \in C THEN Cardinality(C) ELSE Cardinality(C) + 1
      BY <3>1, FS_AddElement
    <3> QED BY <3>1, <3>2
  <2>2. budget'.crashes = budget.crashes - 1 /\ budget.crashes \in 0..MaxCrashes
    BY <1>10, SpendType DEF Crash
  <2>3. Cardinality(C \cup {n}) <= MaxCrashes - budget'.crashes
    BY <2>1, <2>2, BoundAssumption
  <2>4. \A L : Written(L, C) => Written(L, C \cup {n})
    BY DEF Written
  <2>5. \A k \in Node : repair'[k].dead # 0 => repair'[k] = repair[k]
    BY <1>10 DEF Crash, Shape, NoRepair
  <2>6. Node \ up' \subseteq C \cup {n} /\ \A k \in Node : jobs'[k] \subseteq C \cup {n}
    BY <1>10 DEF Crash, Rest
  <2>7. UNCHANGED locs
    BY <1>10 DEF Crash
  <2> QED BY <2>3, <2>4, <2>5, <2>6, <2>7 DEF Written
<1>11. ASSUME NEW n \in Node, Return(n) PROVE Accounts(C)'
  BY <1>11, SpendType DEF Return, Written
<1>12. CASE UNCHANGED vars
  BY <1>12 DEF vars, Written
<1>13. ASSUME NEW n \in Node, Crash(n) PROVE \E D \in SUBSET Node : Accounts(D)'
  <2> HIDE DEF Accounts
  <2>1. C \cup {n} \in SUBSET Node
    OBVIOUS
  <2> QED BY <1>10, <1>13, <2>1
<1> HIDE DEF Accounts
<1> QED
  BY <1>1, <1>2, <1>3, <1>4, <1>5, <1>6, <1>7, <1>8, <1>9, <1>11, <1>12, <1>13 DEF Next

\* A manifest has lost at most one location of its write quorum for each crash
\* (repair.go:120-135).
THEOREM ManifestsKeepQuorum == Spec => []LocationsKeepQuorum
<1>1. Init => IInv /\ Rest /\ QuorumInv
  BY InitIInv, InitRest, InitQuorum
<1>2. IInv /\ Rest /\ QuorumInv /\ [Next]_vars => (IInv /\ Rest /\ QuorumInv)'
  BY NextShape, NextSound, NextRest, NextQuorum DEF IInv
<1>3. IInv /\ Rest /\ QuorumInv => LocationsKeepQuorum
  <2> SUFFICES ASSUME IInv, Rest, NEW C \in SUBSET Node, Accounts(C), NEW n \in Node, locs[n] # {}
               PROVE  Cardinality(locs[n]) + (MaxCrashes - budget.crashes) >= W
    BY DEF QuorumInv, LocationsKeepQuorum
  <2>1. Cardinality(C) <= MaxCrashes - budget.crashes
    BY DEF Accounts
  <2>2. PICK Q \in SUBSET Node : Cardinality(Q) >= W /\ Q \ C \subseteq locs[n]
    BY DEF Accounts, Written
  <2>3. /\ IsFiniteSet(Q) /\ Cardinality(Q) \in Nat
        /\ IsFiniteSet(locs[n]) /\ Cardinality(locs[n]) \in Nat
        /\ IsFiniteSet(C) /\ Cardinality(C) \in Nat
    BY NodesAreFinite DEF IInv, Shape
  <2>4. Cardinality(Q \ C) = Cardinality(Q) - Cardinality(Q \cap C)
    BY <2>3, FS_Difference
  <2>5. Cardinality(Q \cap C) <= Cardinality(C) /\ Cardinality(Q \cap C) \in Nat
    <3>1. Q \cap C \in SUBSET C
      OBVIOUS
    <3> QED BY <2>3, <3>1, FS_Subset, FS_CardinalityType
  <2>6. Cardinality(Q \ C) <= Cardinality(locs[n])
    BY <2>2, <2>3, FS_Subset
  <2>7. budget.crashes \in 0..MaxCrashes /\ MaxCrashes \in Nat /\ W \in Nat
    BY BoundAssumption, QuorumAssumption DEF Rest
  <2> HIDE DEF Accounts
  <2> QED BY <2>1, <2>2, <2>3, <2>4, <2>5, <2>6, <2>7
<1> QED
  BY <1>1, <1>2, <1>3, PTL DEF Spec

-----------------------------------------------------------------------------
(* The repair after a single death *)

\* The nodes that do not coordinate have nothing to do.
Idle(d, L, e) ==
  \A n \in Node \ {e} : locs[n] = L /\ repair[n] = NoRepair /\ jobs[n] \subseteq {d}

\* The coordinator e has not begun: it still counts on d, or has d to repair.
Waiting(d, L, e) ==
  /\ locs[e] = L /\ repair[e] = NoRepair
  /\ \/ ring[e] = Node /\ jobs[e] = {}
     \/ ring[e] = Node \ {d} /\ jobs[e] = {d}

\* Its repair makes up for d: it has, or will have, copies on the first N nodes.
Copying(d, L, e) ==
  /\ locs[e] = L /\ ring[e] = Node \ {d} /\ jobs[e] = {}
  /\ repair[e].dead = d /\ repair[e].alive = L \ {d}
  /\ GetNodesForKey(e) \subseteq repair[e].alive \cup repair[e].targets \cup repair[e].copied

\* How far the repair of d is.
Progress(d, L, e) ==
  Elected(e, L \ {d}) /\ Idle(d, L, e) /\ (Waiting(d, L, e) \/ Copying(d, L, e))

OneDead(d) == up = Node \ {d} /\ put = NoPut

HealInv ==
  orderly /\ up # Node =>
    \E d \in Node :
      OneDead(d) /\ (FullyReplicated \/ \E L \in SUBSET Node, e \in Node : Progress(d, L, e))

\* Copies on the first N nodes of a ring of the nodes that run are enough.
LEMMA EnoughCopies ==
  ASSUME Shape, Rest, NEW e \in Node, ring[e] = up,
         GetNodesForKey(e) \subseteq disk
  PROVE  FullyReplicated
<1> DEFINE G == GetNodesForKey(e)
<1>1. G \subseteq up /\ (Cardinality(G) = N \/ G = up)
  BY TargetsAreNodes
<1>2. G \in SUBSET (disk \cap up)
  BY <1>1
<1>3. IsFiniteSet(disk \cap up) /\ Cardinality(disk \cap up) \in Nat
  BY NodesAreFinite DEF Rest
<1>4. Cardinality(G) <= Cardinality(disk \cap up)
  BY <1>2, <1>3, FS_Subset
<1> QED
  BY <1>1, <1>2, <1>4, QuorumAssumption DEF FullyReplicated

\* Files only come, so what is replicated stays so while nobody crashes.
LEMMA StaysReplicated ==
  ASSUME Rest, Rest', FullyReplicated, disk \subseteq disk', up' = up
  PROVE  FullyReplicated'
<1>1. disk \cap up \in SUBSET (disk' \cap up')
  OBVIOUS
<1>2. IsFiniteSet(disk' \cap up') /\ Cardinality(disk' \cap up') \in Nat
      /\ Cardinality(disk \cap up) \in Nat
  BY NodesAreFinite DEF Rest
<1>3. Cardinality(disk \cap up) <= Cardinality(disk' \cap up')
  BY <1>1, <1>2, FS_Subset
<1> QED
  BY <1>2, <1>3, QuorumAssumption DEF FullyReplicated

\* A crash of an orderly system leaves a coordinator.
LEMMA CrashElects ==
  ASSUME IInv, Rest, NEW n \in Node, Crash(n), orderly', NEW L, L = locs[n]
  PROVE  \E e \in Node : OneDead(n)' /\ Progress(n, L, e)'
<1>1. /\ up = Node /\ put = NoPut /\ L \ {n} # {}
      /\ \A m \in Node : locs[m] = L /\ ring[m] = Node /\ jobs[m] = {} /\ repair[m] = NoRepair
  BY DEF Crash
<1>2. PICK e \in L \ {n} : \A m \in L \ {n} : e <= m
  <2>1. L \ {n} \in SUBSET Nat
    BY NodeAssumption DEF IInv, Shape
  <2> QED BY <1>1, <2>1, LeastExists
<1>3. e \in Node
  BY DEF IInv, Shape
<1>4. up' = Node \ {n} /\ put' = NoPut /\ locs' = locs /\ ring' = ring
      /\ \A m \in Node : jobs'[m] = {} /\ repair'[m] = NoRepair
  BY <1>1 DEF Crash, IInv, Shape, Rest, NoPut
<1>5. Elected(e, L \ {n}) /\ Idle(n, L, e)' /\ Waiting(n, L, e)'
  BY <1>1, <1>2, <1>3, <1>4 DEF Elected, Idle, Waiting
<1> QED
  BY <1>3, <1>4, <1>5 DEF OneDead, Progress, Elected

\* The coordinator begins, unless there are copies enough already.
LEMMA RepairBegins ==
  ASSUME IInv, Rest, Rest', NEW d \in Node, NEW L \in SUBSET Node, NEW e \in Node,
         OneDead(d), Elected(e, L \ {d}), Waiting(d, L, e), RepairDeadNode(e, d)
  PROVE  FullyReplicated' \/ Copying(d, L, e)'
<1> DEFINE alive == L \ {d}
           G == GetNodesForKey(e)
<1>1. /\ locs[e] = L /\ ring[e] = Node \ {d} /\ jobs[e] = {d} /\ ring[e] = up
      /\ e \in alive /\ alive \subseteq disk \cap up
  BY DEF RepairDeadNode, Waiting, OneDead, Elected, IInv, Sound
<1>2. UNCHANGED <<up, ring, hashToNode, disk, locs, put, budget, orderly>> /\ jobs'[e] = {}
  BY <1>1 DEF RepairDeadNode, Rest
<1>3. GetNodesForKey(e)' = G
  BY <1>2 DEF GetNodesForKey
<1>4. CASE repair' = [repair EXCEPT ![e] =
             [dead |-> d, alive |-> alive, targets |-> G \ alive, copied |-> {}]]
  BY <1>1, <1>2, <1>3, <1>4 DEF Copying, IInv, Shape
<1>5. CASE ~NeedsRepair(e, d)
  <2>1. L = alive /\ ~(Cardinality(L) < N)
    BY <1>1, <1>5 DEF NeedsRepair
  <2>2. Cardinality(L) \in Nat /\ IsFiniteSet(disk \cap up) /\ Cardinality(disk \cap up) \in Nat
    BY NodesAreFinite DEF Rest
  <2>3. Cardinality(L) <= Cardinality(disk \cap up)
    <3>1. L \in SUBSET (disk \cap up)
      BY <1>1, <2>1
    <3> QED BY <2>2, <3>1, FS_Subset
  <2>4. FullyReplicated
    BY <2>1, <2>2, <2>3, QuorumAssumption DEF FullyReplicated
  <2> QED BY <1>2, <2>4, StaysReplicated
<1>6. CASE G \ alive = {}
  <2>1. FullyReplicated
    BY <1>1, <1>6, EnoughCopies DEF IInv
  <2> QED BY <1>2, <2>1, StaysReplicated
<1>7. \/ NeedsRepair(e, d) /\ G \ alive # {} /\ Elected(e, alive) /\ alive \cap up \cap disk # {}
      \/ ~NeedsRepair(e, d) \/ G \ alive = {}
  BY <1>1
<1> QED
  BY <1>1, <1>4, <1>5, <1>6, <1>7 DEF RepairDeadNode

\* What the end of the repair has stored is enough.
LEMMA RepairEnds ==
  ASSUME IInv, Rest, Rest', NEW d \in Node, NEW L \in SUBSET Node, NEW e \in Node,
         OneDead(d), Copying(d, L, e), UpdateChunkLocations(e)
  PROVE  FullyReplicated'
<1>1. ring[e] = up /\ GetNodesForKey(e) \subseteq disk
  BY DEF UpdateChunkLocations, OneDead, Copying, IInv, Sound
<1>2. FullyReplicated
  BY <1>1, EnoughCopies DEF IInv
<1> QED
  BY <1>2, StaysReplicated DEF UpdateChunkLocations

\* While no upload begins, none is under way, and files only come.
LEMMA NoUploadMeanwhile ==
  ASSUME put = NoPut, orderly', [Next]_vars
  PROVE  put' = NoPut /\ disk \subseteq disk'
<1>1. ASSUME NEW n \in Node, Crash(n) PROVE put' = NoPut /\ disk \subseteq disk'
  BY <1>1 DEF Crash
<1>2. ASSUME NEW n \in Node, NEW t \in Node, NEW ok \in BOOLEAN, CopyChunk(n, t, ok)
      PROVE  put' = NoPut /\ disk \subseteq disk'
  BY <1>2, CallStores DEF CopyChunk
<1>3. CASE RecordLocations \/ \E t \in Node, ok \in BOOLEAN : WriteChunk(t, ok)
  BY <1>3 DEF RecordLocations, WriteChunk, NoPut
<1>4. CASE \E n \in Node : PutChunk(n)
  BY <1>4 DEF PutChunk
<1>5. CASE \E n \in Node, m \in Node : LearnManifest(n, m) \/ NodeDies(n, m) \/ NodeIsBack(n, m)
  BY <1>5 DEF LearnManifest, NodeDies, NodeIsBack
<1>6. CASE \E n \in Node, m \in Node : RepairDeadNode(n, m)
  BY <1>6 DEF RepairDeadNode
<1>7. CASE \E n \in Node : UpdateChunkLocations(n) \/ Return(n)
  BY <1>7 DEF UpdateChunkLocations, Return
<1>8. CASE UNCHANGED vars
  BY <1>8 DEF vars
<1> QED
  BY <1>1, <1>2, <1>3, <1>4, <1>5, <1>6, <1>7, <1>8 DEF Next

\* Each step leaves the repair where it is, moves it on, or ends it.
LEMMA RepairMovesOn ==
  ASSUME IInv, Rest, Rest', orderly, orderly', up' = up, [Next]_vars,
         NEW d \in Node, NEW L \in SUBSET Node, NEW e \in Node,
         OneDead(d), Progress(d, L, e)
  PROVE  FullyReplicated' \/ Progress(d, L, e)'
<1>1. /\ Elected(e, L \ {d}) /\ e \in L /\ e # d
      /\ up = Node \ {d} /\ put = NoPut
      /\ \A n \in Node : locs[n] = L
      /\ \A n \in Node \ {e} : repair[n] = NoRepair /\ jobs[n] \subseteq {d}
  BY DEF Progress, Elected, OneDead, Idle, Waiting, Copying
<1>2. Waiting(d, L, e) \/ Copying(d, L, e)
  BY DEF Progress
<1>3. SUFFICES FullyReplicated' \/ (Idle(d, L, e)' /\ (Waiting(d, L, e)' \/ Copying(d, L, e)'))
  BY <1>1 DEF Progress, Elected
<1>4. ASSUME UNCHANGED <<ring, hashToNode, locs, jobs, repair>>
      PROVE  Idle(d, L, e)' /\ (Waiting(d, L, e)' \/ Copying(d, L, e)')
  BY <1>1, <1>2, <1>4 DEF Idle, Waiting, Copying, GetNodesForKey
<1>5. ASSUME NEW n \in Node, PutChunk(n) PROVE FALSE
  BY <1>5 DEF PutChunk
<1>6. ASSUME NEW t \in Node, NEW ok \in BOOLEAN, WriteChunk(t, ok) PROVE FALSE
  BY <1>1, <1>6 DEF WriteChunk, NoPut
<1>7. CASE RecordLocations
  BY <1>1, <1>7 DEF RecordLocations, NoPut
<1>8. ASSUME NEW n \in Node, NEW m \in Node, LearnManifest(n, m) PROVE FALSE
  BY <1>1, <1>8 DEF LearnManifest
<1>9. ASSUME NEW n \in Node, NEW m \in Node, NodeDies(n, m)
      PROVE  Idle(d, L, e)' /\ (Waiting(d, L, e)' \/ Copying(d, L, e)')
  <2>1. m = d /\ d \in ring[n]
    BY <1>1, <1>9 DEF NodeDies
  <2>2. /\ ring' = [ring EXCEPT ![n] = @ \ {d}] /\ jobs' = [jobs EXCEPT ![n] = @ \cup {d}]
        /\ UNCHANGED <<up, disk, locs, put, repair, budget, orderly>>
    BY <1>9, <2>1 DEF NodeDies
  <2>3. Idle(d, L, e)'
    BY <1>1, <2>2 DEF Idle, Rest
  <2>4. CASE n = e
    <3>1. Waiting(d, L, e) /\ ring[e] = Node /\ jobs[e] = {}
      BY <1>2, <2>1, <2>4 DEF Waiting, Copying
    <3>2. Waiting(d, L, e)'
      BY <2>2, <2>4, <3>1 DEF Waiting, IInv, Shape, Rest
    <3> QED BY <2>3, <3>2
  <2>5. CASE n # e
    <3>1. ring'[e] = ring[e] /\ hashToNode'[e] = hashToNode[e] /\ jobs'[e] = jobs[e]
      BY <1>9, <2>2, <2>5 DEF NodeDies, IInv, Shape, Ringed, Rest
    <3>2. GetNodesForKey(e)' = GetNodesForKey(e)
      BY <3>1 DEF GetNodesForKey
    <3> QED BY <1>2, <2>2, <2>3, <3>1, <3>2 DEF Waiting, Copying
  <2> QED BY <2>4, <2>5
<1>10. ASSUME NEW n \in Node, NEW m \in Node, NodeIsBack(n, m)
       PROVE  Idle(d, L, e)' /\ (Waiting(d, L, e)' \/ Copying(d, L, e)')
  <2>1. n # e /\ UNCHANGED <<locs, jobs, repair>>
    BY <1>1, <1>2, <1>10 DEF NodeIsBack, Waiting, Copying
  <2>2. ring'[e] = ring[e] /\ GetNodesForKey(e)' = GetNodesForKey(e)
    <3>1. ring'[e] = ring[e] /\ hashToNode'[e] = hashToNode[e]
      BY <1>10, <2>1 DEF NodeIsBack, IInv, Shape, Ringed
    <3> QED BY <3>1 DEF GetNodesForKey
  <2> QED BY <1>1, <1>2, <2>1, <2>2 DEF Idle, Waiting, Copying
<1>11. ASSUME NEW n \in Node, NEW m \in Node, RepairDeadNode(n, m)
       PROVE  FullyReplicated' \/ (Idle(d, L, e)' /\ (Waiting(d, L, e)' \/ Copying(d, L, e)'))
  <2>1. UNCHANGED <<up, ring, hashToNode, disk, locs, put, budget, orderly>>
        /\ jobs' = [jobs EXCEPT ![n] = @ \ {m}] /\ m \in jobs[n] /\ repair[n] = NoRepair
    BY <1>11 DEF RepairDeadNode
  <2>2. GetNodesForKey(e)' = GetNodesForKey(e)
    BY <2>1 DEF GetNodesForKey
  <2>3. CASE n = e
    <3>1. Waiting(d, L, e) /\ m = d
      <4>1. ~Copying(d, L, e)
        BY <2>1, <2>3 DEF Copying
      <4> QED BY <1>2, <2>1, <2>3, <4>1 DEF Waiting
    <3>2. FullyReplicated' \/ Copying(d, L, e)'
      BY <1>1, <1>11, <2>3, <3>1, RepairBegins
    <3>3. Idle(d, L, e)'
      BY <1>1, <1>11, <2>1, <2>3 DEF Idle, RepairDeadNode, IInv, Shape, Rest
    <3> QED BY <3>2, <3>3
  <2>4. CASE n # e
    <3>1. m = d
      BY <1>1, <2>1, <2>4
    <3>2. ~Elected(n, locs[n] \ {m})
      <4>1. ASSUME Elected(n, L \ {d}) PROVE FALSE
        <5>1. n <= e /\ e <= n
          BY <1>1, <4>1 DEF Elected
        <5>2. n \in Nat /\ e \in Nat
          BY NodeAssumption
        <5> QED BY <2>4, <5>1, <5>2
      <4> QED BY <1>1, <3>1, <4>1
    <3>3. repair' = repair
      BY <1>11, <3>2 DEF RepairDeadNode
    <3>4. Idle(d, L, e)' /\ jobs'[e] = jobs[e]
      BY <1>1, <2>1, <2>4, <3>3 DEF Idle, Rest
    <3> QED BY <1>2, <2>1, <2>2, <3>3, <3>4 DEF Waiting, Copying
  <2> QED BY <2>3, <2>4
<1>12. ASSUME NEW n \in Node, NEW t \in Node, NEW ok \in BOOLEAN, CopyChunk(n, t, ok)
       PROVE  Idle(d, L, e)' /\ (Waiting(d, L, e)' \/ Copying(d, L, e)')
  <2>1. ok /\ t \in repair[n].targets /\ UNCHANGED <<up, ring, hashToNode, locs, put, jobs>>
        /\ repair' = [repair EXCEPT ![n].targets = @ \ {t}, ![n].copied = @ \cup {t}]
    BY <1>12 DEF CopyChunk
  <2>2. n = e /\ Copying(d, L, e)
    BY <1>1, <1>2, <2>1 DEF NoRepair, Waiting
  <2>3. /\ repair'[e].dead = repair[e].dead /\ repair'[e].alive = repair[e].alive
        /\ repair'[e].targets = repair[e].targets \ {t}
        /\ repair'[e].copied = repair[e].copied \cup {t}
        /\ \A k \in Node \ {e} : repair'[k] = repair[k]
    BY <2>1, <2>2 DEF IInv, Shape
  <2>4. GetNodesForKey(e)' = GetNodesForKey(e)
    BY <2>1 DEF GetNodesForKey
  <2>5. Idle(d, L, e)'
    BY <1>1, <2>1, <2>3 DEF Idle
  <2>6. Copying(d, L, e)'
    BY <2>1, <2>2, <2>3, <2>4 DEF Copying
  <2> QED BY <2>5, <2>6
<1>13. ASSUME NEW n \in Node, UpdateChunkLocations(n) PROVE FullyReplicated'
  <2>1. n = e /\ Copying(d, L, e)
    BY <1>1, <1>2, <1>13 DEF UpdateChunkLocations, NoRepair, Waiting
  <2> QED BY <1>13, <2>1, RepairEnds
<1>14. ASSUME NEW n \in Node, Crash(n) \/ Return(n) PROVE FALSE
  BY <1>14 DEF Crash, Return
<1>15. CASE UNCHANGED vars
  BY <1>4, <1>15 DEF vars
<1> QED
  BY <1>5, <1>6, <1>7, <1>8, <1>9, <1>10, <1>11, <1>12, <1>13, <1>14, <1>15 DEF Next

LEMMA InitHeal == Init => HealInv
BY DEF Init, HealInv

LEMMA NextHeal ==
  ASSUME IInv, Rest, Rest', HealInv, [Next]_vars
  PROVE  HealInv'
<1> SUFFICES ASSUME orderly', up' # Node
             PROVE  \E d \in Node : /\ OneDead(d)'
                                    /\ \/ FullyReplicated'
                                       \/ \E L \in SUBSET Node, e \in Node : Progress(d, L, e)'
  BY DEF HealInv
<1>1. ASSUME NEW n \in Node, Crash(n)
      PROVE  \E L \in SUBSET Node, e \in Node : OneDead(n)' /\ Progress(n, L, e)'
  <2>1. locs[n] \in SUBSET Node
    BY DEF IInv, Shape
  <2> QED BY <1>1, <2>1, CrashElects
<1>2. ASSUME NEW n \in Node, Return(n) PROVE FALSE
  <2>1. n \notin up /\ up' = up \cup {n} /\ orderly
    BY <1>2 DEF Return
  <2>2. \E d \in Node : up = Node \ {d}
    BY <2>1 DEF HealInv, OneDead
  <2> QED BY <2>1, <2>2
<1>3. CASE up' = up /\ ~\E n \in Node : Crash(n)
  <2>1. orderly
    BY <1>3, ZenonT(40) DEF Next, vars, PutChunk, WriteChunk, RecordLocations, LearnManifest, NodeDies, NodeIsBack,
                RepairDeadNode, CopyChunk, UpdateChunkLocations, Return
  <2>2. PICK d \in Node :
          OneDead(d) /\ (FullyReplicated \/ \E L \in SUBSET Node, e \in Node : Progress(d, L, e))
    BY <1>3, <2>1 DEF HealInv
  <2>3. put' = NoPut /\ disk \subseteq disk' /\ OneDead(d)'
    BY <1>3, <2>2, NoUploadMeanwhile DEF OneDead
  <2>4. CASE FullyReplicated
    BY <1>3, <2>3, <2>4, StaysReplicated
  <2>5. ASSUME NEW L \in SUBSET Node, NEW e \in Node, Progress(d, L, e)
        PROVE  FullyReplicated' \/ Progress(d, L, e)'
    BY <1>3, <2>1, <2>2, <2>5, RepairMovesOn
  <2> QED BY <2>2, <2>3, <2>4, <2>5
<1>4. up' = up \/ \E n \in Node : Crash(n) \/ Return(n)
  BY ZenonT(40) DEF Next, vars, PutChunk, WriteChunk, RecordLocations, LearnManifest, NodeDies, NodeIsBack,
         RepairDeadNode, CopyChunk, UpdateChunkLocations
<1> QED
  BY <1>1, <1>2, <1>3, <1>4

\* A node that crashes while all others agree on it and on the chunk is made up
\* for, once all repairs are over (repair.go:74-135).
THEOREM SingleDeathIsHealed == Spec => []SingleDeathHealed
<1>1. Init => IInv /\ Rest /\ HealInv
  BY InitIInv, InitRest, InitHeal
<1>2. IInv /\ Rest /\ HealInv /\ [Next]_vars => (IInv /\ Rest /\ HealInv)'
  BY NextShape, NextSound, NextRest, NextHeal DEF IInv
<1>3. IInv /\ Rest /\ HealInv => SingleDeathHealed
  <2> SUFFICES ASSUME IInv, Rest, HealInv, Settled, orderly, Cardinality(up) < Cardinality(Node)
               PROVE  FullyReplicated
    BY DEF SingleDeathHealed
  <2>1. up # Node
    BY NodesAreFinite
  <2>2. PICK d \in Node :
          OneDead(d) /\ (FullyReplicated \/ \E L \in SUBSET Node, e \in Node : Progress(d, L, e))
    BY <2>1 DEF HealInv
  <2>3. ASSUME NEW L \in SUBSET Node, NEW e \in Node, Progress(d, L, e) PROVE FALSE
    <3>1. e \in up /\ d \in Node \ up
      BY <2>2, <2>3 DEF OneDead, Progress, Elected
    <3>2. ring[e] = up /\ jobs[e] = {} /\ repair[e] = NoRepair
      BY <3>1 DEF Settled
    <3>3. d # 0
      BY NodeAssumption
    <3> QED BY <2>3, <3>1, <3>2, <3>3 DEF Progress, Waiting, Copying, NoRepair
  <2> QED BY <2>2, <2>3
<1> QED
  BY <1>1, <1>2, <1>3, PTL DEF Spec

-----------------------------------------------------------------------------
(* The shards of a chunk in erasure mode *)

\* The types, and that only shards before the one the write is at are
\* acknowledged.
ShardShape ==
  /\ ShardTypeOK
  /\ written \subseteq 0..(next - 1)

\* Until a collection runs, an acknowledged shard is where it was sent; and when
\* the acknowledged shards are the first ones, they are listed in their order.
ShardsInPlace ==
  /\ Unswept => \A i \in written : i \in holds[TargetOf(i)]
  /\ written = 0..(Len(shardLocs) - 1) =>
       \A i \in written : shardLocs[i + 1] = TargetOf(i)

ShardInv == ShardShape /\ ShardsInPlace

\* Facts about the turns that targets take.
LEMMA Remainder == \A i, w \in Nat : i < w => i % w = i
BY SMT

LEMMA RemainderBelow == \A i \in Nat, w \in Nat \ {0} : (i % w) + 1 \in 1..w
BY SMT

\* A target is a node, and stays the same (coordinator/erasure.go:66).
LEMMA TargetIsNode ==
  ASSUME ShardTypeOK, NEW i \in Nat
  PROVE  TargetOf(i) \in ShardNode
<1>1. targets \in Seq(ShardNode) /\ targets # <<>>
  BY ShardRingAssumption DEF ShardTypeOK
<1>2. Len(targets) \in Nat \ {0}
  BY <1>1
<1>3. (i % Len(targets)) + 1 \in 1..Len(targets)
  BY <1>2, RemainderBelow
<1> QED
  BY <1>1, <1>3 DEF TargetOf, Turn

\* The invariant holds before the first shard is written.
LEMMA InitShards == ShardInit => ShardInv
<1> SUFFICES ASSUME ShardInit PROVE ShardInv
  OBVIOUS
<1> USE CountAssumption, ShardBoundAssumption DEF ShardInit
<1>1. Cardinality({}) = 0
  BY FS_EmptySet
<1>2. ShardTypeOK
  BY <1>1 DEF ShardTypeOK, Index
<1> QED
  BY <1>2 DEF ShardInv, ShardShape, ShardsInPlace

\* One more shard is written, acknowledged or not.
LEMMA WriteKeepsShards ==
  ASSUME ShardInv, NEW ok \in BOOLEAN, WriteShard(ok)
  PROVE  ShardInv'
<1> DEFINE i == next
           n == TargetOf(next)
<1>0. K \in Nat /\ M \in Nat
  BY CountAssumption
<1>1. /\ i \in 0..(K + M - 1) /\ i < K + M /\ n \in ShardNode /\ next' = i + 1 /\ i \in Index
      /\ UNCHANGED <<targets, shardUp, outcome, flips, sweeps>>
  BY <1>0, TargetIsNode DEF ShardInv, ShardShape, ShardTypeOK, WriteShard, Index
<1>2. \A j : TargetOf(j)' = TargetOf(j)
  BY <1>1 DEF TargetOf, Turn
<1>3. holds' = holds \/ holds' = [holds EXCEPT ![n] = @ \cup {i}]
  BY DEF WriteShard
<1>4. holds' \in [ShardNode -> SUBSET Index] /\ \A m \in ShardNode : holds[m] \subseteq holds'[m]
  BY <1>1, <1>3 DEF ShardInv, ShardShape, ShardTypeOK
<1>5. losses' \in 0..MaxLosses
  BY ShardBoundAssumption DEF WriteShard, ShardInv, ShardShape, ShardTypeOK
<1>6. /\ written \in SUBSET Index /\ IsFiniteSet(written) /\ i \notin written
      /\ Cardinality(written) = Len(shardLocs) /\ shardLocs \in Seq(ShardNode)
  <2>1. IsFiniteSet(Index)
    BY <1>0, FS_Interval DEF Index
  <2>2. written \in SUBSET Index /\ written \subseteq 0..(i - 1)
        /\ Cardinality(written) = Len(shardLocs) /\ shardLocs \in Seq(ShardNode)
    BY DEF ShardInv, ShardShape, ShardTypeOK
  <2>3. IsFiniteSet(written)
    BY <2>1, <2>2, FS_Subset
  <2> QED BY <1>1, <2>2, <2>3
<1>7. CASE UNCHANGED <<written, shardLocs>>
  <2>1. ShardTypeOK'
    BY <1>0, <1>1, <1>4, <1>5, <1>7 DEF ShardInv, ShardShape, ShardTypeOK
  <2>2. ShardShape'
    BY <1>1, <1>7, <2>1 DEF ShardInv, ShardShape
  <2>3. ShardsInPlace'
    <3>1. \A j \in written : TargetOf(j) \in ShardNode
      BY <1>6, TargetIsNode DEF ShardInv, ShardShape, Index
    <3> QED BY <1>1, <1>2, <1>4, <1>7, <3>1 DEF ShardInv, ShardsInPlace, Unswept
  <2> QED BY <2>2, <2>3 DEF ShardInv
<1>8. CASE /\ shardLocs' = Append(shardLocs, n) /\ written' = written \cup {i}
           /\ holds' = [holds EXCEPT ![n] = @ \cup {i}]
  <2> DEFINE w == Len(shardLocs)
  <2>1. /\ Cardinality(written') = Len(shardLocs') /\ shardLocs' \in Seq(ShardNode)
        /\ Len(shardLocs') = w + 1 /\ shardLocs'[w + 1] = n /\ w \in Nat
        /\ \A j \in 1..w : shardLocs'[j] = shardLocs[j]
    <3>1. Cardinality(written \cup {i}) = Cardinality(written) + 1
      BY <1>6, FS_AddElement
    <3> QED BY <1>1, <1>6, <1>8, <3>1
  <2>2. ShardTypeOK'
    <3>1. written' \in SUBSET Index /\ next' \in 0..(K + M)
      BY <1>0, <1>1, <1>6, <1>8
    <3> QED BY <1>1, <1>4, <1>5, <2>1, <3>1 DEF ShardInv, ShardShape, ShardTypeOK
  <2>3. ShardShape'
    BY <1>1, <1>8, <2>2 DEF ShardInv, ShardShape
  <2>4. ASSUME Unswept', NEW j \in written' PROVE j \in holds'[TargetOf(j)]
    <3>1. Unswept
      BY <1>1, <2>4 DEF Unswept
    <3>2. CASE j = i
      BY <1>1, <1>8, <3>2 DEF ShardInv, ShardShape, ShardTypeOK
    <3>3. CASE j \in written
      <4>1. TargetOf(j) \in ShardNode
        BY <1>6, <3>3, TargetIsNode DEF ShardInv, ShardShape, Index
      <4> QED BY <1>4, <3>1, <3>3, <4>1 DEF ShardInv, ShardsInPlace
    <3> QED BY <1>8, <3>2, <3>3
  <2>5. ASSUME written' = 0..(Len(shardLocs') - 1), NEW j \in written'
        PROVE  shardLocs'[j + 1] = TargetOf(j)
    <3>1. written \cup {i} = 0..w /\ written \subseteq 0..(i - 1)
      BY <1>8, <2>1, <2>5 DEF ShardInv, ShardShape
    <3>2. i = w
      <4>1. i \in 0..w /\ w \in written \cup {i}
        BY <2>1, <3>1
      <4> QED BY <1>1, <2>1, <3>1, <4>1
    <3>3. written = 0..(w - 1)
      <4>1. written = (0..w) \ {w}
        BY <1>6, <3>1, <3>2
      <4> QED BY <2>1, <4>1
    <3>4. CASE j = i
      BY <2>1, <3>2, <3>4
    <3>5. CASE j \in written
      <4>1. shardLocs[j + 1] = TargetOf(j)
        BY <3>3, <3>5 DEF ShardInv, ShardsInPlace
      <4>2. j + 1 \in 1..w
        BY <2>1, <3>3, <3>5
      <4> QED BY <2>1, <4>1, <4>2
    <3> QED BY <1>8, <3>4, <3>5
  <2>6. ShardsInPlace'
    BY <1>2, <2>4, <2>5 DEF ShardsInPlace
  <2> QED BY <2>3, <2>6 DEF ShardInv
<1> QED
  BY <1>7, <1>8 DEF WriteShard, Acknowledge

\* No step of the write, of a node or of the collector breaks it.
LEMMA NextShards == ShardInv /\ [ShardNext]_shardVars => ShardInv'
<1> SUFFICES ASSUME ShardInv, [ShardNext]_shardVars PROVE ShardInv'
  OBVIOUS
<1> USE DEF ShardInv, ShardShape, ShardTypeOK, TargetOf, Turn, Unswept
<1>1. ASSUME NEW ok \in BOOLEAN, WriteShard(ok) PROVE ShardInv'
  BY <1>1, WriteKeepsShards
<1>2. CASE PutReturns
  BY <1>2 DEF PutReturns, shardBudget, ShardsInPlace
<1>3. ASSUME NEW n \in ShardNode, ShardNodeCrashes(n) \/ ShardNodeReturns(n) PROVE ShardInv'
  <2>1. flips' \in 0..MaxFlips /\ shardUp' \in SUBSET ShardNode
        /\ UNCHANGED <<targets, holds, next, written, shardLocs, outcome, losses, sweeps>>
    BY <1>3, ShardBoundAssumption DEF ShardNodeCrashes, ShardNodeReturns
  <2> QED BY <2>1 DEF ShardsInPlace
<1>4. ASSUME NEW n \in ShardNode, CollectGarbage(n) PROVE ShardInv'
  <2>1. sweeps' \in 0..MaxSweeps /\ sweeps' # MaxSweeps
        /\ UNCHANGED <<targets, shardUp, next, written, shardLocs, outcome, flips, losses>>
        /\ holds' \in [ShardNode -> SUBSET Index]
    BY <1>4, ShardBoundAssumption DEF CollectGarbage
  <2> QED BY <2>1 DEF ShardsInPlace
<1>5. CASE UNCHANGED shardVars
  BY <1>5 DEF shardVars, shardBudget, ShardsInPlace
<1> QED
  BY <1>1, <1>2, <1>3, <1>4, <1>5 DEF ShardNext

\* Every reachable state has its types: a location is listed for each shard that
\* was acknowledged (coordinator/erasure.go:66-90).
THEOREM ShardTypesCorrect == ShardSpec => []ShardTypeOK
<1>1. ShardInv => ShardTypeOK
  BY DEF ShardInv, ShardShape
<1> QED
  BY InitShards, NextShards, <1>1, PTL DEF ShardSpec

\* The reader fetches the first K of the acknowledged shards it can reach.
LEMMA FoundAreFetched ==
  ASSUME AnyShardsDecode, ShardInv
  PROVE  PrefixIsReadable
<1> DEFINE alive == {i \in written : TargetOf(i) \in shardUp}
           found == FoundShards
           id == [i \in found |-> i]
<1>0. K \in Nat \ {0} /\ M \in Nat
  BY CountAssumption
<1> SUFFICES ASSUME Unswept, written = 0..(Cardinality(written) - 1), Cardinality(alive) >= K
             PROVE  FetchedShards \in DecodableSets
  BY DEF PrefixIsReadable, Readable
<1>1. Cardinality(written) = Len(shardLocs) /\ Len(shardLocs) \in Nat /\ written \subseteq Index
  BY DEF ShardInv, ShardShape, ShardTypeOK
<1>2. alive \subseteq found
  <2> SUFFICES ASSUME NEW i \in written, TargetOf(i) \in shardUp
               PROVE  i \in found
    OBVIOUS
  <2>1. i \in Nat /\ i < Len(shardLocs)
    BY <1>1
  <2>2. Turn(shardLocs, i) = shardLocs[i + 1]
    BY <1>1, <2>1, Remainder DEF Turn
  <2>3. Turn(shardLocs, i) = TargetOf(i)
    BY <1>1, <2>2 DEF ShardInv, ShardsInPlace
  <2> QED BY <1>1, <2>3 DEF FoundShards, ShardInv, ShardsInPlace
<1>3. found \in SUBSET Index /\ IsFiniteSet(found) /\ Cardinality(found) \in Nat
  <2>1. IsFiniteSet(Index)
    BY <1>0, FS_Interval DEF Index
  <2>2. found \in SUBSET Index
    BY DEF FoundShards
  <2> QED BY <2>1, <2>2, FS_Subset, FS_CardinalityType
<1>4. K <= Cardinality(found)
  <2>1. Cardinality(alive) <= Cardinality(found) /\ Cardinality(alive) \in Nat
    <3>1. alive \in SUBSET found
      BY <1>2
    <3> HIDE DEF alive, found
    <3> QED BY <1>3, <3>1, FS_Subset, FS_CardinalityType
  <2> QED BY <1>0, <1>3, <2>1
<1>5. id \in [found -> Nat] /\ \A x, y \in found : id[x] = id[y] => x = y
  BY <1>0, <1>3 DEF Index
<1>6. FetchedShards = Firsts(found, id, K)
  <2>1. \A x \in found : {j \in FoundShards : j < x} = Before(found, id, x)
    BY DEF Before
  <2> QED BY <2>1 DEF FetchedShards, Firsts
<1>7. Cardinality(Firsts(found, id, K)) = K
  <2> HIDE DEF found, id
  <2> QED BY <1>0, <1>3, <1>4, <1>5, FirstsCount
<1>8. FetchedShards \in kSubset(K, Index)
  <2>1. FetchedShards \in SUBSET Index
    BY <1>3 DEF FetchedShards
  <2>2. Cardinality(FetchedShards) = K
    BY <1>6, <1>7
  <2> QED BY <2>1, <2>2 DEF kSubset
<1> QED
  BY <1>8 DEF AnyShardsDecode

\* When any K shards decode, as they do for the numbers of shards a node starts
\* with, the chunk can be read while K of its first shards are on nodes that run
\* (coordinator/erasure.go:66, erasure.go:85).
THEOREM FirstShardsAreReadable ==
  ASSUME AnyShardsDecode
  PROVE  ShardSpec => []PrefixIsReadable
<1>1. ShardInv => PrefixIsReadable
  BY FoundAreFetched
<1> QED
  BY InitShards, NextShards, <1>1, PTL DEF ShardSpec
=============================================================================
