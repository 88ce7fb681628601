---------------------- MODULE MetadataReplicationProofs ----------------------
(***************************************************************************)
(* Proofs about MetadataReplication, for every set of nodes and VersionIDs *)
(* and every bound.                                                        *)
(***************************************************************************)
EXTENDS MetadataReplication, TLAPS

LEMMA NoneType == None \in Manifest
BY DEF None, Manifest, Zero, Clock

LEMMA IncrementType ==
  ASSUME NEW c \in Clock, NEW a \in Actor
  PROVE  Increment(c, a) \in Clock
BY DEF Increment, Clock

LEMMA MergeType ==
  ASSUME NEW c \in Clock, NEW d \in Clock
  PROVE  /\ Merge(c, d) \in Clock
         /\ AtLeast(Merge(c, d), d)
BY DEF Merge, Clock, AtLeast

\* RecordPlacement keeps every version the node could serve, adds the new one
\* and what came with it, and never lets the clock fall.
LEMMA PlacedFacts ==
  ASSUME man \in [Node -> Manifest], NEW n \in Node, NEW v \in Ver, NEW m \in Manifest
  PROVE  /\ Placed(n, v, m) \in Manifest
         /\ Placed(n, v, m).ver = v
         /\ Versions(Placed(n, v, m)) = Versions(man[n]) \cup {v} \cup m.hist
         /\ Found(n) => AtLeast(Placed(n, v, m).clock, man[n].clock)
<1>1. man[n] \in Manifest /\ n \in Actor /\ v # 0
  BY VerAssumption DEF Actor
<1>2. /\ Increment(m.clock, n) \in Clock
      /\ Merge(Increment(m.clock, n), man[n].clock) \in Clock
      /\ AtLeast(Merge(Increment(m.clock, n), man[n].clock), man[n].clock)
  <2>1. m.clock \in Clock /\ man[n].clock \in Clock
    BY <1>1 DEF Manifest
  <2>2. Increment(m.clock, n) \in Clock
    BY <1>1, <2>1, IncrementType
  <2>q. QED
    BY <2>1, <2>2, MergeType
<1>3. CASE Found(n)
  <2> DEFINE h == man[n].hist \cup (({man[n].ver} \cup m.hist) \ {v})
  <2>1. Placed(n, v, m) = [ver |-> v,
                           clock |-> Merge(Increment(m.clock, n), man[n].clock),
                           hist |-> h]
    BY <1>3 DEF Placed
  <2>2. h \in SUBSET Ver /\ {v} \cup h = Versions(man[n]) \cup {v} \cup m.hist
    BY <1>1, <1>3 DEF Manifest, Found, Versions
  <2> HIDE DEF h
  <2>3. Placed(n, v, m) \in Manifest /\ Versions(Placed(n, v, m)) = {v} \cup h
    BY <1>1, <1>2, <2>1, <2>2 DEF Manifest, Versions
  <2>q. QED
    BY <1>2, <2>1, <2>2, <2>3
<1>4. CASE ~Found(n)
  <2>1. Placed(n, v, m) = [ver |-> v, clock |-> Increment(m.clock, n), hist |-> m.hist]
    BY <1>4 DEF Placed
  <2>2. Versions(man[n]) = {}
    BY <1>4 DEF Found, Versions
  <2>3. Placed(n, v, m) \in Manifest /\ Versions(Placed(n, v, m)) = {v} \cup m.hist
    BY <1>1, <1>2, <2>1 DEF Manifest, Versions
  <2>q. QED
    BY <1>4, <2>1, <2>2, <2>3
<1>q. QED
  BY <1>3, <1>4

\* What RecordPlacement changes.
LEMMA RecordFacts ==
  ASSUME TypeOK, NEW n \in Node, NEW m \in Manifest, RecordPlacement(n, m)
  PROVE  \E v \in Ver :
           /\ \/ m.ver = v /\ UNCHANGED made
              \/ m.ver = 0 /\ v \notin made /\ made' = made \cup {v}
           /\ man' = [man EXCEPT ![n] = Placed(n, v, m)]
           /\ log' = [log EXCEPT ![n] = Placed(n, v, m)]
           /\ Placed(n, v, m) \in Manifest
BY PlacedFacts DEF RecordPlacement, TypeOK

LEMMA RecordType ==
  ASSUME TypeOK, NEW n \in Node, NEW m \in Manifest, RecordPlacement(n, m)
  PROVE  man' \in [Node -> Manifest] /\ log' \in [Node -> Manifest] /\ made' \in SUBSET Ver
BY RecordFacts DEF TypeOK

LEMMA DeleteType ==
  ASSUME TypeOK, NEW n \in Node, DeleteScoped(n)
  PROVE  man' \in [Node -> Manifest] /\ log' \in [Node -> Manifest]
BY NoneType DEF DeleteScoped, TypeOK

LEMMA ReplayedType ==
  ASSUME NEW m \in Manifest
  PROVE  Replayed(m) \in Manifest
<1>1. m.clock \in Clock /\ Local \in Actor
  BY DEF Manifest, Actor
<1>2. Increment(m.clock, Local) \in Clock
  BY <1>1, IncrementType
<1>3. [m EXCEPT !.clock = Increment(@, Local)] \in Manifest
  BY <1>2 DEF Manifest
<1>q. QED
  BY <1>3, NoneType DEF Replayed

\* The variables keep their types in every behaviour.
THEOREM TypeCorrect == Spec => []TypeOK
<1>1. Init => TypeOK
  BY NoneType, BoundAssumption DEF Init, TypeOK, Idle
<1>2. ASSUME TypeOK, [Next]_vars PROVE TypeOK'
  <2>1. ASSUME NEW n \in Node, Upload(n) PROVE TypeOK'
    <3>1. man' \in [Node -> Manifest] /\ log' \in [Node -> Manifest] /\ made' \in SUBSET Ver
      BY <1>2, <2>1, NoneType, RecordType DEF Upload
    <3>2. toSend' \in [Node -> Nat]
      BY <1>2, <2>1 DEF Upload, TypeOK
    <3>q. QED
      BY <1>2, <2>1, <3>1, <3>2 DEF Upload, TypeOK, bounds
  <2>2. ASSUME NEW n \in Node, NEW ps \in SUBSET (Node \ {n}), BroadcastManifest(n, ps)
        PROVE  TypeOK'
    BY <1>2, <2>2 DEF BroadcastManifest, TypeOK, bounds, Message
  <2>3. ASSUME NEW n \in Node, NEW ps \in SUBSET (Node \ {n}), DeleteFile(n, ps)
        PROVE  TypeOK'
    <3>1. man' \in [Node -> Manifest] /\ log' \in [Node -> Manifest]
      BY <1>2, <2>3, DeleteType DEF DeleteFile
    <3>2. net' \in SUBSET Message
      BY <1>2, <2>3, NoneType DEF DeleteFile, TypeOK, Message
    <3>3. deletes' \in 0..MaxDeletes
      BY <1>2, <2>3, BoundAssumption DEF DeleteFile, TypeOK
    <3>q. QED
      BY <1>2, <2>3, <3>1, <3>2, <3>3 DEF DeleteFile, TypeOK
  <2>4. ASSUME NEW n \in Node, NEW p \in Node, Fetch(n, p) PROVE TypeOK'
    BY <1>2, <2>4 DEF Fetch, TypeOK, bounds
  <2>5. ASSUME NEW n \in Node, Decide(n) PROVE TypeOK'
    <3>1. sync' \in [Node -> [step : {"idle", "fetched", "decided"}, man : Manifest]]
      BY <1>2, <2>5, NoneType DEF Decide, TypeOK, Idle
    <3>q. QED
      BY <1>2, <2>5, <3>1 DEF Decide, TypeOK, bounds
  <2>6. ASSUME NEW n \in Node, Reconcile(n) PROVE TypeOK'
    <3>1. sync[n].man \in Manifest
      BY <1>2 DEF TypeOK
    <3>2. man' \in [Node -> Manifest] /\ log' \in [Node -> Manifest] /\ made' \in SUBSET Ver
      BY <1>2, <2>6, <3>1, RecordType DEF Reconcile
    <3>q. QED
      BY <1>2, <2>6, <3>2, NoneType DEF Reconcile, TypeOK, bounds, Idle
  <2>7. ASSUME NEW n \in Node, Restart(n) PROVE TypeOK'
    <3>1. man' \in [Node -> Manifest]
      BY <1>2, <2>7, ReplayedType DEF Restart, TypeOK
    <3>2. restarts' \in 0..MaxRestarts
      BY <1>2, <2>7, BoundAssumption DEF Restart, TypeOK
    <3>q. QED
      BY <1>2, <2>7, <3>1, <3>2, NoneType DEF Restart, TypeOK, Idle
  <2>8. ASSUME NEW msg \in net, ReceivePut(msg) PROVE TypeOK'
    <3>1. msg.to \in Node /\ msg.man \in Manifest
      BY <1>2 DEF TypeOK, Message
    <3>2. man' \in [Node -> Manifest] /\ log' \in [Node -> Manifest] /\ made' \in SUBSET Ver
      BY <1>2, <2>8, <3>1, RecordType DEF ReceivePut
    <3>q. QED
      BY <1>2, <2>8, <3>2 DEF ReceivePut, TypeOK, bounds
  <2>9. ASSUME NEW msg \in net, ReceiveDelete(msg) PROVE TypeOK'
    <3>1. msg.to \in Node
      BY <1>2 DEF TypeOK, Message
    <3>2. man' \in [Node -> Manifest] /\ log' \in [Node -> Manifest]
      BY <1>2, <2>9, <3>1, DeleteType DEF ReceiveDelete
    <3>q. QED
      BY <1>2, <2>9, <3>2 DEF ReceiveDelete, TypeOK, bounds
  <2>10. ASSUME NEW msg \in net, Lose(msg) PROVE TypeOK'
    BY <1>2, <2>10 DEF Lose, TypeOK, bounds
  <2>11. CASE UNCHANGED vars
    BY <1>2, <2>11 DEF vars, TypeOK, bounds
  <2>q. QED
    BY <1>2, <2>1, <2>2, <2>3, <2>4, <2>5, <2>6, <2>7, <2>8, <2>9, <2>10, <2>11 DEF Next
<1>q. QED
  BY <1>1, <1>2, PTL DEF Spec

-----------------------------------------------------------------------------
(* The inductive invariant *)

Carried(m) == m.hist \cup ({m.ver} \ {0})

\* Manifests in memory, in flight and in an exchange only name versions that
\* have been made.
CarriedAreMade ==
  /\ \A n \in Node : Carried(man[n]) \subseteq made
  /\ \A n \in Node : Carried(sync[n].man) \subseteq made
  /\ \A msg \in net : Carried(msg.man) \subseteq made

\* The last log record is the manifest in memory, but for the Local entry that
\* the replay it came from has incremented.
LogFollowsMemory ==
  \A n \in Node :
    /\ log[n].ver = man[n].ver
    /\ log[n].hist = man[n].hist
    /\ log[n].ver = 0 => log[n].hist = {}
    /\ AtLeast(Increment(log[n].clock, Local), man[n].clock)

IInv == CarriedAreMade /\ LogFollowsMemory

LEMMA IncrementGrows ==
  ASSUME NEW c \in Clock, NEW a \in Actor
  PROVE  AtLeast(Increment(c, a), c) /\ AtLeast(c, c)
BY DEF Increment, Clock, AtLeast

\* Recording a manifest whose versions are made is a step of the abstract
\* specification, and keeps the invariant of the node it happens on.
LEMMA RecordStep ==
  ASSUME TypeOK, IInv, NEW n \in Node, NEW m \in Manifest, Carried(m) \subseteq made,
         RecordPlacement(n, m)
  PROVE  /\ made \subseteq made'
         /\ \A i \in Node : Carried(man'[i]) \subseteq made'
         /\ LogFollowsMemory'
         /\ History!Create(n) \/ History!Learn(n)
         /\ \A i \in Node : Found(i) => AtLeast(man'[i].clock, man[i].clock)
<1>1. PICK v \in Ver :
        /\ \/ m.ver = v /\ UNCHANGED made
           \/ m.ver = 0 /\ v \notin made /\ made' = made \cup {v}
        /\ man' = [man EXCEPT ![n] = Placed(n, v, m)]
        /\ log' = [log EXCEPT ![n] = Placed(n, v, m)]
        /\ Placed(n, v, m) \in Manifest
  BY RecordFacts
<1>2. v # 0 /\ man[n] \in Manifest
  BY VerAssumption DEF TypeOK
<1>3. /\ man'[n] = Placed(n, v, m) /\ log'[n] = Placed(n, v, m)
      /\ \A i \in Node : i # n => man'[i] = man[i] /\ log'[i] = log[i]
  BY <1>1 DEF TypeOK
<1>4. /\ Placed(n, v, m).ver = v
      /\ Versions(Placed(n, v, m)) = Versions(man[n]) \cup {v} \cup m.hist
      /\ Found(n) => AtLeast(Placed(n, v, m).clock, man[n].clock)
  BY PlacedFacts DEF TypeOK
<1>5. made \subseteq made' /\ v \in made'
  BY <1>1, <1>2 DEF Carried
<1>6. Versions(man[n]) \subseteq made /\ m.hist \subseteq made
  BY DEF IInv, CarriedAreMade, Carried, Versions
<1>7. \A i \in Node : Carried(man'[i]) \subseteq made'
  <2>1. Carried(Placed(n, v, m)) = Versions(Placed(n, v, m))
    BY <1>2, <1>4 DEF Carried, Versions
  <2>2. Carried(man'[n]) \subseteq made'
    BY <1>3, <1>4, <1>5, <1>6, <2>1
  <2>3. \A i \in Node : Carried(man[i]) \subseteq made
    BY DEF IInv, CarriedAreMade
  <2>q. QED
    BY <1>3, <1>5, <2>2, <2>3
<1>8. LogFollowsMemory'
  <2>1. AtLeast(Increment(Placed(n, v, m).clock, Local), Placed(n, v, m).clock)
    <3>1. Placed(n, v, m).clock \in Clock /\ Local \in Actor
      BY <1>1 DEF Manifest, Actor
    <3>q. QED
      BY <3>1, IncrementGrows
  <2>q. QED
    BY <1>2, <1>3, <1>4, <2>1 DEF IInv, LogFollowsMemory
<1>9. History!Create(n) \/ History!Learn(n)
  <2> DEFINE known == [i \in Node |-> Versions(man[i])]
             known1 == [i \in Node |-> Versions(man'[i])]
  <2>1. known1 = [known EXCEPT ![n] = @ \cup {v} \cup m.hist]
    BY <1>3, <1>4
  <2>2. CASE m.ver = v /\ UNCHANGED made
    <3>1. {v} \cup m.hist \in SUBSET made
      BY <1>5, <1>6, <2>2
    <3>2. known1 = [known EXCEPT ![n] = @ \cup ({v} \cup m.hist)]
      BY <2>1
    <3>q. QED
      BY <2>2, <3>1, <3>2 DEF History!Learn
  <2>3. CASE v \notin made /\ made' = made \cup {v}
    BY <1>6, <2>1, <2>3 DEF History!Create
  <2>q. QED
    BY <1>1, <2>2, <2>3
<1>10. \A i \in Node : Found(i) => AtLeast(man'[i].clock, man[i].clock)
  <2>1. \A i \in Node : AtLeast(man[i].clock, man[i].clock)
    BY IncrementGrows DEF TypeOK, Manifest, Actor
  <2>q. QED
    BY <1>3, <1>4, <2>1
<1>q. QED
  BY <1>5, <1>7, <1>8, <1>9, <1>10

\* Deleting the file is a step of the abstract specification.
LEMMA DeleteStep ==
  ASSUME TypeOK, IInv, NEW n \in Node, DeleteScoped(n), UNCHANGED made
  PROVE  /\ \A i \in Node : Carried(man'[i]) \subseteq made'
         /\ LogFollowsMemory'
         /\ History!Forget(n)
         /\ \A i \in Node : Found(i) /\ man'[i].ver # 0 => AtLeast(man'[i].clock, man[i].clock)
<1>1. /\ man'[n] = None /\ log'[n] = None
      /\ \A i \in Node : i # n => man'[i] = man[i] /\ log'[i] = log[i]
  BY DEF DeleteScoped, TypeOK
<1>2. None.ver = 0 /\ None.hist = {} /\ None.clock \in Clock
  BY DEF None, Zero, Clock
<1>3. \A i \in Node : Carried(man'[i]) \subseteq made'
  BY <1>1, <1>2 DEF IInv, CarriedAreMade, Carried
<1>4. LogFollowsMemory'
  <2>1. AtLeast(Increment(None.clock, Local), None.clock)
    BY <1>2, IncrementGrows DEF Actor
  <2>q. QED
    BY <1>1, <1>2, <2>1 DEF IInv, LogFollowsMemory
<1>5. History!Forget(n)
  <2>1. Versions(man'[n]) = {}
    BY <1>1, <1>2 DEF Versions
  <2>q. QED
    BY <1>1, <2>1 DEF History!Forget
<1>6. \A i \in Node : Found(i) /\ man'[i].ver # 0 => AtLeast(man'[i].clock, man[i].clock)
  <2>1. \A i \in Node : AtLeast(man[i].clock, man[i].clock)
    BY IncrementGrows DEF TypeOK, Manifest, Actor
  <2>q. QED
    BY <1>1, <1>2, <2>1
<1>q. QED
  BY <1>3, <1>4, <1>5, <1>6

\* A restart is a stuttering step of the abstract specification.
LEMMA RestartStep ==
  ASSUME TypeOK, IInv, NEW n \in Node, Restart(n)
  PROVE  /\ \A i \in Node : Carried(man'[i]) \subseteq made'
         /\ LogFollowsMemory'
         /\ \A i \in Node : Versions(man'[i]) = Versions(man[i])
         /\ \A i \in Node : Found(i) => AtLeast(man'[i].clock, man[i].clock)
<1>1. /\ man'[n] = Replayed(log[n]) /\ log' = log /\ made' = made
      /\ \A i \in Node : i # n => man'[i] = man[i]
  BY DEF Restart, TypeOK
<1>2. log[n] \in Manifest /\ man[n] \in Manifest /\ log[n].clock \in Clock /\ Local \in Actor
  BY DEF TypeOK, Manifest, Actor
<1>3. /\ log[n].ver = man[n].ver /\ log[n].hist = man[n].hist
      /\ log[n].ver = 0 => log[n].hist = {}
      /\ AtLeast(Increment(log[n].clock, Local), man[n].clock)
  BY DEF IInv, LogFollowsMemory
<1>4. CASE log[n].ver = 0
  <2>1. man'[n] = None /\ None.ver = 0 /\ None.hist = {} /\ None.clock = Zero
    BY <1>1, <1>4 DEF Replayed, None
  <2>2. AtLeast(Increment(log[n].clock, Local), Zero)
    <3>1. Increment(log[n].clock, Local) \in Clock
      BY <1>2, IncrementType
    <3>q. QED
      BY <3>1 DEF AtLeast, Zero, Clock
  <2>3. \A i \in Node : AtLeast(man[i].clock, man[i].clock)
    BY IncrementGrows DEF TypeOK, Manifest, Actor
  <2>4. \A i \in Node : Carried(man'[i]) \subseteq made'
    BY <1>1, <2>1 DEF IInv, CarriedAreMade, Carried
  <2>5. LogFollowsMemory'
    BY <1>1, <1>3, <1>4, <2>1, <2>2 DEF IInv, LogFollowsMemory
  <2>6. \A i \in Node : Versions(man'[i]) = Versions(man[i])
    BY <1>1, <1>3, <1>4, <2>1 DEF Versions
  <2>7. \A i \in Node : Found(i) => AtLeast(man'[i].clock, man[i].clock)
    BY <1>1, <1>3, <1>4, <2>3 DEF Found
  <2>q. QED
    BY <2>4, <2>5, <2>6, <2>7
<1>5. CASE log[n].ver # 0
  <2>1. /\ man'[n].ver = log[n].ver /\ man'[n].hist = log[n].hist
        /\ man'[n].clock = Increment(log[n].clock, Local)
    BY <1>1, <1>2, <1>5 DEF Replayed, Manifest
  <2>2. Increment(log[n].clock, Local) \in Clock
    BY <1>2, IncrementType
  <2>3. AtLeast(Increment(log[n].clock, Local), Increment(log[n].clock, Local))
    BY <1>2, <2>2, IncrementGrows
  <2>4. \A i \in Node : AtLeast(man[i].clock, man[i].clock)
    BY IncrementGrows DEF TypeOK, Manifest, Actor
  <2>5. \A i \in Node : Carried(man'[i]) \subseteq made'
    BY <1>1, <1>3, <2>1 DEF IInv, CarriedAreMade, Carried
  <2>6. LogFollowsMemory'
    BY <1>1, <1>3, <2>1, <2>3 DEF IInv, LogFollowsMemory
  <2>7. \A i \in Node : Versions(man'[i]) = Versions(man[i])
    BY <1>1, <1>3, <2>1 DEF Versions
  <2>8. \A i \in Node : Found(i) => AtLeast(man'[i].clock, man[i].clock)
    BY <1>1, <1>3, <2>1, <2>4
  <2>q. QED
    BY <2>5, <2>6, <2>7, <2>8
<1>q. QED
  BY <1>4, <1>5

-----------------------------------------------------------------------------
(* Every step keeps the invariant, is a step of the abstract specification   *)
(* or a stutter, and lets no clock fall.                                     *)

GoodStep ==
  /\ IInv'
  /\ [History!Next]_<<[n \in Node |-> Versions(man[n])], made>>
  /\ \A n \in Node : Found(n) /\ man'[n].ver # 0 => AtLeast(man'[n].clock, man[n].clock)

\* The manifests that the actions may put in an exchange or in flight.
InTransitMade ==
  /\ \A n \in Node : Carried(sync[n].man) \subseteq made
  /\ \A msg \in net : Carried(msg.man) \subseteq made

\* A step that records or deletes nothing.
LEMMA QuietStep ==
  ASSUME TypeOK, IInv, UNCHANGED <<man, log, made>>, InTransitMade'
  PROVE  GoodStep
<1>1. IInv'
  BY DEF IInv, CarriedAreMade, LogFollowsMemory, InTransitMade
<1>2. \A n \in Node : AtLeast(man[n].clock, man[n].clock)
  BY IncrementGrows DEF TypeOK, Manifest, Actor
<1>q. QED
  BY <1>1, <1>2 DEF GoodStep

LEMMA NoneCarried == Carried(None) = {}
BY DEF Carried, None

LEMMA StepIsGood ==
  ASSUME TypeOK, IInv, [Next]_vars
  PROVE  GoodStep
<1>0. InTransitMade /\ \A n \in Node : Carried(man[n]) \subseteq made
  BY DEF IInv, CarriedAreMade, InTransitMade
<1>1. ASSUME NEW n \in Node, NEW m \in Manifest, Carried(m) \subseteq made,
             RecordPlacement(n, m), made \subseteq made' => InTransitMade'
      PROVE  GoodStep
  <2>1. /\ made \subseteq made'
        /\ \A i \in Node : Carried(man'[i]) \subseteq made'
        /\ LogFollowsMemory'
        /\ History!Create(n) \/ History!Learn(n)
        /\ \A i \in Node : Found(i) => AtLeast(man'[i].clock, man[i].clock)
    BY <1>1, RecordStep
  <2>2. IInv'
    BY <1>1, <2>1 DEF IInv, CarriedAreMade, InTransitMade
  <2>3. History!Next
    BY <1>1, <2>1 DEF History!Next
  <2>q. QED
    BY <2>1, <2>2, <2>3 DEF GoodStep
<1>2. ASSUME NEW n \in Node, DeleteScoped(n), UNCHANGED made, InTransitMade'
      PROVE  GoodStep
  <2>1. /\ \A i \in Node : Carried(man'[i]) \subseteq made'
        /\ LogFollowsMemory'
        /\ History!Forget(n)
        /\ \A i \in Node : Found(i) /\ man'[i].ver # 0 => AtLeast(man'[i].clock, man[i].clock)
    BY <1>2, DeleteStep
  <2>2. IInv'
    BY <1>2, <2>1 DEF IInv, CarriedAreMade, InTransitMade
  <2>3. History!Next
    BY <1>2, <2>1 DEF History!Next
  <2>q. QED
    BY <2>1, <2>2, <2>3 DEF GoodStep
<1>3. ASSUME NEW n \in Node, Upload(n) PROVE GoodStep
  <2>1. made \subseteq made' => InTransitMade'
    BY <1>0, <1>3 DEF Upload, InTransitMade
  <2>q. QED
    BY <1>1, <1>3, <2>1, NoneType, NoneCarried DEF Upload
<1>4. ASSUME NEW n \in Node, NEW ps \in SUBSET (Node \ {n}), BroadcastManifest(n, ps)
      PROVE  GoodStep
  <2>1. InTransitMade'
    BY <1>0, <1>4 DEF BroadcastManifest, InTransitMade
  <2>q. QED
    BY <1>4, <2>1, QuietStep DEF BroadcastManifest
<1>5. ASSUME NEW n \in Node, NEW ps \in SUBSET (Node \ {n}), DeleteFile(n, ps)
      PROVE  GoodStep
  <2>1. InTransitMade'
    BY <1>0, <1>5, NoneCarried DEF DeleteFile, InTransitMade
  <2>q. QED
    BY <1>2, <1>5, <2>1 DEF DeleteFile
<1>6. ASSUME NEW n \in Node, NEW p \in Node, Fetch(n, p) PROVE GoodStep
  <2>1. InTransitMade'
    BY <1>0, <1>6 DEF Fetch, InTransitMade, TypeOK
  <2>q. QED
    BY <1>6, <2>1, QuietStep DEF Fetch
<1>7. ASSUME NEW n \in Node, Decide(n) PROVE GoodStep
  <2>1. sync'[n] = [sync[n] EXCEPT !.step = "decided"] \/ sync'[n] = Idle
    BY <1>7 DEF Decide, TypeOK
  <2>2. Carried(sync'[n].man) \subseteq made
    BY <1>0, <2>1, NoneCarried DEF InTransitMade, TypeOK, Idle
  <2>3. InTransitMade'
    BY <1>0, <1>7, <2>2 DEF Decide, InTransitMade, TypeOK
  <2>q. QED
    BY <1>7, <2>3, QuietStep DEF Decide
<1>8. ASSUME NEW n \in Node, Reconcile(n) PROVE GoodStep
  <2>1. sync[n].man \in Manifest /\ Carried(sync[n].man) \subseteq made
    BY <1>0 DEF TypeOK, InTransitMade
  <2>2. made \subseteq made' => InTransitMade'
    BY <1>0, <1>8, NoneCarried DEF Reconcile, InTransitMade, TypeOK, Idle
  <2>q. QED
    BY <1>1, <1>8, <2>1, <2>2 DEF Reconcile
<1>9. ASSUME NEW n \in Node, Restart(n) PROVE GoodStep
  <2>1. /\ \A i \in Node : Carried(man'[i]) \subseteq made'
        /\ LogFollowsMemory'
        /\ \A i \in Node : Versions(man'[i]) = Versions(man[i])
        /\ \A i \in Node : Found(i) => AtLeast(man'[i].clock, man[i].clock)
    BY <1>9, RestartStep
  <2>2. InTransitMade'
    BY <1>0, <1>9, NoneCarried DEF Restart, InTransitMade, TypeOK, Idle
  <2>3. IInv'
    BY <2>1, <2>2 DEF IInv, CarriedAreMade, InTransitMade
  <2>4. UNCHANGED <<[i \in Node |-> Versions(man[i])], made>>
    BY <1>9, <2>1 DEF Restart
  <2>q. QED
    BY <2>1, <2>3, <2>4 DEF GoodStep
<1>10. ASSUME NEW msg \in net, ReceivePut(msg) PROVE GoodStep
  <2>1. msg.to \in Node /\ msg.man \in Manifest /\ Carried(msg.man) \subseteq made
    BY <1>0 DEF TypeOK, Message, InTransitMade
  <2>2. made \subseteq made' => InTransitMade'
    BY <1>0, <1>10 DEF ReceivePut, InTransitMade
  <2>q. QED
    BY <1>1, <1>10, <2>1, <2>2 DEF ReceivePut
<1>11. ASSUME NEW msg \in net, ReceiveDelete(msg) PROVE GoodStep
  <2>1. msg.to \in Node
    BY DEF TypeOK, Message
  <2>2. InTransitMade'
    BY <1>0, <1>11 DEF ReceiveDelete, InTransitMade
  <2>q. QED
    BY <1>2, <1>11, <2>1, <2>2 DEF ReceiveDelete
<1>12. ASSUME NEW msg \in net, Lose(msg) PROVE GoodStep
  <2>1. InTransitMade'
    BY <1>0, <1>12 DEF Lose, InTransitMade
  <2>q. QED
    BY <1>12, <2>1, QuietStep DEF Lose
<1>13. CASE UNCHANGED vars
  <2>1. UNCHANGED <<man, log, made>> /\ InTransitMade'
    BY <1>0, <1>13 DEF vars, InTransitMade
  <2>q. QED
    BY <2>1, QuietStep
<1>q. QED
  BY <1>3, <1>4, <1>5, <1>6, <1>7, <1>8, <1>9, <1>10, <1>11, <1>12, <1>13 DEF Next

LEMMA InitIsGood == Init => IInv
<1> SUFFICES ASSUME Init PROVE IInv
  OBVIOUS
<1>1. \A n \in Node : man[n] = None /\ log[n] = None /\ sync[n].man = None
  BY DEF Init, Idle
<1>2. AtLeast(Increment(None.clock, Local), None.clock)
  BY NoneType, IncrementGrows DEF Manifest, Actor
<1>3. CarriedAreMade
  BY <1>1, NoneCarried DEF CarriedAreMade, Init
<1>4. LogFollowsMemory
  BY <1>1, <1>2 DEF LogFollowsMemory, None
<1>q. QED
  BY <1>3, <1>4 DEF IInv

\* The inductive invariant holds, and every step is a good one.
LEMMA Invariance == Spec => [][GoodStep]_vars /\ []IInv
<1>1. Init => IInv
  BY InitIsGood
<1>2. TypeOK /\ IInv /\ [Next]_vars => GoodStep
  BY StepIsGood
<1>3. GoodStep => IInv'
  BY DEF GoodStep
<1>q. QED
  BY <1>1, <1>2, <1>3, TypeCorrect, PTL DEF Spec

\* Through lost, duplicated and reordered broadcasts, exchanges that act on
\* stale answers, and restarts, a node loses a version only by a delete.
THEOREM VersionsAreKept == Spec => ImplementsHistory
<1>1. Init => History!Init
  BY DEF Init, History!Init, Versions, None
<1>2. GoodStep => [History!Next]_<<[n \in Node |-> Versions(man[n])], made>>
  BY DEF GoodStep
<1>3. TypeOK /\ IInv /\ [Next]_vars => GoodStep
  BY StepIsGood
<1>q. QED
  BY <1>1, <1>2, <1>3, TypeCorrect, Invariance, PTL DEF Spec, ImplementsHistory, History!Spec

\* No clock falls while the file exists.
THEOREM ClocksAreMonotone == Spec => ClockNeverFalls
<1>1. GoodStep =>
        \A n \in Node : Found(n) /\ man'[n].ver # 0 => AtLeast(man'[n].clock, man[n].clock)
  BY DEF GoodStep
<1>q. QED
  BY <1>1, Invariance, PTL DEF ClockNeverFalls
=============================================================================
