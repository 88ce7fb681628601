\* Two uploads of either kind on two nodes that write to each other and exchange
\* manifests, and one collection at a time.
SPECIFICATION Spec
CONSTANTS
  n1 = n1
  n2 = n2
  c1 = c1
  o1 = o1
  s1 = s1
  s2 = s2
  g1 = g1
  Object <- OneObject
  Node <- TwoNodes
  Chunk <- OneChunk
  Session <- TwoSessions
  Kinds <- BothKinds
  Run <- OneRun
  W = 1
SYMMETRY SessionSymmetry
INVARIANTS
  RegistryCountsSessions
  UndisturbedUploadKept
PROPERTIES
  SweepSparesHeld
  QuietRunLeavesNoOrphan
