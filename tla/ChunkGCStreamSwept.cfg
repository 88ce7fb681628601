\* One stream upload and one collection on one node.
SPECIFICATION Spec
CONSTANTS
  n1 = n1
  n2 = n2
  c1 = c1
  o1 = o1
  s1 = s1
  s2 = s2
  g1 = g1
  Object <- OneObject
  Node <- OneNode
  Chunk <- OneChunk
  Session <- OneSession
  Kinds <- Stream
  Run <- OneRun
  W = 1
PROPERTY
  NoStreamSwept
