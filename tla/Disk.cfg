\* Three requests at a time on two chunks, of which the cache holds either, and
\* a restart.
SPECIFICATION Spec
CONSTANTS
  c1 = c1
  c2 = c2
  p1 = p1
  p2 = p2
  p3 = p3
  NoChunk = NoChunk
  Chunk <- TwoChunks
  Proc <- ThreeProcs
  Size <- Sizes2
  MaxBytes = 2
  MaxCrashes = 1
SYMMETRY Symmetry
INVARIANTS
  TypeOK
  CacheIsOnDisk
  ConfirmedIsOnDisk
