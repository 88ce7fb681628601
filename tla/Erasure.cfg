\* Six shards on six nodes or on three, crashes, a failing write and a sweep.
SPECIFICATION ShardSpec
CONSTANTS
  n1 = n1
  n2 = n2
  n3 = n3
  n4 = n4
  n5 = n5
  n6 = n6
  ShardNode <- Nodes
  K = 4
  M = 2
  Chunks <- SingleBits
  Rings <- BothRings
  MaxFlips = 3
  MaxLosses = 1
  MaxSweeps = 1
INVARIANTS
  PrefixIsReadable
CHECK_DEADLOCK FALSE
