\* Six shards on three nodes, of which two are collected.
SPECIFICATION ShardSpec
CONSTANTS
  n1 = n1
  n2 = n2
  n3 = n3
  n4 = n4
  n5 = n5
  n6 = n6
  ShardNode <- Nodes
  K = 4
  M = 2
  Chunks <- SingleBits
  Rings <- SmallRing
  MaxFlips = 0
  MaxLosses = 0
  MaxSweeps = 2
INVARIANT
  StoredOutlivesSweep
CHECK_DEADLOCK FALSE
