\* Three nodes, two uploads, two crashes, a restart and a failed call.
SPECIFICATION Spec
CONSTANTS
  Node <- Three
  RingSize = 16
  Marks <- TwoMarks
  KeyHash = 9
  Later <- LocalFirst
  N = 2
  W = 2
  MaxPuts = 2
  MaxCrashes = 2
  MaxReturns = 1
  MaxFailures = 1
INVARIANTS
  PlacementFollowsRing
  LocationsHoldChunk
  LocationsKeepQuorum
  SingleDeathHealed
CHECK_DEADLOCK FALSE
