\* Two nodes, two uploads, one delete and one restart; broadcasts may be lost.
SPECIFICATION FairSpec
CONSTANTS
  n1 = n1
  n2 = n2
  Local = Local
  Node <- TwoNodes
  Ver = {1, 2}
  MaxClock = 1
  MaxNet = 1
  MaxDeletes = 1
  MaxRestarts = 1
CHECK_DEADLOCK FALSE
INVARIANT
PROPERTIES
  ImplementsHistory
  ClockNeverFalls
  MissingIsPulled
