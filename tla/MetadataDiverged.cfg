\* Two nodes upload one file at the same time.
SPECIFICATION Spec
CONSTANTS
  n1 = n1
  n2 = n2
  Local = Local
  Node <- TwoNodes
  Ver = {1, 2}
  MaxClock = 3
  MaxNet = 2
  MaxDeletes = 0
  MaxRestarts = 0
CHECK_DEADLOCK FALSE
INVARIANT
  SelfHealed
