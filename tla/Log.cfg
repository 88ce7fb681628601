\* Four changes, three crashes, one write that fails, one garbled record.
SPECIFICATION Spec
CONSTANTS
  k1 = k1
  k2 = k2
  v1 = v1
  v2 = v2
  Key <- Keys
  Val <- Vals
  Nil = Nil
  Garbled <- GarbledRecords
  MaxChanges = 4
  MaxCrashes = 3
  MaxShort = 1
INVARIANTS
  CommittedIsServed
  LogRebuildsMemory
PROPERTY
  ReplayKeepsReadable
  
CHECK_DEADLOCK FALSE
