SPECIFICATION Spec
CONSTANTS
  Frags = {1, 2}
  BatchCap = 1
  MaxSlot = 4
  MaxTail = 3
  MaxSeq = 2
  MaxWrites = 2
  MaxCrash = 0
  Faults = {"transaction"}
  WriterSetIn = {}
INVARIANT AbortedStaysInvisible
CHECK_DEADLOCK FALSE
