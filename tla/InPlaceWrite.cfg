SPECIFICATION Spec
CONSTANTS
  Frags = {1, 2}
  BatchCap = 1
  MaxSlot = 3
  MaxTail = 3
  MaxSeq = 3
  MaxWrites = 2
  MaxCrash = 2
  Faults = {"transaction", "write", "publish", "header"}
  WriterSetIn = {FALSE}
INVARIANTS CrashSafe FreeIsUnreferenced HistoryKept
PROPERTIES RefinesTransactionalStore
CHECK_DEADLOCK FALSE
