SPECIFICATION Spec
CONSTANTS
  GrowChunk = 1
  WalSize = 1
  PackUnits = 2
  Sizes = {1, 2}
  FreeHeadGaps = FALSE
  MaxLen = 5
  MaxOps = 8
INVARIANTS FreelistExact LentOnce CommittedIntact
CHECK_DEADLOCK FALSE
