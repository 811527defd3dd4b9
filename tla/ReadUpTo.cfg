SPECIFICATION Spec
CONSTANTS
  Paths = {"p", "q"}
  Uuids = {"u", "v"}
  NoUnit = "none"
  FragSize = 3
  ParMin = 2
  ResolveCap = 1
  RecordCap = 1
  MaxSize = 4
  MaxAddr = 4
  MaxMoves = 1
  Offsets = {0, 1}
  Lengths = {1, 4}
  Sizes = {0, 1, 3}
INVARIANTS ReadsUpToLen
CHECK_DEADLOCK FALSE
