SPECIFICATION MCSpec
CONSTANTS
  Threads = {t1, t2}
  Handles = {h1, h2}
  NumCells = 2
  COMMIT_MAX_OPS = 2
  MaxWrites = 2
  MaxRequests = 3
  MaxEvents = 1
SYMMETRY Symmetry
INVARIANTS
  ReadsLatest
  FsyncDurable
  NoResurrection
  LossWindow
  TreeSound
CHECK_DEADLOCK FALSE
