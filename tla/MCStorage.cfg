SPECIFICATION MCSpec
CONSTANTS
  MaxRoot = 4
  MaxKey = 1
  MaxCrash = 2
  Absent = Absent
  id1 = id1
  id2 = id2
  p = p
CONSTRAINT SeqBound
INVARIANTS
  CommittedSurvives
  NamesDurableRoots
  LogKeepsWrites
  TailFound
  DefragKeeps
  TrieExact
  ScanBringsBack
  ReadsCurrent
  DocumentsExact
PROPERTIES
  NoRollback
  RefinesAtomicHeader
CHECK_DEADLOCK FALSE
