SPECIFICATION MCSpec
CONSTANTS
  Hosts = {1, 2}
  MaxFrags = 1
  Absent = Absent
  Hollow = Hollow
  Devices = {d1, d2}
  MaxPrograms = 3
  MaxFaults = 1
SYMMETRY Symmetry
INVARIANTS
  KeyReachable
  
  DeniedForCause
  LimiterExact
PROPERTIES
  RefinesServerStore
CHECK_DEADLOCK FALSE
