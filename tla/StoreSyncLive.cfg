SPECIFICATION FairSpec
CONSTANTS
  Hosts = {1, 2}
  MaxFrags = 2
  Shared = {0, 2}
  MaxOps = 2
  MaxOther = 1
  MaxFaults = 1
PROPERTIES
  Converges
