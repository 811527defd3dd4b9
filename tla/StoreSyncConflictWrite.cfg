SPECIFICATION Spec
CONSTANTS
  Hosts = {1, 2}
  MaxFrags = 2
  Shared = {2}
  MaxOps = 3
  MaxOther = 2
  MaxFaults = 1
PROPERTY StrainsAlwaysKept
