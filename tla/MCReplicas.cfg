SPECIFICATION MCSpec
CONSTANTS
  rep1 = rep1
  rep2 = rep2
  Members = {o, rep1, rep2}
  Owner = o
  Units = {rep1}
  Topologies = {{srv}, {o, rep1, rep2}}
  Server = srv
  Added = 2
  MaxEpoch = 4
  MaxKey = 2
  MaxWrites = 1
  MaxSyncs = 2
INVARIANTS
  Reopens
  OneChain
  PeersAgree
  OpensAsStamped
  VersionsKept
  TransferExact
PROPERTIES
  NoDowngrade
CHECK_DEADLOCK FALSE
