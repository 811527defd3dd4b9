SPECIFICATION Spec
CONSTANTS
  Units = {u1, u2}
  MaxAddr = 20
  MaxOps = 6
INVARIANT HeadsAlwaysIntact
CHECK_DEADLOCK FALSE
