\* The target changes to B and back to A around a refresh.
SPECIFICATION Spec
CONSTANTS
  Caller = {g1}
  Target = {A, B}
  NoTarget = NoTarget
  Timeout = {1}
  MaxTimeout = 2
  MaxChanges = 2
  MaxClients = 3
SYMMETRY MCSymmetry
INVARIANTS
  FollowsConfig
CHECK_DEADLOCK FALSE
