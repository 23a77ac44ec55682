\* Two callers, two targets; a timeout of nothing and one above the cap.
SPECIFICATION FairSpec
CONSTANTS
  Caller = {g1, g2}
  Target = {A, B}
  NoTarget = NoTarget
  Timeout = {0, 2}
  MaxTimeout = 1
  MaxChanges = 2
  MaxClients = 2
INVARIANTS
  TypeOK
  Lifecycle
  GracePeriod
  ServesCurrentTarget
PROPERTIES
  ReplacedIsClosed
CHECK_DEADLOCK FALSE
