\* Two selectors race over the cache; a server with two rows, a heartbeat every tick, rows that live for two.
SPECIFICATION Spec
CONSTANTS
  Server = {s}
  Selector = {g, h}
  Interval = 1
  Live = 2
  Slack = 0
  MaxDelay = 1
  MaxRows = 2
SYMMETRY MCSymmetry
INVARIANTS
  TypeOK
  CopiesAreHonest
PROPERTIES
  FreshSelect
CHECK_DEADLOCK FALSE
