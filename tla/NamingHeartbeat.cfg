\* Ticks of a quarter of a second: a heartbeat every 8, rows that live for 20, and one tick of delay.
SPECIFICATION FairSpec
CONSTANTS
  Server = {s}
  Selector = {}
  Interval = 8
  Live = 20
  Slack = 1
  MaxDelay = 0
  MaxRows = 2
INVARIANTS
  RegisteredIsAlive
PROPERTIES
  DeregisteredFades
CHECK_DEADLOCK FALSE
