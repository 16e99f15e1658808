CONSTANTS
  Producers = {p1, p2}
  Detached = {p2}
  ApiInCallback = TRUE
  MaxEvents = 4
  MaxOpens = 3
SPECIFICATION Spec
INVARIANTS
  TypeOK
  InOrder
  NoLostWakeup
  ClosedIsQuiet
CHECK_DEADLOCK FALSE
