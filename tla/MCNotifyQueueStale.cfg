CONSTANTS
  Producers = {p1}
  Detached = {}
  ApiInCallback = FALSE
  MaxEvents = 2
  MaxOpens = 2
SPECIFICATION Spec
INVARIANT NotifiedWhileOpen
CHECK_DEADLOCK FALSE
