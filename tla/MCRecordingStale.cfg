CONSTANTS
  CallIds = {c1}
  Ports = {5}
  Inputs = {i1, i2}
  ApiCalls = {"auto"}
  AutoAtStart = FALSE
  MaxId = 2
SPECIFICATION Spec
INVARIANTS
  EndedStreamsDeleted
CHECK_DEADLOCK FALSE
