CONSTANTS
  CallIds = {c1}
  Ports = {5}
  Inputs = {i1, i2, i3}
  ApiCalls = {"monitor", "end monitor"}
  AutoAtStart = FALSE
  MaxId = 2
SPECIFICATION Spec
INVARIANT BindingsLive
CHECK_DEADLOCK FALSE
