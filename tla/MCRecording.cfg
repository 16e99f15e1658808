CONSTANTS
  CallIds = {c1, c2}
  Ports = {5, 6}
  Inputs = {i1, i2, i3}
  ApiCalls = {"auto"}
  AutoAtStart = TRUE
  MaxId = 2
SPECIFICATION FairSpec
INVARIANTS
  TypeOK
  BindingsLive
  PortsAgree
  CallsRecorded
PROPERTIES
  AudioDelivered
CHECK_DEADLOCK FALSE
