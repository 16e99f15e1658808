CONSTANTS
  Slots = {s1}
  Users = {u1}
  NoUser = NoUser
  Junk = Junk
  NoSlot = NoSlot
  NoMsg = NoMsg
  Kinds = {"REGISTER", "REGISTERED", "UNREGISTERED", "NOTIFIED", "INVITE"}
  Agents = {TRUE}
  MaxMsgs = 3
SPECIFICATION Spec
INVARIANTS
  NewReportedOnce
CHECK_DEADLOCK FALSE
