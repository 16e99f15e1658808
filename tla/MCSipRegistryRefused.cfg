CONSTANTS
  Slots = {s1}
  Users = {u1}
  NoUser = NoUser
  Junk = Junk
  NoSlot = NoSlot
  NoMsg = NoMsg
  Kinds = {"REGISTERED", "INVITE"}
  Agents = {TRUE}
  MaxMsgs = 4
SPECIFICATION Spec
INVARIANTS
  RegisteredIsReported
CHECK_DEADLOCK FALSE
