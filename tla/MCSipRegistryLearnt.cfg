CONSTANTS
  Slots = {s1}
  Users = {u1}
  NoUser = NoUser
  Junk = Junk
  NoSlot = NoSlot
  NoMsg = NoMsg
  Kinds = {"REGISTER", "REGISTERED"}
  Agents = {TRUE, FALSE}
  MaxMsgs = 3
SPECIFICATION Spec
INVARIANTS
  RegisteredIsReported
CHECK_DEADLOCK FALSE
