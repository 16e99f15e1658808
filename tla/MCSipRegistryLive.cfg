CONSTANTS
  Slots = {s1}
  Users = {u1, u2}
  NoUser = NoUser
  Junk = Junk
  NoSlot = NoSlot
  NoMsg = NoMsg
  Kinds = {"REGISTER", "REGISTERED", "UNREGISTERED", "NOTIFIED", "INVITE"}
  Agents = {TRUE}
  MaxMsgs = 3
SPECIFICATION FairSpec
PROPERTIES
  UnregisteredLeaves
CHECK_DEADLOCK FALSE
