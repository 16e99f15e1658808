CONSTANTS
  Slots = {s1}
  Users = {u1}
  NoUser = NoUser
  Junk = Junk
  NoSlot = NoSlot
  NoMsg = NoMsg
  Kinds = {"REGISTER", "REGISTERED"}
  Agents = {TRUE}
  MaxMsgs = 3
SPECIFICATION FairSpec
PROPERTIES
  ExpiredIsReported
CHECK_DEADLOCK FALSE
