CONSTANTS
  Slots = {s1, s2}
  Users = {u1, u2}
  NoUser = NoUser
  Junk = Junk
  NoSlot = NoSlot
  NoMsg = NoMsg
  Kinds = {"REGISTER", "REGISTERED", "UNREGISTERED", "NOTIFIED", "INVITE"}
  Agents = {TRUE, FALSE}
  MaxMsgs = 4
SPECIFICATION Spec
SYMMETRY Symmetry
INVARIANTS
  TypeOK
  HeldEntriesKept
  TableSound
PROPERTIES
  ImplementsBook
CHECK_DEADLOCK FALSE
