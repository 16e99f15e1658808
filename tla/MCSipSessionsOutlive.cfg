CONSTANTS
  Slots = {s1}
  CallIds = {c1}
  Users = {}
  Medias = {m1}
  NoCall = NoCall
  NoUser = NoUser
  NoMedia = NoMedia
  NoSlot = NoSlot
  MaxMsgs = 3
SPECIFICATION Spec
INVARIANT NoSessionOutlivesSlot
CHECK_DEADLOCK FALSE
