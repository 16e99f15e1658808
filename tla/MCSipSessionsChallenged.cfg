CONSTANTS
  Slots = {s1}
  CallIds = {c1}
  Users = {}
  Medias = {m1}
  NoCall = NoCall
  NoUser = NoUser
  NoMedia = NoMedia
  NoSlot = NoSlot
  MaxMsgs = 5
SPECIFICATION Spec
INVARIANT ConnectedCallHeard
CHECK_DEADLOCK FALSE
