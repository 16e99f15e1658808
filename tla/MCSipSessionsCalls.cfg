CONSTANTS
  Slots = {s1, s2}
  CallIds = {c1, c2}
  Users = {}
  Medias = {m1, m2}
  NoCall = NoCall
  NoUser = NoUser
  NoMedia = NoMedia
  NoSlot = NoSlot
  MaxMsgs = 3
SPECIFICATION Spec
SYMMETRY Symmetry
INVARIANTS
  TypeOK
  HeldSlotsKept
  OneSlotPerCall
  CallEventsAlternate
  NoOrphanCall
  RecorderFollowsMedia
PROPERTIES
  ImplementsManager
CHECK_DEADLOCK FALSE
