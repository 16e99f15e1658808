CONSTANTS
  Slots = {s1, s2}
  CallIds = {c1, c2}
  Users = {u1}
  Medias = {m1}
  NoCall = NoCall
  NoUser = NoUser
  NoMedia = NoMedia
  NoSlot = NoSlot
  MaxMsgs = 2
SPECIFICATION FairSpec
INVARIANTS
  LinksCounted
PROPERTIES
  ImplementsBook
  SettledInTheEnd
