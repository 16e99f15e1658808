CONSTANTS
  Users = {u1, u2}
  Phones = {u1, u2}
  Addrs = {a1, a2, pbx}
  PBX = pbx
  Objs = {o1, o2, o3}
  NoObj = NoObj
  NoAddr = NoAddr
  NoUser = NoUser
  NoThread = NoThread
  MaxDepth = 1
SPECIFICATION FairSpec
INVARIANTS
  TypeOK
  ContainersSound
  CountExact
  UseLive
PROPERTIES
  ApiReturns
CHECK_DEADLOCK FALSE
