CONSTANTS
  Users = {u1}
  Phones = {u1}
  Addrs = {a1, pbx}
  PBX = pbx
  Objs = {o1}
  NoObj = NoObj
  NoAddr = NoAddr
  NoUser = NoUser
  NoThread = NoThread
  MaxDepth = 1
SPECIFICATION Spec
INVARIANT AllReleased
CHECK_DEADLOCK FALSE
