------------------------- MODULE TerminalManagerProofs -------------------------
(***************************************************************************)
(* Proofs about TerminalManager for any phones, addresses and number of    *)
(* terminals: its types, that its containers agree, that counts are exact  *)
(* and that neither the application nor a call event works on a deleted    *)
(* terminal.                                                               *)
(***************************************************************************)
EXTENDS TerminalManager, SequenceTheorems, TLAPS

Releasing == {"drop", "dec", "last"}

\* Where each thread can be.
PcOK ==
  /\ pc["cap"] \in {"idle", "packet", "register", "create", "status", "event", "ended"}
  /\ pc["rgl"] \in {"idle", "event", "erase"} \cup Releasing
  /\ pc["api"] \in {"idle", "get", "use", "stop", "loop", "ended"} \cup Releasing
  /\ pc["cap"] = "ended" <=> phase # "open"
  /\ pc["api"] \in {"get", "use", "stop", "idle"} => phase = "open"
  /\ pc["api"] \in {"loop", "ended"} => phase # "open"

\* Who owns the locks.
LockOK ==
  /\ pc["cap"] \in {"create", "status", "event"} => locker = "cap"
  /\ pc["rgl"] \in {"erase", "event"} \cup Releasing => locker = "rgl"
  /\ pc["rgl"] \in Releasing <=> cs.owner = "rgl"

\* What a thread works on.
HandOK ==
  /\ pc["cap"] \in {"packet", "status", "event"} => hand["cap"] \in Objs
  /\ pc["cap"] \in {"register", "create"} => who["cap"] \in Users
  /\ pc["cap"] = "create" => known[who["cap"]] \in Addrs
  /\ pc["rgl"] \in {"event"} \cup Releasing => hand["rgl"] \in Objs
  /\ pc["rgl"] \in {"erase"} \cup Releasing =>
       who["rgl"] \in Users /\ known[who["rgl"]] \in Addrs
  /\ pc["rgl"] \in Releasing =>
       who["rgl"] \in Phones /\ byId[who["rgl"]] = NoObj /\ mem[hand["rgl"]] # "new"
  /\ pc["api"] = "get" => who["api"] \in Phones
  /\ pc["api"] \in {"use"} \cup Releasing =>
       hand["api"] \in Objs /\ mem[hand["api"]] # "new"

\* A terminal belongs to one phone, and was made.
MapOK ==
  /\ \A u \in Phones : byId[u] # NoObj => mem[byId[u]] # "new"
  /\ \A u, v \in Phones : byId[u] = byId[v] /\ byId[u] # NoObj => u = v

Mapped(o) == \E u \in Phones : byId[u] = o

\* A call event works on a terminal in the maps, which m_xLocker keeps there;
\* a terminal the reglament thread releases has left the maps.
EventOK ==
  phase = "open" =>
    /\ \A t \in {"cap", "rgl"} : pc[t] \in {"event", "status"} => Mapped(hand[t])
    /\ pc["rgl"] \in Releasing => ~ Mapped(hand["rgl"])

\* What a thread has read of the count of a terminal in the maps, and what is
\* left of the count of a terminal that both threads hold.
CountOK ==
  phase = "open" =>
    /\ pc["api"] \in {"dec", "last"} /\ Mapped(hand["api"]) => val["api"] = 2
    /\ pc["rgl"] \in Releasing /\ Holds(hand["rgl"]) =>
         /\ pc["rgl"] # "drop" => val["rgl"] = 2
         /\ refs[hand["rgl"]] = IF pc["rgl"] = "last" THEN 1 ELSE 2

IInv ==
  /\ TypeOK /\ PcOK /\ LockOK /\ HandOK /\ MapOK /\ DevicesAgree
  /\ MapsLive /\ CountExact /\ ApiUseLive /\ EventOK /\ CountOK

USE TerminalAssumption DEF Threads

\* What std::vector::erase does to the devices: one element goes, the others
\* stay, each once.
LEMMA EraseOne ==
  ASSUME NEW s \in Seq(Objs), NEW k \in DOMAIN s, IsInjective(s)
  PROVE  /\ RemoveAt(s, k) \in Seq(Objs)
         /\ IsInjective(RemoveAt(s, k))
         /\ ToSet(RemoveAt(s, k)) = ToSet(s) \ {s[k]}
<1> DEFINE r == RemoveAt(s, k)
<1>1. Len(s) \in Nat /\ DOMAIN s = 1 .. Len(s) /\ k \in 1 .. Len(s)
  BY LenProperties
<1>2. /\ SubSeq(s, 1, k - 1) \in Seq(Objs) /\ Len(SubSeq(s, 1, k - 1)) = k - 1
      /\ \A i \in 1 .. k - 1 : SubSeq(s, 1, k - 1)[i] = s[i]
  BY <1>1
<1>3. /\ SubSeq(s, k + 1, Len(s)) \in Seq(Objs)
      /\ Len(SubSeq(s, k + 1, Len(s))) = Len(s) - k
      /\ \A i \in 1 .. Len(s) - k : SubSeq(s, k + 1, Len(s))[i] = s[i + k]
  BY <1>1
<1> DEFINE front == SubSeq(s, 1, k - 1)
           back == SubSeq(s, k + 1, Len(s))
<1>a. r = front \o back
  BY DEF RemoveAt
<1>b. front \in Seq(Objs) /\ back \in Seq(Objs)
      /\ Len(front) = k - 1 /\ Len(back) = Len(s) - k
  BY <1>2, <1>3
<1> HIDE DEF front, back, r
<1>c. /\ front \o back \in Seq(Objs) /\ Len(front \o back) = Len(front) + Len(back)
      /\ \A i \in 1 .. Len(front) + Len(back) :
           (front \o back)[i] = IF i <= Len(front) THEN front[i] ELSE back[i - Len(front)]
  BY <1>b, ConcatProperties
<1>4. r \in Seq(Objs) /\ Len(r) = Len(s) - 1
  BY <1>1, <1>a, <1>b, <1>c
<1>5. \A i \in 1 .. Len(s) - 1 : r[i] = IF i < k THEN s[i] ELSE s[i + 1]
  <2>1. ASSUME NEW i \in 1 .. Len(s) - 1, i < k PROVE r[i] = s[i]
    BY <1>1, <1>2, <1>a, <1>b, <1>c, <2>1 DEF front
  <2>2. ASSUME NEW i \in 1 .. Len(s) - 1, ~ (i < k) PROVE r[i] = s[i + 1]
    <3>1. r[i] = back[i - (k - 1)]
      BY <1>1, <1>a, <1>b, <1>c, <2>2, SMTT(30)
    <3>2. i - (k - 1) \in 1 .. Len(s) - k /\ i - (k - 1) + k = i + 1
      BY <1>1, <2>2
    <3> QED BY <1>3, <3>1, <3>2 DEF back
  <2> QED BY <2>1, <2>2
<1>6. DOMAIN r = 1 .. Len(s) - 1
  BY <1>4, LenProperties
<1>7. IsInjective(r)
  BY <1>1, <1>5, <1>6, SMTT(30) DEF IsInjective
<1>8. ASSUME NEW x \in ToSet(r) PROVE x \in ToSet(s) \ {s[k]}
  BY <1>1, <1>5, <1>6, <1>8 DEF ToSet, IsInjective
<1>9. ASSUME NEW x \in ToSet(s) \ {s[k]} PROVE x \in ToSet(r)
  <2>1. PICK i \in 1 .. Len(s) : s[i] = x /\ i # k
    BY <1>1, <1>9 DEF ToSet
  <2>2. CASE i < k
    BY <1>1, <1>5, <1>6, <2>1, <2>2 DEF ToSet
  <2>3. CASE i > k
    <3>1. i - 1 \in 1 .. Len(s) - 1 /\ r[i - 1] = x
      BY <1>1, <1>5, <2>1, <2>3
    <3> QED BY <1>6, <3>1 DEF ToSet
  <2> QED BY <1>1, <2>1, <2>2, <2>3
<1> QED BY <1>4, <1>7, <1>8, <1>9 DEF r

\* EraseDevice takes its terminal from the devices.
LEMMA Erased ==
  ASSUME NEW o \in Objs, devices \in Seq(Objs), IsInjective(devices), EraseDevice(o)
  PROVE  devices' \in Seq(Objs) /\ IsInjective(devices') /\ ToSet(devices') = ToSet(devices) \ {o}
<1>1. CASE o \in ToSet(devices)
  <2> DEFINE k == CHOOSE i \in DOMAIN devices : devices[i] = o
  <2>1. k \in DOMAIN devices /\ devices[k] = o
    BY <1>1 DEF ToSet
  <2>2. devices' = RemoveAt(devices, k)
    BY <1>1 DEF EraseDevice
  <2> HIDE DEF k
  <2> QED BY <2>1, <2>2, EraseOne
<1>2. CASE o \notin ToSet(devices)
  BY <1>2 DEF EraseDevice
<1> QED BY <1>1, <1>2

\* Types.
LEMMA TypeNext ==
  ASSUME IInv, [Next]_vars
  PROVE  TypeOK'
<1> USE DEF TypeOK, IInv, mapVars, memVars, lockVars
<1>1. CASE PacketDone
  BY <1>1 DEF PacketDone, Goto
<1>2. ASSUME NEW a \in Addrs, RegisterLocked(a) PROVE TypeOK'
  BY <1>2 DEF RegisterLocked, Goto
<1>3. CASE CreateNone
  BY <1>3 DEF CreateNone, Return, Goto, MayEnter
<1>4. CASE CreateKnown
  BY <1>4, SMTT(30) DEF CreateKnown, Return, Goto, MayEnter
<1>5. ASSUME NEW o \in Fresh, Create(o) PROVE TypeOK'
  <2>1. who["cap"] \in Users /\ known[who["cap"]] \in Addrs /\ who["cap"] \in Phones /\ o \in Objs
    BY <1>5 DEF Create, Goto, HandOK, Fresh
  <2>2. devices' \in Seq(Objs)
    BY <1>5, <2>1, AppendProperties DEF Create
  <2>3. /\ byId' \in [Phones -> Objs \cup {NoObj}] /\ byIp' \in [Addrs -> Objs \cup {NoObj}]
        /\ mem' \in [Objs -> {"new", "live", "gone"}] /\ refs' \in [Objs -> Int]
        /\ hand' \in [Threads -> Objs \cup {NoObj}]
    BY <1>5, <2>1 DEF Create
  <2> QED BY <1>5, <2>2, <2>3 DEF Create, Goto
<1>6. CASE Status
  BY <1>6 DEF Status, Return, Goto
<1>7. ASSUME NEW t \in {"cap", "rgl"}, CallEventDone(t) PROVE TypeOK'
  BY <1>7 DEF CallEventDone, Return, Goto
<1>8. CASE EraseNone
  BY <1>8 DEF EraseNone, Return, Goto, Free
<1>9. CASE Erase
  <2>1. who["rgl"] \in Users /\ known[who["rgl"]] \in Addrs /\ byId[who["rgl"]] \in Objs
    BY <1>9 DEF Erase, Goto, HandOK
  <2>2. devices' \in Seq(Objs)
    BY <1>9, <2>1, Erased DEF Erase, EraseFrom, DevicesAgree
  <2>3. /\ byId' \in [Phones -> Objs \cup {NoObj}] /\ byIp' \in [Addrs -> Objs \cup {NoObj}]
        /\ hand' \in [Threads -> Objs \cup {NoObj}]
    BY <1>9, <2>1 DEF Erase, EraseFrom
  <2>4. cs' \in [owner : {"cap", "rgl", NoThread}, depth : Nat]
        /\ (cs'.owner = NoThread <=> cs'.depth = 0)
    BY <1>9 DEF Erase
  <2> QED BY <1>9, <2>2, <2>3, <2>4 DEF Erase, Goto
<1>10. CASE EraseDone
  <2>1. hand["rgl"] \in Objs /\ who["rgl"] \in Users
    BY <1>10 DEF EraseDone, Return, Goto, HandOK, Releasing
  <2>2. mem' \in [Objs -> {"new", "live", "gone"}] /\ val' \in [Threads -> Int]
    BY <1>10, <2>1 DEF EraseDone, Delete
  <2>3. known' \in [Users -> Addrs \cup {NoAddr}] /\ hand' \in [Threads -> Objs \cup {NoObj}]
        /\ who' \in [Threads -> Users \cup {NoUser}]
    BY <1>10, <2>1 DEF EraseDone, Return
  <2> QED BY <1>10, <2>2, <2>3 DEF EraseDone, Return, Goto, Free
<1>11. ASSUME NEW t \in {"rgl", "api"}, Load(t) PROVE TypeOK'
  <2>1. hand[t] \in Objs
    BY <1>11 DEF Load, Goto, HandOK, Releasing
  <2>2. val' \in [Threads -> Int]
    BY <1>11, <2>1 DEF Load
  <2> QED BY <1>11, <2>2 DEF Load, Goto
<1>12. ASSUME NEW t \in {"rgl", "api"}, Store(t) PROVE TypeOK'
  <2>1. hand[t] \in Objs
    BY <1>12 DEF Store, Goto, HandOK, Releasing
  <2>2. refs' \in [Objs -> Int]
    BY <1>12, <2>1 DEF Store
  <2> QED BY <1>12, <2>2 DEF Store, Goto
<1>13. CASE GetNone
  BY <1>13 DEF GetNone, Goto
<1>14. CASE Get
  <2>1. who["api"] \in Phones /\ byId[who["api"]] \in Objs
    BY <1>14 DEF Get, Goto, HandOK
  <2>2. refs' \in [Objs -> Int] /\ hand' \in [Threads -> Objs \cup {NoObj}]
    BY <1>14, <2>1 DEF Get
  <2> QED BY <1>14, <2>2 DEF Get, Goto
<1>15. CASE Use
  BY <1>15 DEF Use, Goto
<1>16. CASE CallDone
  <2>1. hand["api"] \in Objs
    BY <1>16 DEF CallDone, Goto, HandOK, Releasing
  <2>2. mem' \in [Objs -> {"new", "live", "gone"}] /\ val' \in [Threads -> Int]
    BY <1>16, <2>1 DEF CallDone, Delete
  <2> QED BY <1>16, <2>2 DEF CallDone, Goto
<1>17. CASE CaptureEnded
  BY <1>17 DEF CaptureEnded
<1>18. CASE CloseNext
  BY <1>18 DEF CloseNext, Goto
<1>19. CASE CloseReleased
  <2>1. hand["api"] \in Objs
    BY <1>19 DEF CloseReleased, Goto, HandOK, Releasing
  <2>2. mem' \in [Objs -> {"new", "live", "gone"}] /\ val' \in [Threads -> Int]
    BY <1>19, <2>1 DEF CloseReleased, Delete
  <2> QED BY <1>19, <2>2 DEF CloseReleased, Goto
<1>20. CASE Closed
  BY <1>20 DEF Closed, Goto
<1>21. ASSUME NEW a \in Addrs, Packet(a) PROVE TypeOK'
  BY <1>21 DEF Packet, Goto
<1>22. ASSUME NEW u \in Users, Register(u) PROVE TypeOK'
  BY <1>22 DEF Register, Goto
<1>23. ASSUME NEW t \in {"cap", "rgl"}, NEW from \in Addrs, NEW to \in Addrs, CallEvent(t, from, to) PROVE TypeOK'
  BY <1>23 DEF CallEvent, Goto
<1>24. ASSUME NEW u \in Users, EndRegister(u) PROVE TypeOK'
  BY <1>24 DEF EndRegister, Goto
<1>25. ASSUME NEW u \in Users, Call(u) PROVE TypeOK'
  BY <1>25 DEF Call, Goto
<1>26. CASE Close
  BY <1>26 DEF Close, Goto
<1>27. CASE UNCHANGED vars
  BY <1>27 DEF vars
<1> QED BY <1>1, <1>2, <1>3, <1>4, <1>5, <1>6, <1>7, <1>8, <1>9, <1>10, <1>11, <1>12, <1>13, <1>14, <1>15, <1>16, <1>17, <1>18, <1>19, <1>20, <1>21, <1>22, <1>23, <1>24, <1>25, <1>26, <1>27
     DEF Next, CaptureStep, ReglamentStep, ApiStep, Input

\* Where each thread can be.
LEMMA PcNext ==
  ASSUME IInv, [Next]_vars
  PROVE  PcOK'
<1> USE DEF PcOK, IInv, TypeOK, Releasing
<1>1. CASE PacketDone
  BY <1>1 DEF PacketDone, Goto
<1>2. ASSUME NEW a \in Addrs, RegisterLocked(a) PROVE PcOK'
  BY <1>2 DEF RegisterLocked, Goto
<1>3. CASE CreateNone
  BY <1>3 DEF CreateNone, Return, Goto, MayEnter
<1>4. CASE CreateKnown
  BY <1>4 DEF CreateKnown, Return, Goto, MayEnter
<1>5. ASSUME NEW o \in Fresh, Create(o) PROVE PcOK'
  BY <1>5 DEF Create, Goto, MayEnter, Fresh
<1>6. CASE Status
  BY <1>6 DEF Status, Return, Goto
<1>7. ASSUME NEW t \in {"cap", "rgl"}, CallEventDone(t) PROVE PcOK'
  BY <1>7 DEF CallEventDone, Return, Goto
<1>8. CASE EraseNone
  BY <1>8 DEF EraseNone, Return, Goto, Free
<1>9. CASE Erase
  BY <1>9 DEF Erase, Goto, EraseFrom, Free
<1>10. CASE EraseDone
  BY <1>10 DEF EraseDone, Return, Goto, Delete, Free
<1>11. ASSUME NEW t \in {"rgl", "api"}, Load(t) PROVE PcOK'
  BY <1>11 DEF Load, Goto
<1>12. ASSUME NEW t \in {"rgl", "api"}, Store(t) PROVE PcOK'
  BY <1>12 DEF Store, Goto
<1>13. CASE GetNone
  BY <1>13 DEF GetNone, Goto
<1>14. CASE Get
  BY <1>14 DEF Get, Goto, Free
<1>15. CASE Use
  BY <1>15 DEF Use, Goto
<1>16. CASE CallDone
  BY <1>16 DEF CallDone, Goto, Delete
<1>17. CASE CaptureEnded
  BY <1>17 DEF CaptureEnded
<1>18. CASE CloseNext
  BY <1>18 DEF CloseNext, Goto
<1>19. CASE CloseReleased
  BY <1>19 DEF CloseReleased, Goto, Delete
<1>20. CASE Closed
  BY <1>20 DEF Closed, Goto
<1>21. ASSUME NEW a \in Addrs, Packet(a) PROVE PcOK'
  BY <1>21 DEF Packet, Goto
<1>22. ASSUME NEW u \in Users, Register(u) PROVE PcOK'
  BY <1>22 DEF Register, Goto
<1>23. ASSUME NEW t \in {"cap", "rgl"}, NEW from \in Addrs, NEW to \in Addrs, CallEvent(t, from, to) PROVE PcOK'
  BY <1>23 DEF CallEvent, Goto
<1>24. ASSUME NEW u \in Users, EndRegister(u) PROVE PcOK'
  BY <1>24 DEF EndRegister, Goto
<1>25. ASSUME NEW u \in Users, Call(u) PROVE PcOK'
  BY <1>25 DEF Call, Goto
<1>26. CASE Close
  BY <1>26 DEF Close, Goto
<1>27. CASE UNCHANGED vars
  BY <1>27 DEF vars
<1> QED BY <1>1, <1>2, <1>3, <1>4, <1>5, <1>6, <1>7, <1>8, <1>9, <1>10, <1>11, <1>12, <1>13, <1>14, <1>15, <1>16, <1>17, <1>18, <1>19, <1>20, <1>21, <1>22, <1>23, <1>24, <1>25, <1>26, <1>27
     DEF Next, CaptureStep, ReglamentStep, ApiStep, Input

\* Who owns the locks.
LEMMA LockNext ==
  ASSUME IInv, [Next]_vars
  PROVE  LockOK'
<1> USE DEF LockOK, IInv, TypeOK, PcOK, Releasing, lockVars
<1>1. CASE PacketDone
  BY <1>1 DEF PacketDone, Goto
<1>2. ASSUME NEW a \in Addrs, RegisterLocked(a) PROVE LockOK'
  BY <1>2 DEF RegisterLocked, Goto
<1>3. CASE CreateNone
  BY <1>3 DEF CreateNone, Return, Goto, MayEnter
<1>4. CASE CreateKnown
  BY <1>4 DEF CreateKnown, Return, Goto, MayEnter
<1>5. ASSUME NEW o \in Fresh, Create(o) PROVE LockOK'
  BY <1>5 DEF Create, Goto, MayEnter, Fresh
<1>6. CASE Status
  BY <1>6 DEF Status, Return, Goto
<1>7. ASSUME NEW t \in {"cap", "rgl"}, CallEventDone(t) PROVE LockOK'
  BY <1>7 DEF CallEventDone, Return, Goto
<1>8. CASE EraseNone
  BY <1>8 DEF EraseNone, Return, Goto, Free
<1>9. CASE Erase
  BY <1>9 DEF Erase, Goto, EraseFrom, Free
<1>10. CASE EraseDone
  BY <1>10 DEF EraseDone, Return, Goto, Delete, Free
<1>11. ASSUME NEW t \in {"rgl", "api"}, Load(t) PROVE LockOK'
  BY <1>11 DEF Load, Goto
<1>12. ASSUME NEW t \in {"rgl", "api"}, Store(t) PROVE LockOK'
  BY <1>12 DEF Store, Goto
<1>13. CASE GetNone
  BY <1>13 DEF GetNone, Goto
<1>14. CASE Get
  BY <1>14 DEF Get, Goto, Free
<1>15. CASE Use
  BY <1>15 DEF Use, Goto
<1>16. CASE CallDone
  BY <1>16 DEF CallDone, Goto, Delete
<1>17. CASE CaptureEnded
  BY <1>17 DEF CaptureEnded
<1>18. CASE CloseNext
  BY <1>18 DEF CloseNext, Goto
<1>19. CASE CloseReleased
  BY <1>19 DEF CloseReleased, Goto, Delete
<1>20. CASE Closed
  BY <1>20 DEF Closed, Goto
<1>21. ASSUME NEW a \in Addrs, Packet(a) PROVE LockOK'
  BY <1>21 DEF Packet, Goto
<1>22. ASSUME NEW u \in Users, Register(u) PROVE LockOK'
  BY <1>22 DEF Register, Goto
<1>23. ASSUME NEW t \in {"cap", "rgl"}, NEW from \in Addrs, NEW to \in Addrs, CallEvent(t, from, to) PROVE LockOK'
  BY <1>23 DEF CallEvent, Goto
<1>24. ASSUME NEW u \in Users, EndRegister(u) PROVE LockOK'
  BY <1>24 DEF EndRegister, Goto
<1>25. ASSUME NEW u \in Users, Call(u) PROVE LockOK'
  BY <1>25 DEF Call, Goto
<1>26. CASE Close
  BY <1>26 DEF Close, Goto
<1>27. CASE UNCHANGED vars
  BY <1>27 DEF vars
<1> QED BY <1>1, <1>2, <1>3, <1>4, <1>5, <1>6, <1>7, <1>8, <1>9, <1>10, <1>11, <1>12, <1>13, <1>14, <1>15, <1>16, <1>17, <1>18, <1>19, <1>20, <1>21, <1>22, <1>23, <1>24, <1>25, <1>26, <1>27
     DEF Next, CaptureStep, ReglamentStep, ApiStep, Input

\* What a thread works on.
LEMMA HandNext ==
  ASSUME IInv, [Next]_vars
  PROVE  HandOK'
<1> USE DEF HandOK, mapVars, memVars, lockVars, IInv, TypeOK, PcOK, LockOK, Releasing
<1>1. CASE PacketDone
  BY <1>1 DEF PacketDone, Goto
<1>2. ASSUME NEW a \in Addrs, RegisterLocked(a) PROVE HandOK'
  BY <1>2 DEF RegisterLocked, Goto
<1>3. CASE CreateNone
  BY <1>3 DEF CreateNone, Return, Goto, MayEnter
<1>4. CASE CreateKnown
  BY <1>4 DEF CreateKnown, Return, Goto, MayEnter
<1>5. ASSUME NEW o \in Fresh, Create(o) PROVE HandOK'
  BY <1>5 DEF Create, Goto, MayEnter, Fresh
<1>6. CASE Status
  BY <1>6 DEF Status, Return, Goto
<1>7. ASSUME NEW t \in {"cap", "rgl"}, CallEventDone(t) PROVE HandOK'
  BY <1>7 DEF CallEventDone, Return, Goto
<1>8. CASE EraseNone
  BY <1>8 DEF EraseNone, Return, Goto, Free
<1>9. CASE Erase
  <2>1. byId[who["rgl"]] \in Objs /\ mem[byId[who["rgl"]]] # "new"
    BY <1>9 DEF Erase, Goto, MapOK
  <2> QED BY <1>9, <2>1 DEF Erase, Goto, EraseFrom, Free
<1>10. CASE EraseDone
  BY <1>10 DEF EraseDone, Return, Goto, Delete, Free
<1>11. ASSUME NEW t \in {"rgl", "api"}, Load(t) PROVE HandOK'
  BY <1>11 DEF Load, Goto
<1>12. ASSUME NEW t \in {"rgl", "api"}, Store(t) PROVE HandOK'
  BY <1>12 DEF Store, Goto
<1>13. CASE GetNone
  BY <1>13 DEF GetNone, Goto
<1>14. CASE Get
  <2>1. byId[who["api"]] \in Objs /\ mem[byId[who["api"]]] # "new"
    BY <1>14 DEF Get, Goto, MapOK
  <2> QED BY <1>14, <2>1 DEF Get, Goto
<1>15. CASE Use
  BY <1>15 DEF Use, Goto
<1>16. CASE CallDone
  BY <1>16 DEF CallDone, Goto, Delete
<1>17. CASE CaptureEnded
  BY <1>17 DEF CaptureEnded
<1>18. CASE CloseNext
  <2>1. ci \in DOMAIN devices /\ devices[ci] \in Objs
    BY <1>18, LenProperties, ElementOfSeq DEF CloseNext
  <2>2. devices[ci] \in {byId[u] : u \in Phones} \ {NoObj}
    BY <2>1 DEF DevicesAgree, ToSet
  <2>3. mem[devices[ci]] # "new"
    BY <2>2 DEF MapOK
  <2> QED BY <1>18, <2>1, <2>3 DEF CloseNext, Goto
<1>19. CASE CloseReleased
  BY <1>19 DEF CloseReleased, Goto, Delete
<1>20. CASE Closed
  BY <1>20 DEF Closed, Goto
<1>21. ASSUME NEW a \in Addrs, Packet(a) PROVE HandOK'
  BY <1>21 DEF Packet, Goto
<1>22. ASSUME NEW u \in Users, Register(u) PROVE HandOK'
  BY <1>22 DEF Register, Goto
<1>23. ASSUME NEW t \in {"cap", "rgl"}, NEW from \in Addrs, NEW to \in Addrs, CallEvent(t, from, to) PROVE HandOK'
  BY <1>23 DEF CallEvent, Goto
<1>24. ASSUME NEW u \in Users, EndRegister(u) PROVE HandOK'
  BY <1>24 DEF EndRegister, Goto
<1>25. ASSUME NEW u \in Users, Call(u) PROVE HandOK'
  BY <1>25 DEF Call, Goto
<1>26. CASE Close
  BY <1>26 DEF Close, Goto
<1>27. CASE UNCHANGED vars
  BY <1>27 DEF vars
<1> QED BY <1>1, <1>2, <1>3, <1>4, <1>5, <1>6, <1>7, <1>8, <1>9, <1>10, <1>11, <1>12, <1>13, <1>14, <1>15, <1>16, <1>17, <1>18, <1>19, <1>20, <1>21, <1>22, <1>23, <1>24, <1>25, <1>26, <1>27
     DEF Next, CaptureStep, ReglamentStep, ApiStep, Input

\* A terminal belongs to one phone.
LEMMA MapNext ==
  ASSUME IInv, [Next]_vars
  PROVE  MapOK'
<1> USE DEF MapOK, mapVars, memVars, lockVars, IInv, TypeOK, PcOK, LockOK, HandOK, Releasing
<1>1. CASE PacketDone
  BY <1>1 DEF PacketDone, Goto
<1>2. ASSUME NEW a \in Addrs, RegisterLocked(a) PROVE MapOK'
  BY <1>2 DEF RegisterLocked, Goto
<1>3. CASE CreateNone
  BY <1>3 DEF CreateNone, Return, Goto, MayEnter
<1>4. CASE CreateKnown
  BY <1>4 DEF CreateKnown, Return, Goto, MayEnter
<1>5. ASSUME NEW o \in Fresh, Create(o) PROVE MapOK'
  BY <1>5 DEF Create, Goto, MayEnter, Fresh
<1>6. CASE Status
  BY <1>6 DEF Status, Return, Goto
<1>7. ASSUME NEW t \in {"cap", "rgl"}, CallEventDone(t) PROVE MapOK'
  BY <1>7 DEF CallEventDone, Return, Goto
<1>8. CASE EraseNone
  BY <1>8 DEF EraseNone, Return, Goto, Free
<1>9. CASE Erase
  BY <1>9 DEF Erase, Goto, EraseFrom, Free
<1>10. CASE EraseDone
  BY <1>10 DEF EraseDone, Return, Goto, Delete, Free
<1>11. ASSUME NEW t \in {"rgl", "api"}, Load(t) PROVE MapOK'
  BY <1>11 DEF Load, Goto
<1>12. ASSUME NEW t \in {"rgl", "api"}, Store(t) PROVE MapOK'
  BY <1>12 DEF Store, Goto
<1>13. CASE GetNone
  BY <1>13 DEF GetNone, Goto
<1>14. CASE Get
  BY <1>14 DEF Get, Goto, Free
<1>15. CASE Use
  BY <1>15 DEF Use, Goto
<1>16. CASE CallDone
  BY <1>16 DEF CallDone, Goto, Delete
<1>17. CASE CaptureEnded
  BY <1>17 DEF CaptureEnded
<1>18. CASE CloseNext
  BY <1>18 DEF CloseNext, Goto
<1>19. CASE CloseReleased
  BY <1>19 DEF CloseReleased, Goto, Delete
<1>20. CASE Closed
  BY <1>20 DEF Closed, Goto
<1>21. ASSUME NEW a \in Addrs, Packet(a) PROVE MapOK'
  BY <1>21 DEF Packet, Goto
<1>22. ASSUME NEW u \in Users, Register(u) PROVE MapOK'
  BY <1>22 DEF Register, Goto
<1>23. ASSUME NEW t \in {"cap", "rgl"}, NEW from \in Addrs, NEW to \in Addrs, CallEvent(t, from, to) PROVE MapOK'
  BY <1>23 DEF CallEvent, Goto
<1>24. ASSUME NEW u \in Users, EndRegister(u) PROVE MapOK'
  BY <1>24 DEF EndRegister, Goto
<1>25. ASSUME NEW u \in Users, Call(u) PROVE MapOK'
  BY <1>25 DEF Call, Goto
<1>26. CASE Close
  BY <1>26 DEF Close, Goto
<1>27. CASE UNCHANGED vars
  BY <1>27 DEF vars
<1> QED BY <1>1, <1>2, <1>3, <1>4, <1>5, <1>6, <1>7, <1>8, <1>9, <1>10, <1>11, <1>12, <1>13, <1>14, <1>15, <1>16, <1>17, <1>18, <1>19, <1>20, <1>21, <1>22, <1>23, <1>24, <1>25, <1>26, <1>27
     DEF Next, CaptureStep, ReglamentStep, ApiStep, Input

\* The devices are those of the phones.
LEMMA DevicesNext ==
  ASSUME IInv, [Next]_vars
  PROVE  DevicesAgree'
<1> USE DEF DevicesAgree, mapVars, memVars, lockVars, IInv, TypeOK, PcOK, LockOK, HandOK, Releasing, MapOK
<1>1. CASE PacketDone
  BY <1>1 DEF PacketDone, Goto
<1>2. ASSUME NEW a \in Addrs, RegisterLocked(a) PROVE DevicesAgree'
  BY <1>2 DEF RegisterLocked, Goto
<1>3. CASE CreateNone
  BY <1>3 DEF CreateNone, Return, Goto, MayEnter
<1>4. CASE CreateKnown
  BY <1>4 DEF CreateKnown, Return, Goto, MayEnter
<1>5. ASSUME NEW o \in Fresh, Create(o) PROVE DevicesAgree'
  <2> DEFINE u == who["cap"]
  <2>1. u \in Phones /\ o \in Objs /\ byId[u] = NoObj /\ mem[o] = "new"
    BY <1>5 DEF Create, Goto, Fresh
  <2>2. \A v \in Phones : byId[v] # o
    BY <2>1 DEF MapOK
  <2>3. o \notin ToSet(devices)
    BY <2>2
  <2>4. /\ devices' \in Seq(Objs) /\ Len(devices') = Len(devices) + 1
        /\ \A i \in 1 .. Len(devices) : devices'[i] = devices[i]
        /\ devices'[Len(devices) + 1] = o
    BY <1>5, <2>1, AppendProperties DEF Create
  <2>5. /\ DOMAIN devices = 1 .. Len(devices) /\ Len(devices) \in Nat
        /\ DOMAIN devices' = 1 .. Len(devices) + 1
    BY <2>4, LenProperties
  <2>6. IsInjective(devices')
    <3>1. \A i \in 1 .. Len(devices) : devices[i] # o
      BY <2>3, <2>5 DEF ToSet
    <3>2. \A i, j \in 1 .. Len(devices) : devices[i] = devices[j] => i = j
      BY <2>5 DEF IsInjective
    <3>3. ASSUME NEW i \in DOMAIN devices', NEW j \in DOMAIN devices', devices'[i] = devices'[j]
          PROVE  i = j
      <4>1. i \in 1 .. Len(devices) \/ i = Len(devices) + 1
        BY <2>5
      <4>2. j \in 1 .. Len(devices) \/ j = Len(devices) + 1
        BY <2>5
      <4>3. CASE i \in 1 .. Len(devices) /\ j \in 1 .. Len(devices)
        BY <2>4, <3>2, <3>3, <4>3
      <4>4. CASE i \in 1 .. Len(devices) /\ j = Len(devices) + 1
        BY <2>4, <3>1, <3>3, <4>4
      <4>5. CASE i = Len(devices) + 1 /\ j \in 1 .. Len(devices)
        BY <2>4, <3>1, <3>3, <4>5
      <4> QED BY <4>1, <4>2, <4>3, <4>4, <4>5
    <3> QED BY <3>3 DEF IsInjective
  <2>7. ToSet(devices') = ToSet(devices) \cup {o}
    <3>1. ASSUME NEW x \in ToSet(devices') PROVE x \in ToSet(devices) \cup {o}
      <4>1. PICK i \in 1 .. Len(devices) + 1 : devices'[i] = x
        BY <2>5, <3>1 DEF ToSet
      <4>2. CASE i = Len(devices) + 1
        BY <2>4, <4>1, <4>2
      <4>3. CASE i \in 1 .. Len(devices)
        BY <2>4, <2>5, <4>1, <4>3 DEF ToSet
      <4> QED BY <2>5, <4>2, <4>3
    <3>2. ASSUME NEW x \in ToSet(devices) PROVE x \in ToSet(devices')
      <4>1. PICK i \in 1 .. Len(devices) : devices[i] = x
        BY <2>5, <3>2 DEF ToSet
      <4>2. i \in DOMAIN devices' /\ devices'[i] = x
        BY <2>4, <2>5, <4>1
      <4> QED BY <4>2 DEF ToSet
    <3>3. o \in ToSet(devices')
      <4>1. Len(devices) + 1 \in DOMAIN devices'
        BY <2>5
      <4> QED BY <2>4, <4>1 DEF ToSet
    <3> QED BY <3>1, <3>2, <3>3
  <2>8. {byId'[v] : v \in Phones} \ {NoObj} = ({byId[v] : v \in Phones} \ {NoObj}) \cup {o}
    BY <1>5, <2>1 DEF Create
  <2> QED BY <2>6, <2>7, <2>8
<1>6. CASE Status
  BY <1>6 DEF Status, Return, Goto
<1>7. ASSUME NEW t \in {"cap", "rgl"}, CallEventDone(t) PROVE DevicesAgree'
  BY <1>7 DEF CallEventDone, Return, Goto
<1>8. CASE EraseNone
  BY <1>8 DEF EraseNone, Return, Goto, Free
<1>9. CASE Erase
  <2> DEFINE u == who["rgl"]
  <2>1. u \in Phones /\ byId[u] \in Objs
    BY <1>9 DEF Erase, Goto
  <2>2. IsInjective(devices') /\ ToSet(devices') = ToSet(devices) \ {byId[u]}
    BY <1>9, <2>1, Erased DEF Erase, EraseFrom
  <2>3. byId' = [byId EXCEPT ![u] = NoObj]
    BY <1>9 DEF Erase, EraseFrom
  <2>4. {byId'[v] : v \in Phones} \ {NoObj} = ({byId[v] : v \in Phones} \ {NoObj}) \ {byId[u]}
    BY <2>1, <2>3 DEF MapOK
  <2> QED BY <2>2, <2>4
<1>10. CASE EraseDone
  BY <1>10 DEF EraseDone, Return, Goto, Delete, Free
<1>11. ASSUME NEW t \in {"rgl", "api"}, Load(t) PROVE DevicesAgree'
  BY <1>11 DEF Load, Goto
<1>12. ASSUME NEW t \in {"rgl", "api"}, Store(t) PROVE DevicesAgree'
  BY <1>12 DEF Store, Goto
<1>13. CASE GetNone
  BY <1>13 DEF GetNone, Goto
<1>14. CASE Get
  BY <1>14 DEF Get, Goto, Free
<1>15. CASE Use
  BY <1>15 DEF Use, Goto
<1>16. CASE CallDone
  BY <1>16 DEF CallDone, Goto, Delete
<1>17. CASE CaptureEnded
  BY <1>17 DEF CaptureEnded
<1>18. CASE CloseNext
  BY <1>18 DEF CloseNext, Goto
<1>19. CASE CloseReleased
  BY <1>19 DEF CloseReleased, Goto, Delete
<1>20. CASE Closed
  BY <1>20 DEF Closed, Goto
<1>21. ASSUME NEW a \in Addrs, Packet(a) PROVE DevicesAgree'
  BY <1>21 DEF Packet, Goto
<1>22. ASSUME NEW u \in Users, Register(u) PROVE DevicesAgree'
  BY <1>22 DEF Register, Goto
<1>23. ASSUME NEW t \in {"cap", "rgl"}, NEW from \in Addrs, NEW to \in Addrs, CallEvent(t, from, to) PROVE DevicesAgree'
  BY <1>23 DEF CallEvent, Goto
<1>24. ASSUME NEW u \in Users, EndRegister(u) PROVE DevicesAgree'
  BY <1>24 DEF EndRegister, Goto
<1>25. ASSUME NEW u \in Users, Call(u) PROVE DevicesAgree'
  BY <1>25 DEF Call, Goto
<1>26. CASE Close
  BY <1>26 DEF Close, Goto
<1>27. CASE UNCHANGED vars
  BY <1>27 DEF vars
<1> QED BY <1>1, <1>2, <1>3, <1>4, <1>5, <1>6, <1>7, <1>8, <1>9, <1>10, <1>11, <1>12, <1>13, <1>14, <1>15, <1>16, <1>17, <1>18, <1>19, <1>20, <1>21, <1>22, <1>23, <1>24, <1>25, <1>26, <1>27
     DEF Next, CaptureStep, ReglamentStep, ApiStep, Input

\* The containers lead to live terminals.
LEMMA MapsLiveNext ==
  ASSUME IInv, [Next]_vars
  PROVE  MapsLive'
<1> USE DEF MapsLive, mapVars, memVars, lockVars, IInv, TypeOK, PcOK, LockOK, HandOK, Releasing, MapOK, EventOK, Mapped, CountExact, CountOK, Holds
<1>1. CASE PacketDone
  BY <1>1 DEF PacketDone, Goto
<1>2. ASSUME NEW a \in Addrs, RegisterLocked(a) PROVE MapsLive'
  BY <1>2 DEF RegisterLocked, Goto
<1>3. CASE CreateNone
  BY <1>3 DEF CreateNone, Return, Goto, MayEnter
<1>4. CASE CreateKnown
  BY <1>4 DEF CreateKnown, Return, Goto, MayEnter
<1>5. ASSUME NEW o \in Fresh, Create(o) PROVE MapsLive'
  BY <1>5 DEF Create, Goto, MayEnter, Fresh
<1>6. CASE Status
  BY <1>6 DEF Status, Return, Goto
<1>7. ASSUME NEW t \in {"cap", "rgl"}, CallEventDone(t) PROVE MapsLive'
  BY <1>7 DEF CallEventDone, Return, Goto
<1>8. CASE EraseNone
  BY <1>8 DEF EraseNone, Return, Goto, Free
<1>9. CASE Erase
  BY <1>9 DEF Erase, Goto, EraseFrom, Free
<1>10. CASE EraseDone
  BY <1>10 DEF EraseDone, Return, Goto, Delete, Free
<1>11. ASSUME NEW t \in {"rgl", "api"}, Load(t) PROVE MapsLive'
  BY <1>11 DEF Load, Goto
<1>12. ASSUME NEW t \in {"rgl", "api"}, Store(t) PROVE MapsLive'
  BY <1>12 DEF Store, Goto
<1>13. CASE GetNone
  BY <1>13 DEF GetNone, Goto
<1>14. CASE Get
  BY <1>14 DEF Get, Goto, Free
<1>15. CASE Use
  BY <1>15 DEF Use, Goto
<1>16. CASE CallDone
  BY <1>16 DEF CallDone, Goto, Delete
<1>17. CASE CaptureEnded
  BY <1>17 DEF CaptureEnded
<1>18. CASE CloseNext
  BY <1>18 DEF CloseNext, Goto
<1>19. CASE CloseReleased
  BY <1>19 DEF CloseReleased, Goto, Delete
<1>20. CASE Closed
  BY <1>20 DEF Closed, Goto
<1>21. ASSUME NEW a \in Addrs, Packet(a) PROVE MapsLive'
  BY <1>21 DEF Packet, Goto
<1>22. ASSUME NEW u \in Users, Register(u) PROVE MapsLive'
  BY <1>22 DEF Register, Goto
<1>23. ASSUME NEW t \in {"cap", "rgl"}, NEW from \in Addrs, NEW to \in Addrs, CallEvent(t, from, to) PROVE MapsLive'
  BY <1>23 DEF CallEvent, Goto
<1>24. ASSUME NEW u \in Users, EndRegister(u) PROVE MapsLive'
  BY <1>24 DEF EndRegister, Goto
<1>25. ASSUME NEW u \in Users, Call(u) PROVE MapsLive'
  BY <1>25 DEF Call, Goto
<1>26. CASE Close
  BY <1>26 DEF Close, Goto
<1>27. CASE UNCHANGED vars
  BY <1>27 DEF vars
<1> QED BY <1>1, <1>2, <1>3, <1>4, <1>5, <1>6, <1>7, <1>8, <1>9, <1>10, <1>11, <1>12, <1>13, <1>14, <1>15, <1>16, <1>17, <1>18, <1>19, <1>20, <1>21, <1>22, <1>23, <1>24, <1>25, <1>26, <1>27
     DEF Next, CaptureStep, ReglamentStep, ApiStep, Input

\* Counts are exact.
LEMMA CountNext ==
  ASSUME IInv, [Next]_vars
  PROVE  CountExact'
<1> USE DEF CountExact, mapVars, memVars, lockVars, IInv, TypeOK, PcOK, LockOK, HandOK, Releasing, MapOK, EventOK, Mapped, CountOK, Holds
<1>1. CASE PacketDone
  BY <1>1 DEF PacketDone, Goto
<1>2. ASSUME NEW a \in Addrs, RegisterLocked(a) PROVE CountExact'
  BY <1>2 DEF RegisterLocked, Goto
<1>3. CASE CreateNone
  BY <1>3 DEF CreateNone, Return, Goto, MayEnter
<1>4. CASE CreateKnown
  BY <1>4 DEF CreateKnown, Return, Goto, MayEnter
<1>5. ASSUME NEW o \in Fresh, Create(o) PROVE CountExact'
  BY <1>5 DEF Create, Goto, MayEnter, Fresh
<1>6. CASE Status
  BY <1>6 DEF Status, Return, Goto
<1>7. ASSUME NEW t \in {"cap", "rgl"}, CallEventDone(t) PROVE CountExact'
  BY <1>7 DEF CallEventDone, Return, Goto
<1>8. CASE EraseNone
  BY <1>8 DEF EraseNone, Return, Goto, Free
<1>9. CASE Erase
  BY <1>9 DEF Erase, Goto, EraseFrom, Free
<1>10. CASE EraseDone
  BY <1>10 DEF EraseDone, Return, Goto, Delete, Free
<1>11. ASSUME NEW t \in {"rgl", "api"}, Load(t) PROVE CountExact'
  BY <1>11 DEF Load, Goto
<1>12. ASSUME NEW t \in {"rgl", "api"}, Store(t) PROVE CountExact'
  BY <1>12 DEF Store, Goto
<1>13. CASE GetNone
  BY <1>13 DEF GetNone, Goto
<1>14. CASE Get
  BY <1>14 DEF Get, Goto, Free
<1>15. CASE Use
  BY <1>15 DEF Use, Goto
<1>16. CASE CallDone
  BY <1>16 DEF CallDone, Goto, Delete
<1>17. CASE CaptureEnded
  BY <1>17 DEF CaptureEnded
<1>18. CASE CloseNext
  BY <1>18 DEF CloseNext, Goto
<1>19. CASE CloseReleased
  BY <1>19 DEF CloseReleased, Goto, Delete
<1>20. CASE Closed
  BY <1>20 DEF Closed, Goto
<1>21. ASSUME NEW a \in Addrs, Packet(a) PROVE CountExact'
  BY <1>21 DEF Packet, Goto
<1>22. ASSUME NEW u \in Users, Register(u) PROVE CountExact'
  BY <1>22 DEF Register, Goto
<1>23. ASSUME NEW t \in {"cap", "rgl"}, NEW from \in Addrs, NEW to \in Addrs, CallEvent(t, from, to) PROVE CountExact'
  BY <1>23 DEF CallEvent, Goto
<1>24. ASSUME NEW u \in Users, EndRegister(u) PROVE CountExact'
  BY <1>24 DEF EndRegister, Goto
<1>25. ASSUME NEW u \in Users, Call(u) PROVE CountExact'
  BY <1>25 DEF Call, Goto
<1>26. CASE Close
  BY <1>26 DEF Close, Goto
<1>27. CASE UNCHANGED vars
  BY <1>27 DEF vars
<1> QED BY <1>1, <1>2, <1>3, <1>4, <1>5, <1>6, <1>7, <1>8, <1>9, <1>10, <1>11, <1>12, <1>13, <1>14, <1>15, <1>16, <1>17, <1>18, <1>19, <1>20, <1>21, <1>22, <1>23, <1>24, <1>25, <1>26, <1>27
     DEF Next, CaptureStep, ReglamentStep, ApiStep, Input

\* The application works on live terminals.
LEMMA ApiUseNext ==
  ASSUME IInv, [Next]_vars
  PROVE  ApiUseLive'
<1> USE DEF ApiUseLive, mapVars, memVars, lockVars, IInv, TypeOK, PcOK, LockOK, HandOK, Releasing, MapOK, EventOK, Mapped, CountExact, CountOK, MapsLive, Holds
<1>1. CASE PacketDone
  BY <1>1 DEF PacketDone, Goto
<1>2. ASSUME NEW a \in Addrs, RegisterLocked(a) PROVE ApiUseLive'
  BY <1>2 DEF RegisterLocked, Goto
<1>3. CASE CreateNone
  BY <1>3 DEF CreateNone, Return, Goto, MayEnter
<1>4. CASE CreateKnown
  BY <1>4 DEF CreateKnown, Return, Goto, MayEnter
<1>5. ASSUME NEW o \in Fresh, Create(o) PROVE ApiUseLive'
  BY <1>5 DEF Create, Goto, MayEnter, Fresh
<1>6. CASE Status
  BY <1>6 DEF Status, Return, Goto
<1>7. ASSUME NEW t \in {"cap", "rgl"}, CallEventDone(t) PROVE ApiUseLive'
  BY <1>7 DEF CallEventDone, Return, Goto
<1>8. CASE EraseNone
  BY <1>8 DEF EraseNone, Return, Goto, Free
<1>9. CASE Erase
  BY <1>9 DEF Erase, Goto, EraseFrom, Free
<1>10. CASE EraseDone
  BY <1>10 DEF EraseDone, Return, Goto, Delete, Free
<1>11. ASSUME NEW t \in {"rgl", "api"}, Load(t) PROVE ApiUseLive'
  BY <1>11 DEF Load, Goto
<1>12. ASSUME NEW t \in {"rgl", "api"}, Store(t) PROVE ApiUseLive'
  BY <1>12 DEF Store, Goto
<1>13. CASE GetNone
  BY <1>13 DEF GetNone, Goto
<1>14. CASE Get
  BY <1>14 DEF Get, Goto, Free
<1>15. CASE Use
  BY <1>15 DEF Use, Goto
<1>16. CASE CallDone
  BY <1>16 DEF CallDone, Goto, Delete
<1>17. CASE CaptureEnded
  BY <1>17 DEF CaptureEnded
<1>18. CASE CloseNext
  BY <1>18 DEF CloseNext, Goto
<1>19. CASE CloseReleased
  BY <1>19 DEF CloseReleased, Goto, Delete
<1>20. CASE Closed
  BY <1>20 DEF Closed, Goto
<1>21. ASSUME NEW a \in Addrs, Packet(a) PROVE ApiUseLive'
  BY <1>21 DEF Packet, Goto
<1>22. ASSUME NEW u \in Users, Register(u) PROVE ApiUseLive'
  BY <1>22 DEF Register, Goto
<1>23. ASSUME NEW t \in {"cap", "rgl"}, NEW from \in Addrs, NEW to \in Addrs, CallEvent(t, from, to) PROVE ApiUseLive'
  BY <1>23 DEF CallEvent, Goto
<1>24. ASSUME NEW u \in Users, EndRegister(u) PROVE ApiUseLive'
  BY <1>24 DEF EndRegister, Goto
<1>25. ASSUME NEW u \in Users, Call(u) PROVE ApiUseLive'
  BY <1>25 DEF Call, Goto
<1>26. CASE Close
  BY <1>26 DEF Close, Goto
<1>27. CASE UNCHANGED vars
  BY <1>27 DEF vars
<1> QED BY <1>1, <1>2, <1>3, <1>4, <1>5, <1>6, <1>7, <1>8, <1>9, <1>10, <1>11, <1>12, <1>13, <1>14, <1>15, <1>16, <1>17, <1>18, <1>19, <1>20, <1>21, <1>22, <1>23, <1>24, <1>25, <1>26, <1>27
     DEF Next, CaptureStep, ReglamentStep, ApiStep, Input

\* Events work on terminals in the maps.
LEMMA EventNext ==
  ASSUME IInv, [Next]_vars
  PROVE  EventOK'
<1> USE DEF EventOK, mapVars, memVars, lockVars, IInv, TypeOK, PcOK, LockOK, HandOK, Releasing, MapOK, Mapped, MapsLive
<1>1. CASE PacketDone
  BY <1>1 DEF PacketDone, Goto
<1>2. ASSUME NEW a \in Addrs, RegisterLocked(a) PROVE EventOK'
  BY <1>2 DEF RegisterLocked, Goto
<1>3. CASE CreateNone
  BY <1>3 DEF CreateNone, Return, Goto, MayEnter
<1>4. CASE CreateKnown
  BY <1>4 DEF CreateKnown, Return, Goto, MayEnter
<1>5. ASSUME NEW o \in Fresh, Create(o) PROVE EventOK'
  BY <1>5 DEF Create, Goto, MayEnter, Fresh
<1>6. CASE Status
  BY <1>6 DEF Status, Return, Goto
<1>7. ASSUME NEW t \in {"cap", "rgl"}, CallEventDone(t) PROVE EventOK'
  BY <1>7 DEF CallEventDone, Return, Goto
<1>8. CASE EraseNone
  BY <1>8 DEF EraseNone, Return, Goto, Free
<1>9. CASE Erase
  BY <1>9 DEF Erase, Goto, EraseFrom, Free
<1>10. CASE EraseDone
  BY <1>10 DEF EraseDone, Return, Goto, Delete, Free
<1>11. ASSUME NEW t \in {"rgl", "api"}, Load(t) PROVE EventOK'
  BY <1>11 DEF Load, Goto
<1>12. ASSUME NEW t \in {"rgl", "api"}, Store(t) PROVE EventOK'
  BY <1>12 DEF Store, Goto
<1>13. CASE GetNone
  BY <1>13 DEF GetNone, Goto
<1>14. CASE Get
  BY <1>14 DEF Get, Goto, Free
<1>15. CASE Use
  BY <1>15 DEF Use, Goto
<1>16. CASE CallDone
  BY <1>16 DEF CallDone, Goto, Delete
<1>17. CASE CaptureEnded
  BY <1>17 DEF CaptureEnded
<1>18. CASE CloseNext
  BY <1>18 DEF CloseNext, Goto
<1>19. CASE CloseReleased
  BY <1>19 DEF CloseReleased, Goto, Delete
<1>20. CASE Closed
  BY <1>20 DEF Closed, Goto
<1>21. ASSUME NEW a \in Addrs, Packet(a) PROVE EventOK'
  BY <1>21 DEF Packet, Goto
<1>22. ASSUME NEW u \in Users, Register(u) PROVE EventOK'
  BY <1>22 DEF Register, Goto
<1>23. ASSUME NEW t \in {"cap", "rgl"}, NEW from \in Addrs, NEW to \in Addrs, CallEvent(t, from, to) PROVE EventOK'
  BY <1>23 DEF CallEvent, Goto
<1>24. ASSUME NEW u \in Users, EndRegister(u) PROVE EventOK'
  BY <1>24 DEF EndRegister, Goto
<1>25. ASSUME NEW u \in Users, Call(u) PROVE EventOK'
  BY <1>25 DEF Call, Goto
<1>26. CASE Close
  BY <1>26 DEF Close, Goto
<1>27. CASE UNCHANGED vars
  BY <1>27 DEF vars
<1> QED BY <1>1, <1>2, <1>3, <1>4, <1>5, <1>6, <1>7, <1>8, <1>9, <1>10, <1>11, <1>12, <1>13, <1>14, <1>15, <1>16, <1>17, <1>18, <1>19, <1>20, <1>21, <1>22, <1>23, <1>24, <1>25, <1>26, <1>27
     DEF Next, CaptureStep, ReglamentStep, ApiStep, Input

\* What is read of a count stays true.
LEMMA CountOKNext ==
  ASSUME IInv, [Next]_vars
  PROVE  CountOK'
<1> USE DEF CountOK, mapVars, memVars, lockVars, IInv, TypeOK, PcOK, LockOK, HandOK, Releasing, MapOK, EventOK, Mapped, CountExact, Holds
<1>1. CASE PacketDone
  BY <1>1 DEF PacketDone, Goto
<1>2. ASSUME NEW a \in Addrs, RegisterLocked(a) PROVE CountOK'
  BY <1>2 DEF RegisterLocked, Goto
<1>3. CASE CreateNone
  BY <1>3 DEF CreateNone, Return, Goto, MayEnter
<1>4. CASE CreateKnown
  BY <1>4 DEF CreateKnown, Return, Goto, MayEnter
<1>5. ASSUME NEW o \in Fresh, Create(o) PROVE CountOK'
  BY <1>5 DEF Create, Goto, MayEnter, Fresh
<1>6. CASE Status
  BY <1>6 DEF Status, Return, Goto
<1>7. ASSUME NEW t \in {"cap", "rgl"}, CallEventDone(t) PROVE CountOK'
  BY <1>7 DEF CallEventDone, Return, Goto
<1>8. CASE EraseNone
  BY <1>8 DEF EraseNone, Return, Goto, Free
<1>9. CASE Erase
  BY <1>9 DEF Erase, Goto, EraseFrom, Free
<1>10. CASE EraseDone
  BY <1>10 DEF EraseDone, Return, Goto, Delete, Free
<1>11. ASSUME NEW t \in {"rgl", "api"}, Load(t) PROVE CountOK'
  BY <1>11 DEF Load, Goto
<1>12. ASSUME NEW t \in {"rgl", "api"}, Store(t) PROVE CountOK'
  BY <1>12 DEF Store, Goto
<1>13. CASE GetNone
  BY <1>13 DEF GetNone, Goto
<1>14. CASE Get
  BY <1>14 DEF Get, Goto, Free
<1>15. CASE Use
  BY <1>15 DEF Use, Goto
<1>16. CASE CallDone
  BY <1>16 DEF CallDone, Goto, Delete
<1>17. CASE CaptureEnded
  BY <1>17 DEF CaptureEnded
<1>18. CASE CloseNext
  BY <1>18 DEF CloseNext, Goto
<1>19. CASE CloseReleased
  BY <1>19 DEF CloseReleased, Goto, Delete
<1>20. CASE Closed
  BY <1>20 DEF Closed, Goto
<1>21. ASSUME NEW a \in Addrs, Packet(a) PROVE CountOK'
  BY <1>21 DEF Packet, Goto
<1>22. ASSUME NEW u \in Users, Register(u) PROVE CountOK'
  BY <1>22 DEF Register, Goto
<1>23. ASSUME NEW t \in {"cap", "rgl"}, NEW from \in Addrs, NEW to \in Addrs, CallEvent(t, from, to) PROVE CountOK'
  BY <1>23 DEF CallEvent, Goto
<1>24. ASSUME NEW u \in Users, EndRegister(u) PROVE CountOK'
  BY <1>24 DEF EndRegister, Goto
<1>25. ASSUME NEW u \in Users, Call(u) PROVE CountOK'
  BY <1>25 DEF Call, Goto
<1>26. CASE Close
  BY <1>26 DEF Close, Goto
<1>27. CASE UNCHANGED vars
  BY <1>27 DEF vars
<1> QED BY <1>1, <1>2, <1>3, <1>4, <1>5, <1>6, <1>7, <1>8, <1>9, <1>10, <1>11, <1>12, <1>13, <1>14, <1>15, <1>16, <1>17, <1>18, <1>19, <1>20, <1>21, <1>22, <1>23, <1>24, <1>25, <1>26, <1>27
     DEF Next, CaptureStep, ReglamentStep, ApiStep, Input

LEMMA InvInit == Init => IInv
BY EmptySeq DEF Init, Free, IInv, TypeOK, PcOK, LockOK, HandOK, MapOK, DevicesAgree, MapsLive,
  CountExact, ApiUseLive, EventOK, CountOK, IsInjective, ToSet, Releasing, Mapped, Holds

LEMMA InvNext == IInv /\ [Next]_vars => IInv'
<1> SUFFICES ASSUME IInv, [Next]_vars PROVE IInv'
  OBVIOUS
<1> QED BY TypeNext, PcNext, LockNext, HandNext, MapNext, DevicesNext, MapsLiveNext,
          CountNext, ApiUseNext, EventNext, CountOKNext DEF IInv

\* The inductive invariant holds in every reachable state: all that follows is
\* a part of it or a consequence.
THEOREM InvariantHolds == Spec => []IInv
<1>1. IInv /\ UNCHANGED vars => IInv'
  BY InvNext
<1> QED BY InvInit, InvNext, <1>1, PTL DEF Spec

\* The state of the manager keeps its types.
THEOREM TypeCorrect == Spec => []TypeOK
BY InvariantHolds, PTL DEF IInv

\* m_xDevices and m_xTerminalsByID list the same terminals, each once.
THEOREM ContainersAgree == Spec => []DevicesAgree
BY InvariantHolds, PTL DEF IInv

\* No container of the manager leads to a deleted terminal.
THEOREM MapsStayLive == Spec => []MapsLive
BY InvariantHolds, PTL DEF IInv

\* No decrement or increment of a count of a terminal in the maps is lost.
THEOREM CountsStayExact == Spec => []CountExact
BY InvariantHolds, PTL DEF IInv

\* The application never works on a deleted terminal before MP_Close.
THEOREM ApiUsesLiveTerminals == Spec => []ApiUseLive
BY InvariantHolds, PTL DEF IInv

\* Neither does a call event, nor the report of a new terminal.
THEOREM EventsUseLiveTerminals == Spec => []EventUseLive
<1>1. ASSUME IInv, phase = "open", NEW t \in {"cap", "rgl"}, pc[t] \in {"event", "status"}
      PROVE  mem[hand[t]] = "live"
  <2>1. t = "rgl" => pc[t] # "status"
    BY <1>1 DEF IInv, PcOK, Releasing
  <2>2. hand[t] \in Objs
    BY <1>1, <2>1 DEF IInv, HandOK
  <2>3. PICK u \in Phones : byId[u] = hand[t]
    BY <1>1 DEF IInv, EventOK, Mapped
  <2> QED BY <1>1, <2>2, <2>3 DEF IInv, MapsLive
<1>2. IInv => EventUseLive
  BY <1>1 DEF EventUseLive
<1> QED BY InvariantHolds, <1>2, PTL

\* The three containers have the same terminals, all of them live.
THEOREM ContainersStaySound == Spec => []ContainersSound
BY ContainersAgree, MapsStayLive, PTL DEF ContainersSound

\* No terminal is deleted under the application or an event.
THEOREM TerminalsInUseLive == Spec => []UseLive
BY ApiUsesLiveTerminals, EventsUseLiveTerminals, PTL DEF UseLive
================================================================================
