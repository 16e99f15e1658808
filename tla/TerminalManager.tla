---------------------------- MODULE TerminalManager ----------------------------
(***************************************************************************)
(* CTerminalManager (TerminalManager.cpp) and the life of CTerminal        *)
(* objects (AddRef and Release of Terminal.cpp), as the threads that meet  *)
(* in it use them:                                                         *)
(*   "cap"  the capture thread: packets, new registrations, call events;   *)
(*   "rgl"  SIPLib's reglament thread: ends of registrations, call events; *)
(*   "api"  the application, one call at a time because of g_xApiLocker,   *)
(*          down to MP_Close, which destroys the manager.                  *)
(*                                                                         *)
(* Call and registration events come under CSIPManager::m_xLocker          *)
(* (`locker`); m_cs (`cs`) is a recursive critical section.  What SIPLib   *)
(* is assumed to do: the end of a registration names the address of its    *)
(* start, and different phones have different numbers.                     *)
(***************************************************************************)
EXTENDS Integers, Sequences, SequencesExt

CONSTANTS
  Users,     \* user names of registrations
  Phones,    \* the users whose name is a number, which is not 0, each its own
  Addrs,     \* IP addresses of phones
  PBX,       \* m_xPbxIP
  Objs,      \* addresses `new CTerminal` returns; one is used only once
  NoObj, NoAddr, NoUser, NoThread,
  MaxDepth   \* bound on how often m_cs is entered

ASSUME TerminalAssumption ==
  /\ NoObj \notin Objs /\ NoAddr \notin Addrs /\ NoUser \notin Users
  /\ NoThread \notin {"cap", "rgl", "api"}
  /\ Phones \subseteq Users
  /\ PBX \in Addrs
  /\ MaxDepth \in Nat

VARIABLES
  byId,    \* m_xTerminalsByID, by the user whose number the key is
  byIp,    \* m_xTerminalsByIP
  devices, \* m_xDevices
  mem,     \* the heap: "new" (never used), "live" or "gone" (deleted)
  refs,    \* CTerminal::m_iRefCnt
  locker,  \* the owner of CSIPManager::m_xLocker
  cs,      \* m_cs: its owner and how often the owner has entered it
  known,   \* the address a registration was reported with
  pc,      \* where each thread is
  who,     \* the user its event or its API call is about
  hand,    \* the terminal it works on
  val,     \* what it has read of m_iRefCnt
  phase,   \* "open", "closing" or "closed": MP_Close
  ci       \* the loop index of ~CTerminalManager

mapVars  == <<byId, byIp, devices>>
memVars  == <<mem, refs>>
lockVars == <<locker, cs>>
vars == <<mapVars, memVars, lockVars, known, pc, who, hand, val, phase, ci>>

Threads == {"cap", "rgl", "api"}
Free == [owner |-> NoThread, depth |-> 0]

\* Thread t goes from one place to another.
Goto(t, from, to) == pc[t] = from /\ pc' = [pc EXCEPT ![t] = to]

\* EnterCriticalSection returns at once to thread t.
MayEnter(t) == cs.owner \in {NoThread, t}

Init ==
  /\ byId = [u \in Phones |-> NoObj]
  /\ byIp = [a \in Addrs |-> NoObj]
  /\ devices = <<>>
  /\ mem = [o \in Objs |-> "new"]
  /\ refs = [o \in Objs |-> 0]
  /\ locker = NoThread
  /\ cs = Free
  /\ known = [u \in Users |-> NoAddr]
  /\ pc = [t \in Threads |-> "idle"]
  /\ who = [t \in Threads |-> NoUser]
  /\ hand = [t \in Threads |-> NoObj]
  /\ val = [t \in Threads |-> 0]
  /\ phase = "open"
  /\ ci = 1

-----------------------------------------------------------------------------
(* CTerminal::Release, by any thread, in the three accesses to the count. *)

Load(t) ==
  /\ Goto(t, "drop", "dec")
  /\ val' = [val EXCEPT ![t] = refs[hand[t]]]
  /\ UNCHANGED <<mapVars, memVars, lockVars, known, who, hand, phase, ci>>

Store(t) ==
  /\ Goto(t, "dec", "last")
  /\ refs' = [refs EXCEPT ![hand[t]] = val[t] - 1]
  /\ UNCHANGED <<mapVars, mem, lockVars, known, who, hand, val, phase, ci>>

\* The test uses the value just stored, or reads the count again: both are
\* code a compiler makes of it.
Delete(t) ==
  /\ \E count \in {val[t] - 1, refs[hand[t]]} :
       mem' = IF count = 0 THEN [mem EXCEPT ![hand[t]] = "gone"] ELSE mem
  /\ val' = [val EXCEPT ![t] = 0]

-----------------------------------------------------------------------------
(* The capture thread. *)

\* OnUDPPacket finds a terminal by an address of a SIP packet, with no lock,
\* and hands it the packet.
Packet(a) ==
  /\ Goto("cap", "idle", "packet")
  /\ byIp[a] # NoObj
  /\ hand' = [hand EXCEPT !["cap"] = byIp[a]]
  /\ UNCHANGED <<mapVars, memVars, lockVars, known, who, val, phase, ci>>

PacketDone ==
  /\ Goto("cap", "packet", "idle")
  /\ hand' = [hand EXCEPT !["cap"] = NoObj]
  /\ UNCHANGED <<mapVars, memVars, lockVars, known, who, val, phase, ci>>

\* The address of the next terminal: any one that was not used.
Fresh == IF \E o \in Objs : mem[o] = "new"
           THEN {CHOOSE o \in Objs : mem[o] = "new"} ELSE {}

\* cbOnRegister waits for m_xLocker ...  (Objs bounds the terminals made.)
Register(u) ==
  /\ Fresh # {}
  /\ Goto("cap", "idle", "register")
  /\ who' = [who EXCEPT !["cap"] = u]
  /\ UNCHANGED <<mapVars, memVars, lockVars, known, hand, val, phase, ci>>

\* ... and reports a registration at address a.  SIPLib may report a phone
\* again before its registration ended.
RegisterLocked(a) ==
  /\ Goto("cap", "register", "create")
  /\ locker = NoThread /\ locker' = "cap"
  /\ known[who["cap"]] \in {NoAddr, a}
  /\ known' = [known EXCEPT ![who["cap"]] = a]
  /\ UNCHANGED <<mapVars, memVars, cs, who, hand, val, phase, ci>>

\* The callback of thread t returns, which leaves m_xLocker.
Return(t, from) ==
  /\ Goto(t, from, "idle")
  /\ locker' = NoThread
  /\ who' = [who EXCEPT ![t] = NoUser]
  /\ hand' = [hand EXCEPT ![t] = NoObj]

\* CreateTerminal: no terminal for the PBX, and none for a user without number.
CreateNone ==
  LET u == who["cap"]
  IN  /\ Return("cap", "create")
      /\ known[u] = PBX \/ (u \notin Phones /\ MayEnter("cap"))
      /\ UNCHANGED <<mapVars, memVars, cs, known, val, phase, ci>>

\* The early return for a number that has a terminal does not leave m_cs.
CreateKnown ==
  LET u == who["cap"]
  IN  /\ Return("cap", "create")
      /\ known[u] # PBX /\ u \in Phones /\ MayEnter("cap")
      /\ byId[u] # NoObj
      /\ cs.depth < MaxDepth
      /\ cs' = [owner |-> "cap", depth |-> cs.depth + 1]
      /\ UNCHANGED <<mapVars, memVars, known, val, phase, ci>>

\* A new terminal, counted once, in all three containers.  It takes over the
\* address of any other terminal.  m_cs is as before.
Create(o) ==
  LET u == who["cap"]
  IN  /\ Goto("cap", "create", "status")
      /\ known[u] # PBX /\ u \in Phones /\ MayEnter("cap")
      /\ byId[u] = NoObj /\ mem[o] = "new"
      /\ mem' = [mem EXCEPT ![o] = "live"]
      /\ refs' = [refs EXCEPT ![o] = 1]
      /\ byId' = [byId EXCEPT ![u] = o]
      /\ byIp' = [byIp EXCEPT ![known[u]] = o]
      /\ devices' = Append(devices, o)
      /\ hand' = [hand EXCEPT !["cap"] = o]
      /\ UNCHANGED <<lockVars, known, who, val, phase, ci>>

\* Its status is read and pushed to the message queue, without m_cs.
Status ==
  /\ Return("cap", "status")
  /\ UNCHANGED <<mapVars, memVars, cs, known, val, phase, ci>>

-----------------------------------------------------------------------------
(* OnNewCall, OnEndCall, OnNewSession, OnSessionModify and OnStopSession,    *)
(* from either thread of SIPLib: GetDeviceByCallID takes the terminal of the *)
(* caller, else that of the called party, without m_cs.                      *)

CallEvent(t, from, to) ==
  /\ phase # "closed"
  /\ locker = NoThread /\ locker' = t
  /\ byIp[from] # NoObj \/ byIp[to] # NoObj
  /\ hand' = [hand EXCEPT ![t] = IF byIp[from] # NoObj THEN byIp[from] ELSE byIp[to]]
  /\ Goto(t, "idle", "event")
  /\ UNCHANGED <<mapVars, memVars, cs, known, who, val, phase, ci>>

CallEventDone(t) ==
  /\ Return(t, "event")
  /\ UNCHANGED <<mapVars, memVars, cs, known, val, phase, ci>>

-----------------------------------------------------------------------------
(* The reglament thread: cbOnEndRegister and DeleteTerminal. *)

EndRegister(u) ==
  /\ Goto("rgl", "idle", "erase")
  /\ phase # "closed"
  /\ known[u] # NoAddr
  /\ locker = NoThread /\ locker' = "rgl"
  /\ who' = [who EXCEPT !["rgl"] = u]
  /\ UNCHANGED <<mapVars, memVars, cs, known, hand, val, phase, ci>>

\* std::find and erase.
EraseDevice(o) ==
  devices' = IF o \in ToSet(devices)
               THEN RemoveAt(devices, CHOOSE i \in DOMAIN devices : devices[i] = o)
               ELSE devices

\* Bug: the address keeps its terminal.
EraseKeepAddress(u, addr) ==
  /\ byId' = [byId EXCEPT ![u] = NoObj]
  /\ EraseDevice(byId[u])
  /\ UNCHANGED byIp

\* The terminal of user u leaves the containers.
EraseFrom(u, addr) ==
  /\ byId' = [byId EXCEPT ![u] = NoObj]
  /\ byIp' = [byIp EXCEPT ![addr] = NoObj]
  /\ EraseDevice(byId[u])

\* Bug: the lock taken for the search is not left.
EraseNoneInside ==
  LET u == who["rgl"]
  IN  /\ Return("rgl", "erase")
      /\ cs = Free /\ cs' = [owner |-> "rgl", depth |-> 1]
      /\ u \notin Phones \/ (u \in Phones /\ byId[u] = NoObj)
      /\ known' = [known EXCEPT ![u] = NoAddr]
      /\ UNCHANGED <<mapVars, memVars, val, phase, ci>>

EraseNone ==
  LET u == who["rgl"]
  IN  /\ Return("rgl", "erase")
      /\ cs = Free
      /\ u \notin Phones \/ (u \in Phones /\ byId[u] = NoObj)
      /\ known' = [known EXCEPT ![u] = NoAddr]
      /\ UNCHANGED <<mapVars, memVars, cs, val, phase, ci>>

\* Whatever terminal has the address goes from that map; Release comes last.
Erase ==
  LET u == who["rgl"]
  IN  /\ Goto("rgl", "erase", "drop")
      /\ cs = Free /\ cs' = [owner |-> "rgl", depth |-> 1]
      /\ u \in Phones /\ byId[u] # NoObj
      /\ EraseFrom(u, known[u])
      /\ hand' = [hand EXCEPT !["rgl"] = byId[u]]
      /\ UNCHANGED <<memVars, locker, known, who, val, phase, ci>>

\* Bug: m_cs is left without giving it up.
EraseDoneInside ==
  /\ Return("rgl", "last")
  /\ Delete("rgl")
  /\ cs' = [cs EXCEPT !.depth = 0]
  /\ known' = [known EXCEPT ![who["rgl"]] = NoAddr]
  /\ UNCHANGED <<mapVars, refs, phase, ci>>

EraseDone ==
  /\ Return("rgl", "last")
  /\ Delete("rgl")
  /\ cs' = Free
  /\ known' = [known EXCEPT ![who["rgl"]] = NoAddr]
  /\ UNCHANGED <<mapVars, refs, phase, ci>>

-----------------------------------------------------------------------------
(* The application: the MP_* functions of one port. *)

Call(u) ==
  /\ Goto("api", "idle", "get")
  /\ u \in Phones
  /\ who' = [who EXCEPT !["api"] = u]
  /\ UNCHANGED <<mapVars, memVars, lockVars, known, hand, val, phase, ci>>

\* GetTerminalByID waits for m_cs.
GetNone ==
  /\ Goto("api", "get", "idle")
  /\ cs = Free
  /\ byId[who["api"]] = NoObj
  /\ who' = [who EXCEPT !["api"] = NoUser]
  /\ UNCHANGED <<mapVars, memVars, lockVars, known, hand, val, phase, ci>>

\* Bug: the terminal is handed out without AddRef.
GetUncounted ==
  /\ Goto("api", "get", "use")
  /\ cs = Free
  /\ byId[who["api"]] # NoObj
  /\ hand' = [hand EXCEPT !["api"] = byId[who["api"]]]
  /\ UNCHANGED <<mapVars, memVars, lockVars, known, who, val, phase, ci>>

Get ==
  /\ Goto("api", "get", "use")
  /\ cs = Free
  /\ byId[who["api"]] # NoObj
  /\ hand' = [hand EXCEPT !["api"] = byId[who["api"]]]
  /\ refs' = [refs EXCEPT ![byId[who["api"]]] = @ + 1]
  /\ UNCHANGED <<mapVars, mem, lockVars, known, who, val, phase, ci>>

\* The terminal does what the call asks for; then comes Release, without m_cs.
Use ==
  /\ Goto("api", "use", "drop")
  /\ UNCHANGED <<mapVars, memVars, lockVars, known, who, hand, val, phase, ci>>

CallDone ==
  /\ Goto("api", "last", "idle")
  /\ phase = "open"
  /\ Delete("api")
  /\ who' = [who EXCEPT !["api"] = NoUser]
  /\ hand' = [hand EXCEPT !["api"] = NoObj]
  /\ UNCHANGED <<mapVars, refs, lockVars, known, phase, ci>>

-----------------------------------------------------------------------------
(* MP_Close: the capture thread is stopped and waited for; the reglament     *)
(* thread is not, and ~CTerminalManager releases the devices without m_cs,   *)
(* with the callbacks still installed.                                       *)

Close ==
  /\ Goto("api", "idle", "stop")
  /\ UNCHANGED <<mapVars, memVars, lockVars, known, who, hand, val, phase, ci>>

CaptureEnded ==
  /\ pc["cap"] = "idle" /\ pc["api"] = "stop"
  /\ pc' = [pc EXCEPT !["cap"] = "ended", !["api"] = "loop"]
  /\ phase' = "closing"
  /\ UNCHANGED <<mapVars, memVars, lockVars, known, who, hand, val, ci>>

\* m_xDevices[i]->Release() for i < m_xDevices.size()
CloseNext ==
  /\ Goto("api", "loop", "drop")
  /\ ci <= Len(devices)
  /\ hand' = [hand EXCEPT !["api"] = devices[ci]]
  /\ UNCHANGED <<mapVars, memVars, lockVars, known, who, val, phase, ci>>

CloseReleased ==
  /\ Goto("api", "last", "loop")
  /\ phase = "closing"
  /\ Delete("api")
  /\ ci' = ci + 1
  /\ hand' = [hand EXCEPT !["api"] = NoObj]
  /\ UNCHANGED <<mapVars, refs, lockVars, known, who, phase>>

\* The callbacks go, and the manager with its maps.
Closed ==
  /\ Goto("api", "loop", "ended")
  /\ ci > Len(devices)
  /\ phase' = "closed"
  /\ UNCHANGED <<mapVars, memVars, lockVars, known, who, hand, val, ci>>

-----------------------------------------------------------------------------
CaptureStep ==
  \/ PacketDone \/ \E a \in Addrs : RegisterLocked(a)
  \/ CreateNone \/ CreateKnown \/ \E o \in Fresh : Create(o)
  \/ Status
  \/ CallEventDone("cap")

ReglamentStep ==
  \/ EraseNone \/ Erase \/ EraseDone \/ Load("rgl") \/ Store("rgl")
  \/ CallEventDone("rgl")

ApiStep ==
  \/ GetNone \/ Get \/ Use \/ Load("api") \/ Store("api") \/ CallDone
  \/ CaptureEnded \/ CloseNext \/ CloseReleased \/ Closed

Input ==
  \/ \E a \in Addrs : Packet(a)
  \/ \E u \in Users : Register(u)
  \/ \E t \in {"cap", "rgl"}, from, to \in Addrs : CallEvent(t, from, to)
  \/ \E u \in Users : EndRegister(u)
  \/ \E u \in Users : Call(u)
  \/ Close

Next == CaptureStep \/ ReglamentStep \/ ApiStep \/ Input

Spec == Init /\ [][Next]_vars

\* A thread inside the manager goes on, and a critical section that is left
\* again and again is given to a thread that waits for it.
Fairness ==
  /\ SF_vars(CaptureStep)
  /\ SF_vars(ReglamentStep)
  /\ SF_vars(ApiStep)

FairSpec == Spec /\ Fairness

-----------------------------------------------------------------------------
(* Properties. *)

TypeOK ==
  /\ byId \in [Phones -> Objs \cup {NoObj}]
  /\ byIp \in [Addrs -> Objs \cup {NoObj}]
  /\ devices \in Seq(Objs)
  /\ mem \in [Objs -> {"new", "live", "gone"}]
  /\ refs \in [Objs -> Int]
  /\ locker \in {"cap", "rgl", NoThread}
  /\ cs \in [owner : {"cap", "rgl", NoThread}, depth : Nat]
  /\ cs.owner = NoThread <=> cs.depth = 0
  /\ known \in [Users -> Addrs \cup {NoAddr}]
  /\ pc \in [Threads -> {"idle", "packet", "register", "create", "status", "event",
                         "erase", "drop", "dec", "last", "get", "use", "stop",
                         "loop", "ended"}]
  /\ who \in [Threads -> Users \cup {NoUser}]
  /\ hand \in [Threads -> Objs \cup {NoObj}]
  /\ val \in [Threads -> Int]
  /\ phase \in {"open", "closing", "closed"}
  /\ ci \in Nat \ {0}

\* The devices are the terminals of the phones, each once.
DevicesAgree ==
  /\ IsInjective(devices)
  /\ ToSet(devices) = {byId[u] : u \in Phones} \ {NoObj}

\* No container leads to a deleted terminal: that of a phone is live, and a
\* terminal that has an address is that of a phone reported there, although
\* terminals take over addresses and DeleteTerminal erases an address whoever
\* has it.
MapsLive ==
  phase = "open" =>
    /\ \A u \in Phones : byId[u] # NoObj => mem[byId[u]] = "live"
    /\ \A a \in Addrs : byIp[a] # NoObj =>
         \E u \in Phones : byId[u] = byIp[a] /\ known[u] = a

\* Both: the containers have the same terminals, all of them live.
ContainersSound == DevicesAgree /\ MapsLive

Holds(o) == hand["api"] = o /\ pc["api"] \in {"use", "drop", "dec"}

\* The count of a terminal in the maps is exact, although AddRef and Release
\* are not atomic and Release is called without m_cs: one for the maps and one
\* for an application call that has it.
CountExact ==
  phase = "open" =>
    \A u \in Phones : byId[u] # NoObj =>
      refs[byId[u]] = IF Holds(byId[u]) THEN 2 ELSE 1

\* A terminal the application works on is not deleted under it, whatever
\* registrations end meanwhile.
ApiUseLive == phase = "open" => \A o \in Objs : Holds(o) => mem[o] = "live"

\* Nor is a terminal that handles a call event, or is being reported, although
\* the event holds neither m_cs nor a reference: m_xLocker keeps the end of a
\* registration away.  (The same does not hold of a packet, see Packet.)
EventUseLive ==
  phase = "open" =>
    \A t \in {"cap", "rgl"} : pc[t] \in {"event", "status"} => mem[hand[t]] = "live"

\* Both: what is protected by its count, and what by a lock.
UseLive == ApiUseLive /\ EventUseLive

\* m_cs was left entered by the early return of CreateTerminal.
Stuck == cs.owner = "cap"

\* A call of the application returns, MP_Close included, unless a phone was
\* reported twice: no order of the three locks, the wait for the capture thread
\* and the thread that is never stopped blocks it.
ApiReturns ==
  pc["api"] \notin {"idle", "ended"} ~> pc["api"] \in {"idle", "ended"} \/ Stuck

(* What a comment says, and the code does not do. *)

\* RecorderMain.cpp:165: MP_Close "will release the ports and all allocated
\* software devices".
AllReleased == phase = "closed" /\ pc["rgl"] = "idle" => \A o \in Objs : mem[o] # "live"
=============================================================================
