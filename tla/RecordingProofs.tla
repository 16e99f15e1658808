---------------------------- MODULE RecordingProofs ----------------------------
(***************************************************************************)
(* For any calls, sessions, ports and inputs: CRTPRecorder's list of ports *)
(* (RTPRecorder.cpp) agrees with its sessions, and the recorder has the    *)
(* sessions CSIPManager has; where the application does not call           *)
(* MP_AudioMonitor, a bound session of CTerminalAudio (TerminalAudio.cpp)  *)
(* leads to an input of the mixer that is there; and the values have their *)
(* types, whatever the application calls.                                  *)
(***************************************************************************)
EXTENDS Recording, SequenceTheorems, WellFoundedInduction, TLAPS

\* A session of the recorder.
RecRec == [port : Ports, on : BOOLEAN]

AllPorts(r) == UNION {PortsOf(s, r[s].port) : s \in DOMAIN r}

\* The sessions that are recorded are those the manager has, with ids that were
\* given out: a new session has none of their ports.
SessionsKept ==
  /\ nextId \in Nat
  /\ rec \in [DOMAIN rec -> RecRec]
  /\ DOMAIN rec = DOMAIN sess
  /\ \A s \in DOMAIN sess : s \in Nat /\ s < nextId

PInv == SessionsKept /\ ports = AllPorts(rec)

-----------------------------------------------------------------------------
\* The ports of one session are in the list for no other.
LEMMA PortsApart ==
  ASSUME NEW s, NEW t, NEW p, NEW q, s # t
  PROVE  PortsOf(s, p) \cap PortsOf(t, q) = {}
  BY DEF PortsOf

LEMMA PortsAdded ==
  ASSUME NEW r, NEW s, s \notin DOMAIN r, NEW p, NEW on
  PROVE  AllPorts(Put(r, s, [port |-> p, on |-> on])) = AllPorts(r) \cup PortsOf(s, p)
  BY DEF AllPorts, Put

LEMMA PortsRemoved ==
  ASSUME NEW r, NEW s \in DOMAIN r
  PROVE  AllPorts(Without(r, {s})) = AllPorts(r) \ PortsOf(s, r[s].port)
  BY PortsApart DEF AllPorts, Without

LEMMA PortsModified ==
  ASSUME NEW r, NEW m, NEW s \in DOMAIN r, NEW p, DOMAIN m = DOMAIN r, m[s].port = p,
         \A t \in DOMAIN r \ {s} : m[t] = r[t]
  PROVE  AllPorts(m) = (AllPorts(r) \ PortsOf(s, r[s].port)) \cup PortsOf(s, p)
<1>1. AllPorts(m) = (UNION {PortsOf(t, r[t].port) : t \in DOMAIN r \ {s}}) \cup PortsOf(s, p)
  <2>1. \A t \in DOMAIN r :
          PortsOf(t, m[t].port) = IF t = s THEN PortsOf(s, p) ELSE PortsOf(t, r[t].port)
    OBVIOUS
  <2> HIDE DEF PortsOf
  <2> QED  BY <2>1, Zenon DEF AllPorts
<1>2. AllPorts(r) \ PortsOf(s, r[s].port) = UNION {PortsOf(t, r[t].port) : t \in DOMAIN r \ {s}}
  BY PortsApart DEF AllPorts
<1> QED  BY <1>1, <1>2

\* Whether a session is recorded does not matter.
LEMMA PortsOnOff ==
  ASSUME NEW D, NEW r \in [D -> RecRec], NEW s \in D, NEW on \in BOOLEAN
  PROVE  /\ [r EXCEPT ![s].on = on] \in [D -> RecRec]
         /\ AllPorts([r EXCEPT ![s].on = on]) = AllPorts(r)
<1> DEFINE m == [r EXCEPT ![s].on = on]
<1>1. m \in [D -> RecRec] /\ DOMAIN m = D /\ DOMAIN r = D
  BY DEF RecRec
<1>2. \A t \in D : m[t].port = r[t].port
  BY DEF RecRec
<1> HIDE DEF m
<1>3. AllPorts(m) = AllPorts(r)
  BY <1>1, <1>2 DEF AllPorts
<1> QED  BY <1>1, <1>3 DEF m

-----------------------------------------------------------------------------
LEMMA InitPorts == Init => PInv
  BY DEF Init, PInv, SessionsKept, AllPorts

LEMMA NewSessionPorts ==
  ASSUME PInv, NEW c \in CallIds, NEW p \in Ports, NewSession(c, p)
  PROVE  PInv'
<1>1. /\ nextId' = nextId + 1 /\ sess' = Put(sess, nextId, c)
      /\ rec' = Put(rec, nextId, [port |-> p, on |-> FALSE])
      /\ ports' = ports \cup PortsOf(nextId, p)
  BY DEF NewSession
<1>2. nextId \notin DOMAIN sess /\ nextId \notin DOMAIN rec /\ nextId \in Nat
  BY DEF PInv, SessionsKept
<1>3. ports' = AllPorts(rec')
  <2>1. AllPorts(Put(rec, nextId, [port |-> p, on |-> FALSE]))
          = AllPorts(rec) \cup PortsOf(nextId, p)
    BY <1>2, PortsAdded
  <2> QED  BY <1>1, <2>1 DEF PInv
<1>4. DOMAIN sess' = DOMAIN sess \cup {nextId} /\ DOMAIN rec' = DOMAIN rec \cup {nextId}
  BY <1>1 DEF Put
<1>5. rec' \in [DOMAIN rec' -> RecRec]
  <2>1. rec' = [x \in DOMAIN rec' |-> rec'[x]]
    BY <1>1 DEF Put
  <2>2. ASSUME NEW x \in DOMAIN rec' PROVE rec'[x] \in RecRec
    <3>1. CASE x = nextId
      BY <1>1, <1>4, <3>1 DEF Put, RecRec
    <3>2. CASE x # nextId
      BY <1>1, <1>4, <2>2, <3>2 DEF Put, PInv, SessionsKept
    <3> QED  BY <3>1, <3>2
  <2> QED  BY <2>1, <2>2
<1>6. \A s \in DOMAIN sess' : s \in Nat /\ s < nextId'
  BY <1>1, <1>2, <1>4 DEF PInv, SessionsKept
<1>7. SessionsKept'
  <2>1. nextId' \in Nat /\ DOMAIN rec' = DOMAIN sess'
    BY <1>1, <1>2, <1>4 DEF PInv, SessionsKept
  <2> QED  BY <1>5, <1>6, <2>1 DEF SessionsKept
<1> QED  BY <1>3, <1>7 DEF PInv

LEMMA ModifySessionPorts ==
  ASSUME PInv, NEW s, NEW p \in Ports, ModifySession(s, p)
  PROVE  PInv'
<1>1. /\ s \in DOMAIN rec /\ UNCHANGED managerVars
      /\ rec' = [rec EXCEPT ![s].port = p]
      /\ ports' = (ports \ PortsOf(s, rec[s].port)) \cup PortsOf(s, p)
  BY DEF ModifySession
<1>2. rec \in [DOMAIN rec -> RecRec]
  BY DEF PInv, SessionsKept
<1>3. ports' = AllPorts(rec')
  <2>1. DOMAIN rec' = DOMAIN rec /\ \A t \in DOMAIN rec \ {s} : rec'[t] = rec[t]
    BY <1>1, <1>2
  <2>2. rec[s] \in RecRec /\ rec'[s] = [rec[s] EXCEPT !.port = p]
    BY <1>1, <1>2
  <2>3. rec'[s].port = p
    BY <2>2 DEF RecRec
  <2>4. AllPorts(rec') = (AllPorts(rec) \ PortsOf(s, rec[s].port)) \cup PortsOf(s, p)
    <3> DEFINE m == rec'
    <3>1. /\ s \in DOMAIN rec /\ DOMAIN m = DOMAIN rec /\ m[s].port = p
          /\ \A t \in DOMAIN rec \ {s} : m[t] = rec[t]
      BY <1>1, <2>1, <2>3
    <3> HIDE DEF m
    <3>2. AllPorts(m) = (AllPorts(rec) \ PortsOf(s, rec[s].port)) \cup PortsOf(s, p)
      BY <3>1, PortsModified
    <3> QED  BY <3>2 DEF m
  <2> QED  BY <1>1, <2>4, Zenon DEF PInv
<1>4. rec' \in [DOMAIN rec -> RecRec] /\ DOMAIN rec' = DOMAIN rec
  <2>1. rec[s] \in RecRec
    BY <1>1, <1>2
  <2>2. [rec[s] EXCEPT !.port = p] \in RecRec
    BY <2>1 DEF RecRec
  <2> QED  BY <1>1, <1>2, <2>2
<1>5. SessionsKept'
  BY <1>1, <1>4 DEF PInv, SessionsKept, managerVars
<1> QED  BY <1>3, <1>5 DEF PInv

LEMMA StopSessionPorts ==
  ASSUME PInv, NEW s, StopSession(s)
  PROVE  PInv'
<1>1. /\ s \in DOMAIN sess /\ s \in DOMAIN rec /\ nextId' = nextId
      /\ sess' = Without(sess, {s}) /\ rec' = Without(rec, {s})
      /\ ports' = ports \ PortsOf(s, rec[s].port)
  BY DEF StopSession, PInv, SessionsKept
<1>2. ports' = AllPorts(rec')
  BY <1>1, PortsRemoved DEF PInv
<1>3. DOMAIN rec' = DOMAIN rec \ {s} /\ DOMAIN sess' = DOMAIN sess \ {s}
  BY <1>1 DEF Without
<1>4. rec' \in [DOMAIN rec' -> RecRec]
  BY <1>1, <1>3 DEF Without, PInv, SessionsKept
<1>5. SessionsKept'
  BY <1>1, <1>3, <1>4 DEF PInv, SessionsKept
<1> QED  BY <1>2, <1>5 DEF PInv

\* CRTPRecorder::StartRecord and StopRecord.
LEMMA OnOffPorts ==
  ASSUME PInv, NEW t, StartRecord(t) \/ StopRecord(t)
  PROVE  PInv'
<1>1. UNCHANGED <<managerVars, ports>>
  BY DEF StartRecord, StopRecord
<1>2. rec' = rec \/ \E s \in DOMAIN rec, on \in BOOLEAN : rec' = [rec EXCEPT ![s].on = on]
  BY DEF StartRecord, StopRecord
<1>3. rec \in [DOMAIN rec -> RecRec]
  BY DEF PInv, SessionsKept
<1>4. rec' \in [DOMAIN rec -> RecRec] /\ AllPorts(rec') = AllPorts(rec)
  BY <1>2, <1>3, PortsOnOff
<1> QED  BY <1>1, <1>4 DEF PInv, SessionsKept, managerVars, AllPorts

-----------------------------------------------------------------------------
LEMMA AlwaysPorts == Spec => []PInv
<1>1. PInv /\ [Next]_vars => PInv'
  <2> SUFFICES ASSUME PInv, [Next]_vars PROVE PInv'
    OBVIOUS
  <2>1. ASSUME UNCHANGED <<sess, nextId, rec, ports>> PROVE PInv'
    BY <2>1 DEF PInv, SessionsKept, AllPorts
  <2>2. ASSUME NEW c \in CallIds, NEW p \in Ports, NewSession(c, p) PROVE PInv'
    BY <2>2, NewSessionPorts
  <2>3. ASSUME NEW s \in Ids, NEW p \in Ports, ModifySession(s, p) PROVE PInv'
    BY <2>3, ModifySessionPorts
  <2>4. ASSUME NEW s \in Ids, StopSession(s) PROVE PInv'
    BY <2>4, StopSessionPorts
  <2>5. ASSUME NEW c \in CallIds, NEW o \in BOOLEAN, NewCall(c, o) \/ EndCall(c) PROVE PInv'
    BY <2>1, <2>5 DEF NewCall, EndCall, recorderVars
  <2>6. ASSUME EndRegister \/ GetAudioData \/ \E what \in ApiCalls : Call(what) PROVE PInv'
    BY <2>1, <2>6, Zenon DEF EndRegister, GetAudioData, Call, managerVars, recorderVars
  <2>7. CASE FlushStream \/ EndedCall
    BY <2>1, <2>7, Zenon DEF FlushStream, EndedCall, managerVars, recorderVars
  <2>8. ASSUME NEW t \in Threads, ThreadStep(t) PROVE PInv'
    <3>1. CASE StartRecord(t) \/ StopRecord(t)
      BY <3>1, OnOffPorts
    <3>2. CASE CreateInput(t) \/ DeleteInput(t)
      BY <2>1, <3>2, Zenon DEF CreateInput, DeleteInput, managerVars, recorderVars
    <3>3. CASE AddNewStream(t) \/ AddedStream(t) \/ DeleteStream(t) \/ EraseStream(t)
      BY <2>1, <3>3 DEF AddNewStream, AddedStream, DeleteStream, EraseStream,
                        managerVars, recorderVars
    <3>4. CASE \E on \in BOOLEAN : SetRecording(t, on)
      BY <2>1, <3>4 DEF SetRecording, managerVars, recorderVars
    <3>5. CASE RecordNext(t, "record", "input") \/ RecordNext(t, "unrecord", "unbind")
      BY <2>1, <3>5 DEF RecordNext, managerVars, recorderVars
    <3>6. CASE Release(t) \/ Destroy(t)
      BY <2>1, <3>6 DEF Release, Destroy, managerVars, recorderVars
    <3> QED  BY <2>8, <3>1, <3>2, <3>3, <3>4, <3>5, <3>6 DEF ThreadStep
  <2>9. CASE UNCHANGED vars
    BY <2>1, <2>9 DEF vars, managerVars, recorderVars
  <2> QED  BY <2>2, <2>3, <2>4, <2>5, <2>6, <2>7, <2>8, <2>9 DEF Next, Event
<1> QED  BY <1>1, InitPorts, PTL DEF Spec

\* RTPRecorder.cpp: OnUDPPacket finds a session by its two ports, so m_xDstIpPorts
\* may neither keep the ports of a session that ended or moved, nor lose those of
\* one whose new ports another session had.
THEOREM PortsAlwaysAgree == Spec => []PortsAgree
<1>1. PInv => PortsAgree
  BY DEF PInv, PortsAgree, AllPorts
<1> QED  BY <1>1, AlwaysPorts, PTL

-----------------------------------------------------------------------------
(***************************************************************************)
(* Bindings lead to live inputs.  The invariant BInv says of every step a  *)
(* thread still has to do what the code takes for granted when it gets     *)
(* there: its stream is in the list, its input is there, its session is    *)
(* unbound.  Three facts carry it: the references leave at most one thread *)
(* that works on the terminal (RefsOK), what has been unbound lies before  *)
(* the iterator (Ahead, NotBehind), and outside of a recording nothing is  *)
(* bound (StoppedOK).                                                      *)
(***************************************************************************)

StepRec ==
  [do : {"input", "unbind", "uninput", "add", "added", "delete", "erase", "start",
         "stop", "record", "unrecord", "release", "destroy"}, id : Nat, remote : BOOLEAN]
    \cup [do : {"bind"}, id : Nat, input : Inputs]
    \cup [do : {"ended"}, call : CallIds]

StreamIds == {streams[k].id : k \in DOMAIN streams}

\* The step y may come after the step x in a handler.
Follows(x, y) ==
  \/ x.do \in {"input", "bind"} /\ y.do = "record" /\ y.id = x.id
  \/ x.do \in {"unbind", "uninput"} /\ y.do \in {"erase", "unrecord"} /\ y.id = x.id
  \/ x.do \in {"erase", "delete"} /\ y.do \in {"delete", "ended"}
  \/ x.do \in {"stop", "unrecord"} /\ y.do = "destroy"

Chained(p) == \A k \in 1 .. Len(p) - 1 : Follows(p[k], p[k + 1])

\* A thread is in a handler, and has more to do than give its reference back.
Active(t) == prog[t] # <<>> /\ ~ Doing(t, "release")

\* A thread takes inputs away, one stream after the other.
Unrecording(t) ==
  \/ Len(prog[t]) > 0 /\ prog[t][1].do = "unrecord"
  \/ Len(prog[t]) > 1 /\ prog[t][2].do = "unrecord"

\* Every stream that is bound is in the list after that of s.
Ahead(s) ==
  \A j, k \in DOMAIN streams : streams[j].id = s /\ streams[k].id \in DOMAIN bound => j < k

NotBehind(s) ==
  \A j, k \in DOMAIN streams : streams[j].id = s /\ streams[k].id \in DOMAIN bound => j <= k

ProgOK == prog \in [Threads -> Seq(StepRec)] /\ \A t \in Threads : Chained(prog[t])

\* The terminal is deleted by the last thread that has to do with it.
RefsOK ==
  /\ mapped \in BOOLEAN
  /\ refs = (IF mapped \/ Doing("sip", "release") THEN 1 ELSE 0)
            + (IF Doing("api", "release") THEN 1 ELSE 0)
  /\ mapped => ~ Doing("sip", "release")
  /\ \A t \in Threads : Active(t) => (t = "sip" /\ mapped) \/ refs = 0
  /\ \A t, u \in Threads : Active(t) /\ Active(u) => t = u

ListOK ==
  /\ streams \in Seq([id : Nat \ {0}, remote : BOOLEAN])
  /\ \A j, k \in DOMAIN streams : streams[j].id = streams[k].id => j = k
  /\ nextId \in Nat \ {0}
  /\ \A k \in DOMAIN streams : streams[k].id < nextId
  /\ calls \in Seq([call : CallIds, out : BOOLEAN, ids : Seq(Nat)])
  /\ inputs \in [BOOLEAN -> Seq(Inputs)]

BoundOK ==
  /\ obj \in [DOMAIN obj -> [id : Nat, done : BOOLEAN]]
  /\ \A s \in DOMAIN bound : /\ s \in DOMAIN rec /\ s \in StreamIds
                             /\ bound[s] \in DOMAIN obj /\ obj[bound[s]].id = s

\* What is to be done is about a stream that is there.
AboutStream(h) ==
  /\ h.do \in {"added", "input", "bind", "unbind", "uninput", "erase"} => h.id \in StreamIds
  /\ h.do \in {"record", "unrecord"} => h.id \in StreamIds \cup {0}
  /\ h.do = "add" => h.id \notin StreamIds /\ h.id \in 1 .. nextId - 1

\* What the step still to be done may rely on.
StepOK(h) ==
  /\ h.do = "bind" => h.input \in DOMAIN obj /\ obj[h.input].id = h.id
  /\ h.do \in {"uninput", "erase"} => h.id \notin DOMAIN bound
  /\ h.do \in {"input", "bind", "record"} => recording
  /\ h.do = "destroy" => ~ recording

\* What thread t may rely on.  Streams are unbound in the order of the list.
ThreadOK(t) ==
  prog[t] # <<>> =>
    /\ AboutStream(prog[t][1]) /\ StepOK(prog[t][1])
    /\ Unrecording(t) =>
         /\ ~ recording
         /\ prog[t][1].do \in {"unrecord", "uninput"} => Ahead(prog[t][1].id)
         /\ prog[t][1].do = "unbind" => NotBehind(prog[t][1].id)

\* The call that thread t is to remove is in the list.
EndedOK(t) ==
  \A k \in 1 .. Len(prog[t]) : prog[t][k].do = "ended" => CallAt(prog[t][k].call) # {}

\* The steps that thread t still has to do are new ones or were there before.
NoNewEnd(t) ==
  \A k \in 1 .. Len(prog'[t]) :
    prog'[t][k].do = "ended" => \E j \in 1 .. Len(prog[t]) : prog[t][j] = prog'[t][k]

StoppedOK == ~ recording /\ (\A t \in Threads : ~ Unrecording(t)) => DOMAIN bound = {}

BInv ==
  /\ ProgOK /\ RefsOK /\ ListOK /\ BoundOK
  /\ \A t \in Threads : ThreadOK(t) /\ EndedOK(t)
  /\ StoppedOK

-----------------------------------------------------------------------------
LEMMA Least ==
  ASSUME NEW S \in SUBSET Nat, S # {}
  PROVE  \E k \in S : \A j \in S : k <= j
<1>1. IsWellFoundedOn({ss \in Nat \X Nat : ss[1] < ss[2]}, Nat)
  BY NatLessThanWellFounded DEF OpToRel
<1>2. PICK x \in S : \A y \in S : ~ (<<y, x>> \in {ss \in Nat \X Nat : ss[1] < ss[2]})
  BY <1>1, WFMin
<1>3. ASSUME NEW y \in S PROVE x <= y
  <2>1. <<y, x>> \in Nat \X Nat /\ <<y, x>>[1] = y /\ <<y, x>>[2] = x
    OBVIOUS
  <2>2. ~ (y < x)
    BY <1>2, <2>1
  <2> QED  BY <2>2
<1> QED BY <1>2, <1>3

\* What the list of the streams has.
LEMMA ListFields ==
  ASSUME ListOK, NEW k \in DOMAIN streams
  PROVE  /\ streams[k].id \in Nat /\ streams[k].id # 0 /\ streams[k].remote \in BOOLEAN
         /\ streams[k].id \in StreamIds
         /\ Len(streams) \in Nat /\ k \in 1 .. Len(streams)
<1> DEFINE S == [id : Nat \ {0}, remote : BOOLEAN]
<1>1. streams \in Seq(S)
  BY DEF ListOK
<1>2. \A e \in S : e.id \in Nat /\ e.id # 0 /\ e.remote \in BOOLEAN
  OBVIOUS
<1> HIDE DEF S
<1>3. streams[k] \in S /\ Len(streams) \in Nat /\ k \in 1 .. Len(streams)
  BY <1>1
<1>4. streams[k].id \in StreamIds
  BY DEF StreamIds
<1> QED  BY <1>2, <1>3, <1>4

\* A list without its element k.
LEMMA Removed ==
  ASSUME NEW S, NEW s \in Seq(S), NEW k \in 1 .. Len(s)
  PROVE  /\ RemoveAt(s, k) \in Seq(S) /\ Len(RemoveAt(s, k)) = Len(s) - 1
         /\ \A i \in 1 .. Len(s) - 1 : RemoveAt(s, k)[i] = IF i < k THEN s[i] ELSE s[i + 1]
<1> DEFINE r == RemoveAt(s, k)
           front == SubSeq(s, 1, k - 1)
           back == SubSeq(s, k + 1, Len(s))
<1>1. Len(s) \in Nat
  OBVIOUS
<1>2. front \in Seq(S) /\ Len(front) = k - 1 /\ \A i \in 1 .. k - 1 : front[i] = s[i]
  BY <1>1
<1>3. /\ back \in Seq(S) /\ Len(back) = Len(s) - k
      /\ \A i \in 1 .. Len(s) - k : back[i] = s[i + k]
  BY <1>1
<1>4. r = front \o back
  BY DEF RemoveAt
<1> HIDE DEF front, back, r
<1>5. /\ front \o back \in Seq(S) /\ Len(front \o back) = Len(front) + Len(back)
      /\ \A i \in 1 .. Len(front) + Len(back) :
           (front \o back)[i] = IF i <= Len(front) THEN front[i] ELSE back[i - Len(front)]
  BY <1>2, <1>3, ConcatProperties
<1>6. r \in Seq(S) /\ Len(r) = Len(s) - 1
  BY <1>1, <1>2, <1>3, <1>4, <1>5
<1>7. \A i \in 1 .. Len(s) - 1 : r[i] = IF i < k THEN s[i] ELSE s[i + 1]
  <2>1. ASSUME NEW i \in 1 .. Len(s) - 1, i < k PROVE r[i] = s[i]
    BY <1>1, <1>2, <1>3, <1>4, <1>5, <2>1
  <2>2. ASSUME NEW i \in 1 .. Len(s) - 1, ~ (i < k) PROVE r[i] = s[i + 1]
    <3>1. r[i] = back[i - (k - 1)]
      BY <1>1, <1>2, <1>3, <1>4, <1>5, <2>2
    <3>2. i - (k - 1) \in 1 .. Len(s) - k /\ i - (k - 1) + k = i + 1
      BY <1>1, <2>2
    <3> QED BY <1>3, <3>1, <3>2
  <2> QED BY <2>1, <2>2
<1> QED BY <1>6, <1>7 DEF r

\* The elements of a list without its element k.
LEMMA RemovedElements ==
  ASSUME NEW S, NEW s \in Seq(S), NEW k \in DOMAIN s
  PROVE  /\ \A i \in DOMAIN RemoveAt(s, k) : \E j \in DOMAIN s \ {k} :
              RemoveAt(s, k)[i] = s[j] /\ j = IF i < k THEN i ELSE i + 1
         /\ \A j \in DOMAIN s \ {k} : \E i \in DOMAIN RemoveAt(s, k) : RemoveAt(s, k)[i] = s[j]
         /\ DOMAIN RemoveAt(s, k) \subseteq Nat
         /\ (RemoveAt(s, k) = <<>>) <=> (DOMAIN s = {k})
<1> DEFINE r == RemoveAt(s, k)
<1>1. Len(s) \in Nat /\ DOMAIN s = 1 .. Len(s) /\ k \in 1 .. Len(s)
  OBVIOUS
<1>2. /\ r \in Seq(S) /\ Len(r) = Len(s) - 1
      /\ \A i \in 1 .. Len(s) - 1 : r[i] = IF i < k THEN s[i] ELSE s[i + 1]
  BY <1>1, Removed, Zenon
<1> HIDE DEF r
<1>3. DOMAIN r = 1 .. Len(s) - 1
  BY <1>2
<1>4. \A i \in DOMAIN r : \E j \in DOMAIN s \ {k} : r[i] = s[j] /\ j = IF i < k THEN i ELSE i + 1
  <2> TAKE i \in DOMAIN r
  <2>1. CASE i < k
    BY <1>1, <1>2, <1>3, <2>1
  <2>2. CASE ~ (i < k)
    <3>1. i + 1 \in DOMAIN s \ {k} /\ r[i] = s[i + 1]
      BY <1>1, <1>2, <1>3, <2>2
    <3> QED  BY <2>2, <3>1
  <2> QED  BY <2>1, <2>2
<1>5. \A j \in DOMAIN s \ {k} : \E i \in DOMAIN r : r[i] = s[j]
  <2> TAKE j \in DOMAIN s \ {k}
  <2>1. CASE j < k
    <3>1. j \in DOMAIN r /\ r[j] = s[j]
      BY <1>1, <1>2, <1>3, <2>1
    <3> QED  BY <3>1
  <2>2. CASE ~ (j < k)
    <3>1. j - 1 \in DOMAIN r /\ ~ (j - 1 < k) /\ j - 1 + 1 = j
      BY <1>1, <1>3, <2>2
    <3>2. r[j - 1] = s[j]
      BY <1>2, <1>3, <3>1
    <3> QED  BY <3>1, <3>2
  <2> QED  BY <1>1, <2>1, <2>2
<1>6. (r = <<>>) <=> (DOMAIN s = {k})
  <2>1. (r = <<>>) <=> (Len(r) = 0)
    BY <1>2, EmptySeq
  <2>2. (Len(s) = 1) <=> (1 .. Len(s) = {k})
    BY <1>1
  <2> QED  BY <1>1, <1>2, <2>1, <2>2
<1> QED  BY <1>1, <1>3, <1>4, <1>5, <1>6 DEF r

\* A list with one more element.
LEMMA Appended ==
  ASSUME NEW S, NEW s \in Seq(S), NEW e \in S
  PROVE  /\ Append(s, e) \in Seq(S) /\ Len(Append(s, e)) = Len(s) + 1 /\ Len(s) \in Nat
         /\ DOMAIN s = 1 .. Len(s) /\ DOMAIN Append(s, e) = 1 .. Len(s) + 1
         /\ \A k \in DOMAIN s : k \in DOMAIN Append(s, e) /\ Append(s, e)[k] = s[k]
         /\ \A k \in DOMAIN Append(s, e) : k \in DOMAIN s \/ k = Len(s) + 1
         /\ Append(s, e)[Len(s) + 1] = e
OBVIOUS

\* The first step of a handler.
LEMMA First ==
  ASSUME ProgOK, NEW t \in Threads
  PROVE  /\ prog[t] \in Seq(StepRec) /\ Len(prog[t]) \in Nat
         /\ (prog[t] # <<>>) <=> (Len(prog[t]) > 0)
         /\ Len(prog[t]) > 0 => prog[t][1] \in StepRec /\ Head(prog[t]) = prog[t][1]
         /\ Len(prog[t]) > 1 => prog[t][2] \in StepRec /\ Follows(prog[t][1], prog[t][2])
         /\ Len(prog[t]) > 2 => Follows(prog[t][2], prog[t][3])
         /\ \A do \in STRING : Doing(t, do) <=> Len(prog[t]) > 0 /\ prog[t][1].do = do
<1>1. prog[t] \in Seq(StepRec) /\ Chained(prog[t])
  BY DEF ProgOK
<1> DEFINE p == prog[t]
<1>2. p \in Seq(StepRec) /\ Chained(p)
  BY <1>1
<1>3. prog[t] = p
  OBVIOUS
<1> HIDE DEF p
<1>4. Len(p) \in Nat /\ ((p # <<>>) <=> (Len(p) > 0))
  BY <1>2, EmptySeq
<1>5. Len(p) > 0 => p[1] \in StepRec /\ Head(p) = p[1]
  BY <1>2
<1>6. Len(p) > 1 => p[2] \in StepRec /\ Follows(p[1], p[2])
  <2> HAVE Len(p) > 1
  <2>1. 1 \in 1 .. Len(p) - 1 /\ 2 \in 1 .. Len(p)
    BY <1>4
  <2>2. Follows(p[1], p[1 + 1])
    BY <1>2, <2>1, Zenon DEF Chained
  <2> QED  BY <1>2, <2>1, <2>2
<1>7. Len(p) > 2 => Follows(p[2], p[3])
  <2> HAVE Len(p) > 2
  <2>1. 2 \in 1 .. Len(p) - 1
    BY <1>4
  <2>2. Follows(p[2], p[2 + 1])
    BY <1>2, <2>1, Zenon DEF Chained
  <2> QED  BY <2>2
<1> QED  BY <1>1, <1>3, <1>4, <1>5, <1>6, <1>7 DEF Doing

\* A thread does its first step, and has steps to do before the rest.
LEMMA ThenSteps ==
  ASSUME prog \in [Threads -> Seq(StepRec)], NEW t \in Threads, Len(prog[t]) > 0,
         NEW steps \in Seq(StepRec), Then(t, steps)
  PROVE  /\ prog' \in [Threads -> Seq(StepRec)]
         /\ Len(steps) \in Nat /\ Len(prog[t]) \in Nat
         /\ Len(prog'[t]) = Len(steps) + Len(prog[t]) - 1
         /\ \A i \in 1 .. Len(prog'[t]) :
              prog'[t][i] = IF i <= Len(steps) THEN steps[i] ELSE prog[t][i - Len(steps) + 1]
         /\ \A u \in Threads \ {t} : prog'[u] = prog[u]
<1> DEFINE p == prog[t]
           q == Tail(p)
           r == steps \o q
<1>1. p \in Seq(StepRec) /\ Len(p) \in Nat /\ Len(p) > 0
  OBVIOUS
<1>2. prog' = [prog EXCEPT ![t] = r]
  BY DEF Then
<1> HIDE DEF p
<1>3. q \in Seq(StepRec) /\ Len(q) = Len(p) - 1 /\ \A i \in 1 .. Len(p) - 1 : q[i] = p[i + 1]
  BY <1>1, EmptySeq
<1> HIDE DEF q
<1>4. /\ r \in Seq(StepRec) /\ Len(r) = Len(steps) + Len(q)
      /\ \A i \in 1 .. Len(steps) + Len(q) :
           r[i] = IF i <= Len(steps) THEN steps[i] ELSE q[i - Len(steps)]
  BY <1>3, ConcatProperties
<1> HIDE DEF r
<1>5. Len(steps) \in Nat
  OBVIOUS
<1>6. \A i \in 1 .. Len(r) : r[i] = IF i <= Len(steps) THEN steps[i] ELSE p[i - Len(steps) + 1]
  <2> TAKE i \in 1 .. Len(r)
  <2>1. CASE i <= Len(steps)
    BY <1>4, <1>5, <2>1
  <2>2. CASE ~ (i <= Len(steps))
    <3>1. i - Len(steps) \in 1 .. Len(p) - 1
      BY <1>1, <1>3, <1>4, <1>5, <2>2
    <3> QED  BY <1>3, <1>4, <2>2, <3>1
  <2> QED  BY <2>1, <2>2
<1>7. prog'[t] = r /\ \A u \in Threads \ {t} : prog'[u] = prog[u]
  BY <1>2
<1>8. prog' \in [Threads -> Seq(StepRec)]
  BY <1>2, <1>4
<1> QED  BY <1>1, <1>3, <1>4, <1>5, <1>6, <1>7, <1>8 DEF p

\* Where the elements next to each other in two lists are in a relation, so are those
\* of the list that has the first one in place of the head of the second.
LEMMA Linked ==
  ASSUME NEW S, NEW R, NEW p \in Seq(S), Len(p) > 0, NEW steps \in Seq(S), NEW r,
         \A k \in 1 .. Len(p) - 1 : <<p[k], p[k + 1]>> \in R,
         \A k \in 1 .. Len(steps) - 1 : <<steps[k], steps[k + 1]>> \in R,
         Len(steps) > 0 /\ Len(p) > 1 => <<steps[Len(steps)], p[2]>> \in R,
         Len(r) = Len(steps) + Len(p) - 1,
         \A i \in 1 .. Len(r) : r[i] = IF i <= Len(steps) THEN steps[i] ELSE p[i - Len(steps) + 1]
  PROVE  \A k \in 1 .. Len(r) - 1 : <<r[k], r[k + 1]>> \in R
<1>1. Len(p) \in Nat /\ Len(steps) \in Nat /\ Len(r) \in Nat
  OBVIOUS
<1> SUFFICES ASSUME NEW k \in 1 .. Len(r) - 1 PROVE <<r[k], r[k + 1]>> \in R
  OBVIOUS
<1>2. k \in 1 .. Len(r) /\ k + 1 \in 1 .. Len(r)
  BY <1>1
<1>3. CASE k + 1 <= Len(steps)
  <2>1. k \in 1 .. Len(steps) - 1 /\ r[k] = steps[k] /\ r[k + 1] = steps[k + 1]
    BY <1>1, <1>2, <1>3
  <2> QED  BY <2>1, Zenon
<1>4. CASE k = Len(steps)
  <2>1. r[k] = steps[k] /\ r[k + 1] = p[2] /\ Len(p) > 1
    BY <1>1, <1>2, <1>4
  <2> QED  BY <1>1, <1>4, <2>1
<1>5. CASE k > Len(steps)
  <2> DEFINE j == k - Len(steps) + 1
  <2>1. k \in Nat /\ k + 1 - Len(steps) + 1 = j + 1 /\ ~ (k + 1 <= Len(steps))
    BY <1>1, <1>2, <1>5
  <2>2. r[k] = p[j]
    <3>1. k \in 1 .. Len(r) /\ ~ (k <= Len(steps))
      BY <1>1, <1>2, <1>5
    <3> QED  BY <3>1, Zenon
  <2>3. r[k + 1] = p[k + 1 - Len(steps) + 1]
    BY <1>2, <2>1
  <2>4. j \in 1 .. Len(p) - 1
    BY <1>1, <1>2, <1>5
  <2>5. r[k + 1] = p[j + 1]
    BY <2>1, <2>3
  <2> HIDE DEF j
  <2> QED  BY <2>2, <2>4, <2>5, Zenon
<1> QED  BY <1>1, <1>3, <1>4, <1>5

\* The steps a thread has to do stay in an order the handlers have.
LEMMA ThenIs ==
  ASSUME ProgOK, NEW t \in Threads, Len(prog[t]) > 0,
         NEW steps \in Seq(StepRec), Chained(steps), Then(t, steps),
         Len(steps) > 0 /\ Len(prog[t]) > 1 => Follows(steps[Len(steps)], prog[t][2])
  PROVE  /\ ProgOK'
         /\ Len(prog'[t]) = Len(steps) + Len(prog[t]) - 1
         /\ \A i \in 1 .. Len(prog'[t]) :
              prog'[t][i] = IF i <= Len(steps) THEN steps[i] ELSE prog[t][i - Len(steps) + 1]
         /\ \A u \in Threads \ {t} : prog'[u] = prog[u]
<1> DEFINE R == {e \in StepRec \X StepRec : Follows(e[1], e[2])}
<1>1. /\ prog \in [Threads -> Seq(StepRec)] /\ prog[t] \in Seq(StepRec)
      /\ \A u \in Threads : Chained(prog[u])
  BY DEF ProgOK
<1>2. /\ prog' \in [Threads -> Seq(StepRec)] /\ prog'[t] \in Seq(StepRec)
      /\ Len(steps) \in Nat /\ Len(prog[t]) \in Nat
      /\ Len(prog'[t]) = Len(steps) + Len(prog[t]) - 1
      /\ \A i \in 1 .. Len(prog'[t]) :
           prog'[t][i] = IF i <= Len(steps) THEN steps[i] ELSE prog[t][i - Len(steps) + 1]
      /\ \A u \in Threads \ {t} : prog'[u] = prog[u]
  BY <1>1, ThenSteps
<1>3. ASSUME NEW p \in Seq(StepRec)
      PROVE  Chained(p) <=> \A k \in 1 .. Len(p) - 1 : <<p[k], p[k + 1]>> \in R
  <2>1. Len(p) \in Nat /\ \A k \in 1 .. Len(p) : p[k] \in StepRec
    OBVIOUS
  <2>2. \A k \in 1 .. Len(p) - 1 : p[k] \in StepRec /\ p[k + 1] \in StepRec
    <3>1. \A k \in 1 .. Len(p) - 1 : k \in 1 .. Len(p) /\ k + 1 \in 1 .. Len(p)
      BY <2>1
    <3> QED  BY <2>1, <3>1
  <2>3. \A k \in 1 .. Len(p) - 1 : <<p[k], p[k + 1]>> \in R <=> Follows(p[k], p[k + 1])
    <3> HIDE DEF Follows
    <3> QED  BY <2>2
  <2> QED  BY <2>3, Zenon DEF Chained
<1>4. Len(steps) > 0 /\ Len(prog[t]) > 1 => <<steps[Len(steps)], prog[t][2]>> \in R
  <2> HAVE Len(steps) > 0 /\ Len(prog[t]) > 1
  <2>1. steps[Len(steps)] \in StepRec /\ prog[t][2] \in StepRec
    BY <1>1, <1>2
  <2> HIDE DEF Follows
  <2> QED  BY <2>1
<1> HIDE DEF R
<1>5. \A k \in 1 .. Len(prog'[t]) - 1 : <<prog'[t][k], prog'[t][k + 1]>> \in R
  <2> DEFINE p == prog[t]
             r == prog'[t]
  <2>1. /\ p \in Seq(StepRec) /\ Len(p) > 0
        /\ Len(steps) > 0 /\ Len(p) > 1 => <<steps[Len(steps)], p[2]>> \in R
        /\ Len(r) = Len(steps) + Len(p) - 1
        /\ \A i \in 1 .. Len(r) : r[i] = IF i <= Len(steps) THEN steps[i] ELSE p[i - Len(steps) + 1]
    BY <1>1, <1>2, <1>4
  <2>2. /\ \A k \in 1 .. Len(p) - 1 : <<p[k], p[k + 1]>> \in R
        /\ \A k \in 1 .. Len(steps) - 1 : <<steps[k], steps[k + 1]>> \in R
    BY <1>1, <1>3
  <2> HIDE DEF p, r
  <2>3. \A k \in 1 .. Len(r) - 1 : <<r[k], r[k + 1]>> \in R
    BY <2>1, <2>2, Linked, ZenonT(60)
  <2> QED  BY <2>3 DEF r
<1>6. \A u \in Threads : Chained(prog'[u])
  <2>1. Chained(prog'[t])
    BY <1>2, <1>3, <1>5
  <2>2. \A u \in Threads \ {t} : Chained(prog'[u])
    BY <1>1, <1>2
  <2> QED  BY <2>1, <2>2
<1>7. ProgOK'
  BY <1>2, <1>6 DEF ProgOK, Chained
<1> QED  BY <1>2, <1>7

\* ... with no, one or two steps more.
LEMMA ThenNone ==
  ASSUME ProgOK, NEW t \in Threads, Len(prog[t]) > 0, Then(t, <<>>)
  PROVE  /\ ProgOK' /\ Len(prog'[t]) = Len(prog[t]) - 1
         /\ Len(prog[t]) > 1 => prog'[t][1] = prog[t][2]
         /\ Len(prog[t]) > 2 => prog'[t][2] = prog[t][3]
         /\ \A u \in Threads \ {t} : prog'[u] = prog[u]
         /\ NoNewEnd(t)
<1> DEFINE none == <<>>
<1>1. none \in Seq(StepRec) /\ Len(none) = 0 /\ Chained(none) /\ Then(t, none)
  BY DEF Chained
<1> HIDE DEF none
<1>3. Len(prog[t]) \in Nat
  BY First
<1>5. Len(none) > 0 /\ Len(prog[t]) > 1 => Follows(none[Len(none)], prog[t][2])
  BY <1>1
<1>4. /\ ProgOK'
      /\ Len(prog'[t]) = Len(none) + Len(prog[t]) - 1
      /\ \A i \in 1 .. Len(prog'[t]) :
           prog'[t][i] = IF i <= Len(none) THEN none[i] ELSE prog[t][i - Len(none) + 1]
      /\ \A u \in Threads \ {t} : prog'[u] = prog[u]
  BY <1>1, <1>5, ThenIs
<1>6. NoNewEnd(t)
  <2> SUFFICES ASSUME NEW k \in 1 .. Len(prog'[t])
               PROVE  \E j \in 1 .. Len(prog[t]) : prog[t][j] = prog'[t][k]
    BY DEF NoNewEnd
  <2>1. k + 1 \in 1 .. Len(prog[t]) /\ prog'[t][k] = prog[t][k + 1]
    BY <1>1, <1>3, <1>4
  <2> QED  BY <2>1
<1> QED  BY <1>1, <1>3, <1>4, <1>6

LEMMA ThenOne ==
  ASSUME ProgOK, NEW t \in Threads, Len(prog[t]) > 0, NEW x \in StepRec, Then(t, <<x>>),
         x.do # "ended", Len(prog[t]) > 1 => Follows(x, prog[t][2])
  PROVE  /\ ProgOK' /\ Len(prog'[t]) = Len(prog[t])
         /\ prog'[t][1] = x
         /\ Len(prog[t]) > 1 => prog'[t][2] = prog[t][2]
         /\ \A u \in Threads \ {t} : prog'[u] = prog[u]
         /\ NoNewEnd(t)
<1> DEFINE one == <<x>>
<1>1. one \in Seq(StepRec) /\ Len(one) = 1 /\ one[1] = x /\ Chained(one) /\ Then(t, one)
  BY DEF Chained
<1> HIDE DEF one
<1>3. Len(prog[t]) \in Nat
  BY First
<1>4. /\ ProgOK'
      /\ Len(prog'[t]) = Len(one) + Len(prog[t]) - 1
      /\ \A i \in 1 .. Len(prog'[t]) :
           prog'[t][i] = IF i <= Len(one) THEN one[i] ELSE prog[t][i - Len(one) + 1]
      /\ \A u \in Threads \ {t} : prog'[u] = prog[u]
  BY <1>1, ThenIs
<1>5. NoNewEnd(t)
  <2> SUFFICES ASSUME NEW k \in 1 .. Len(prog'[t]), prog'[t][k].do = "ended"
               PROVE  \E j \in 1 .. Len(prog[t]) : prog[t][j] = prog'[t][k]
    BY DEF NoNewEnd
  <2>1. k \in 1 .. Len(prog[t]) /\ prog'[t][k] = prog[t][k]
    BY <1>1, <1>3, <1>4
  <2> QED  BY <2>1
<1> QED  BY <1>1, <1>3, <1>4, <1>5

LEMMA ThenTwo ==
  ASSUME ProgOK, NEW t \in Threads, Len(prog[t]) > 0,
         NEW x \in StepRec, NEW y \in StepRec, Then(t, <<x, y>>), Follows(x, y),
         x.do # "ended", y.do # "ended",
         Len(prog[t]) > 1 => Follows(y, prog[t][2])
  PROVE  /\ ProgOK' /\ Len(prog'[t]) = Len(prog[t]) + 1
         /\ prog'[t][1] = x /\ prog'[t][2] = y
         /\ \A u \in Threads \ {t} : prog'[u] = prog[u]
         /\ NoNewEnd(t)
<1> DEFINE two == <<x, y>>
<1>1. /\ two \in Seq(StepRec) /\ Len(two) = 2 /\ two[1] = x /\ two[2] = y /\ Then(t, two)
  OBVIOUS
<1>2. Chained(two)
  BY DEF Chained
<1> HIDE DEF two
<1>3. Len(prog[t]) \in Nat
  BY First
<1>4. /\ ProgOK'
      /\ Len(prog'[t]) = Len(two) + Len(prog[t]) - 1
      /\ \A i \in 1 .. Len(prog'[t]) :
           prog'[t][i] = IF i <= Len(two) THEN two[i] ELSE prog[t][i - Len(two) + 1]
      /\ \A u \in Threads \ {t} : prog'[u] = prog[u]
  BY <1>1, <1>2, ThenIs
<1>5. NoNewEnd(t)
  <2> SUFFICES ASSUME NEW k \in 1 .. Len(prog'[t]), prog'[t][k].do = "ended"
               PROVE  \E j \in 1 .. Len(prog[t]) : prog[t][j] = prog'[t][k]
    BY DEF NoNewEnd
  <2>1. ~ (k <= Len(two))
    <3>1. \A i \in Nat : i > 0 /\ i <= 2 => i = 1 \/ i = 2
      OBVIOUS
    <3>2. k \in Nat /\ k > 0
      OBVIOUS
    <3>3. k <= Len(two) => two[k].do # "ended"
      BY <1>1, <3>1, <3>2
    <3>4. k <= Len(two) => prog'[t][k] = two[k]
      BY <1>4
    <3> QED  BY <3>3, <3>4
  <2>2. prog'[t][k] = prog[t][k - Len(two) + 1]
    BY <1>4, <2>1
  <2>3. k - Len(two) + 1 \in 1 .. Len(prog[t])
    BY <1>1, <1>3, <1>4, <2>1
  <2> QED  BY <2>2, <2>3
<1> QED  BY <1>1, <1>2, <1>3, <1>4, <1>5

\* A thread enters a handler.
LEMMA BeginIs ==
  ASSUME ProgOK, NEW t \in Threads, NEW steps \in Seq(StepRec), Chained(steps),
         Begin(t, steps)
  PROVE  /\ ProgOK' /\ prog[t] = <<>> /\ prog'[t] = steps
         /\ \A u \in Threads \ {t} : prog'[u] = prog[u]
<1>1. prog \in [Threads -> Seq(StepRec)] /\ \A u \in Threads : Chained(prog[u])
  BY DEF ProgOK
<1>2. prog[t] = <<>> /\ prog' = [prog EXCEPT ![t] = steps]
  BY DEF Begin
<1>3. prog'[t] = steps /\ \A u \in Threads \ {t} : prog'[u] = prog[u]
  BY <1>1, <1>2
<1>4. ProgOK'
  <2>1. prog' \in [Threads -> Seq(StepRec)]
    BY <1>1, <1>2
  <2>2. \A u \in Threads : Chained(prog'[u])
    BY <1>1, <1>3
  <2> QED  BY <2>1, <2>2 DEF ProgOK, Chained
<1> QED  BY <1>2, <1>3, <1>4

-----------------------------------------------------------------------------
\* While one thread is active the other does nothing, or has the terminal only
\* to give it back.
LEMMA OtherIdle ==
  ASSUME ProgOK, RefsOK, NEW t \in Threads, Active(t), NEW u \in Threads \ {t}
  PROVE  prog[u] = <<>> \/ (Len(prog[u]) = 1 /\ prog[u][1].do = "release")
<1>0. u \in Threads
  OBVIOUS
<1>1. ~ Active(u)
  BY DEF RefsOK
<1>2. CASE prog[u] # <<>>
  <2>0. Doing(u, "release")
    BY <1>1, <1>2 DEF Active
  <2>1. Len(prog[u]) > 0 /\ prog[u][1].do = "release"
    BY <1>0, <2>0, First DEF Doing
  <2>2. ~ (Len(prog[u]) > 1)
    <3>1. Len(prog[u]) > 1 => Follows(prog[u][1], prog[u][2])
      BY <1>0, First
    <3> QED  BY <2>1, <3>1 DEF Follows
  <2>3. Len(prog[u]) \in Nat
    BY <1>0, First
  <2>4. \A n \in Nat : n > 0 /\ ~ (n > 1) => n = 1
    OBVIOUS
  <2>5. Len(prog[u]) = 1
    BY <2>1, <2>2, <2>3, <2>4, Zenon
  <2> QED  BY <2>1, <2>5, Zenon
<1> QED  BY <1>2

LEMMA IdleSteps ==
  ASSUME ProgOK, NEW u \in Threads,
         prog[u] = <<>> \/ (Len(prog[u]) = 1 /\ prog[u][1].do = "release")
  PROVE  \A k \in 1 .. Len(prog[u]) : prog[u][k].do = "release"
<1>1. CASE prog[u] = <<>>
  <2>1. Len(prog[u]) = 0
    BY <1>1
  <2>2. 1 .. Len(prog[u]) = {}
    BY <2>1
  <2> QED  BY <2>2
<1>2. CASE Len(prog[u]) = 1 /\ prog[u][1].do = "release"
  <2>1. \A n : n = 1 => \A k \in 1 .. n : k = 1
    OBVIOUS
  <2>2. \A k \in 1 .. Len(prog[u]) : k = 1
    BY <1>2, <2>1
  <2> QED  BY <1>2, <2>2
<1> QED  BY <1>1, <1>2

LEMMA IdleOK ==
  ASSUME ProgOK, NEW u \in Threads,
         prog[u] = <<>> \/ (Len(prog[u]) = 1 /\ prog[u][1].do = "release")
  PROVE  ThreadOK(u) /\ ~ Unrecording(u) /\ EndedOK(u)
<1>0. (prog[u] # <<>>) <=> (Len(prog[u]) > 0)
  BY First
<1>1. ~ Unrecording(u)
  BY <1>0 DEF Unrecording
<1>2. prog[u] # <<>> => AboutStream(prog[u][1]) /\ StepOK(prog[u][1])
  BY <1>0 DEF AboutStream, StepOK
<1>3. EndedOK(u)
  BY IdleSteps DEF EndedOK
<1> QED  BY <1>1, <1>2, <1>3 DEF ThreadOK

\* The calls that a thread is to remove stay in the list.
LEMMA EndedKept ==
  ASSUME NEW t \in Threads, EndedOK(t), NoNewEnd(t) \/ prog'[t] = prog[t],
         \A c : CallAt(c) # {} => CallAt(c)' # {}
  PROVE  EndedOK(t)'
BY DEF EndedOK, NoNewEnd

-----------------------------------------------------------------------------
\* What a thread relies on is kept by a step of another that unbinds streams, adds
\* inputs or makes sessions.
LEMMA ThreadKept ==
  ASSUME NEW u \in Threads, ThreadOK(u), prog'[u] = prog[u],
         UNCHANGED <<streams, recording>>,
         DOMAIN bound' \subseteq DOMAIN bound,
         nextId \in Nat, nextId' \in Nat, nextId <= nextId',
         \A a \in DOMAIN obj : a \in DOMAIN obj' /\ obj'[a].id = obj[a].id
  PROVE  ThreadOK(u)' /\ (Unrecording(u)' <=> Unrecording(u))
<1>1. Unrecording(u)' <=> Unrecording(u)
  BY DEF Unrecording
<1> DEFINE h == prog[u][1]
<1>2. prog'[u][1] = h /\ ((prog'[u] # <<>>) <=> (prog[u] # <<>>))
  OBVIOUS
<1> HIDE DEF h
<1>3. \A i \in 1 .. nextId - 1 : i \in 1 .. nextId' - 1
  <2>1. \A m, n \in Nat : m <= n => \A i \in 1 .. m - 1 : i \in 1 .. n - 1
    OBVIOUS
  <2> QED  BY <2>1
<1>4. StreamIds' = StreamIds
  BY DEF StreamIds
<1>5. AboutStream(h) => AboutStream(h)'
  <2> DEFINE early(n) == 1 .. n - 1
  <2>1. h' = h /\ \A i \in early(nextId) : i \in early(nextId')
    BY <1>3 DEF h
  <2>2. AboutStream(h) <=>
          /\ h.do \in {"added", "input", "bind", "unbind", "uninput", "erase"} => h.id \in StreamIds
          /\ h.do \in {"record", "unrecord"} => h.id \in StreamIds \cup {0}
          /\ h.do = "add" => h.id \notin StreamIds /\ h.id \in early(nextId)
    BY DEF AboutStream
  <2>3. AboutStream(h)' <=>
          /\ h'.do \in {"added", "input", "bind", "unbind", "uninput", "erase"} => h'.id \in StreamIds'
          /\ h'.do \in {"record", "unrecord"} => h'.id \in StreamIds' \cup {0}
          /\ h'.do = "add" => h'.id \notin StreamIds' /\ h'.id \in early(nextId')
    BY DEF AboutStream
  <2> HIDE DEF early
  <2> QED  BY <1>4, <2>1, <2>2, <2>3
<1>6. StepOK(h) => StepOK(h)'
  BY <1>2 DEF StepOK, h
<1>7. Ahead(h.id) => Ahead(h.id)'
  BY DEF Ahead, h
<1>8. NotBehind(h.id) => NotBehind(h.id)'
  BY DEF NotBehind, h
<1>9. ThreadOK(u) <=> (prog[u] # <<>> =>
        /\ AboutStream(h) /\ StepOK(h)
        /\ Unrecording(u) =>
             /\ ~ recording
             /\ h.do \in {"unrecord", "uninput"} => Ahead(h.id)
             /\ h.do = "unbind" => NotBehind(h.id))
  BY DEF ThreadOK, h
<1>10. ThreadOK(u)' <=> (prog'[u] # <<>> =>
        /\ AboutStream(h)' /\ StepOK(h)'
        /\ Unrecording(u)' =>
             /\ ~ recording'
             /\ h'.do \in {"unrecord", "uninput"} => Ahead(h.id)'
             /\ h'.do = "unbind" => NotBehind(h.id)')
  BY DEF ThreadOK, h
<1>11. h' = h /\ recording' = recording
  BY DEF h
<1> QED  BY <1>1, <1>2, <1>5, <1>6, <1>7, <1>8, <1>9, <1>10, <1>11

LEMMA BoundKept ==
  ASSUME BoundOK, obj' \in [DOMAIN obj' -> [id : Nat, done : BOOLEAN]],
         \A s \in DOMAIN bound' :
           /\ s \in DOMAIN bound /\ bound'[s] = bound[s]
           /\ s \in DOMAIN rec' /\ s \in StreamIds'
           /\ bound[s] \in DOMAIN obj' /\ obj'[bound[s]].id = obj[bound[s]].id
  PROVE  BoundOK'
BY DEF BoundOK

\* A thread that is active goes on, or is done: the references stay as they are, and
\* the other thread has nothing to rely on.
LEMMA ActiveKept ==
  ASSUME ProgOK, RefsOK, NEW t \in Threads, Active(t), ProgOK',
         UNCHANGED <<refs, mapped>>,
         \A u \in Threads \ {t} : prog'[u] = prog[u],
         prog'[t] # <<>> => prog'[t][1].do # "release"
  PROVE  /\ RefsOK'
         /\ \A u \in Threads \ {t} : /\ ThreadOK(u)' /\ EndedOK(u)'
                                    /\ ~ Unrecording(u) /\ ~ Unrecording(u)'
<1>1. \A u \in Threads : Doing(u, "release")' <=> Doing(u, "release")
  <2> TAKE u \in Threads
  <2>1. CASE u = t
    <3>1. ~ Doing(t, "release")
      BY DEF Active
    <3>2. ~ Doing(t, "release")'
      <4>1. prog'[t] # <<>> => Head(prog'[t]) = prog'[t][1]
        BY DEF ProgOK
      <4> QED  BY <4>1 DEF Doing
    <3> QED  BY <2>1, <3>1, <3>2
  <2>2. CASE u # t
    BY <2>2 DEF Doing
  <2> QED  BY <2>1, <2>2
<1>2. \A u \in Threads : Active(u)' => Active(u)
  <2> TAKE u \in Threads
  <2>1. CASE u = t
    BY <2>1
  <2>2. CASE u # t
    BY <2>2 DEF Active, Doing
  <2> QED  BY <2>1, <2>2
<1>3. RefsOK'
  <2>1. Doing("sip", "release")' <=> Doing("sip", "release")
    BY <1>1 DEF Threads
  <2>2. Doing("api", "release")' <=> Doing("api", "release")
    BY <1>1 DEF Threads
  <2> HIDE DEF Doing, Active
  <2> QED  BY <1>2, <2>1, <2>2 DEF RefsOK
<1>4. ASSUME NEW u \in Threads \ {t}
      PROVE  ThreadOK(u)' /\ EndedOK(u)' /\ ~ Unrecording(u) /\ ~ Unrecording(u)'
  <2>0. u \in Threads /\ prog'[u] = prog[u]
    OBVIOUS
  <2>1. prog[u] = <<>> \/ (Len(prog[u]) = 1 /\ prog[u][1].do = "release")
    BY OtherIdle
  <2>2. ThreadOK(u) /\ ~ Unrecording(u)
    BY <2>0, <2>1, IdleOK
  <2>3. ~ Unrecording(u)'
    BY <2>0, <2>2 DEF Unrecording
  <2>4. prog[u] # <<>> => AboutStream(prog[u][1])' /\ StepOK(prog[u][1])'
    BY <2>0, <2>1 DEF AboutStream, StepOK
  <2>5. ThreadOK(u)'
    BY <2>0, <2>3, <2>4 DEF ThreadOK
  <2>6. EndedOK(u)'
    <3>1. \A k \in 1 .. Len(prog[u]) : prog[u][k].do = "release"
      BY <2>0, <2>1, IdleSteps
    <3> QED  BY <2>0, <3>1 DEF EndedOK
  <2> QED  BY <2>2, <2>3, <2>5, <2>6
<1> QED  BY <1>3, <1>4

-----------------------------------------------------------------------------
LEMMA StepFields ==
  ASSUME NEW h \in StepRec
  PROVE  /\ h.do # "ended" => h.id \in Nat
         /\ h.do \notin {"ended", "bind"} => h.remote \in BOOLEAN
         /\ h.do = "bind" => h.input \in Inputs
BY DEF StepRec

LEMMA StepIs ==
  ASSUME NEW do \in {"input", "unbind", "uninput", "add", "added", "delete", "erase", "start",
                     "stop", "record", "unrecord", "release", "destroy"},
         NEW id \in Nat, NEW remote \in BOOLEAN
  PROVE  /\ Step(do, id, remote) \in StepRec
         /\ Step(do, id, remote).do = do /\ Step(do, id, remote).id = id
         /\ Step(do, id, remote).remote = remote
BY DEF Step, StepRec

LEMMA StepOfList ==
  ASSUME NEW id \in Nat
  PROVE  /\ Step("erase", id, FALSE) \in StepRec /\ Step("erase", id, FALSE).do = "erase"
         /\ Step("erase", id, FALSE).id = id
         /\ Step("record", id, FALSE) \in StepRec /\ Step("record", id, FALSE).do = "record"
         /\ Step("record", id, FALSE).id = id
         /\ Step("unrecord", id, FALSE) \in StepRec
         /\ Step("unrecord", id, FALSE).do = "unrecord" /\ Step("unrecord", id, FALSE).id = id
         /\ Step("delete", id, FALSE) \in StepRec /\ Step("delete", id, FALSE).do = "delete"
         /\ Step("delete", id, FALSE).id = id
BY DEF Step, StepRec

\* The steps that are about no stream.
LEMMA StepOfNone ==
  /\ Step("start", 0, FALSE) \in StepRec /\ Step("start", 0, FALSE).do = "start"
  /\ Step("stop", 0, FALSE) \in StepRec /\ Step("stop", 0, FALSE).do = "stop"
  /\ Step("release", 0, FALSE) \in StepRec /\ Step("release", 0, FALSE).do = "release"
  /\ Step("destroy", 0, FALSE) \in StepRec /\ Step("destroy", 0, FALSE).do = "destroy"
BY DEF Step, StepRec

\* Thread t is to do a step that is not the end of its use of the terminal.
LEMMA HeadOf ==
  ASSUME ProgOK, NEW t \in Threads, prog[t] # <<>>, Head(prog[t]).do # "release"
  PROVE  /\ Len(prog[t]) \in Nat /\ Len(prog[t]) > 0
         /\ Active(t)
         /\ \E h \in StepRec :
              /\ h = prog[t][1] /\ h = Head(prog[t])
              /\ Len(prog[t]) > 1 => prog[t][2] \in StepRec /\ Follows(h, prog[t][2])
         /\ Len(prog[t]) > 2 => Follows(prog[t][2], prog[t][3])
<1>1. Active(t)
  BY DEF Active, Doing
<1> QED  BY <1>1, First

\* The parts of the invariant after a step of an active thread.
LEMMA StepKeeps ==
  ASSUME BInv, NEW t \in Threads, Active(t), ProgOK', ListOK', BoundOK',
         UNCHANGED <<refs, mapped>>,
         \A u \in Threads \ {t} : prog'[u] = prog[u],
         prog'[t] # <<>> => prog'[t][1].do # "release",
         ThreadOK(t)', EndedOK(t)',
         ~ recording' /\ ~ Unrecording(t)' =>
           DOMAIN bound' = {} \/ (~ recording /\ ~ Unrecording(t) /\ DOMAIN bound' \subseteq DOMAIN bound)
  PROVE  BInv'
<1>1. /\ RefsOK'
      /\ \A u \in Threads \ {t} : /\ ThreadOK(u)' /\ EndedOK(u)'
                                 /\ ~ Unrecording(u) /\ ~ Unrecording(u)'
  <2>1. ProgOK /\ RefsOK
    BY DEF BInv
  <2> QED  BY <2>1, ActiveKept
<1>2. \A u \in Threads : ThreadOK(u)' /\ EndedOK(u)'
  BY <1>1
<1>3. StoppedOK'
  <2>1. (\A u \in Threads : ~ Unrecording(u)) <=> ~ Unrecording(t)
    BY <1>1
  <2>2. (\A u \in Threads : ~ Unrecording(u)') <=> ~ Unrecording(t)'
    BY <1>1
  <2>3. ~ recording /\ ~ Unrecording(t) => DOMAIN bound = {}
    BY <2>1 DEF BInv, StoppedOK
  <2> QED  BY <2>2, <2>3 DEF StoppedOK
<1> QED  BY <1>1, <1>2, <1>3 DEF BInv

LEMMA CreateInputKeeps ==
  ASSUME BInv, NEW t \in Threads, CreateInput(t)
  PROVE  BInv'
<1>0. ProgOK /\ RefsOK /\ ListOK /\ BoundOK /\ ThreadOK(t) /\ EndedOK(t) /\ Doing(t, "input")
  BY DEF BInv, CreateInput
<1>a. prog[t] # <<>> /\ Head(prog[t]).do = "input"
  BY <1>0 DEF Doing
<1>1. PICK h \in StepRec :
        /\ h = prog[t][1] /\ h = Head(prog[t]) /\ h.do = "input"
        /\ Len(prog[t]) \in Nat /\ Len(prog[t]) > 0 /\ Active(t)
        /\ Len(prog[t]) > 1 => prog[t][2] \in StepRec /\ Follows(h, prog[t][2])
  BY <1>0, <1>a, HeadOf
<1>2. h.id \in Nat /\ h.id \in StreamIds /\ recording
  BY <1>0, <1>a, <1>1, StepFields DEF ThreadOK, AboutStream, StepOK
<1>3. PICK a \in Inputs \ DOMAIN obj :
        /\ inputs' = [inputs EXCEPT ![h.remote] = Append(@, a)]
        /\ obj' = Put(obj, a, [id |-> h.id, done |-> FALSE])
        /\ Then(t, <<[do |-> "bind", id |-> h.id, input |-> a]>>)
  BY <1>1, Zenon DEF CreateInput
<1>4. UNCHANGED <<managerVars, recorderVars, bound, terminalVars, streams, recording>>
  BY DEF CreateInput
<1>5. PICK x \in StepRec : /\ x = [do |-> "bind", id |-> h.id, input |-> a]
                          /\ x.do = "bind" /\ x.id = h.id /\ x.input = a
  BY <1>2, <1>3 DEF StepRec
<1>6. Len(prog[t]) > 1 => Follows(x, prog[t][2]) /\ prog[t][2].do = "record"
  BY <1>1, <1>5 DEF Follows
<1>7. Then(t, <<x>>)
  BY <1>3, <1>5
<1>8. /\ ProgOK' /\ Len(prog'[t]) = Len(prog[t]) /\ prog'[t][1] = x
      /\ Len(prog[t]) > 1 => prog'[t][2] = prog[t][2]
      /\ NoNewEnd(t) /\ \A u \in Threads \ {t} : prog'[u] = prog[u]
  BY <1>0, <1>1, <1>5, <1>6, <1>7, ThenOne
<1>e. EndedOK(t)'
  BY <1>0, <1>4, <1>8, EndedKept DEF CallAt, terminalVars
<1>9. obj'[a].id = h.id /\ a \in DOMAIN obj'
      /\ \A b \in DOMAIN obj : b \in DOMAIN obj' /\ obj'[b] = obj[b]
  BY <1>3 DEF Put
<1>10. obj' \in [DOMAIN obj' -> [id : Nat, done : BOOLEAN]]
  BY <1>0, <1>2, <1>3 DEF BoundOK, Put
<1>11. StreamIds' = StreamIds /\ ListOK'
  <2>1. h.remote \in BOOLEAN /\ inputs \in [BOOLEAN -> Seq(Inputs)]
    BY <1>0, <1>1, StepFields DEF ListOK
  <2>2. inputs' \in [BOOLEAN -> Seq(Inputs)]
    <3>1. Append(inputs[h.remote], a) \in Seq(Inputs)
      BY <1>3, <2>1
    <3> QED  BY <1>3, <2>1, <3>1
  <2> QED  BY <1>0, <1>4, <2>2 DEF StreamIds, ListOK, managerVars, terminalVars
<1>12. BoundOK'
  BY <1>0, <1>4, <1>9, <1>10, <1>11 DEF BoundOK, recorderVars
<1>13. ThreadOK(t)'
  <2>1. ~ Unrecording(t)'
    BY <1>1, <1>5, <1>6, <1>8 DEF Unrecording
  <2>2. AboutStream(x)' /\ StepOK(x)'
    BY <1>2, <1>4, <1>5, <1>9, <1>11 DEF AboutStream, StepOK
  <2> QED  BY <1>8, <2>1, <2>2 DEF ThreadOK, AboutStream, StepOK
<1> QED  BY <1>e, <1>1, <1>2, <1>4, <1>5, <1>8, <1>11, <1>12, <1>13, StepKeeps DEF terminalVars

\* A thread is done with a step: it has no other, or one that follows.
LEMMA AfterNone ==
  ASSUME ProgOK, NEW t \in Threads, NEW h \in StepRec, h = prog[t][1], Len(prog[t]) > 0,
         Then(t, <<>>)
  PROVE  /\ ProgOK' /\ NoNewEnd(t) /\ \A u \in Threads \ {t} : prog'[u] = prog[u]
         /\ \/ Len(prog[t]) = 1 /\ prog'[t] = <<>> /\ ThreadOK(t)' /\ ~ Unrecording(t)'
            \/ \E n \in StepRec : /\ n = prog[t][2] /\ prog'[t] # <<>> /\ prog'[t][1] = n
                                  /\ Len(prog[t]) > 1 /\ Follows(h, n)
                                  /\ Unrecording(t)' <=> n.do = "unrecord"
<1>1. /\ ProgOK' /\ Len(prog'[t]) = Len(prog[t]) - 1
      /\ Len(prog[t]) > 1 => prog'[t][1] = prog[t][2]
      /\ Len(prog[t]) > 2 => prog'[t][2] = prog[t][3]
      /\ NoNewEnd(t) /\ \A u \in Threads \ {t} : prog'[u] = prog[u]
  BY ThenNone
<1>2. /\ Len(prog[t]) \in Nat
      /\ Len(prog[t]) > 1 => prog[t][2] \in StepRec /\ Follows(h, prog[t][2])
      /\ Len(prog[t]) > 2 => Follows(prog[t][2], prog[t][3])
  BY First
<1>3. prog'[t] \in Seq(StepRec)
  BY <1>1 DEF ProgOK
<1>4. CASE Len(prog[t]) = 1
  <2>1. prog'[t] = <<>> /\ Len(prog'[t]) = 0
    BY <1>1, <1>3, <1>4, EmptySeq
  <2> QED  BY <1>1, <1>4, <2>1 DEF ThreadOK, Unrecording
<1>5. CASE Len(prog[t]) > 1
  <2>1. PICK n \in StepRec : n = prog[t][2] /\ Follows(h, n)
    BY <1>2, <1>5
  <2>2. prog'[t] # <<>> /\ prog'[t][1] = n /\ Len(prog'[t]) > 0
    BY <1>1, <1>2, <1>3, <1>5, <2>1, EmptySeq
  <2>3. Len(prog'[t]) > 1 => prog'[t][2].do # "unrecord"
    <3> HAVE Len(prog'[t]) > 1
    <3>1. prog'[t][2] = prog[t][3] /\ Follows(n, prog[t][3])
      BY <1>1, <1>2, <2>1
    <3> QED  BY <2>1, <3>1 DEF Follows
  <2>4. Unrecording(t)' <=> n.do = "unrecord"
    BY <2>2, <2>3 DEF Unrecording
  <2> QED  BY <1>1, <1>5, <2>1, <2>2, <2>4
<1>6. Len(prog[t]) = 1 \/ Len(prog[t]) > 1
  <2>1. \A n \in Nat : n > 0 => n = 1 \/ n > 1
    OBVIOUS
  <2> QED  BY <1>2, <2>1
<1> QED  BY <1>4, <1>5, <1>6, Zenon

LEMMA StartRecordKeeps ==
  ASSUME BInv, NEW t \in Threads, StartRecord(t)
  PROVE  BInv'
<1>0. ProgOK /\ RefsOK /\ ListOK /\ BoundOK /\ ThreadOK(t) /\ EndedOK(t) /\ Doing(t, "bind")
  BY DEF BInv, StartRecord
<1>a. prog[t] # <<>> /\ Head(prog[t]).do = "bind"
  BY <1>0 DEF Doing
<1>1. PICK h \in StepRec :
        /\ h = prog[t][1] /\ h = Head(prog[t]) /\ h.do = "bind"
        /\ Len(prog[t]) \in Nat /\ Len(prog[t]) > 0 /\ Active(t)
        /\ Len(prog[t]) > 1 => prog[t][2] \in StepRec /\ Follows(h, prog[t][2])
  BY <1>0, <1>a, HeadOf
<1>2. /\ h.id \in Nat /\ h.id \in StreamIds /\ recording
      /\ h.input \in DOMAIN obj /\ obj[h.input].id = h.id
  BY <1>0, <1>a, <1>1, StepFields DEF ThreadOK, AboutStream, StepOK
<1>3. /\ Then(t, <<>>) /\ DOMAIN rec' = DOMAIN rec
      /\ \/ bound' = bound
         \/ h.id \in DOMAIN rec /\ bound' = Put(bound, h.id, h.input)
  BY <1>1 DEF StartRecord
<1>4. UNCHANGED <<managerVars, terminalVars, streams, recording, mixerVars>>
  BY DEF StartRecord
<1>5. /\ ProgOK' /\ NoNewEnd(t) /\ \A u \in Threads \ {t} : prog'[u] = prog[u]
      /\ \/ prog'[t] = <<>> /\ ThreadOK(t)' /\ ~ Unrecording(t)'
         \/ \E n \in StepRec : /\ n = prog[t][2] /\ prog'[t] # <<>> /\ prog'[t][1] = n
                               /\ Len(prog[t]) > 1 /\ Follows(h, n)
                               /\ Unrecording(t)' <=> n.do = "unrecord"
  BY <1>0, <1>1, <1>3, AfterNone
<1>e. EndedOK(t)'
  BY <1>0, <1>4, <1>5, EndedKept DEF CallAt, terminalVars
<1>6. StreamIds' = StreamIds /\ ListOK'
  BY <1>0, <1>4 DEF StreamIds, ListOK, managerVars, terminalVars, mixerVars
<1>7. BoundOK'
  BY <1>0, <1>2, <1>3, <1>4, <1>6 DEF BoundOK, mixerVars, Put
<1>8. ASSUME NEW n \in StepRec, prog'[t][1] = n, Follows(h, n), Unrecording(t)' <=> n.do = "unrecord"
      PROVE  ThreadOK(t)' /\ n.do # "release"
  <2>1. n.do = "record" /\ n.id = h.id
    BY <1>1, <1>8 DEF Follows
  <2>2. AboutStream(n)' /\ StepOK(n)'
    BY <1>2, <1>4, <1>6, <2>1 DEF AboutStream, StepOK
  <2> QED  BY <1>8, <2>1, <2>2 DEF ThreadOK, AboutStream, StepOK
<1>9. ThreadOK(t)' /\ (prog'[t] # <<>> => prog'[t][1].do # "release")
  BY <1>5, <1>8
<1> QED  BY <1>e, <1>1, <1>2, <1>4, <1>5, <1>6, <1>7, <1>9, StepKeeps DEF terminalVars

LEMMA StopRecordKeeps ==
  ASSUME BInv, NEW t \in Threads, StopRecord(t)
  PROVE  BInv'
<1>0. ProgOK /\ RefsOK /\ ListOK /\ BoundOK /\ ThreadOK(t) /\ EndedOK(t) /\ Doing(t, "unbind")
  BY DEF BInv, StopRecord
<1>a. prog[t] # <<>> /\ Head(prog[t]).do = "unbind"
  BY <1>0 DEF Doing
<1>1. PICK h \in StepRec :
        /\ h = prog[t][1] /\ h = Head(prog[t]) /\ h.do = "unbind"
        /\ Len(prog[t]) \in Nat /\ Len(prog[t]) > 0 /\ Active(t)
        /\ Len(prog[t]) > 1 => prog[t][2] \in StepRec /\ Follows(h, prog[t][2])
  BY <1>0, <1>a, HeadOf
<1>2. h.id \in Nat /\ h.id \in StreamIds /\ h.remote \in BOOLEAN
  BY <1>0, <1>a, <1>1, StepFields DEF ThreadOK, AboutStream
<1>3. /\ Then(t, <<Step("uninput", h.id, h.remote)>>) /\ DOMAIN rec' = DOMAIN rec
      /\ \/ h.id \in DOMAIN rec /\ bound' = Without(bound, {h.id})
         \/ h.id \notin DOMAIN rec /\ bound' = bound
  BY <1>1 DEF StopRecord
<1>4. UNCHANGED <<managerVars, terminalVars, streams, recording, mixerVars>>
  BY DEF StopRecord
<1>5. PICK x \in StepRec : /\ x = Step("uninput", h.id, h.remote)
                          /\ x.do = "uninput" /\ x.id = h.id
  BY <1>2, StepIs
<1>6. Len(prog[t]) > 1 => Follows(x, prog[t][2])
  BY <1>1, <1>5 DEF Follows
<1>7. Then(t, <<x>>)
  BY <1>3, <1>5
<1>8. /\ ProgOK' /\ Len(prog'[t]) = Len(prog[t]) /\ prog'[t][1] = x
      /\ Len(prog[t]) > 1 => prog'[t][2] = prog[t][2]
      /\ NoNewEnd(t) /\ \A u \in Threads \ {t} : prog'[u] = prog[u]
  BY <1>0, <1>1, <1>5, <1>6, <1>7, ThenOne
<1>e. EndedOK(t)'
  BY <1>0, <1>4, <1>8, EndedKept DEF CallAt, terminalVars
<1>9. /\ h.id \notin DOMAIN bound' /\ DOMAIN bound' \subseteq DOMAIN bound
      /\ \A s \in DOMAIN bound' : bound'[s] = bound[s]
  BY <1>0, <1>3 DEF BoundOK, Without
<1>10. StreamIds' = StreamIds /\ ListOK'
  BY <1>0, <1>4 DEF StreamIds, ListOK, managerVars, terminalVars, mixerVars
<1>11. BoundOK'
  BY <1>0, <1>3, <1>4, <1>9, <1>10 DEF BoundOK, mixerVars
<1>12. Unrecording(t)' <=> Unrecording(t)
  BY <1>1, <1>5, <1>8 DEF Unrecording
<1>13. ThreadOK(t)'
  <2>1. AboutStream(x)' /\ StepOK(x)'
    BY <1>2, <1>5, <1>9, <1>10 DEF AboutStream, StepOK
  <2>2. ASSUME Unrecording(t) PROVE ~ recording' /\ Ahead(x.id)'
    <3>1. ~ recording /\ NotBehind(h.id)
      BY <1>a, <1>0, <1>1, <2>2 DEF ThreadOK
    <3>2. streams' = streams /\ recording' = recording
      BY <1>4
    <3>3. ASSUME NEW j \in DOMAIN streams, NEW k \in DOMAIN streams,
                 streams[j].id = h.id, streams[k].id \in DOMAIN bound'
          PROVE  j < k
      <4>1. j <= k /\ j # k
        BY <1>9, <3>1, <3>3 DEF NotBehind
      <4>2. DOMAIN streams \subseteq Nat
        BY <1>0 DEF ListOK
      <4> QED  BY <4>1, <4>2
    <3> QED  BY <1>5, <3>1, <3>2, <3>3 DEF Ahead
  <2> QED  BY <1>5, <1>8, <1>12, <2>1, <2>2 DEF ThreadOK, AboutStream, StepOK, Ahead, NotBehind
<1> QED  BY <1>e, <1>1, <1>4, <1>5, <1>8, <1>9, <1>10, <1>11, <1>12, <1>13, StepKeeps DEF terminalVars

LEMMA DeleteInputKeeps ==
  ASSUME BInv, NEW t \in Threads, DeleteInput(t)
  PROVE  BInv'
<1>0. ProgOK /\ RefsOK /\ ListOK /\ BoundOK /\ ThreadOK(t) /\ EndedOK(t) /\ Doing(t, "uninput")
  BY Zenon DEF BInv, DeleteInput
<1>a. prog[t] # <<>> /\ Head(prog[t]).do = "uninput"
  BY <1>0 DEF Doing
<1>1. PICK h \in StepRec :
        /\ h = prog[t][1] /\ h = Head(prog[t]) /\ h.do = "uninput"
        /\ Len(prog[t]) \in Nat /\ Len(prog[t]) > 0 /\ Active(t)
        /\ Len(prog[t]) > 1 => prog[t][2] \in StepRec /\ Follows(h, prog[t][2])
  BY <1>0, <1>a, HeadOf
<1>2. /\ h.id \in Nat /\ h.id \in StreamIds /\ h.id \notin DOMAIN bound /\ h.remote \in BOOLEAN
      /\ Unrecording(t) => ~ recording /\ Ahead(h.id)
  BY <1>0, <1>a, <1>1, StepFields DEF ThreadOK, AboutStream, StepOK
<1>3. UNCHANGED <<managerVars, recorderVars, bound, terminalVars, streams, recording>>
  BY Zenon DEF DeleteInput
<1>4. /\ Then(t, <<>>)
      /\ \/ inputs' = inputs /\ obj' = obj
         \/ \E k \in DOMAIN inputs[h.remote] :
              /\ obj[inputs[h.remote][k]].id = h.id
              /\ inputs' = [inputs EXCEPT ![h.remote] = RemoveAt(@, k)]
              /\ obj' = Without(obj, {inputs[h.remote][k]})
  <2> DEFINE mine == {k \in DOMAIN inputs[h.remote] : obj[inputs[h.remote][k]].id = h.id}
             first == CHOOSE k \in mine : \A j \in mine : k <= j
  <2>1. inputs[h.remote] \in Seq(Inputs)
    BY <1>0, <1>2 DEF ListOK
  <2>2. mine \subseteq Nat
    BY <2>1
  <2>3. mine # {} => first \in mine
    <3> HIDE DEF mine
    <3>1. mine # {} => \E k \in mine : \A j \in mine : k <= j
      BY <2>2, Least
    <3> QED  BY <3>1
  <2>4. /\ Then(t, <<>>)
        /\ IF mine = {} THEN UNCHANGED <<inputs, obj>>
             ELSE /\ inputs' = [inputs EXCEPT ![h.remote] = RemoveAt(@, first)]
                  /\ obj' = Without(obj, {inputs[h.remote][first]})
    BY <1>1, Zenon DEF DeleteInput
  <2>5. mine # {} => first \in DOMAIN inputs[h.remote] /\ obj[inputs[h.remote][first]].id = h.id
    BY <2>3, Zenon
  <2> HIDE DEF mine, first
  <2> QED  BY <2>4, <2>5
<1>5. /\ ProgOK' /\ NoNewEnd(t) /\ \A u \in Threads \ {t} : prog'[u] = prog[u]
      /\ \/ Len(prog[t]) = 1 /\ prog'[t] = <<>> /\ ThreadOK(t)' /\ ~ Unrecording(t)'
         \/ \E n \in StepRec : /\ n = prog[t][2] /\ prog'[t] # <<>> /\ prog'[t][1] = n
                               /\ Len(prog[t]) > 1 /\ Follows(h, n)
                               /\ Unrecording(t)' <=> n.do = "unrecord"
  BY <1>0, <1>1, <1>4, AfterNone
<1>6. EndedOK(t)'
  BY <1>0, <1>3, <1>5, EndedKept DEF CallAt, terminalVars
<1>7. inputs' \in [BOOLEAN -> Seq(Inputs)]
  <2>1. inputs \in [BOOLEAN -> Seq(Inputs)] /\ inputs[h.remote] \in Seq(Inputs)
    BY <1>0, <1>2 DEF ListOK
  <2>2. ASSUME NEW k \in DOMAIN inputs[h.remote]
        PROVE  RemoveAt(inputs[h.remote], k) \in Seq(Inputs)
    <3>1. k \in 1 .. Len(inputs[h.remote])
      BY <2>1
    <3> QED  BY <2>1, <3>1, Removed
  <2> QED  BY <1>2, <1>4, <2>1, <2>2
<1>8. StreamIds' = StreamIds /\ ListOK'
  BY <1>0, <1>3, <1>7 DEF StreamIds, ListOK, managerVars, terminalVars
<1>9. /\ obj' \in [DOMAIN obj' -> [id : Nat, done : BOOLEAN]]
      /\ \A b \in DOMAIN obj : obj[b].id # h.id => b \in DOMAIN obj' /\ obj'[b] = obj[b]
  BY <1>0, <1>4 DEF BoundOK, Without
<1>10. BoundOK'
  <2>1. \A s \in DOMAIN bound : s # h.id
    BY <1>2
  <2> QED  BY <1>0, <1>3, <1>8, <1>9, <2>1 DEF BoundOK, recorderVars
<1>11. ASSUME NEW n \in StepRec, n = prog[t][2], prog'[t][1] = n, Len(prog[t]) > 1,
              Follows(h, n), Unrecording(t)' <=> n.do = "unrecord"
       PROVE  ThreadOK(t)' /\ n.do # "release" /\ (Unrecording(t) => Unrecording(t)')
  <2>1. n.do \in {"erase", "unrecord"} /\ n.id = h.id
    BY <1>1, <1>11 DEF Follows
  <2>2. AboutStream(n)' /\ StepOK(n)'
    BY <1>2, <1>3, <1>8, <2>1 DEF AboutStream, StepOK
  <2>3. Unrecording(t) <=> n.do = "unrecord"
    BY <1>1, <1>11 DEF Unrecording
  <2>4. Unrecording(t)' => ~ recording' /\ Ahead(n.id)'
    <3>1. Unrecording(t)' => ~ recording /\ Ahead(h.id)
      BY <1>2, <1>11, <2>3
    <3> QED  BY <1>3, <2>1, <3>1 DEF Ahead
  <2> QED  BY <1>11, <2>1, <2>2, <2>3, <2>4 DEF ThreadOK, AboutStream, StepOK, Ahead
<1>12. /\ ThreadOK(t)' /\ (prog'[t] # <<>> => prog'[t][1].do # "release")
       /\ Unrecording(t) => Unrecording(t)'
  <2>1. Len(prog[t]) = 1 => ~ Unrecording(t)
    BY <1>1 DEF Unrecording
  <2> QED  BY <1>5, <1>11, <2>1
<1> QED  BY <1>1, <1>3, <1>5, <1>6, <1>8, <1>10, <1>12, StepKeeps DEF terminalVars

LEMMA AddNewStreamKeeps ==
  ASSUME BInv, NEW t \in Threads, AddNewStream(t)
  PROVE  BInv'
<1>0. ProgOK /\ RefsOK /\ ListOK /\ BoundOK /\ ThreadOK(t) /\ EndedOK(t) /\ Doing(t, "add")
  BY DEF BInv, AddNewStream
<1>a. prog[t] # <<>> /\ Head(prog[t]).do = "add"
  BY <1>0 DEF Doing
<1>1. PICK h \in StepRec :
        /\ h = prog[t][1] /\ h = Head(prog[t]) /\ h.do = "add"
        /\ Len(prog[t]) \in Nat /\ Len(prog[t]) > 0 /\ Active(t)
        /\ Len(prog[t]) > 1 => prog[t][2] \in StepRec /\ Follows(h, prog[t][2])
  BY <1>0, <1>a, HeadOf
<1>2. /\ h.id \in 1 .. nextId - 1 /\ h.id \notin StreamIds /\ h.remote \in BOOLEAN
      /\ Len(prog[t]) = 1
  <2>1. ~ (Len(prog[t]) > 1)
    BY <1>1 DEF Follows
  <2>2. \A n \in Nat : n > 0 /\ ~ (n > 1) => n = 1
    OBVIOUS
  <2> QED  BY <1>0, <1>a, <1>1, <2>1, <2>2, StepFields DEF ThreadOK, AboutStream
<1>3. UNCHANGED <<managerVars, recorderVars, bound, terminalVars, recording, mixerVars>>
  BY DEF AddNewStream
<1>4. /\ streams' = Append(streams, [id |-> h.id, remote |-> h.remote])
      /\ Then(t, <<Step("added", h.id, h.remote)>>)
  BY <1>1, Zenon DEF AddNewStream
<1>b. h.id \in Nat \ {0} /\ h.id < nextId
  BY <1>0, <1>2 DEF ListOK
<1>5. PICK x \in StepRec : x = Step("added", h.id, h.remote) /\ x.do = "added" /\ x.id = h.id
  BY <1>2, <1>b, StepIs
<1>6. Then(t, <<x>>)
  BY <1>4, <1>5
<1>7. /\ ProgOK' /\ Len(prog'[t]) = Len(prog[t]) /\ prog'[t][1] = x
      /\ Len(prog[t]) > 1 => prog'[t][2] = prog[t][2]
      /\ NoNewEnd(t) /\ \A u \in Threads \ {t} : prog'[u] = prog[u]
  BY <1>0, <1>1, <1>2, <1>5, <1>6, ThenOne
<1>8. EndedOK(t)'
  BY <1>0, <1>3, <1>7, EndedKept DEF CallAt, terminalVars
<1>9. /\ streams' \in Seq([id : Nat \ {0}, remote : BOOLEAN])
      /\ Len(streams') = Len(streams) + 1 /\ Len(streams) \in Nat
      /\ DOMAIN streams = 1 .. Len(streams) /\ DOMAIN streams' = 1 .. Len(streams')
      /\ \A k \in DOMAIN streams : k \in DOMAIN streams' /\ streams'[k] = streams[k]
      /\ \A k \in DOMAIN streams' : k \in DOMAIN streams \/ k = Len(streams) + 1
      /\ streams'[Len(streams) + 1].id = h.id
  <2> DEFINE S == [id : Nat \ {0}, remote : BOOLEAN]
           e == [id |-> h.id, remote |-> h.remote]
  <2>1. e \in S /\ e.id = h.id
    BY <1>2, <1>b
  <2>2. streams \in Seq(S) /\ streams' = Append(streams, e)
    BY <1>0, <1>4 DEF ListOK
  <2> HIDE DEF e
  <2> DEFINE r == Append(streams, e)
  <2>a. streams' = r
    BY <2>2
  <2> HIDE DEF S
  <2>3. /\ r \in Seq(S) /\ Len(r) = Len(streams) + 1 /\ Len(streams) \in Nat
        /\ DOMAIN streams = 1 .. Len(streams) /\ DOMAIN r = 1 .. Len(streams) + 1
        /\ \A k \in DOMAIN streams : k \in DOMAIN r /\ r[k] = streams[k]
        /\ \A k \in DOMAIN r : k \in DOMAIN streams \/ k = Len(streams) + 1
        /\ r[Len(streams) + 1] = e
    BY <2>1, <2>2, Appended
  <2> HIDE DEF r
  <2>4. streams' \in Seq([id : Nat \ {0}, remote : BOOLEAN])
    BY <2>3, <2>a DEF S
  <2>5. Len(streams') = Len(streams) + 1 /\ DOMAIN streams' = 1 .. Len(streams')
    BY <2>3, <2>a
  <2> QED  BY <2>1, <2>3, <2>4, <2>5, <2>a
<1>10. \A k \in DOMAIN streams : streams[k].id # h.id
  BY <1>2 DEF StreamIds
<1>11. ListOK'
  <2>1. \A j, k \in DOMAIN streams' : streams'[j].id = streams'[k].id => j = k
    BY <1>0, <1>9, <1>10 DEF ListOK
  <2>2. \A k \in DOMAIN streams' : streams'[k].id < nextId
    BY <1>0, <1>9, <1>b DEF ListOK
  <2> QED  BY <1>0, <1>3, <1>9, <2>1, <2>2 DEF ListOK, managerVars, terminalVars, mixerVars
<1>12. \A s \in StreamIds : s \in StreamIds'
  BY <1>9 DEF StreamIds
<1>13. h.id \in StreamIds'
  <2>1. Len(streams) + 1 \in DOMAIN streams'
    BY <1>9
  <2> QED  BY <1>9, <2>1 DEF StreamIds
<1>14. BoundOK'
  BY <1>0, <1>3, <1>12 DEF BoundOK, recorderVars, mixerVars
<1>15. ThreadOK(t)' /\ ~ Unrecording(t)' /\ ~ Unrecording(t)
  <2>1. ~ Unrecording(t)' /\ ~ Unrecording(t)
    BY <1>1, <1>2, <1>5, <1>7 DEF Unrecording
  <2>2. AboutStream(x)' /\ StepOK(x)'
    BY <1>5, <1>13 DEF AboutStream, StepOK
  <2> QED  BY <1>7, <2>1, <2>2 DEF ThreadOK, AboutStream, StepOK
<1> QED  BY <1>1, <1>3, <1>5, <1>7, <1>8, <1>11, <1>14, <1>15, StepKeeps DEF terminalVars

LEMMA AddedStreamKeeps ==
  ASSUME BInv, NEW t \in Threads, AddedStream(t)
  PROVE  BInv'
<1>0. ProgOK /\ RefsOK /\ ListOK /\ BoundOK /\ ThreadOK(t) /\ EndedOK(t) /\ Doing(t, "added")
  BY DEF BInv, AddedStream
<1>a. prog[t] # <<>> /\ Head(prog[t]).do = "added"
  BY <1>0 DEF Doing
<1>1. PICK h \in StepRec :
        /\ h = prog[t][1] /\ h = Head(prog[t]) /\ h.do = "added"
        /\ Len(prog[t]) \in Nat /\ Len(prog[t]) > 0 /\ Active(t)
        /\ Len(prog[t]) > 1 => prog[t][2] \in StepRec /\ Follows(h, prog[t][2])
  BY <1>0, <1>a, HeadOf
<1>2. /\ h.id \in Nat /\ h.id \in StreamIds /\ h.remote \in BOOLEAN /\ Len(prog[t]) = 1
      /\ ~ Unrecording(t)
  <2>1. ~ (Len(prog[t]) > 1)
    BY <1>1 DEF Follows
  <2>2. \A n \in Nat : n > 0 /\ ~ (n > 1) => n = 1
    OBVIOUS
  <2> QED  BY <1>0, <1>a, <1>1, <2>1, <2>2, StepFields DEF ThreadOK, AboutStream, Unrecording
<1>3. UNCHANGED <<managerVars, recorderVars, bound, terminalVars, streams, recording, mixerVars>>
  BY DEF AddedStream
<1>4. StreamIds' = StreamIds /\ ListOK' /\ BoundOK'
  <2>1. StreamIds' = StreamIds /\ ListOK'
    BY <1>0, <1>3 DEF StreamIds, ListOK, managerVars, terminalVars, mixerVars
  <2> QED  BY <1>0, <1>3, <2>1 DEF BoundOK, recorderVars, mixerVars
<1>5. IF recording THEN Then(t, <<Step("input", h.id, h.remote)>>) ELSE Then(t, <<>>)
  BY <1>1, Zenon DEF AddedStream
<1>6. /\ ProgOK' /\ NoNewEnd(t) /\ \A u \in Threads \ {t} : prog'[u] = prog[u]
      /\ ThreadOK(t)' /\ ~ Unrecording(t)' /\ (prog'[t] # <<>> => prog'[t][1].do # "release")
  <2>1. CASE ~ recording
    <3>1. /\ ProgOK' /\ NoNewEnd(t) /\ \A u \in Threads \ {t} : prog'[u] = prog[u]
          /\ \/ Len(prog[t]) = 1 /\ prog'[t] = <<>> /\ ThreadOK(t)' /\ ~ Unrecording(t)'
             \/ \E n \in StepRec : /\ n = prog[t][2] /\ prog'[t] # <<>> /\ prog'[t][1] = n
                                   /\ Len(prog[t]) > 1 /\ Follows(h, n)
                                   /\ Unrecording(t)' <=> n.do = "unrecord"
      BY <1>0, <1>1, <1>5, <2>1, AfterNone
    <3> QED  BY <1>2, <3>1
  <2>2. CASE recording
    <3>1. PICK x \in StepRec : x = Step("input", h.id, h.remote) /\ x.do = "input" /\ x.id = h.id
      BY <1>2, StepIs
    <3>2. Then(t, <<x>>)
      BY <1>5, <2>2, <3>1
    <3>3. /\ ProgOK' /\ Len(prog'[t]) = Len(prog[t]) /\ prog'[t][1] = x
          /\ Len(prog[t]) > 1 => prog'[t][2] = prog[t][2]
          /\ NoNewEnd(t) /\ \A u \in Threads \ {t} : prog'[u] = prog[u]
      BY <1>0, <1>1, <1>2, <3>1, <3>2, ThenOne
    <3>4. ~ Unrecording(t)'
      BY <1>2, <3>1, <3>3 DEF Unrecording
    <3>5. AboutStream(x)' /\ StepOK(x)'
      BY <1>2, <1>3, <1>4, <2>2, <3>1 DEF AboutStream, StepOK
    <3>6. ThreadOK(t)'
      BY <3>3, <3>4, <3>5 DEF ThreadOK, AboutStream, StepOK
    <3> QED  BY <3>1, <3>3, <3>4, <3>6
  <2> QED  BY <2>1, <2>2
<1>7. EndedOK(t)'
  BY <1>0, <1>3, <1>6, EndedKept DEF CallAt, terminalVars
<1> QED  BY <1>1, <1>2, <1>3, <1>4, <1>6, <1>7, StepKeeps DEF terminalVars

LEMMA DeleteStreamKeeps ==
  ASSUME BInv, NEW t \in Threads, DeleteStream(t)
  PROVE  BInv'
<1>0. ProgOK /\ RefsOK /\ ListOK /\ BoundOK /\ ThreadOK(t) /\ EndedOK(t) /\ Doing(t, "delete")
  BY DEF BInv, DeleteStream
<1>a. prog[t] # <<>> /\ Head(prog[t]).do = "delete"
  BY <1>0 DEF Doing
<1>1. PICK h \in StepRec :
        /\ h = prog[t][1] /\ h = Head(prog[t]) /\ h.do = "delete"
        /\ Len(prog[t]) \in Nat /\ Len(prog[t]) > 0 /\ Active(t)
        /\ Len(prog[t]) > 1 => prog[t][2] \in StepRec /\ Follows(h, prog[t][2])
  BY <1>0, <1>a, HeadOf
<1>2. /\ h.id \in Nat /\ ~ Unrecording(t)
      /\ Len(prog[t]) > 1 => prog[t][2].do \in {"delete", "ended"}
  BY <1>1, StepFields DEF Unrecording, Follows
<1>3. UNCHANGED <<managerVars, recorderVars, bound, terminalVars, streams, recording, mixerVars>>
  BY DEF DeleteStream
<1>4. StreamIds' = StreamIds /\ ListOK' /\ BoundOK'
  <2>1. StreamIds' = StreamIds /\ ListOK'
    BY <1>0, <1>3 DEF StreamIds, ListOK, managerVars, terminalVars, mixerVars
  <2> QED  BY <1>0, <1>3, <2>1 DEF BoundOK, recorderVars, mixerVars
<1>5. \/ Then(t, <<>>)
      \/ \E k \in DOMAIN streams :
           /\ streams[k].id = h.id
           /\ Then(t, <<Step("unbind", h.id, streams[k].remote), Step("erase", h.id, FALSE)>>)
  <2> DEFINE its == {k \in DOMAIN streams : streams[k].id = h.id}
             it == CHOOSE k \in its : TRUE
  <2>1. Then(t, IF recording /\ its # {}
                  THEN <<Step("unbind", h.id, streams[it].remote), Step("erase", h.id, FALSE)>>
                  ELSE <<>>)
    BY <1>1, Zenon DEF DeleteStream
  <2>2. its # {} => it \in its
    OBVIOUS
  <2>3. its # {} => it \in DOMAIN streams /\ streams[it].id = h.id
    BY <2>2
  <2> HIDE DEF its, it
  <2> QED  BY <2>1, <2>3
<1>6. /\ ProgOK' /\ NoNewEnd(t) /\ \A u \in Threads \ {t} : prog'[u] = prog[u]
      /\ ThreadOK(t)' /\ (prog'[t] # <<>> => prog'[t][1].do # "release")
  <2>1. CASE Then(t, <<>>)
    <3>1. /\ ProgOK' /\ NoNewEnd(t) /\ \A u \in Threads \ {t} : prog'[u] = prog[u]
          /\ \/ Len(prog[t]) = 1 /\ prog'[t] = <<>> /\ ThreadOK(t)' /\ ~ Unrecording(t)'
             \/ \E n \in StepRec : /\ n = prog[t][2] /\ prog'[t] # <<>> /\ prog'[t][1] = n
                                   /\ Len(prog[t]) > 1 /\ Follows(h, n)
                                   /\ Unrecording(t)' <=> n.do = "unrecord"
      BY <1>0, <1>1, <2>1, AfterNone
    <3>2. ASSUME NEW n \in StepRec, prog'[t][1] = n, Follows(h, n),
                 Unrecording(t)' <=> n.do = "unrecord"
          PROVE  ThreadOK(t)' /\ n.do # "release"
      <4>1. n.do \in {"delete", "ended"}
        BY <1>1, <3>2 DEF Follows
      <4> QED  BY <3>2, <4>1 DEF ThreadOK, AboutStream, StepOK
    <3> QED  BY <3>1, <3>2
  <2>2. ASSUME NEW k \in DOMAIN streams, streams[k].id = h.id,
               Then(t, <<Step("unbind", h.id, streams[k].remote), Step("erase", h.id, FALSE)>>)
        PROVE  /\ ProgOK' /\ NoNewEnd(t) /\ \A u \in Threads \ {t} : prog'[u] = prog[u]
               /\ ThreadOK(t)' /\ (prog'[t] # <<>> => prog'[t][1].do # "release")
    <3>1. streams[k].remote \in BOOLEAN /\ h.id \in StreamIds
      BY <1>0, <2>2, ListFields
    <3>2. PICK x \in StepRec : /\ x = Step("unbind", h.id, streams[k].remote)
                               /\ x.do = "unbind" /\ x.id = h.id
      BY <1>2, <3>1, StepIs
    <3> DEFINE y == Step("erase", h.id, FALSE)
    <3>3. y \in StepRec /\ y.do = "erase" /\ y.id = h.id
      <4>1. h.id \in Nat
        BY <1>2
      <4> QED  BY <4>1, StepOfList, Zenon
    <3>4. Then(t, <<x, y>>)
      BY <2>2, <3>2
    <3> HIDE DEF y
    <3>5. Follows(x, y) /\ (Len(prog[t]) > 1 => Follows(y, prog[t][2]))
      BY <1>2, <3>2, <3>3 DEF Follows
    <3>6. /\ ProgOK' /\ Len(prog'[t]) = Len(prog[t]) + 1
          /\ prog'[t][1] = x /\ prog'[t][2] = y
          /\ NoNewEnd(t) /\ \A u \in Threads \ {t} : prog'[u] = prog[u]
      <4>1. x.do # "ended" /\ y.do # "ended"
        BY <3>2, <3>3
      <4> QED  BY <1>0, <1>1, <3>3, <3>4, <3>5, <4>1, ThenTwo
    <3>7. ~ Unrecording(t)'
      BY <3>2, <3>3, <3>6 DEF Unrecording
    <3>8. AboutStream(x)' /\ StepOK(x)'
      BY <1>4, <3>1, <3>2 DEF AboutStream, StepOK
    <3>9. ThreadOK(t)'
      BY <3>6, <3>7, <3>8 DEF ThreadOK, AboutStream, StepOK
    <3> QED  BY <3>2, <3>6, <3>9
  <2> QED  BY <1>5, <2>1, <2>2
<1>7. EndedOK(t)'
  BY <1>0, <1>3, <1>6, EndedKept DEF CallAt, terminalVars
<1> QED  BY <1>1, <1>2, <1>3, <1>4, <1>6, <1>7, StepKeeps DEF terminalVars

LEMMA EraseStreamKeeps ==
  ASSUME BInv, NEW t \in Threads, EraseStream(t)
  PROVE  BInv'
<1>0. ProgOK /\ RefsOK /\ ListOK /\ BoundOK /\ ThreadOK(t) /\ EndedOK(t) /\ Doing(t, "erase")
  BY DEF BInv, EraseStream
<1>a. prog[t] # <<>> /\ Head(prog[t]).do = "erase"
  BY <1>0 DEF Doing
<1>1. PICK h \in StepRec :
        /\ h = prog[t][1] /\ h = Head(prog[t]) /\ h.do = "erase"
        /\ Len(prog[t]) \in Nat /\ Len(prog[t]) > 0 /\ Active(t)
        /\ Len(prog[t]) > 1 => prog[t][2] \in StepRec /\ Follows(h, prog[t][2])
  BY <1>0, <1>a, HeadOf
<1>2. /\ h.id \in StreamIds /\ h.id \notin DOMAIN bound /\ ~ Unrecording(t)
  <2>1. ~ Unrecording(t)
    BY <1>1 DEF Unrecording, Follows
  <2> QED  BY <1>0, <1>a, <1>1, <2>1 DEF ThreadOK, AboutStream, StepOK
<1>3. UNCHANGED <<managerVars, recorderVars, bound, terminalVars, recording, mixerVars>>
  BY DEF EraseStream
<1>4. Then(t, <<>>)
  BY DEF EraseStream
<1>5. PICK k \in DOMAIN streams : streams[k].id = h.id /\ streams' = RemoveAt(streams, k)
  <2> DEFINE it == CHOOSE k \in DOMAIN streams : streams[k].id = h.id
  <2>1. \E k \in DOMAIN streams : streams[k].id = h.id
    BY <1>2 DEF StreamIds
  <2>2. it \in DOMAIN streams /\ streams[it].id = h.id
    BY <2>1
  <2>3. streams' = RemoveAt(streams, it)
    BY <1>1, Zenon DEF EraseStream
  <2> QED  BY <2>2, <2>3
<1>6. /\ ProgOK' /\ NoNewEnd(t) /\ \A u \in Threads \ {t} : prog'[u] = prog[u]
      /\ \/ Len(prog[t]) = 1 /\ prog'[t] = <<>> /\ ThreadOK(t)' /\ ~ Unrecording(t)'
         \/ \E n \in StepRec : /\ n = prog[t][2] /\ prog'[t] # <<>> /\ prog'[t][1] = n
                               /\ Len(prog[t]) > 1 /\ Follows(h, n)
                               /\ Unrecording(t)' <=> n.do = "unrecord"
  BY <1>0, <1>1, <1>4, AfterNone
<1>7. ASSUME NEW n \in StepRec, prog'[t][1] = n, Follows(h, n), Unrecording(t)' <=> n.do = "unrecord"
      PROVE  ThreadOK(t)' /\ n.do # "release"
  <2>1. n.do \in {"delete", "ended"}
    BY <1>1, <1>7 DEF Follows
  <2> QED  BY <1>7, <2>1 DEF ThreadOK, AboutStream, StepOK
<1>8. ThreadOK(t)' /\ (prog'[t] # <<>> => prog'[t][1].do # "release")
  BY <1>6, <1>7
<1>9. EndedOK(t)'
  BY <1>0, <1>3, <1>6, EndedKept DEF CallAt, terminalVars
<1>10. /\ streams' \in Seq([id : Nat \ {0}, remote : BOOLEAN])
       /\ Len(streams) \in Nat /\ k \in 1 .. Len(streams) /\ DOMAIN streams = 1 .. Len(streams)
       /\ DOMAIN streams' = 1 .. Len(streams) - 1
       /\ \A i \in 1 .. Len(streams) - 1 :
            streams'[i] = IF i < k THEN streams[i] ELSE streams[i + 1]
  <2> DEFINE S == [id : Nat \ {0}, remote : BOOLEAN]
             r == RemoveAt(streams, k)
  <2>1. streams \in Seq(S) /\ streams' = r /\ k \in 1 .. Len(streams)
    BY <1>0, <1>5 DEF ListOK
  <2> HIDE DEF S
  <2>2. /\ r \in Seq(S) /\ Len(r) = Len(streams) - 1
        /\ \A i \in 1 .. Len(streams) - 1 : r[i] = IF i < k THEN streams[i] ELSE streams[i + 1]
    BY <2>1, Removed
  <2> HIDE DEF r
  <2>3. Len(streams) \in Nat /\ DOMAIN streams = 1 .. Len(streams) /\ DOMAIN r = 1 .. Len(streams) - 1
    BY <2>1, <2>2
  <2>4. streams' \in Seq([id : Nat \ {0}, remote : BOOLEAN])
    BY <2>1, <2>2 DEF S
  <2> QED  BY <2>1, <2>2, <2>3, <2>4
<1>11. ListOK'
  <2>1. \A j, i \in DOMAIN streams : streams[j].id = streams[i].id => j = i
    BY <1>0 DEF ListOK
  <2>2. \A i \in DOMAIN streams' : \E j \in DOMAIN streams :
          streams'[i] = streams[j] /\ j = IF i < k THEN i ELSE i + 1
    BY <1>10
  <2>3. \A j, i \in DOMAIN streams' : streams'[j].id = streams'[i].id => j = i
    <3> SUFFICES ASSUME NEW j \in 1 .. Len(streams) - 1, NEW i \in 1 .. Len(streams) - 1,
                        streams'[j].id = streams'[i].id
                 PROVE  j = i
      BY <1>10
    <3>1. PICK a \in DOMAIN streams : streams'[j] = streams[a] /\ a = IF j < k THEN j ELSE j + 1
      BY <1>10, <2>2
    <3>2. PICK b \in DOMAIN streams : streams'[i] = streams[b] /\ b = IF i < k THEN i ELSE i + 1
      BY <1>10, <2>2
    <3>3. a = b
      BY <2>1, <3>1, <3>2
    <3> QED  BY <1>10, <3>1, <3>2, <3>3
  <2>4. \A i \in DOMAIN streams' : streams'[i].id < nextId
    BY <1>0, <2>2 DEF ListOK
  <2> QED  BY <1>0, <1>3, <1>10, <2>3, <2>4 DEF ListOK, managerVars, terminalVars, mixerVars
<1>12. \A s \in StreamIds : s # h.id => s \in StreamIds'
  <2> SUFFICES ASSUME NEW j \in DOMAIN streams, streams[j].id # h.id
               PROVE  streams[j].id \in StreamIds'
    BY DEF StreamIds
  <2>1. CASE j < k
    <3>1. j \in DOMAIN streams' /\ streams'[j] = streams[j]
      BY <1>10, <2>1
    <3> QED  BY <3>1 DEF StreamIds
  <2>2. CASE j > k
    <3>1. j - 1 \in DOMAIN streams' /\ streams'[j - 1] = streams[j]
      BY <1>10, <2>2
    <3> QED  BY <3>1 DEF StreamIds
  <2>3. j # k
    BY <1>5
  <2> QED  BY <1>10, <2>1, <2>2, <2>3
<1>13. BoundOK'
  BY <1>0, <1>2, <1>3, <1>12 DEF BoundOK, recorderVars, mixerVars
<1> QED  BY <1>1, <1>2, <1>3, <1>6, <1>8, <1>9, <1>11, <1>13, StepKeeps DEF terminalVars

LEMMA StartRecordingKeeps ==
  ASSUME BInv, NEW t \in Threads, SetRecording(t, TRUE)
  PROVE  BInv'
<1>0. ProgOK /\ RefsOK /\ ListOK /\ BoundOK /\ ThreadOK(t) /\ EndedOK(t) /\ Doing(t, "start")
  BY DEF BInv, SetRecording
<1>a. prog[t] # <<>> /\ Head(prog[t]).do = "start"
  BY <1>0 DEF Doing
<1>1. PICK h \in StepRec :
        /\ h = prog[t][1] /\ h = Head(prog[t]) /\ h.do = "start"
        /\ Len(prog[t]) \in Nat /\ Len(prog[t]) > 0 /\ Active(t)
        /\ Len(prog[t]) > 1 => prog[t][2] \in StepRec /\ Follows(h, prog[t][2])
  BY <1>0, <1>a, HeadOf
<1>2. Len(prog[t]) = 1 /\ ~ Unrecording(t)
  <2>1. ~ (Len(prog[t]) > 1)
    BY <1>1 DEF Follows
  <2>2. \A n \in Nat : n > 0 /\ ~ (n > 1) => n = 1
    OBVIOUS
  <2> QED  BY <1>1, <2>1, <2>2 DEF Unrecording
<1>3. UNCHANGED <<managerVars, recorderVars, bound, terminalVars, streams, mixerVars>>
  BY DEF SetRecording
<1>4. recording' /\ (Then(t, <<>>) \/ Then(t, <<Step("record", 0, FALSE)>>))
  BY DEF SetRecording
<1>5. StreamIds' = StreamIds /\ ListOK' /\ BoundOK'
  <2>1. StreamIds' = StreamIds /\ ListOK'
    BY <1>0, <1>3 DEF StreamIds, ListOK, managerVars, terminalVars, mixerVars
  <2> QED  BY <1>0, <1>3, <2>1 DEF BoundOK, recorderVars, mixerVars
<1>6. /\ ProgOK' /\ NoNewEnd(t) /\ \A u \in Threads \ {t} : prog'[u] = prog[u]
      /\ ThreadOK(t)' /\ (prog'[t] # <<>> => prog'[t][1].do # "release")
  <2>1. CASE Then(t, <<>>)
    <3>1. /\ ProgOK' /\ NoNewEnd(t) /\ \A u \in Threads \ {t} : prog'[u] = prog[u]
          /\ \/ Len(prog[t]) = 1 /\ prog'[t] = <<>> /\ ThreadOK(t)' /\ ~ Unrecording(t)'
             \/ \E n \in StepRec : /\ n = prog[t][2] /\ prog'[t] # <<>> /\ prog'[t][1] = n
                                   /\ Len(prog[t]) > 1 /\ Follows(h, n)
                                   /\ Unrecording(t)' <=> n.do = "unrecord"
      BY <1>0, <1>1, <2>1, AfterNone
    <3> QED  BY <1>2, <3>1
  <2>2. CASE Then(t, <<Step("record", 0, FALSE)>>)
    <3> DEFINE x == Step("record", 0, FALSE)
    <3>1. x \in StepRec /\ x.do = "record" /\ x.id = 0 /\ Then(t, <<x>>) /\ x = x'
      BY <2>2, StepOfList
    <3> HIDE DEF x
    <3>2. /\ ProgOK' /\ Len(prog'[t]) = Len(prog[t]) /\ prog'[t][1] = x
          /\ Len(prog[t]) > 1 => prog'[t][2] = prog[t][2]
          /\ NoNewEnd(t) /\ \A u \in Threads \ {t} : prog'[u] = prog[u]
      BY <1>0, <1>1, <1>2, <3>1, ThenOne
    <3>3. ~ Unrecording(t)'
      BY <1>2, <3>1, <3>2 DEF Unrecording
    <3>4. AboutStream(x)' /\ StepOK(x)'
      BY <1>4, <3>1 DEF AboutStream, StepOK
    <3>5. ThreadOK(t)'
      BY <3>1, <3>2, <3>3, <3>4 DEF ThreadOK, AboutStream, StepOK
    <3> QED  BY <3>1, <3>2, <3>5
  <2> QED  BY <1>4, <2>1, <2>2
<1>7. EndedOK(t)'
  BY <1>0, <1>3, <1>6, EndedKept DEF CallAt, terminalVars
<1> QED  BY <1>1, <1>3, <1>4, <1>5, <1>6, <1>7, StepKeeps DEF terminalVars

LEMMA StopRecordingKeeps ==
  ASSUME BInv, NEW t \in Threads, SetRecording(t, FALSE)
  PROVE  BInv'
<1>0. ProgOK /\ RefsOK /\ ListOK /\ BoundOK /\ ThreadOK(t) /\ EndedOK(t) /\ Doing(t, "stop")
  BY DEF BInv, SetRecording
<1>a. prog[t] # <<>> /\ Head(prog[t]).do = "stop"
  BY <1>0 DEF Doing
<1>1. PICK h \in StepRec :
        /\ h = prog[t][1] /\ h = Head(prog[t]) /\ h.do = "stop"
        /\ Len(prog[t]) \in Nat /\ Len(prog[t]) > 0 /\ Active(t)
        /\ Len(prog[t]) > 1 => prog[t][2] \in StepRec /\ Follows(h, prog[t][2])
  BY <1>0, <1>a, HeadOf
<1>2. /\ ~ Unrecording(t) /\ (Len(prog[t]) > 1 => prog[t][2].do = "destroy")
  BY <1>1 DEF Unrecording, Follows
<1>3. UNCHANGED <<managerVars, recorderVars, bound, terminalVars, streams, mixerVars>>
  BY DEF SetRecording
<1>4. /\ ~ recording'
      /\ \/ ~ recording /\ Then(t, <<>>)
         \/ Then(t, <<Step("unrecord", 0, FALSE)>>)
  BY DEF SetRecording
<1>5. StreamIds' = StreamIds /\ ListOK' /\ BoundOK'
  <2>1. StreamIds' = StreamIds /\ ListOK'
    BY <1>0, <1>3 DEF StreamIds, ListOK, managerVars, terminalVars, mixerVars
  <2> QED  BY <1>0, <1>3, <2>1 DEF BoundOK, recorderVars, mixerVars
<1>6. /\ ProgOK' /\ NoNewEnd(t) /\ \A u \in Threads \ {t} : prog'[u] = prog[u]
      /\ ThreadOK(t)' /\ (prog'[t] # <<>> => prog'[t][1].do # "release")
      /\ ~ Unrecording(t)' => ~ recording
  <2>1. CASE ~ recording /\ Then(t, <<>>)
    <3>1. /\ ProgOK' /\ NoNewEnd(t) /\ \A u \in Threads \ {t} : prog'[u] = prog[u]
          /\ \/ Len(prog[t]) = 1 /\ prog'[t] = <<>> /\ ThreadOK(t)' /\ ~ Unrecording(t)'
             \/ \E n \in StepRec : /\ n = prog[t][2] /\ prog'[t] # <<>> /\ prog'[t][1] = n
                                   /\ Len(prog[t]) > 1 /\ Follows(h, n)
                                   /\ Unrecording(t)' <=> n.do = "unrecord"
      BY <1>0, <1>1, <2>1, AfterNone
    <3>2. ASSUME NEW n \in StepRec, prog'[t][1] = n, Follows(h, n),
                 Unrecording(t)' <=> n.do = "unrecord"
          PROVE  ThreadOK(t)' /\ n.do # "release"
      <4>1. n.do = "destroy"
        BY <1>1, <3>2 DEF Follows
      <4> QED  BY <1>4, <3>2, <4>1 DEF ThreadOK, AboutStream, StepOK
    <3> QED  BY <2>1, <3>1, <3>2
  <2>2. CASE Then(t, <<Step("unrecord", 0, FALSE)>>)
    <3> DEFINE x == Step("unrecord", 0, FALSE)
    <3>1. x \in StepRec /\ x.do = "unrecord" /\ x.id = 0 /\ Then(t, <<x>>) /\ x = x'
      BY <2>2, StepOfList
    <3> HIDE DEF x
    <3>a. Len(prog[t]) > 1 => Follows(x, prog[t][2])
      BY <1>2, <3>1 DEF Follows
    <3>b. x.do # "ended"
      BY <3>1
    <3>2. /\ ProgOK' /\ Len(prog'[t]) = Len(prog[t]) /\ prog'[t][1] = x
          /\ Len(prog[t]) > 1 => prog'[t][2] = prog[t][2]
          /\ NoNewEnd(t) /\ \A u \in Threads \ {t} : prog'[u] = prog[u]
      BY <1>0, <1>1, <3>1, <3>a, <3>b, ThenOne
    <3>3. Unrecording(t)'
      BY <1>1, <3>1, <3>2 DEF Unrecording
    <3>4. AboutStream(x)' /\ StepOK(x)'
      BY <3>1 DEF AboutStream, StepOK
    <3>5. Ahead(x.id)'
      <4>1. \A k \in DOMAIN streams : streams[k].id # 0
        BY <1>0, ListFields
      <4> QED  BY <1>3, <3>1, <4>1 DEF Ahead
    <3>6. ThreadOK(t)'
      BY <1>4, <3>1, <3>2, <3>4, <3>5 DEF ThreadOK, AboutStream, StepOK, Ahead
    <3> QED  BY <3>1, <3>2, <3>3, <3>6
  <2> QED  BY <1>4, <2>1, <2>2
<1>7. EndedOK(t)'
  BY <1>0, <1>3, <1>6, EndedKept DEF CallAt, terminalVars
<1> QED  BY <1>1, <1>2, <1>3, <1>5, <1>6, <1>7, StepKeeps DEF terminalVars

\* The stream that a thread goes on with, over the list of the streams.
LEMMA NextStream ==
  ASSUME ListOK, NEW id \in StreamIds \cup {0}, NEW k \in NextStreams(id)
  PROVE  /\ k \in Nat /\ k > 0 /\ Len(streams) \in Nat
         /\ ~ (k > Len(streams)) => k \in DOMAIN streams
         /\ Ahead(id) => \A m \in DOMAIN streams : streams[m].id \in DOMAIN bound => k <= m
<1>1. \A m \in DOMAIN streams : m \in 1 .. Len(streams) /\ streams[m].id # 0
  BY ListFields
<1>2. Len(streams) \in Nat /\ DOMAIN streams = 1 .. Len(streams)
  BY DEF ListOK
<1>3. CASE id = 0
  <2>1. k = 1
    BY <1>3 DEF NextStreams
  <2> QED  BY <1>1, <1>2, <2>1
<1>4. CASE id # 0
  <2>1. PICK j \in DOMAIN streams : streams[j].id = id
    BY <1>4 DEF StreamIds
  <2>2. PICK i \in DOMAIN streams : streams[i].id = id /\ k = i + 1
    BY <1>4, <2>1 DEF NextStreams
  <2>3. i \in Nat
    BY <1>1, <2>2
  <2>4. Ahead(id) => \A m \in DOMAIN streams : streams[m].id \in DOMAIN bound => i < m
    BY <2>2 DEF Ahead
  <2> QED  BY <1>1, <1>2, <2>2, <2>3, <2>4
<1> QED  BY <1>3, <1>4

LEMMA RecordOnKeeps ==
  ASSUME BInv, NEW t \in Threads, RecordNext(t, "record", "input")
  PROVE  BInv'
<1>0. ProgOK /\ RefsOK /\ ListOK /\ BoundOK /\ ThreadOK(t) /\ EndedOK(t) /\ Doing(t, "record")
  BY DEF BInv, RecordNext
<1>a. prog[t] # <<>> /\ Head(prog[t]).do = "record"
  BY <1>0 DEF Doing
<1>1. PICK h \in StepRec :
        /\ h = prog[t][1] /\ h = Head(prog[t]) /\ h.do = "record"
        /\ Len(prog[t]) \in Nat /\ Len(prog[t]) > 0 /\ Active(t)
        /\ Len(prog[t]) > 1 => prog[t][2] \in StepRec /\ Follows(h, prog[t][2])
  BY <1>0, <1>a, HeadOf
<1>2. Len(prog[t]) = 1 /\ ~ Unrecording(t) /\ recording /\ h.id \in StreamIds \cup {0}
  <2>1. ~ (Len(prog[t]) > 1)
    BY <1>1 DEF Follows
  <2>2. \A n \in Nat : n > 0 /\ ~ (n > 1) => n = 1
    OBVIOUS
  <2> QED  BY <1>0, <1>a, <1>1, <2>1, <2>2 DEF Unrecording, ThreadOK, AboutStream, StepOK
<1>3. UNCHANGED <<managerVars, recorderVars, bound, terminalVars, streams, recording, mixerVars>>
  BY DEF RecordNext
<1>4. StreamIds' = StreamIds /\ ListOK' /\ BoundOK'
  <2>1. StreamIds' = StreamIds /\ ListOK'
    BY <1>0, <1>3 DEF StreamIds, ListOK, managerVars, terminalVars, mixerVars
  <2> QED  BY <1>0, <1>3, <2>1 DEF BoundOK, recorderVars, mixerVars
<1>5. PICK k \in NextStreams(h.id) :
        Then(t, IF k > Len(streams) THEN <<>>
                  ELSE <<Step("input", streams[k].id, streams[k].remote),
                         Step("record", streams[k].id, FALSE)>>)
  BY <1>1, Zenon DEF RecordNext
<1>6. ~ (k > Len(streams)) => k \in DOMAIN streams
  BY <1>0, <1>2, NextStream
<1>7. /\ ProgOK' /\ NoNewEnd(t) /\ \A u \in Threads \ {t} : prog'[u] = prog[u]
      /\ ThreadOK(t)' /\ (prog'[t] # <<>> => prog'[t][1].do # "release")
  <2>1. CASE k > Len(streams)
    <3>1. Then(t, <<>>)
      BY <1>5, <2>1
    <3>2. /\ ProgOK' /\ NoNewEnd(t) /\ \A u \in Threads \ {t} : prog'[u] = prog[u]
          /\ \/ Len(prog[t]) = 1 /\ prog'[t] = <<>> /\ ThreadOK(t)' /\ ~ Unrecording(t)'
             \/ \E n \in StepRec : /\ n = prog[t][2] /\ prog'[t] # <<>> /\ prog'[t][1] = n
                                   /\ Len(prog[t]) > 1 /\ Follows(h, n)
                                   /\ Unrecording(t)' <=> n.do = "unrecord"
      BY <1>0, <1>1, <3>1, AfterNone
    <3> QED  BY <1>2, <3>2
  <2>2. CASE ~ (k > Len(streams))
    <3>1. /\ streams[k].id \in Nat /\ streams[k].remote \in BOOLEAN /\ streams[k].id \in StreamIds
      BY <1>0, <1>6, <2>2, ListFields
    <3>2. PICK x \in StepRec : /\ x = Step("input", streams[k].id, streams[k].remote)
                               /\ x.do = "input" /\ x.id = streams[k].id
      BY <3>1, StepIs
    <3> DEFINE y == Step("record", streams[k].id, FALSE)
    <3>3. y \in StepRec /\ y.do = "record" /\ y.id = streams[k].id
      BY <3>1, StepOfList, Zenon
    <3>4. Then(t, <<x, y>>)
      BY <1>5, <2>2, <3>2
    <3> HIDE DEF y
    <3>5. /\ Follows(x, y) /\ x.do # "ended" /\ y.do # "ended"
          /\ Len(prog[t]) > 1 => Follows(y, prog[t][2])
      <4>1. ~ (Len(prog[t]) > 1)
        BY <1>2
      <4> QED  BY <3>2, <3>3, <4>1 DEF Follows
    <3>6. /\ ProgOK' /\ Len(prog'[t]) = Len(prog[t]) + 1
          /\ prog'[t][1] = x /\ prog'[t][2] = y
          /\ NoNewEnd(t) /\ \A u \in Threads \ {t} : prog'[u] = prog[u]
      BY <1>0, <1>1, <3>3, <3>4, <3>5, ThenTwo
    <3>7. ~ Unrecording(t)'
      BY <3>2, <3>3, <3>6 DEF Unrecording
    <3>8. AboutStream(x)' /\ StepOK(x)'
      BY <1>2, <1>3, <1>4, <3>1, <3>2 DEF AboutStream, StepOK
    <3>9. ThreadOK(t)'
      BY <3>6, <3>7, <3>8 DEF ThreadOK, AboutStream, StepOK
    <3> QED  BY <3>2, <3>6, <3>9
  <2> QED  BY <2>1, <2>2
<1>8. EndedOK(t)'
  BY <1>0, <1>3, <1>7, EndedKept DEF CallAt, terminalVars
<1> QED  BY <1>1, <1>2, <1>3, <1>4, <1>7, <1>8, StepKeeps DEF terminalVars

LEMMA RecordOffKeeps ==
  ASSUME BInv, NEW t \in Threads, RecordNext(t, "unrecord", "unbind")
  PROVE  BInv'
<1>0. ProgOK /\ RefsOK /\ ListOK /\ BoundOK /\ ThreadOK(t) /\ EndedOK(t) /\ Doing(t, "unrecord")
  BY DEF BInv, RecordNext
<1>a. prog[t] # <<>> /\ Head(prog[t]).do = "unrecord"
  BY <1>0 DEF Doing
<1>1. PICK h \in StepRec :
        /\ h = prog[t][1] /\ h = Head(prog[t]) /\ h.do = "unrecord"
        /\ Len(prog[t]) \in Nat /\ Len(prog[t]) > 0 /\ Active(t)
        /\ Len(prog[t]) > 1 => prog[t][2] \in StepRec /\ Follows(h, prog[t][2])
  BY <1>0, <1>a, HeadOf
<1>2. /\ Unrecording(t) /\ ~ recording /\ h.id \in StreamIds \cup {0} /\ Ahead(h.id)
      /\ Len(prog[t]) > 1 => prog[t][2].do = "destroy"
  <2>1. Unrecording(t) /\ (Len(prog[t]) > 1 => prog[t][2].do = "destroy")
    BY <1>1 DEF Unrecording, Follows
  <2> QED  BY <1>0, <1>a, <1>1, <2>1 DEF ThreadOK, AboutStream
<1>3. UNCHANGED <<managerVars, recorderVars, bound, terminalVars, streams, recording, mixerVars>>
  BY DEF RecordNext
<1>4. StreamIds' = StreamIds /\ ListOK' /\ BoundOK'
  <2>1. StreamIds' = StreamIds /\ ListOK'
    BY <1>0, <1>3 DEF StreamIds, ListOK, managerVars, terminalVars, mixerVars
  <2> QED  BY <1>0, <1>3, <2>1 DEF BoundOK, recorderVars, mixerVars
<1>5. PICK k \in NextStreams(h.id) :
        Then(t, IF k > Len(streams) THEN <<>>
                  ELSE <<Step("unbind", streams[k].id, streams[k].remote),
                         Step("unrecord", streams[k].id, FALSE)>>)
  BY <1>1, Zenon DEF RecordNext
<1>6. /\ k \in Nat /\ Len(streams) \in Nat
      /\ ~ (k > Len(streams)) => k \in DOMAIN streams
      /\ \A m \in DOMAIN streams : streams[m].id \in DOMAIN bound => k <= m
  BY <1>0, <1>2, NextStream
<1>7. /\ ProgOK' /\ NoNewEnd(t) /\ \A u \in Threads \ {t} : prog'[u] = prog[u]
      /\ ThreadOK(t)' /\ (prog'[t] # <<>> => prog'[t][1].do # "release")
      /\ DOMAIN bound = {} \/ Unrecording(t)'
  <2>1. CASE k > Len(streams)
    <3>1. Then(t, <<>>)
      BY <1>5, <2>1
    <3>2. /\ ProgOK' /\ NoNewEnd(t) /\ \A u \in Threads \ {t} : prog'[u] = prog[u]
          /\ \/ Len(prog[t]) = 1 /\ prog'[t] = <<>> /\ ThreadOK(t)' /\ ~ Unrecording(t)'
             \/ \E n \in StepRec : /\ n = prog[t][2] /\ prog'[t] # <<>> /\ prog'[t][1] = n
                                   /\ Len(prog[t]) > 1 /\ Follows(h, n)
                                   /\ Unrecording(t)' <=> n.do = "unrecord"
      BY <1>0, <1>1, <3>1, AfterNone
    <3>3. ASSUME NEW n \in StepRec, prog'[t][1] = n, Follows(h, n),
                 Unrecording(t)' <=> n.do = "unrecord"
          PROVE  ThreadOK(t)' /\ n.do # "release"
      <4>1. n.do = "destroy"
        BY <1>1, <3>3 DEF Follows
      <4> QED  BY <1>2, <1>3, <3>3, <4>1 DEF ThreadOK, AboutStream, StepOK
    <3>4. DOMAIN bound = {}
      <4> SUFFICES ASSUME NEW s \in DOMAIN bound PROVE FALSE
        OBVIOUS
      <4>1. PICK m \in DOMAIN streams : streams[m].id = s
        BY <1>0 DEF BoundOK, StreamIds
      <4>2. m \in 1 .. Len(streams) /\ k <= m
        BY <1>0, <1>6, <4>1, ListFields
      <4> QED  BY <1>6, <2>1, <4>2
    <3> QED  BY <3>2, <3>3, <3>4
  <2>2. CASE ~ (k > Len(streams))
    <3>1. /\ streams[k].id \in Nat /\ streams[k].remote \in BOOLEAN /\ streams[k].id \in StreamIds
      BY <1>0, <1>6, <2>2, ListFields
    <3>2. PICK x \in StepRec : /\ x = Step("unbind", streams[k].id, streams[k].remote)
                               /\ x.do = "unbind" /\ x.id = streams[k].id
      BY <3>1, StepIs
    <3> DEFINE y == Step("unrecord", streams[k].id, FALSE)
    <3>3. y \in StepRec /\ y.do = "unrecord" /\ y.id = streams[k].id
      BY <3>1, StepOfList, Zenon
    <3>4. Then(t, <<x, y>>)
      BY <1>5, <2>2, <3>2
    <3> HIDE DEF y
    <3>5. /\ Follows(x, y) /\ x.do # "ended" /\ y.do # "ended"
          /\ Len(prog[t]) > 1 => Follows(y, prog[t][2])
      BY <1>2, <3>2, <3>3 DEF Follows
    <3>6. /\ ProgOK' /\ Len(prog'[t]) = Len(prog[t]) + 1
          /\ prog'[t][1] = x /\ prog'[t][2] = y
          /\ NoNewEnd(t) /\ \A u \in Threads \ {t} : prog'[u] = prog[u]
      BY <1>0, <1>1, <3>3, <3>4, <3>5, ThenTwo
    <3>7. Unrecording(t)'
      <4>1. Len(prog'[t]) > 1
        BY <1>1, <3>6
      <4> QED  BY <3>3, <3>6, <4>1 DEF Unrecording
    <3>8. AboutStream(x)' /\ StepOK(x)'
      BY <1>4, <3>1, <3>2 DEF AboutStream, StepOK
    <3>9. NotBehind(x.id)'
      <4>1. \A j \in DOMAIN streams : streams[j].id = x.id => j = k
        BY <1>0, <1>6, <2>2, <3>2 DEF ListOK
      <4>2. \A j, m \in DOMAIN streams : streams[j].id = x.id /\ streams[m].id \in DOMAIN bound => j <= m
        BY <1>6, <4>1
      <4> QED  BY <1>3, <4>2 DEF NotBehind
    <3>10. ThreadOK(t)'
      BY <1>2, <1>3, <3>2, <3>6, <3>8, <3>9 DEF ThreadOK, AboutStream, StepOK, NotBehind
    <3> QED  BY <3>2, <3>6, <3>7, <3>10
  <2> QED  BY <2>1, <2>2
<1>8. EndedOK(t)'
  BY <1>0, <1>3, <1>7, EndedKept DEF CallAt, terminalVars
<1> QED  BY <1>1, <1>2, <1>3, <1>4, <1>7, <1>8, StepKeeps DEF terminalVars

\* An active thread that takes no inputs away finds none bound after the recording.
LEMMA NoneBound ==
  ASSUME BInv, NEW t \in Threads, Active(t), ~ Unrecording(t), ~ recording
  PROVE  DOMAIN bound = {}
<1>1. ProgOK /\ RefsOK /\ StoppedOK
  BY DEF BInv
<1>2. ASSUME NEW u \in Threads PROVE ~ Unrecording(u)
  <2>1. CASE u = t
    BY <2>1
  <2>2. CASE u # t
    <3>1. prog[u] = <<>> \/ (Len(prog[u]) = 1 /\ prog[u][1].do = "release")
      BY <1>1, <2>2, OtherIdle
    <3> QED  BY <1>1, <3>1, IdleOK
  <2> QED  BY <2>1, <2>2
<1> QED  BY <1>1, <1>2 DEF StoppedOK

LEMMA DestroyKeeps ==
  ASSUME BInv, NEW t \in Threads, Destroy(t)
  PROVE  BInv'
<1>0. ProgOK /\ RefsOK /\ ListOK /\ BoundOK /\ ThreadOK(t) /\ EndedOK(t) /\ Doing(t, "destroy")
  BY DEF BInv, Destroy
<1>a. prog[t] # <<>> /\ Head(prog[t]).do = "destroy"
  BY <1>0 DEF Doing
<1>1. PICK h \in StepRec :
        /\ h = prog[t][1] /\ h = Head(prog[t]) /\ h.do = "destroy"
        /\ Len(prog[t]) \in Nat /\ Len(prog[t]) > 0 /\ Active(t)
        /\ Len(prog[t]) > 1 => prog[t][2] \in StepRec /\ Follows(h, prog[t][2])
  BY <1>0, <1>a, HeadOf
<1>2. Len(prog[t]) = 1 /\ ~ Unrecording(t) /\ ~ recording
  <2>1. ~ (Len(prog[t]) > 1)
    BY <1>1 DEF Follows
  <2>2. \A n \in Nat : n > 0 /\ ~ (n > 1) => n = 1
    OBVIOUS
  <2> QED  BY <1>0, <1>a, <1>1, <2>1, <2>2 DEF Unrecording, ThreadOK, StepOK
<1>3. DOMAIN bound = {}
  BY <1>1, <1>2, NoneBound
<1>4. /\ calls' = <<>> /\ streams' = <<>> /\ inputs' = [r \in BOOLEAN |-> <<>>]
      /\ obj' = [a \in {} |-> 0] /\ Then(t, <<>>)
      /\ UNCHANGED <<managerVars, recorderVars, bound, refs, mapped, recording>>
  BY DEF Destroy
<1>5. /\ ProgOK' /\ NoNewEnd(t) /\ \A u \in Threads \ {t} : prog'[u] = prog[u]
      /\ \/ Len(prog[t]) = 1 /\ prog'[t] = <<>> /\ ThreadOK(t)' /\ ~ Unrecording(t)'
         \/ \E n \in StepRec : /\ n = prog[t][2] /\ prog'[t] # <<>> /\ prog'[t][1] = n
                               /\ Len(prog[t]) > 1 /\ Follows(h, n)
                               /\ Unrecording(t)' <=> n.do = "unrecord"
  BY <1>0, <1>1, <1>4, AfterNone
<1>6. ListOK'
  BY <1>0, <1>4 DEF ListOK, managerVars
<1>7. BoundOK'
  BY <1>3, <1>4 DEF BoundOK
<1>8. prog'[t] = <<>> /\ ThreadOK(t)' /\ ~ Unrecording(t)'
  BY <1>2, <1>5
<1>9. EndedOK(t)'
  BY <1>8 DEF EndedOK
<1> QED  BY <1>1, <1>3, <1>4, <1>5, <1>6, <1>7, <1>8, <1>9, StepKeeps

LEMMA ReleaseKeeps ==
  ASSUME BInv, NEW t \in Threads, Release(t)
  PROVE  BInv'
<1>0. /\ ProgOK /\ RefsOK /\ ListOK /\ BoundOK /\ StoppedOK /\ Doing(t, "release")
      /\ \A u \in Threads : ThreadOK(u) /\ EndedOK(u)
  BY DEF BInv, Release
<1>1. /\ Len(prog[t]) = 1 /\ prog[t][1].do = "release" /\ ~ Unrecording(t) /\ ~ Active(t)
  <2>1. /\ Len(prog[t]) \in Nat /\ Len(prog[t]) > 0 /\ prog[t][1].do = "release"
        /\ Len(prog[t]) > 1 => Follows(prog[t][1], prog[t][2])
    BY <1>0, First DEF Doing
  <2>2. ~ (Len(prog[t]) > 1)
    BY <2>1 DEF Follows
  <2>3. \A n \in Nat : n > 0 /\ ~ (n > 1) => n = 1
    OBVIOUS
  <2> QED  BY <1>0, <2>1, <2>2, <2>3 DEF Unrecording, Active
<1>2. /\ refs' = refs - 1
      /\ Then(t, IF refs = 1 THEN <<Step("stop", 0, FALSE), Step("destroy", 0, FALSE)>> ELSE <<>>)
      /\ UNCHANGED <<managerVars, recorderVars, bound, mapped, calls, streams, recording, mixerVars>>
  BY DEF Release
<1>3. /\ ProgOK' /\ NoNewEnd(t) /\ \A u \in Threads \ {t} : prog'[u] = prog[u]
      /\ ThreadOK(t)' /\ ~ Unrecording(t)'
      /\ IF refs = 1 THEN prog'[t] # <<>> /\ ~ Doing(t, "release")' ELSE prog'[t] = <<>>
  <2>1. CASE refs = 1
    <3> DEFINE x == Step("stop", 0, FALSE)
               y == Step("destroy", 0, FALSE)
    <3>1. x \in StepRec /\ x.do = "stop" /\ y \in StepRec /\ y.do = "destroy"
      BY StepOfNone
    <3>2. Then(t, <<x, y>>)
      BY <1>2, <2>1
    <3> HIDE DEF x, y
    <3>3. /\ Follows(x, y) /\ x.do # "ended" /\ y.do # "ended"
          /\ Len(prog[t]) > 0 /\ ~ (Len(prog[t]) > 1)
      BY <1>1, <3>1 DEF Follows
    <3>4. /\ ProgOK' /\ Len(prog'[t]) = Len(prog[t]) + 1
          /\ prog'[t][1] = x /\ prog'[t][2] = y
          /\ NoNewEnd(t) /\ \A u \in Threads \ {t} : prog'[u] = prog[u]
      BY <1>0, <3>1, <3>2, <3>3, ThenTwo
    <3>5. ~ Unrecording(t)'
      BY <3>1, <3>4 DEF Unrecording
    <3>6. prog'[t] # <<>> /\ Head(prog'[t]) = x
      <4>1. prog'[t] \in Seq(StepRec)
        BY <3>4 DEF ProgOK
      <4>2. Len(prog'[t]) = 2
        BY <1>1, <3>4
      <4> QED  BY <3>4, <4>1, <4>2, EmptySeq
    <3>7. ~ Doing(t, "release")'
      BY <3>1, <3>6 DEF Doing
    <3>8. ThreadOK(t)'
      BY <3>1, <3>4, <3>5 DEF ThreadOK, AboutStream, StepOK
    <3> QED  BY <2>1, <3>4, <3>5, <3>6, <3>7, <3>8
  <2>2. CASE refs # 1
    <3>1. Then(t, <<>>)
      BY <1>2, <2>2
    <3>2. PICK h \in StepRec : h = prog[t][1]
      BY <1>0, <1>1, First
    <3>3. /\ ProgOK' /\ NoNewEnd(t) /\ \A u \in Threads \ {t} : prog'[u] = prog[u]
          /\ \/ Len(prog[t]) = 1 /\ prog'[t] = <<>> /\ ThreadOK(t)' /\ ~ Unrecording(t)'
             \/ \E n \in StepRec : /\ n = prog[t][2] /\ prog'[t] # <<>> /\ prog'[t][1] = n
                                   /\ Len(prog[t]) > 1 /\ Follows(h, n)
                                   /\ Unrecording(t)' <=> n.do = "unrecord"
      BY <1>0, <1>1, <3>1, <3>2, AfterNone
    <3> QED  BY <1>1, <2>2, <3>3
  <2> QED  BY <2>1, <2>2
<1>4. ASSUME NEW u \in Threads PROVE ThreadOK(u)' /\ EndedOK(u)' /\ (Unrecording(u)' <=> Unrecording(u))
  <2>1. CASE u = t
    <3>1. EndedOK(t)'
      BY <1>0, <1>2, <1>3, EndedKept DEF CallAt
    <3> QED  BY <1>1, <1>3, <2>1, <3>1
  <2>2. CASE u # t
    <3>1. prog'[u] = prog[u]
      BY <1>3, <2>2
    <3>2. EndedOK(u)'
      BY <1>0, <1>2, <3>1, EndedKept DEF CallAt
    <3>3. UNCHANGED <<streams, recording, bound, nextId, obj>>
      BY <1>2 DEF managerVars, mixerVars
    <3>4. nextId \in Nat /\ nextId' \in Nat /\ nextId <= nextId'
      BY <1>0, <3>3 DEF ListOK
    <3> QED  BY <1>0, <3>1, <3>2, <3>3, <3>4, ThreadKept
  <2> QED  BY <2>1, <2>2
<1>5. StoppedOK'
  BY <1>0, <1>2, <1>4 DEF StoppedOK
<1>6. StreamIds' = StreamIds /\ ListOK'
  BY <1>0, <1>2 DEF StreamIds, ListOK, managerVars, mixerVars
<1>7. BoundOK'
  BY <1>0, <1>2, <1>6 DEF BoundOK, recorderVars, mixerVars
<1>8. RefsOK'
  <2>1. ASSUME NEW u \in Threads \ {t}
        PROVE  (Doing(u, "release")' <=> Doing(u, "release")) /\ (Active(u)' <=> Active(u))
    <3>1. prog'[u] = prog[u]
      BY <1>3
    <3> QED  BY <3>1 DEF Doing, Active
  <2>2. refs # 1 => ~ Doing(t, "release")' /\ ~ Active(t)'
    BY <1>3 DEF Doing, Active
  <2>3. ~ Doing(t, "release")'
    BY <1>3, <2>2
  <2>4. CASE t = "sip"
    <3>1. "api" \in Threads \ {t} /\ Threads = {"sip", "api"}
      BY <2>4 DEF Threads
    <3>2. (Doing("api", "release")' <=> Doing("api", "release")) /\ (Active("api")' <=> Active("api"))
      BY <2>1, <3>1
    <3> QED  BY <1>0, <1>1, <1>2, <2>2, <2>3, <2>4, <3>1, <3>2 DEF RefsOK
  <2>5. CASE t = "api"
    <3>1. "sip" \in Threads \ {t} /\ Threads = {"sip", "api"}
      BY <2>5 DEF Threads
    <3>2. (Doing("sip", "release")' <=> Doing("sip", "release")) /\ (Active("sip")' <=> Active("sip"))
      BY <2>1, <3>1
    <3> QED  BY <1>0, <1>1, <1>2, <2>2, <2>3, <2>5, <3>1, <3>2 DEF RefsOK
  <2> QED  BY <2>4, <2>5 DEF Threads
<1> QED  BY <1>3, <1>4, <1>5, <1>6, <1>7, <1>8 DEF BInv

-----------------------------------------------------------------------------
\* A callback of SIPLib: the handler that "sip" enters has nothing to do, or works on
\* the terminal, which is in the maps.
LEMMA CallbackKeeps ==
  ASSUME BInv, NEW steps \in Seq(StepRec), Chained(steps), Begin("sip", steps),
         UNCHANGED <<refs, mapped, streams, recording>>,
         Len(steps) > 0 => mapped /\ steps[1].do \in {"start", "delete", "ended", "add"},
         Len(steps) > 0 /\ steps[1].do = "add" =>
           steps[1].id \notin StreamIds /\ steps[1].id \in 1 .. nextId' - 1,
         DOMAIN bound' \subseteq DOMAIN bound, ListOK', BoundOK', nextId <= nextId',
         \A a \in DOMAIN obj : a \in DOMAIN obj' /\ obj'[a].id = obj[a].id,
         \A c : CallAt(c) # {} => CallAt(c)' # {},
         \A k \in 1 .. Len(steps) : steps[k].do = "ended" => CallAt(steps[k].call)' # {}
  PROVE  BInv'
<1>0. /\ ProgOK /\ RefsOK /\ ListOK /\ StoppedOK /\ "sip" \in Threads /\ "api" \in Threads
      /\ \A u \in Threads : ThreadOK(u) /\ EndedOK(u)
  BY DEF BInv, Threads
<1>1. ProgOK' /\ prog["sip"] = <<>> /\ prog'["sip"] = steps /\ prog'["api"] = prog["api"]
  <2>1. /\ ProgOK' /\ prog["sip"] = <<>> /\ prog'["sip"] = steps
        /\ \A u \in Threads \ {"sip"} : prog'[u] = prog[u]
    BY <1>0, BeginIs
  <2>2. "api" \in Threads \ {"sip"}
    BY DEF Threads
  <2> QED  BY <2>1, <2>2
<1>2. /\ Len(steps) \in Nat /\ ((steps # <<>>) <=> (Len(steps) > 0))
      /\ Len(steps) > 0 => Head(steps) = steps[1]
      /\ Len(steps) > 1 => Follows(steps[1], steps[2])
  <2>1. Len(steps) \in Nat /\ ((steps # <<>>) <=> (Len(steps) > 0))
    BY EmptySeq
  <2>2. Len(steps) > 1 => Follows(steps[1], steps[2])
    <3> HAVE Len(steps) > 1
    <3>1. 1 \in 1 .. Len(steps) - 1
      BY <2>1
    <3>2. Follows(steps[1], steps[1 + 1])
      BY <3>1, Zenon DEF Chained
    <3> QED  BY <3>2
  <2> QED  BY <2>1, <2>2
<1>3. ~ Unrecording("sip") /\ ~ Unrecording("sip")'
  <2>1. ~ Unrecording("sip")
    <3>1. Len(prog["sip"]) = 0
      BY <1>1
    <3> QED  BY <3>1 DEF Unrecording
  <2>2. Len(steps) > 1 => steps[2].do # "unrecord"
    BY <1>2 DEF Follows
  <2> QED  BY <1>1, <1>2, <2>1, <2>2 DEF Unrecording
<1>4. ThreadOK("sip")'
  <2>1. Len(steps) > 0 => AboutStream(steps[1])' /\ StepOK(steps[1])'
    <3>1. StreamIds' = StreamIds
      BY DEF StreamIds
    <3> QED  BY <1>2, <3>1 DEF AboutStream, StepOK
  <2> QED  BY <1>1, <1>2, <1>3, <2>1 DEF ThreadOK, AboutStream, StepOK
<1>5. EndedOK("sip")'
  BY <1>1 DEF EndedOK, CallAt
<1>6. ThreadOK("api")' /\ (Unrecording("api")' <=> Unrecording("api"))
  <2>1. nextId \in Nat /\ nextId' \in Nat
    BY <1>0 DEF ListOK
  <2> QED  BY <1>0, <1>1, <2>1, ThreadKept
<1>7. EndedOK("api")'
  BY <1>0, <1>1, EndedKept
<1>8. StoppedOK'
  <2>1. (\A u \in Threads : ~ Unrecording(u)') => \A u \in Threads : ~ Unrecording(u)
    BY <1>3, <1>6 DEF Threads
  <2> QED  BY <1>0, <2>1 DEF StoppedOK
<1>9. RefsOK'
  <2>1. /\ ~ Doing("sip", "release") /\ ~ Doing("sip", "release")'
        /\ Active("sip")' => mapped
    <3>1. Len(steps) > 0 => Head(steps).do # "release"
      BY <1>2
    <3> QED  BY <1>1, <1>2, <3>1 DEF Doing, Active
  <2>2. (Doing("api", "release")' <=> Doing("api", "release")) /\ (Active("api")' <=> Active("api"))
    BY <1>1 DEF Doing, Active
  <2>3. mapped => ~ Active("api")
    <3>1. Active("api") => refs = 0
      BY <1>0 DEF RefsOK
    <3>2. mapped => refs # 0
      BY <1>0 DEF RefsOK
    <3> QED  BY <3>1, <3>2
  <2>4. Threads = {"sip", "api"}
    BY DEF Threads
  <2> QED  BY <1>0, <2>1, <2>2, <2>3, <2>4 DEF RefsOK
<1> QED
  <2>1. \A u \in Threads : ThreadOK(u)' /\ EndedOK(u)'
    BY <1>4, <1>5, <1>6, <1>7 DEF Threads
  <2> QED  BY <1>1, <1>8, <1>9, <2>1 DEF BInv

\* The lists when only the recorder and the known calls change.
LEMMA ListKept ==
  ASSUME ListOK, UNCHANGED <<streams, nextId, calls, inputs>>
  PROVE  /\ ListOK' /\ StreamIds' = StreamIds
         /\ nextId \in Nat /\ nextId' \in Nat /\ nextId <= nextId'
         /\ \A c : CallAt(c)' = CallAt(c)
<1>1. nextId \in Nat
  BY DEF ListOK
<1>2. ListOK' /\ StreamIds' = StreamIds
  BY DEF ListOK, StreamIds
<1> QED  BY <1>1, <1>2 DEF CallAt

\* A callback that nothing is to be done for.
LEMMA IgnoredKeeps ==
  ASSUME BInv, Begin("sip", <<>>),
         UNCHANGED <<refs, mapped, streams, recording>>,
         DOMAIN bound' \subseteq DOMAIN bound, ListOK', BoundOK', nextId <= nextId',
         \A a \in DOMAIN obj : a \in DOMAIN obj' /\ obj'[a].id = obj[a].id,
         \A c : CallAt(c) # {} => CallAt(c)' # {}
  PROVE  BInv'
<1> DEFINE none == <<>>
<1>1. none \in Seq(StepRec) /\ Len(none) = 0 /\ Chained(none) /\ Begin("sip", none)
  BY DEF Chained
<1> HIDE DEF none
<1>2. ~ (Len(none) > 0) /\ \A k \in 1 .. Len(none) : FALSE
  BY <1>1
<1> QED  BY <1>1, <1>2, CallbackKeeps

LEMMA ModifySessionKeeps ==
  ASSUME BInv, NEW s, NEW p \in Ports, ModifySession(s, p)
  PROVE  BInv'
<1>1. /\ Begin("sip", <<>>) /\ DOMAIN rec' = DOMAIN rec
      /\ UNCHANGED <<managerVars, bound, terminalVars, streams, recording, mixerVars>>
  BY DEF ModifySession
<1>2. UNCHANGED <<streams, nextId, calls, inputs, refs, mapped, recording, bound, obj>>
  BY <1>1 DEF managerVars, terminalVars, mixerVars
<1>3. ListOK /\ BoundOK
  BY DEF BInv
<1>4. /\ ListOK' /\ StreamIds' = StreamIds /\ nextId <= nextId' /\ \A c : CallAt(c)' = CallAt(c)
  BY <1>2, <1>3, ListKept
<1>5. BoundOK'
  BY <1>1, <1>2, <1>3, <1>4 DEF BoundOK
<1>6. /\ DOMAIN bound' \subseteq DOMAIN bound
      /\ \A a \in DOMAIN obj : a \in DOMAIN obj' /\ obj'[a].id = obj[a].id
      /\ UNCHANGED <<refs, mapped, streams, recording>>
  BY <1>2
<1> QED  BY <1>1, <1>4, <1>5, <1>6, IgnoredKeeps

LEMMA StopSessionKeeps ==
  ASSUME BInv, NEW s \in Ids, StopSession(s)
  PROVE  BInv'
<1>1. /\ Begin("sip", IF mapped /\ sess[s] \in known THEN <<Step("delete", s, FALSE)>> ELSE <<>>)
      /\ rec' = Without(rec, {s}) /\ bound' = Without(bound, {s})
      /\ UNCHANGED <<known, nextId, terminalVars, streams, recording, mixerVars>>
  BY DEF StopSession
<1>2. UNCHANGED <<streams, nextId, calls, inputs, refs, mapped, recording, obj>>
  BY <1>1 DEF terminalVars, mixerVars
<1>3. ListOK /\ BoundOK
  BY DEF BInv
<1>4. /\ ListOK' /\ StreamIds' = StreamIds /\ nextId <= nextId' /\ \A c : CallAt(c)' = CallAt(c)
  BY <1>2, <1>3, ListKept
<1>5. /\ DOMAIN rec' = DOMAIN rec \ {s} /\ DOMAIN bound' = DOMAIN bound \ {s}
      /\ \A i \in DOMAIN bound' : bound'[i] = bound[i]
  BY <1>1 DEF Without
<1>6. BoundOK'
  BY <1>2, <1>3, <1>4, <1>5 DEF BoundOK
<1>7. s \in Nat
  BY DEF Ids
<1>8. PICK steps \in Seq(StepRec) :
        /\ Chained(steps) /\ Begin("sip", steps)
        /\ \/ Len(steps) = 0
           \/ mapped /\ Len(steps) = 1 /\ steps[1].do = "delete"
  <2>1. CASE mapped /\ sess[s] \in known
    <3> DEFINE x == Step("delete", s, FALSE)
    <3>1. x \in StepRec /\ x.do = "delete"
      BY <1>7, StepOfList
    <3>2. Begin("sip", <<x>>)
      BY <1>1, <2>1
    <3> HIDE DEF x
    <3>3. <<x>> \in Seq(StepRec) /\ Len(<<x>>) = 1 /\ <<x>>[1] = x /\ Chained(<<x>>)
      BY <3>1 DEF Chained
    <3> QED  BY <2>1, <3>1, <3>2, <3>3
  <2>2. CASE ~ (mapped /\ sess[s] \in known)
    <3>1. Begin("sip", <<>>)
      BY <1>1, <2>2
    <3>2. <<>> \in Seq(StepRec) /\ Len(<<>>) = 0 /\ Chained(<<>>)
      BY DEF Chained
    <3> QED  BY <3>1, <3>2
  <2> QED  BY <2>1, <2>2
<1>9. \A k \in 1 .. Len(steps) : steps[k].do # "ended"
  <2>1. \A n : n = 1 => \A k \in 1 .. n : k = 1
    OBVIOUS
  <2>2. \A n : n = 0 => \A k \in 1 .. n : FALSE
    OBVIOUS
  <2> QED  BY <1>8, <2>1, <2>2
<1>10. Len(steps) > 0 => mapped /\ steps[1].do = "delete"
  BY <1>8
<1> QED  BY <1>2, <1>4, <1>5, <1>6, <1>8, <1>9, <1>10, CallbackKeeps

\* A handler of one step.
LEMMA OneStep ==
  ASSUME NEW x \in StepRec
  PROVE  /\ <<x>> \in Seq(StepRec) /\ Len(<<x>>) = 1 /\ <<x>>[1] = x /\ Chained(<<x>>)
         /\ \A k \in 1 .. Len(<<x>>) : <<x>>[k] = x
<1>1. <<x>> \in Seq(StepRec) /\ Len(<<x>>) = 1 /\ <<x>>[1] = x
  OBVIOUS
<1>2. \A n : n = 1 => \A k \in 1 .. n : k = 1
  OBVIOUS
<1>3. Chained(<<x>>)
  BY DEF Chained
<1> QED  BY <1>1, <1>2, <1>3

LEMMA CallbackOneKeeps ==
  ASSUME BInv, NEW x \in StepRec, Begin("sip", <<x>>),
         UNCHANGED <<refs, mapped, streams, recording>>,
         mapped, x.do \in {"start", "delete", "add"},
         x.do = "add" => x.id \notin StreamIds /\ x.id \in 1 .. nextId' - 1,
         DOMAIN bound' \subseteq DOMAIN bound, ListOK', BoundOK', nextId <= nextId',
         \A a \in DOMAIN obj : a \in DOMAIN obj' /\ obj'[a].id = obj[a].id,
         \A c : CallAt(c) # {} => CallAt(c)' # {}
  PROVE  BInv'
<1> DEFINE steps == <<x>>
<1>1. /\ steps \in Seq(StepRec) /\ Len(steps) = 1 /\ steps[1] = x /\ Chained(steps)
      /\ \A k \in 1 .. Len(steps) : steps[k] = x
      /\ Begin("sip", steps)
  BY OneStep
<1> HIDE DEF steps
<1>2. \A k \in 1 .. Len(steps) : steps[k].do # "ended"
  BY <1>1
<1>3. Len(steps) > 0 => mapped /\ steps[1].do \in {"start", "delete", "ended", "add"}
  BY <1>1
<1>4. Len(steps) > 0 /\ steps[1].do = "add" =>
        steps[1].id \notin StreamIds /\ steps[1].id \in 1 .. nextId' - 1
  BY <1>1
<1> QED  BY <1>1, <1>2, <1>3, <1>4, CallbackKeeps

CallRec == [call : CallIds, out : BOOLEAN, ids : Seq(Nat)]

\* The calls after OnNewCall, and after OnNewSession.
LEMMA NewCallList ==
  ASSUME calls \in Seq(CallRec), NEW c \in CallIds, NEW o \in BOOLEAN, NewCall(c, o)
  PROVE  calls' \in Seq(CallRec) /\ \A d : CallAt(d) # {} => CallAt(d)' # {}
<1>1. CASE mapped
  <2> DEFINE e == [call |-> c, out |-> o, ids |-> <<>>]
             r == Append(calls, e)
  <2>1. e \in CallRec
    BY DEF CallRec
  <2>2. calls' = r
    BY <1>1, Zenon DEF NewCall
  <2> HIDE DEF e
  <2>3. r \in Seq(CallRec) /\ \A k \in DOMAIN calls : k \in DOMAIN r /\ r[k] = calls[k]
    BY <2>1, Appended
  <2> HIDE DEF r
  <2> QED  BY <2>2, <2>3 DEF CallAt
<1>2. CASE ~ mapped
  <2>1. calls' = calls
    BY <1>2 DEF NewCall
  <2> QED  BY <2>1 DEF CallAt
<1> QED  BY <1>1, <1>2

LEMMA NewSessionList ==
  ASSUME calls \in Seq(CallRec), nextId \in Nat, NEW c \in CallIds, NEW p \in Ports,
         NewSession(c, p)
  PROVE  calls' \in Seq(CallRec) /\ \A d : CallAt(d) # {} => CallAt(d)' # {}
<1>1. ASSUME NEW k \in DOMAIN calls, calls' = [calls EXCEPT ![k].ids = Append(@, nextId)]
      PROVE  calls' \in Seq(CallRec) /\ \A d : CallAt(d) # {} => CallAt(d)' # {}
  <2>1. calls[k] \in CallRec
    OBVIOUS
  <2> DEFINE e == [calls[k] EXCEPT !.ids = Append(@, nextId)]
  <2>2. e \in CallRec /\ e.call = calls[k].call
    <3>1. calls[k].ids \in Seq(Nat) /\ nextId \in Nat
      BY <2>1 DEF CallRec
    <3>2. Append(calls[k].ids, nextId) \in Seq(Nat)
      BY <3>1
    <3> QED  BY <2>1, <3>2 DEF CallRec
  <2>3. calls' = [calls EXCEPT ![k] = e]
    BY <1>1
  <2> HIDE DEF e
  <2>4. calls' \in Seq(CallRec)
    BY <2>2, <2>3
  <2>5. DOMAIN calls' = DOMAIN calls /\ \A i \in DOMAIN calls : calls'[i].call = calls[i].call
    BY <2>2, <2>3
  <2> QED  BY <2>4, <2>5 DEF CallAt
<1>2. CASE mapped /\ c \in known /\ CallAt(c) # {}
  <2> DEFINE it == CHOOSE k \in CallAt(c) : TRUE
  <2>1. it \in CallAt(c)
    BY <1>2
  <2>2. it \in DOMAIN calls
    BY <2>1 DEF CallAt
  <2>3. calls' = [calls EXCEPT ![it].ids = Append(@, nextId)]
    BY <1>2, Zenon DEF NewSession
  <2> HIDE DEF it
  <2> QED  BY <1>1, <2>2, <2>3
<1>3. CASE ~ (mapped /\ c \in known /\ CallAt(c) # {})
  <2>1. calls' = calls
    BY <1>3 DEF NewSession
  <2> QED  BY <2>1 DEF CallAt
<1> QED  BY <1>2, <1>3

LEMMA NewCallKeeps ==
  ASSUME BInv, NEW c \in CallIds, NEW o \in BOOLEAN, NewCall(c, o)
  PROVE  BInv'
<1>1. UNCHANGED <<sess, nextId, recorderVars, bound, refs, mapped, auto, streams,
                  recording, mixerVars, merged, flush>>
  BY DEF NewCall
<1>2. UNCHANGED <<nextId, rec, bound, refs, mapped, streams, recording, inputs, obj>>
  BY <1>1 DEF recorderVars, mixerVars
<1>3. ListOK /\ BoundOK
  BY DEF BInv
<1>a. calls \in Seq(CallRec)
  BY <1>3 DEF ListOK, CallRec
<1>4. calls' \in Seq(CallRec) /\ \A d : CallAt(d) # {} => CallAt(d)' # {}
  BY <1>a, NewCallList
<1>5. /\ ListOK' /\ StreamIds' = StreamIds /\ nextId <= nextId'
  <2>1. ListOK'
    BY <1>2, <1>3, <1>4 DEF ListOK, CallRec
  <2> QED  BY <1>2, <1>3, <2>1 DEF ListOK, StreamIds
<1>6. BoundOK'
  BY <1>2, <1>3, <1>5 DEF BoundOK
<1>7. /\ DOMAIN bound' \subseteq DOMAIN bound
      /\ \A a \in DOMAIN obj : a \in DOMAIN obj' /\ obj'[a].id = obj[a].id
      /\ UNCHANGED <<refs, mapped, streams, recording>>
  BY <1>2
<1>8. CASE mapped /\ auto
  <2> DEFINE x == Step("start", 0, FALSE)
  <2>1. x \in StepRec /\ x.do = "start"
    BY StepOfNone
  <2>2. Begin("sip", <<x>>)
    BY <1>8 DEF NewCall
  <2> HIDE DEF x
  <2>3. x.do \in {"start", "delete", "add"} /\ x.do # "add"
    BY <2>1
  <2> QED  BY <1>4, <1>5, <1>6, <1>7, <1>8, <2>1, <2>2, <2>3, CallbackOneKeeps
<1>9. CASE ~ (mapped /\ auto)
  <2>1. Begin("sip", <<>>)
    BY <1>9 DEF NewCall
  <2> QED  BY <1>4, <1>5, <1>6, <1>7, <2>1, IgnoredKeeps
<1> QED  BY <1>8, <1>9

LEMMA NewSessionKeeps ==
  ASSUME BInv, NEW c \in CallIds, NEW p \in Ports, NewSession(c, p)
  PROVE  BInv'
<1>1. /\ nextId' = nextId + 1
      /\ rec' = Put(rec, nextId, [port |-> p, on |-> FALSE])
      /\ UNCHANGED <<known, bound, refs, mapped, state, auto, streams, recording, mixerVars, merged, flush>>
  BY DEF NewSession
<1>2. UNCHANGED <<bound, refs, mapped, streams, recording, inputs, obj>>
  BY <1>1 DEF mixerVars
<1>3. ListOK /\ BoundOK
  BY DEF BInv
<1>a. calls \in Seq(CallRec) /\ nextId \in Nat \ {0}
  BY <1>3 DEF ListOK, CallRec
<1>b. /\ nextId' \in Nat \ {0} /\ nextId <= nextId' /\ nextId \in 1 .. nextId' - 1
      /\ \A i \in Nat : i < nextId => i < nextId'
  <2>1. \A n \in Nat \ {0} : /\ n + 1 \in Nat \ {0} /\ n <= n + 1 /\ n \in 1 .. n + 1 - 1
                              /\ \A i \in Nat : i < n => i < n + 1
    OBVIOUS
  <2> QED  BY <1>1, <1>a, <2>1
<1>4. calls' \in Seq(CallRec) /\ \A d : CallAt(d) # {} => CallAt(d)' # {}
  BY <1>a, NewSessionList
<1>5. ListOK' /\ StreamIds' = StreamIds
  <2>1. \A k \in DOMAIN streams' : streams'[k].id < nextId'
    <3> TAKE k \in DOMAIN streams'
    <3>1. k \in DOMAIN streams /\ streams'[k].id = streams[k].id /\ streams[k].id < nextId
      BY <1>2, <1>3 DEF ListOK
    <3>2. streams[k].id \in Nat
      BY <1>3, <3>1, ListFields
    <3> QED  BY <1>b, <3>1, <3>2
  <2>2. ListOK'
    BY <1>2, <1>3, <1>4, <1>b, <2>1 DEF ListOK, CallRec
  <2> QED  BY <1>2, <2>2 DEF StreamIds
<1>6. BoundOK'
  <2>1. \A s \in DOMAIN rec : s \in DOMAIN rec'
    BY <1>1 DEF Put
  <2> QED  BY <1>2, <1>3, <1>5, <2>1 DEF BoundOK
<1>7. /\ DOMAIN bound' \subseteq DOMAIN bound
      /\ \A a \in DOMAIN obj : a \in DOMAIN obj' /\ obj'[a].id = obj[a].id
      /\ UNCHANGED <<refs, mapped, streams, recording>>
  BY <1>2
<1>8. CASE mapped /\ c \in known /\ CallAt(c) # {}
  <2>1. PICK r \in BOOLEAN : Begin("sip", <<Step("add", nextId, r)>>)
    BY <1>8 DEF NewSession
  <2>2. PICK x \in StepRec : x = Step("add", nextId, r) /\ x.do = "add" /\ x.id = nextId
    BY <1>a, StepIs
  <2>3. Begin("sip", <<x>>)
    BY <2>1, <2>2
  <2>4. nextId \notin StreamIds
    <3> SUFFICES ASSUME NEW k \in DOMAIN streams, streams[k].id = nextId PROVE FALSE
      BY DEF StreamIds
    <3> QED  BY <1>3, <1>a DEF ListOK
  <2>5. x.do \in {"start", "delete", "add"} /\ x.id \notin StreamIds /\ x.id \in 1 .. nextId' - 1
    BY <1>b, <2>2, <2>4
  <2> QED  BY <1>4, <1>5, <1>6, <1>7, <1>8, <1>b, <2>3, <2>5, CallbackOneKeeps
<1>9. CASE ~ (mapped /\ c \in known /\ CallAt(c) # {})
  <2>1. Begin("sip", <<>>)
    BY <1>9 DEF NewSession
  <2> QED  BY <1>4, <1>5, <1>6, <1>7, <1>b, <2>1, IgnoredKeeps
<1> QED  BY <1>8, <1>9

\* The streams of the sessions ids are deleted, and then the call c goes.
EndsCall(steps, ids, c) ==
  /\ Chained(steps) /\ Len(steps) > 0 /\ steps[1].do \in {"delete", "ended"}
  /\ \A k \in 1 .. Len(steps) : steps[k].do = "ended" => steps[k].call = c
  /\ \E k \in 1 .. Len(steps) : steps[k].do = "ended"
  /\ \A k \in 1 .. Len(steps) : \/ steps[k].do = "ended"
                                \/ steps[k].do = "delete" /\ steps[k].id \in ToSet(ids)
  /\ \A s \in ToSet(ids) : \E k \in 1 .. Len(steps) : steps[k].do = "delete" /\ steps[k].id = s

\* The handler of OnEndCall.
LEMMA EndSteps ==
  ASSUME NEW ids \in Seq(Nat), NEW c \in CallIds
  PROVE  \E steps \in Seq(StepRec) :
           /\ steps = [i \in DOMAIN ids |-> Step("delete", ids[i], FALSE)]
                        \o <<[do |-> "ended", call |-> c]>>
           /\ EndsCall(steps, ids, c)
<1> DEFINE deletes == [i \in DOMAIN ids |-> Step("delete", ids[i], FALSE)]
           end == [do |-> "ended", call |-> c]
           last == <<end>>
           steps == deletes \o last
<1>1. Len(ids) \in Nat /\ DOMAIN ids = 1 .. Len(ids) /\ \A i \in DOMAIN ids : ids[i] \in Nat
  OBVIOUS
<1>2. end \in StepRec /\ end.do = "ended" /\ end.call = c
  BY DEF StepRec
<1> HIDE DEF end
<1>3. /\ deletes \in Seq(StepRec) /\ Len(deletes) = Len(ids)
      /\ \A i \in 1 .. Len(ids) : deletes[i].do = "delete" /\ deletes[i].id = ids[i]
  <2>1. \A i \in DOMAIN ids : /\ Step("delete", ids[i], FALSE) \in StepRec
                               /\ Step("delete", ids[i], FALSE).do = "delete"
                               /\ Step("delete", ids[i], FALSE).id = ids[i]
    BY <1>1, StepOfList
  <2>2. \A i \in DOMAIN ids : /\ deletes[i] \in StepRec
                               /\ deletes[i].do = "delete" /\ deletes[i].id = ids[i]
    BY <2>1
  <2>3. deletes = [i \in 1 .. Len(ids) |-> deletes[i]] /\ \A i \in 1 .. Len(ids) : deletes[i] \in StepRec
    BY <1>1, <2>2
  <2>4. deletes \in [1 .. Len(ids) -> StepRec]
    <3> HIDE DEF deletes
    <3> QED  BY <2>3
  <2> HIDE DEF deletes
  <2>5. deletes \in Seq(StepRec) /\ Len(deletes) = Len(ids)
    BY <1>1, <2>4
  <2> QED  BY <1>1, <2>2, <2>5
<1> HIDE DEF deletes
<1>4. last \in Seq(StepRec) /\ Len(last) = 1 /\ last[1] = end
  BY <1>2
<1> HIDE DEF last
<1>5. /\ steps \in Seq(StepRec) /\ Len(steps) = Len(deletes) + Len(last)
      /\ \A i \in 1 .. Len(deletes) + Len(last) :
           steps[i] = IF i <= Len(deletes) THEN deletes[i] ELSE last[i - Len(deletes)]
  BY <1>3, <1>4, ConcatProperties, ZenonT(60)
<1> HIDE DEF steps
<1>6. Len(steps) = Len(ids) + 1 /\ Len(steps) \in Nat
  BY <1>1, <1>3, <1>4, <1>5
<1>7. \A i \in 1 .. Len(ids) : steps[i].do = "delete" /\ steps[i].id = ids[i]
  BY <1>1, <1>3, <1>4, <1>5
<1>8. steps[Len(ids) + 1] = end
  BY <1>1, <1>3, <1>4, <1>5, SMTT(30)
<1>9. \A i \in 1 .. Len(steps) : i \in 1 .. Len(ids) \/ i = Len(ids) + 1
  BY <1>1, <1>6
<1>10. \A i \in 1 .. Len(steps) : steps[i].do \in {"delete", "ended"}
  BY <1>2, <1>7, <1>8, <1>9
<1>11. Chained(steps)
  <2> SUFFICES ASSUME NEW k \in 1 .. Len(steps) - 1 PROVE Follows(steps[k], steps[k + 1])
    BY DEF Chained
  <2>1. k \in 1 .. Len(ids) /\ k + 1 \in 1 .. Len(steps)
    BY <1>1, <1>6
  <2>2. steps[k].do = "delete" /\ steps[k + 1].do \in {"delete", "ended"}
    BY <1>7, <1>10, <2>1
  <2> QED  BY <2>2 DEF Follows
<1>12. \A k \in 1 .. Len(steps) : steps[k].do = "ended" => steps[k].call = c
  BY <1>2, <1>7, <1>8, <1>9
<1>13. Len(steps) > 0 /\ 1 \in 1 .. Len(steps)
  BY <1>1, <1>6
<1>14. \E k \in 1 .. Len(steps) : steps[k].do = "ended"
  <2>1. Len(ids) + 1 \in 1 .. Len(steps)
    BY <1>1, <1>6
  <2> QED  BY <1>2, <1>8, <2>1
<1>15. \A k \in 1 .. Len(steps) : \/ steps[k].do = "ended"
                                  \/ steps[k].do = "delete" /\ steps[k].id \in ToSet(ids)
  BY <1>1, <1>2, <1>7, <1>8, <1>9 DEF ToSet
<1>16. \A s \in ToSet(ids) : \E k \in 1 .. Len(steps) : steps[k].do = "delete" /\ steps[k].id = s
  <2> TAKE s \in ToSet(ids)
  <2>1. PICK i \in 1 .. Len(ids) : ids[i] = s
    BY <1>1 DEF ToSet
  <2>2. i \in 1 .. Len(steps)
    BY <1>1, <1>6
  <2> QED  BY <1>7, <2>1, <2>2
<1>17. EndsCall(steps, ids, c)
  BY <1>10, <1>11, <1>12, <1>13, <1>14, <1>15, <1>16 DEF EndsCall
<1>18. steps = [i \in DOMAIN ids |-> Step("delete", ids[i], FALSE)] \o <<[do |-> "ended", call |-> c]>>
  BY DEF steps, deletes, last, end
<1> QED  BY <1>5, <1>17, <1>18

LEMMA EndCallKeeps ==
  ASSUME BInv, NEW c \in CallIds, EndCall(c)
  PROVE  BInv'
<1>1. UNCHANGED <<sess, nextId, recorderVars, bound, terminalVars, streams, recording, mixerVars>>
  BY DEF EndCall
<1>2. UNCHANGED <<streams, nextId, calls, inputs, rec, bound, refs, mapped, recording, obj>>
  BY <1>1 DEF recorderVars, terminalVars, mixerVars
<1>3. ListOK /\ BoundOK
  BY DEF BInv
<1>4. /\ ListOK' /\ StreamIds' = StreamIds /\ nextId <= nextId' /\ \A d : CallAt(d)' = CallAt(d)
  BY <1>2, <1>3, ListKept
<1>5. BoundOK'
  BY <1>2, <1>3, <1>4 DEF BoundOK
<1>6. /\ DOMAIN bound' \subseteq DOMAIN bound
      /\ \A a \in DOMAIN obj : a \in DOMAIN obj' /\ obj'[a].id = obj[a].id
      /\ UNCHANGED <<refs, mapped, streams, recording>>
  BY <1>2
<1>7. CASE mapped /\ CallAt(c) # {}
  <2> DEFINE it == CHOOSE k \in CallAt(c) : TRUE
  <2>1. it \in CallAt(c)
    BY <1>7
  <2>2. it \in DOMAIN calls
    BY <2>1 DEF CallAt
  <2>3. Begin("sip", [i \in DOMAIN calls[it].ids |-> Step("delete", calls[it].ids[i], FALSE)]
                       \o <<[do |-> "ended", call |-> c]>>)
    BY <1>7, Zenon DEF EndCall
  <2> HIDE DEF it
  <2>4. PICK ids \in Seq(Nat) : ids = calls[it].ids
    <3>1. calls \in Seq(CallRec)
      BY <1>3 DEF ListOK, CallRec
    <3>2. calls[it] \in CallRec
      BY <2>2, <3>1
    <3> QED  BY <3>2 DEF CallRec
  <2>5. PICK steps \in Seq(StepRec) :
          /\ steps = [i \in DOMAIN ids |-> Step("delete", ids[i], FALSE)]
                       \o <<[do |-> "ended", call |-> c]>>
          /\ EndsCall(steps, ids, c)
    BY EndSteps
  <2>b. /\ Chained(steps) /\ Len(steps) > 0 /\ steps[1].do \in {"delete", "ended"}
        /\ \A k \in 1 .. Len(steps) : steps[k].do = "ended" => steps[k].call = c
    BY <2>5 DEF EndsCall
  <2>6. Begin("sip", steps)
    BY <2>3, <2>4, <2>5
  <2>7. \A k \in 1 .. Len(steps) : steps[k].do = "ended" => CallAt(steps[k].call)' # {}
    BY <1>4, <1>7, <2>b
  <2>8. steps[1].do \in {"start", "delete", "ended", "add"} /\ steps[1].do # "add"
    BY <2>b
  <2> QED  BY <1>4, <1>5, <1>6, <1>7, <2>b, <2>6, <2>7, <2>8, CallbackKeeps
<1>8. CASE ~ (mapped /\ CallAt(c) # {})
  <2>1. Begin("sip", <<>>)
    BY <1>8 DEF EndCall
  <2> QED  BY <1>4, <1>5, <1>6, <2>1, IgnoredKeeps
<1> QED  BY <1>7, <1>8

LEMMA EndedCallKeeps ==
  ASSUME BInv, NEW t \in Threads, t = "sip", EndedCall
  PROVE  BInv'
<1>0. ProgOK /\ RefsOK /\ ListOK /\ BoundOK /\ ThreadOK(t) /\ EndedOK(t) /\ Doing(t, "ended")
  BY DEF BInv, EndedCall
<1>a. prog[t] # <<>> /\ Head(prog[t]).do = "ended"
  BY <1>0 DEF Doing
<1>1. PICK h \in StepRec :
        /\ h = prog[t][1] /\ h = Head(prog[t]) /\ h.do = "ended"
        /\ Len(prog[t]) \in Nat /\ Len(prog[t]) > 0 /\ Active(t)
        /\ Len(prog[t]) > 1 => prog[t][2] \in StepRec /\ Follows(h, prog[t][2])
  BY <1>0, <1>a, HeadOf
<1>2. Len(prog[t]) = 1 /\ ~ Unrecording(t)
  <2>1. ~ (Len(prog[t]) > 1)
    BY <1>1 DEF Follows
  <2>2. \A n \in Nat : n > 0 /\ ~ (n > 1) => n = 1
    OBVIOUS
  <2> QED  BY <1>1, <2>1, <2>2 DEF Unrecording
<1>3. UNCHANGED <<nextId, rec, bound, refs, mapped, streams, recording, inputs, obj>>
  BY DEF EndedCall, managerVars, recorderVars, mixerVars
<1>4. CallAt(h.call) # {}
  <2>1. 1 \in 1 .. Len(prog[t])
    BY <1>1
  <2> QED  BY <1>0, <1>1, <2>1 DEF EndedOK
<1>5. calls' \in Seq(CallRec)
  <2> DEFINE it == CHOOSE k \in CallAt(h.call) : TRUE
  <2>1. it \in CallAt(h.call)
    BY <1>4
  <2>2. calls' = RemoveAt(calls, it)
    BY <1>1, Zenon DEF EndedCall
  <2>3. it \in DOMAIN calls
    BY <2>1 DEF CallAt
  <2> HIDE DEF it
  <2>4. calls \in Seq(CallRec)
    BY <1>0 DEF ListOK, CallRec
  <2>5. it \in 1 .. Len(calls)
    BY <2>3, <2>4
  <2> QED  BY <2>2, <2>4, <2>5, Removed
<1>6. Then(t, <<>>) \/ Then(t, <<Step("stop", 0, FALSE)>>)
  BY <1>1 DEF EndedCall
<1>7. StreamIds' = StreamIds /\ ListOK' /\ BoundOK'
  <2>1. ListOK'
    BY <1>0, <1>3, <1>5 DEF ListOK, CallRec
  <2>2. StreamIds' = StreamIds
    BY <1>3 DEF StreamIds
  <2> QED  BY <1>0, <1>3, <2>1, <2>2 DEF BoundOK
<1>8. /\ ProgOK' /\ \A u \in Threads \ {t} : prog'[u] = prog[u]
      /\ ThreadOK(t)' /\ EndedOK(t)' /\ (prog'[t] # <<>> => prog'[t][1].do # "release")
  <2>1. CASE Then(t, <<>>)
    <3>1. /\ ProgOK' /\ NoNewEnd(t) /\ \A u \in Threads \ {t} : prog'[u] = prog[u]
          /\ \/ Len(prog[t]) = 1 /\ prog'[t] = <<>> /\ ThreadOK(t)' /\ ~ Unrecording(t)'
             \/ \E n \in StepRec : /\ n = prog[t][2] /\ prog'[t] # <<>> /\ prog'[t][1] = n
                                   /\ Len(prog[t]) > 1 /\ Follows(h, n)
                                   /\ Unrecording(t)' <=> n.do = "unrecord"
      BY <1>0, <1>1, <2>1, AfterNone
    <3>2. prog'[t] = <<>> /\ ThreadOK(t)'
      BY <1>2, <3>1
    <3>3. EndedOK(t)'
      BY <3>2 DEF EndedOK
    <3> QED  BY <3>1, <3>2, <3>3
  <2>2. CASE Then(t, <<Step("stop", 0, FALSE)>>)
    <3> DEFINE x == Step("stop", 0, FALSE)
    <3>1. x \in StepRec /\ x.do = "stop" /\ x = x' /\ Then(t, <<x>>)
      BY <2>2, StepOfNone
    <3> HIDE DEF x
    <3>2. /\ ProgOK' /\ Len(prog'[t]) = Len(prog[t]) /\ prog'[t][1] = x
          /\ Len(prog[t]) > 1 => prog'[t][2] = prog[t][2]
          /\ NoNewEnd(t) /\ \A u \in Threads \ {t} : prog'[u] = prog[u]
      BY <1>0, <1>1, <1>2, <3>1, ThenOne
    <3>3. ~ Unrecording(t)'
      BY <1>2, <3>1, <3>2 DEF Unrecording
    <3>4. ThreadOK(t)'
      BY <3>1, <3>2, <3>3 DEF ThreadOK, AboutStream, StepOK
    <3>5. EndedOK(t)'
      <4>1. \A n : n = 1 => \A k \in 1 .. n : k = 1
        OBVIOUS
      <4>2. \A k \in 1 .. Len(prog'[t]) : prog'[t][k].do = "stop"
        BY <1>2, <3>1, <3>2, <4>1
      <4> QED  BY <4>2 DEF EndedOK
    <3> QED  BY <3>1, <3>2, <3>4, <3>5
  <2> QED  BY <1>6, <2>1, <2>2
<1> QED  BY <1>1, <1>2, <1>3, <1>7, <1>8, StepKeeps

-----------------------------------------------------------------------------
\* A reference to the terminal is handed to a thread that will only give it back.
LEMMA HandedOver ==
  ASSUME BInv, NEW t \in Threads, Begin(t, <<Step("release", 0, FALSE)>>), mapped,
         IF t = "sip" THEN ~ mapped' /\ refs' = refs ELSE mapped' = mapped /\ refs' = refs + 1,
         mapped' \in BOOLEAN,
         UNCHANGED <<streams, recording, bound, nextId, obj, inputs, calls, rec>>
  PROVE  BInv'
<1>0. /\ ProgOK /\ RefsOK /\ ListOK /\ BoundOK /\ StoppedOK
      /\ \A u \in Threads : ThreadOK(u) /\ EndedOK(u)
  BY DEF BInv
<1>1. /\ ProgOK' /\ prog[t] = <<>> /\ prog'[t] # <<>> /\ Len(prog'[t]) = 1
      /\ Head(prog'[t]).do = "release" /\ prog'[t][1].do = "release"
      /\ \A u \in Threads \ {t} : prog'[u] = prog[u]
  <2> DEFINE x == Step("release", 0, FALSE)
             steps == <<x>>
  <2>1. x \in StepRec /\ x.do = "release"
    BY StepOfNone
  <2> HIDE DEF x
  <2>2. /\ steps \in Seq(StepRec) /\ Len(steps) = 1 /\ steps[1] = x /\ Chained(steps)
        /\ Head(steps) = x /\ steps # <<>>
    BY <2>1, OneStep
  <2>3. Begin(t, steps)
    BY DEF x
  <2> HIDE DEF steps
  <2>4. /\ ProgOK' /\ prog[t] = <<>> /\ prog'[t] = steps
        /\ \A u \in Threads \ {t} : prog'[u] = prog[u]
    BY <1>0, <2>2, <2>3, BeginIs
  <2> QED  BY <2>1, <2>2, <2>4
<1>2. ThreadOK(t)' /\ EndedOK(t)' /\ ~ Unrecording(t) /\ ~ Unrecording(t)'
  <2>1. \A n : n = 1 => \A k \in 1 .. n : k = 1
    OBVIOUS
  <2>2. \A k \in 1 .. Len(prog'[t]) : prog'[t][k].do = "release"
    BY <1>1, <2>1
  <2>3. EndedOK(t)'
    BY <2>2 DEF EndedOK
  <2>4. ~ Unrecording(t) /\ ~ Unrecording(t)'
    <3>1. Len(prog[t]) = 0
      BY <1>1
    <3> QED  BY <1>1, <3>1 DEF Unrecording
  <2>5. ThreadOK(t)'
    BY <1>1, <2>4 DEF ThreadOK, AboutStream, StepOK
  <2> QED  BY <2>3, <2>4, <2>5
<1>3. /\ ListOK' /\ StreamIds' = StreamIds /\ nextId \in Nat /\ nextId' \in Nat
      /\ nextId <= nextId' /\ \A c : CallAt(c)' = CallAt(c)
  BY <1>0, ListKept
<1>4. BoundOK'
  BY <1>0, <1>3 DEF BoundOK
<1>5. ASSUME NEW u \in Threads PROVE ThreadOK(u)' /\ EndedOK(u)' /\ (Unrecording(u)' <=> Unrecording(u))
  <2>1. CASE u = t
    BY <1>2, <2>1
  <2>2. CASE u # t
    <3>1. prog'[u] = prog[u]
      BY <1>1, <2>2
    <3>2. EndedOK(u)'
      BY <1>0, <1>3, <3>1, EndedKept
    <3> QED  BY <1>0, <1>3, <3>1, <3>2, ThreadKept
  <2> QED  BY <2>1, <2>2
<1>6. StoppedOK'
  BY <1>0, <1>5 DEF StoppedOK
<1>7. RefsOK'
  <2>1. ASSUME NEW u \in Threads \ {t}
        PROVE  (Doing(u, "release")' <=> Doing(u, "release")) /\ (Active(u)' <=> Active(u))
    <3>1. prog'[u] = prog[u]
      BY <1>1
    <3> QED  BY <3>1 DEF Doing, Active
  <2>2. /\ ~ Doing(t, "release") /\ Doing(t, "release")' /\ ~ Active(t)' /\ ~ Active(t)
    BY <1>1 DEF Doing, Active
  <2>3. CASE t = "sip"
    <3>1. "api" \in Threads \ {t} /\ Threads = {"sip", "api"}
      BY <2>3 DEF Threads
    <3>2. (Doing("api", "release")' <=> Doing("api", "release")) /\ (Active("api")' <=> Active("api"))
      BY <2>1, <3>1
    <3> QED  BY <1>0, <2>2, <2>3, <3>1, <3>2 DEF RefsOK
  <2>4. CASE t = "api"
    <3>1. "sip" \in Threads \ {t} /\ Threads = {"sip", "api"} /\ t # "sip"
      BY <2>4 DEF Threads
    <3>2. (Doing("sip", "release")' <=> Doing("sip", "release")) /\ (Active("sip")' <=> Active("sip"))
      BY <2>1, <3>1
    <3> QED  BY <1>0, <2>2, <2>4, <3>1, <3>2 DEF RefsOK
  <2> QED  BY <2>3, <2>4 DEF Threads
<1> QED  BY <1>1, <1>3, <1>4, <1>5, <1>6, <1>7 DEF BInv

LEMMA HandOverKeeps ==
  ASSUME BInv, ApiCalls \subseteq {"auto", "no auto"},
         EndRegister \/ GetAudioData \/ \E what \in ApiCalls : Call(what)
  PROVE  BInv'
<1>0. mapped \in BOOLEAN
  BY Zenon DEF BInv, RefsOK
<1>1. CASE EndRegister
  <2>1. /\ mapped /\ mapped' = FALSE /\ refs' = refs /\ Begin("sip", <<Step("release", 0, FALSE)>>)
        /\ UNCHANGED <<streams, recording, bound, nextId, obj, inputs, calls, rec>>
    BY <1>1, Zenon DEF EndRegister, managerVars, recorderVars, mixerVars
  <2> QED  BY <2>1, HandedOver, Zenon DEF Threads
<1>2. ASSUME /\ mapped /\ mapped' = mapped /\ refs' = refs + 1
             /\ Begin("api", <<Step("release", 0, FALSE)>>)
             /\ UNCHANGED <<streams, recording, bound, nextId, obj, inputs, calls, rec>>
      PROVE  BInv'
  BY <1>0, <1>2, HandedOver, Zenon DEF Threads
<1>3. CASE GetAudioData
  BY <1>2, <1>3, Zenon DEF GetAudioData, managerVars, recorderVars, mixerVars
<1>4. ASSUME NEW what \in ApiCalls, Call(what) PROVE BInv'
  <2>1. what \in {"auto", "no auto"}
    BY Zenon
  <2>2. Begin("api", <<>> \o <<Step("release", 0, FALSE)>>)
    BY <1>4, <2>1, Zenon DEF Call
  <2>3. <<>> \o <<Step("release", 0, FALSE)>> = <<Step("release", 0, FALSE)>>
    <3>1. <<Step("release", 0, FALSE)>> \in Seq(StepRec)
      BY StepOfNone, OneStep, Zenon
    <3> QED  BY <3>1, ConcatEmptySeq, Zenon
  <2>4. Begin("api", <<Step("release", 0, FALSE)>>)
    BY <2>2, <2>3, Zenon
  <2>5. /\ mapped /\ mapped' = mapped /\ refs' = refs + 1
        /\ UNCHANGED <<streams, recording, bound, nextId, obj, inputs, calls, rec>>
    BY <1>4, Zenon DEF Call, managerVars, recorderVars, mixerVars
  <2> QED  BY <1>2, <2>4, <2>5, Zenon
<1> QED  BY <1>1, <1>3, <1>4, Zenon

\* A step that does no more than mark inputs.
LEMMA MarksKeep ==
  ASSUME BInv, UNCHANGED <<nextId, rec, bound, refs, mapped, calls, streams, recording, inputs, prog>>,
         obj' \in [DOMAIN obj -> [id : Nat, done : BOOLEAN]],
         \A x \in DOMAIN obj : obj'[x].id = obj[x].id
  PROVE  BInv'
<1>0. /\ ProgOK /\ RefsOK /\ ListOK /\ BoundOK /\ StoppedOK
      /\ \A u \in Threads : ThreadOK(u) /\ EndedOK(u)
  BY DEF BInv
<1>1. /\ ListOK' /\ StreamIds' = StreamIds /\ nextId \in Nat /\ nextId' \in Nat
      /\ nextId <= nextId' /\ \A c : CallAt(c)' = CallAt(c)
  BY <1>0, ListKept
<1>2. BoundOK'
  BY <1>0, <1>1 DEF BoundOK
<1>3. ProgOK' /\ RefsOK'
  BY <1>0 DEF ProgOK, RefsOK, Doing, Active
<1>4. ASSUME NEW u \in Threads PROVE ThreadOK(u)' /\ EndedOK(u)' /\ (Unrecording(u)' <=> Unrecording(u))
  <2>1. prog'[u] = prog[u]
    OBVIOUS
  <2>2. EndedOK(u)'
    BY <1>0, <1>1, <2>1, EndedKept
  <2>3. \A x \in DOMAIN obj : x \in DOMAIN obj' /\ obj'[x].id = obj[x].id
    OBVIOUS
  <2> QED  BY <1>0, <1>1, <2>1, <2>2, <2>3, ThreadKept
<1>5. StoppedOK'
  BY <1>0, <1>4 DEF StoppedOK
<1> QED  BY <1>1, <1>2, <1>3, <1>4, <1>5 DEF BInv

\* A flush marks inputs, and does nothing else to them.
LEMMA FlushMarks ==
  ASSUME BoundOK, FlushStream
  PROVE  /\ obj' \in [DOMAIN obj -> [id : Nat, done : BOOLEAN]]
         /\ \A x \in DOMAIN obj : obj'[x].id = obj[x].id
<1>0. obj \in [DOMAIN obj -> [id : Nat, done : BOOLEAN]]
  BY DEF BoundOK
<1> DEFINE s == CHOOSE x \in Left : \A y \in Left : x <= y
           a == bound[s]
           r == \E k \in DOMAIN inputs[TRUE] : inputs[TRUE][k] = a
           done == [obj EXCEPT ![a].done = TRUE]
           all == \A k \in DOMAIN inputs[r] : done[inputs[r][k]].done
<1>2. /\ a \in DOMAIN obj
      /\ obj' = IF all THEN [x \in DOMAIN obj |->
                               [done[x] EXCEPT !.done = @ /\ x \notin ToSet(inputs[r])]]
                       ELSE done
  BY Zenon DEF FlushStream
<1> HIDE DEF all, r, s
<1>3. /\ done \in [DOMAIN obj -> [id : Nat, done : BOOLEAN]]
      /\ \A x \in DOMAIN obj : done[x].id = obj[x].id
  BY <1>0, <1>2
<1> HIDE DEF done
<1>4. /\ obj' \in [DOMAIN obj -> [id : Nat, done : BOOLEAN]]
      /\ \A x \in DOMAIN obj : obj'[x].id = obj[x].id
  <2>1. CASE obj' = done
    BY <1>3, <2>1
  <2>2. CASE obj' = [x \in DOMAIN obj |->
                       [done[x] EXCEPT !.done = @ /\ x \notin ToSet(inputs[r])]]
    <3> DEFINE mark(x) == [done[x] EXCEPT !.done = @ /\ x \notin ToSet(inputs[r])]
    <3>1. ASSUME NEW x \in DOMAIN obj
          PROVE  mark(x) \in [id : Nat, done : BOOLEAN] /\ mark(x).id = obj[x].id
      <4>1. done[x] \in [id : Nat, done : BOOLEAN] /\ done[x].id = obj[x].id
        BY <1>3
      <4> QED  BY <4>1, Zenon
    <3>2. obj' = [x \in DOMAIN obj |-> mark(x)]
      BY <2>2
    <3> HIDE DEF mark
    <3> QED  BY <3>1, <3>2
  <2> QED  BY <1>2, <2>1, <2>2
<1> QED  BY <1>4

LEMMA FlushKeeps ==
  ASSUME BInv, FlushStream
  PROVE  BInv'
<1>1. UNCHANGED <<nextId, rec, bound, refs, mapped, calls, streams, recording, inputs, prog>>
  BY Zenon DEF FlushStream, managerVars, recorderVars, terminalVars
<1>2. BoundOK
  BY DEF BInv
<1> QED  BY <1>1, <1>2, FlushMarks, MarksKeep

LEMMA InitBound == Init => BInv
<1> SUFFICES ASSUME Init PROVE BInv
  OBVIOUS
<1>1. /\ nextId = 1 /\ bound = [s \in {} |-> 0] /\ refs = 1 /\ mapped = TRUE /\ calls = <<>>
      /\ streams = <<>> /\ inputs = [r \in BOOLEAN |-> <<>>] /\ obj = [a \in {} |-> 0]
      /\ prog = [t \in Threads |-> <<>>]
  BY DEF Init
<1>2. ProgOK /\ \A t \in Threads : prog[t] = <<>> /\ Len(prog[t]) = 0
  BY <1>1 DEF ProgOK, Chained
<1>3. RefsOK
  <2>1. "sip" \in Threads /\ "api" \in Threads
    BY DEF Threads
  <2> QED  BY <1>1, <1>2, <2>1 DEF RefsOK, Doing, Active
<1>4. ListOK /\ BoundOK
  BY <1>1 DEF ListOK, BoundOK
<1>5. ASSUME NEW t \in Threads PROVE ThreadOK(t) /\ EndedOK(t)
  BY <1>2 DEF ThreadOK, EndedOK
<1>6. StoppedOK
  BY <1>1 DEF StoppedOK
<1> QED  BY <1>2, <1>3, <1>4, <1>5, <1>6 DEF BInv

LEMMA AlwaysBound ==
  ASSUME ApiCalls \subseteq {"auto", "no auto"}
  PROVE  Spec => []BInv
<1>1. BInv /\ [Next]_vars => BInv'
  <2> SUFFICES ASSUME BInv, [Next]_vars PROVE BInv'
    BY Zenon
  <2>1. ASSUME NEW c \in CallIds, NEW o \in BOOLEAN, NewCall(c, o) PROVE BInv'
    BY <2>1, NewCallKeeps, Zenon
  <2>2. ASSUME NEW c \in CallIds, EndCall(c) PROVE BInv'
    BY <2>2, EndCallKeeps, Zenon
  <2>3. ASSUME NEW c \in CallIds, NEW p \in Ports, NewSession(c, p) PROVE BInv'
    BY <2>3, NewSessionKeeps, Zenon
  <2>4. ASSUME NEW s \in Ids, StopSession(s) PROVE BInv'
    BY <2>4, StopSessionKeeps, Zenon
  <2>5. ASSUME NEW s \in Ids, NEW p \in Ports, ModifySession(s, p) PROVE BInv'
    BY <2>5, ModifySessionKeeps, Zenon
  <2>6. ASSUME EndRegister \/ GetAudioData \/ \E what \in ApiCalls : Call(what) PROVE BInv'
    BY <2>6, HandOverKeeps, Zenon
  <2>7. CASE FlushStream
    BY <2>7, FlushKeeps, Zenon
  <2>8. CASE EndedCall
    BY <2>8, EndedCallKeeps, Zenon DEF Threads
  <2>9. ASSUME NEW t \in Threads, ThreadStep(t) PROVE BInv'
    <3>1. CASE CreateInput(t) \/ StartRecord(t) \/ StopRecord(t) \/ DeleteInput(t)
      BY <3>1, CreateInputKeeps, StartRecordKeeps, StopRecordKeeps, DeleteInputKeeps, Zenon
    <3>2. CASE AddNewStream(t) \/ AddedStream(t) \/ DeleteStream(t) \/ EraseStream(t)
      BY <3>2, AddNewStreamKeeps, AddedStreamKeeps, DeleteStreamKeeps, EraseStreamKeeps, Zenon
    <3>3. CASE \E on \in BOOLEAN : SetRecording(t, on)
      BY <3>3, StartRecordingKeeps, StopRecordingKeeps, Zenon
    <3>4. CASE RecordNext(t, "record", "input") \/ RecordNext(t, "unrecord", "unbind")
      BY <3>4, RecordOnKeeps, RecordOffKeeps, Zenon
    <3>5. CASE Release(t) \/ Destroy(t)
      BY <3>5, ReleaseKeeps, DestroyKeeps, Zenon
    <3> QED  BY <2>9, <3>1, <3>2, <3>3, <3>4, <3>5, Zenon DEF ThreadStep
  <2>10. CASE UNCHANGED vars
    <3>1. UNCHANGED <<nextId, rec, bound, refs, mapped, calls, streams, recording, inputs, obj, prog>>
      BY <2>10, Zenon DEF vars, managerVars, recorderVars, terminalVars, mixerVars
    <3>2. obj \in [DOMAIN obj -> [id : Nat, done : BOOLEAN]]
      BY Zenon DEF BInv, BoundOK
    <3> QED  BY <3>1, <3>2, MarksKeep, Zenon
  <2> QED  BY <2>1, <2>2, <2>3, <2>4, <2>5, <2>6, <2>7, <2>8, <2>9, <2>10, Zenon DEF Next, Event
<1> QED  BY <1>1, InitBound, PTL DEF Spec

\* Streamer.cpp: Flush writes into the input that a session is bound to, under no
\* lock of the mixer.  Where the application does not call MP_AudioMonitor, each
\* of these inputs is there: a stream is unbound before its input is deleted, by
\* whichever thread ends the recording, the ends of calls and sessions come in
\* any order, and the last reference to the terminal is given back only by a
\* thread that no other is working in.
THEOREM BindingsStayLive ==
  ASSUME ApiCalls \subseteq {"auto", "no auto"}
  PROVE  Spec => []BindingsLive
<1>1. BInv => BindingsLive
  BY Zenon DEF BInv, BoundOK, BindingsLive
<1>2. Spec => []BInv
  BY AlwaysBound, Zenon
<1> QED  BY <1>1, <1>2, PTL

-----------------------------------------------------------------------------
(***************************************************************************)
(* The types, whatever the application calls: what the two threads have to *)
(* do comes in an order the handlers have, with the release of the         *)
(* terminal or its deletion at the end, so that the terminal has never     *)
(* more than the references of the maps and of one call; and every input   *)
(* is in one mixer, once.                                                  *)
(***************************************************************************)

\* The step y may come after the step x in a handler, also of the application.
Comes(x, y) ==
  Follows(x, y) \/ (x.do \in {"start", "stop", "record", "unrecord"} /\ y.do = "release")

InOrder(p) == \A k \in 1 .. Len(p) - 1 : Comes(p[k], p[k + 1])

ProgsTyped == prog \in [Threads -> Seq(StepRec)] /\ \A t \in Threads : InOrder(prog[t])

\* What is done by the callbacks only, and what a step may rely on.
StepMeets(t, h) ==
  /\ h.do \in {"add", "added", "delete", "erase", "ended"} => t = "sip" /\ mapped
  /\ h.do = "erase" => h.id \in StreamIds
  /\ h.do = "ended" => CallAt(h.call) # {}
  /\ h.do = "destroy" => refs = 0

StepsMeet == \A t \in Threads : \A k \in 1 .. Len(prog[t]) : StepMeets(t, prog[t][k])

\* Thread t is still to give its reference back.
Returns(t) == \E k \in 1 .. Len(prog[t]) : prog[t][k].do = "release"

Counted ==
  /\ refs = (IF mapped \/ Returns("sip") THEN 1 ELSE 0) + (IF Returns("api") THEN 1 ELSE 0)
  /\ mapped => ~ Returns("sip")

ListsTyped ==
  /\ streams \in Seq([id : Nat, remote : BOOLEAN])
  /\ calls \in Seq(CallRec)
  /\ inputs \in [BOOLEAN -> Seq(Inputs)]

\* The inputs there are, are in one mixer each.
InputsHeld ==
  /\ \A a \in DOMAIN obj : \E r \in BOOLEAN : \E k \in DOMAIN inputs[r] : inputs[r][k] = a
  /\ \A r \in BOOLEAN : \A k \in DOMAIN inputs[r] : inputs[r][k] \in DOMAIN obj
  /\ \A q, r \in BOOLEAN : \A j \in DOMAIN inputs[q], k \in DOMAIN inputs[r] :
       inputs[q][j] = inputs[r][k] => q = r /\ j = k

ValuesTyped ==
  /\ known \subseteq CallIds
  /\ DOMAIN sess \subseteq Ids /\ \A s \in DOMAIN sess : sess[s] \in CallIds
  /\ nextId \in 1 .. MaxId + 1
  /\ DOMAIN rec \subseteq Ids
  /\ DOMAIN bound \subseteq Ids /\ \A s \in DOMAIN bound : bound[s] \in Inputs
  /\ mapped \in BOOLEAN
  /\ state \in {"idle", "incoming", "outgoing"}
  /\ recording \in BOOLEAN /\ auto \in BOOLEAN /\ merged \in BOOLEAN

Handlers == ProgsTyped /\ StepsMeet /\ Counted
Data == ListsTyped /\ InputsHeld /\ ValuesTyped
TInv == Handlers /\ Data

LEMMA TypesFollow == TInv => TypeOK
<1> SUFFICES ASSUME TInv PROVE TypeOK
  OBVIOUS
<1>1. ListsTyped /\ InputsHeld /\ ValuesTyped /\ Counted
  BY DEF TInv, Handlers, Data
<1>2. refs \in 0 .. 2
  BY <1>1 DEF Counted
<1>3. DOMAIN obj = ToSet(inputs[TRUE]) \cup ToSet(inputs[FALSE])
  <2>1. \A a \in DOMAIN obj : a \in ToSet(inputs[TRUE]) \cup ToSet(inputs[FALSE])
    <3> TAKE a \in DOMAIN obj
    <3>1. PICK r \in BOOLEAN : \E k \in DOMAIN inputs[r] : inputs[r][k] = a
      BY <1>1 DEF InputsHeld
    <3>2. a \in ToSet(inputs[r])
      BY <3>1 DEF ToSet
    <3> QED  BY <3>2
  <2>2. \A r \in BOOLEAN : ToSet(inputs[r]) \subseteq DOMAIN obj
    BY <1>1 DEF InputsHeld, ToSet
  <2> QED  BY <2>1, <2>2
<1>4. ToSet(inputs[TRUE]) \cap ToSet(inputs[FALSE]) = {}
  <2> SUFFICES ASSUME NEW a \in ToSet(inputs[TRUE]), a \in ToSet(inputs[FALSE]) PROVE FALSE
    BY Zenon
  <2>1. PICK j \in DOMAIN inputs[TRUE], k \in DOMAIN inputs[FALSE] :
          inputs[TRUE][j] = a /\ inputs[FALSE][k] = a
    BY Zenon DEF ToSet
  <2> QED  BY <1>1, <2>1 DEF InputsHeld
<1> QED  BY <1>1, <1>2, <1>3, <1>4 DEF TypeOK, ValuesTyped

LEMMA ShortSteps ==
  ASSUME NEW x \in StepRec, NEW y \in StepRec
  PROVE  /\ <<>> \in Seq(StepRec) /\ Len(<<>>) = 0 /\ InOrder(<<>>)
         /\ <<x>> \in Seq(StepRec) /\ Len(<<x>>) = 1 /\ <<x>>[1] = x /\ InOrder(<<x>>)
         /\ <<x, y>> \in Seq(StepRec) /\ Len(<<x, y>>) = 2
         /\ <<x, y>>[1] = x /\ <<x, y>>[2] = y
         /\ Comes(x, y) => InOrder(<<x, y>>)
<1>1. \A n \in {0, 1} : \A k \in 1 .. n - 1 : FALSE
  OBVIOUS
<1>2. \A k \in 1 .. 1 : k = 1
  OBVIOUS
<1>3. /\ <<>> \in Seq(StepRec) /\ Len(<<>>) = 0
      /\ <<x>> \in Seq(StepRec) /\ Len(<<x>>) = 1 /\ <<x>>[1] = x
      /\ <<x, y>> \in Seq(StepRec) /\ Len(<<x, y>>) = 2
      /\ <<x, y>>[1] = x /\ <<x, y>>[2] = y
  OBVIOUS
<1>4. InOrder(<<>>)
  BY DEF InOrder
<1>5. InOrder(<<x>>)
  BY DEF InOrder
<1>6. Comes(x, y) => InOrder(<<x, y>>)
  BY DEF InOrder
<1> QED  BY <1>3, <1>4, <1>5, <1>6

\* What a thread has to do first.
LEMMA FirstStep ==
  ASSUME ProgsTyped, NEW t \in Threads
  PROVE  /\ prog[t] \in Seq(StepRec) /\ Len(prog[t]) \in Nat
         /\ (prog[t] # <<>>) <=> (Len(prog[t]) > 0)
         /\ prog[t] # <<>> => Head(prog[t]) = prog[t][1] /\ prog[t][1] \in StepRec
         /\ Len(prog[t]) > 1 => prog[t][2] \in StepRec /\ Comes(prog[t][1], prog[t][2])
<1>1. prog[t] \in Seq(StepRec) /\ InOrder(prog[t])
  BY DEF ProgsTyped
<1> DEFINE p == prog[t]
<1>2. p \in Seq(StepRec) /\ InOrder(p) /\ prog[t] = p
  BY <1>1
<1> HIDE DEF p
<1>3. Len(p) \in Nat /\ ((p # <<>>) <=> (Len(p) > 0))
  BY <1>2, EmptySeq
<1>4. p # <<>> => Head(p) = p[1] /\ p[1] \in StepRec
  BY <1>2, <1>3
<1>5. Len(p) > 1 => p[2] \in StepRec /\ Comes(p[1], p[2])
  <2> HAVE Len(p) > 1
  <2>1. 1 \in 1 .. Len(p) - 1 /\ 2 \in 1 .. Len(p)
    BY <1>3
  <2>2. Comes(p[1], p[1 + 1])
    BY <1>2, <2>1, Zenon DEF InOrder
  <2> QED  BY <1>2, <2>1, <2>2
<1> QED  BY <1>2, <1>3, <1>4, <1>5

\* Nothing comes after the release, the deletion and the end of a call.
LEMMA LastStep ==
  ASSUME ProgsTyped, NEW t \in Threads, NEW k \in 1 .. Len(prog[t]),
         prog[t][k].do \in {"release", "destroy", "ended"}
  PROVE  k = Len(prog[t])
<1>1. InOrder(prog[t]) /\ Len(prog[t]) \in Nat
  BY FirstStep DEF ProgsTyped
<1>2. ~ (k \in 1 .. Len(prog[t]) - 1)
  BY <1>1 DEF InOrder, Comes, Follows
<1> QED  BY <1>1, <1>2

\* A thread does its first step, and has steps to do before the rest.
LEMMA GoesOn ==
  ASSUME ProgsTyped, NEW t \in Threads, prog[t] # <<>>, NEW steps \in Seq(StepRec),
         InOrder(steps), Then(t, steps),
         Len(steps) > 0 /\ Len(prog[t]) > 1 => Comes(steps[Len(steps)], prog[t][2])
  PROVE  /\ ProgsTyped' /\ \A u \in Threads \ {t} : prog'[u] = prog[u]
         /\ \A k \in 1 .. Len(prog'[t]) :
              \/ \E j \in 1 .. Len(steps) : prog'[t][k] = steps[j]
              \/ \E j \in 2 .. Len(prog[t]) : prog'[t][k] = prog[t][j]
         /\ \A j \in 2 .. Len(prog[t]) : \E k \in 1 .. Len(prog'[t]) : prog'[t][k] = prog[t][j]
<1> DEFINE R == {e \in StepRec \X StepRec : Comes(e[1], e[2])}
<1>1. /\ prog \in [Threads -> Seq(StepRec)] /\ prog[t] \in Seq(StepRec) /\ Len(prog[t]) > 0
      /\ \A u \in Threads : InOrder(prog[u])
  BY FirstStep DEF ProgsTyped
<1>2. /\ prog' \in [Threads -> Seq(StepRec)] /\ prog'[t] \in Seq(StepRec)
      /\ Len(steps) \in Nat /\ Len(prog[t]) \in Nat
      /\ Len(prog'[t]) = Len(steps) + Len(prog[t]) - 1
      /\ \A i \in 1 .. Len(prog'[t]) :
           prog'[t][i] = IF i <= Len(steps) THEN steps[i] ELSE prog[t][i - Len(steps) + 1]
      /\ \A u \in Threads \ {t} : prog'[u] = prog[u]
  BY <1>1, ThenSteps
<1>3. ASSUME NEW p \in Seq(StepRec)
      PROVE  InOrder(p) <=> \A k \in 1 .. Len(p) - 1 : <<p[k], p[k + 1]>> \in R
  <2>1. Len(p) \in Nat /\ \A k \in 1 .. Len(p) : p[k] \in StepRec
    OBVIOUS
  <2>2. \A k \in 1 .. Len(p) - 1 : p[k] \in StepRec /\ p[k + 1] \in StepRec
    <3>1. \A k \in 1 .. Len(p) - 1 : k \in 1 .. Len(p) /\ k + 1 \in 1 .. Len(p)
      BY <2>1
    <3> QED  BY <2>1, <3>1
  <2>3. \A k \in 1 .. Len(p) - 1 : <<p[k], p[k + 1]>> \in R <=> Comes(p[k], p[k + 1])
    <3> HIDE DEF Comes
    <3> QED  BY <2>2
  <2> QED  BY <2>3, Zenon DEF InOrder
<1>4. Len(steps) > 0 /\ Len(prog[t]) > 1 => <<steps[Len(steps)], prog[t][2]>> \in R
  <2> HAVE Len(steps) > 0 /\ Len(prog[t]) > 1
  <2>1. steps[Len(steps)] \in StepRec /\ prog[t][2] \in StepRec
    BY <1>1, <1>2
  <2> HIDE DEF Comes
  <2> QED  BY <2>1
<1> HIDE DEF R
<1>5. \A k \in 1 .. Len(prog'[t]) - 1 : <<prog'[t][k], prog'[t][k + 1]>> \in R
  <2> DEFINE p == prog[t]
             r == prog'[t]
  <2>1. /\ p \in Seq(StepRec) /\ Len(p) > 0
        /\ Len(steps) > 0 /\ Len(p) > 1 => <<steps[Len(steps)], p[2]>> \in R
        /\ Len(r) = Len(steps) + Len(p) - 1
        /\ \A i \in 1 .. Len(r) : r[i] = IF i <= Len(steps) THEN steps[i] ELSE p[i - Len(steps) + 1]
    BY <1>1, <1>2, <1>4
  <2>2. /\ \A k \in 1 .. Len(p) - 1 : <<p[k], p[k + 1]>> \in R
        /\ \A k \in 1 .. Len(steps) - 1 : <<steps[k], steps[k + 1]>> \in R
    BY <1>1, <1>3
  <2> HIDE DEF p, r
  <2>3. \A k \in 1 .. Len(r) - 1 : <<r[k], r[k + 1]>> \in R
    BY <2>1, <2>2, Linked, ZenonT(60)
  <2> QED  BY <2>3 DEF r
<1>6. \A u \in Threads : InOrder(prog'[u])
  <2>1. InOrder(prog'[t])
    BY <1>2, <1>3, <1>5
  <2>2. \A u \in Threads \ {t} : InOrder(prog'[u])
    BY <1>1, <1>2
  <2> QED  BY <2>1, <2>2
<1>7. ProgsTyped'
  BY <1>2, <1>6 DEF ProgsTyped, InOrder
<1>8. ASSUME NEW k \in 1 .. Len(prog'[t])
      PROVE  \/ \E j \in 1 .. Len(steps) : prog'[t][k] = steps[j]
             \/ \E j \in 2 .. Len(prog[t]) : prog'[t][k] = prog[t][j]
  <2>1. CASE k <= Len(steps)
    <3>1. k \in 1 .. Len(steps)
      BY <1>2, <2>1
    <3> QED  BY <1>2, <2>1, <3>1
  <2>2. CASE ~ (k <= Len(steps))
    <3>1. k - Len(steps) + 1 \in 2 .. Len(prog[t])
      BY <1>2, <2>2
    <3> QED  BY <1>2, <2>2, <3>1
  <2> QED  BY <2>1, <2>2
<1>9. ASSUME NEW j \in 2 .. Len(prog[t])
      PROVE  \E k \in 1 .. Len(prog'[t]) : prog'[t][k] = prog[t][j]
  <2> DEFINE k == j + Len(steps) - 1
  <2>1. k \in 1 .. Len(prog'[t]) /\ ~ (k <= Len(steps)) /\ k - Len(steps) + 1 = j
    BY <1>2
  <2> HIDE DEF k
  <2>2. prog'[t][k] = prog[t][k - Len(steps) + 1]
    BY <1>2, <2>1
  <2> QED  BY <2>1, <2>2
<1> QED  BY <1>2, <1>7, <1>8, <1>9

LEMMA SameMeets ==
  ASSUME UNCHANGED <<mapped, refs, streams, calls>>
  PROVE  \A u, h : StepMeets(u, h) <=> StepMeets(u, h)'
BY DEF StepMeets, StreamIds, CallAt

\* ... what it relies on is there, and what the rest relies on stays there.
LEMMA HandlersGoOn ==
  ASSUME Handlers, NEW t \in Threads, prog[t] # <<>>, Head(prog[t]).do # "release",
         NEW steps \in Seq(StepRec), InOrder(steps), Then(t, steps),
         Len(steps) > 0 /\ Len(prog[t]) > 1 => Comes(steps[Len(steps)], prog[t][2]),
         UNCHANGED <<refs, mapped>>,
         \A k \in 1 .. Len(steps) : StepMeets(t, steps[k])' /\ steps[k].do # "release",
         \A u \in Threads : \A k \in 1 .. Len(prog[u]), h \in StepRec :
           (u # t \/ k # 1) /\ h = prog[u][k] /\ StepMeets(u, h) => StepMeets(u, h)'
  PROVE  Handlers'
<1>1. ProgsTyped /\ StepsMeet /\ Counted
  BY DEF Handlers
<1>2. /\ ProgsTyped' /\ \A u \in Threads \ {t} : prog'[u] = prog[u]
      /\ \A k \in 1 .. Len(prog'[t]) :
           \/ \E j \in 1 .. Len(steps) : prog'[t][k] = steps[j]
           \/ \E j \in 2 .. Len(prog[t]) : prog'[t][k] = prog[t][j]
      /\ \A j \in 2 .. Len(prog[t]) : \E k \in 1 .. Len(prog'[t]) : prog'[t][k] = prog[t][j]
  BY <1>1, GoesOn
<1>3. \A u \in Threads : /\ Len(prog[u]) \in Nat
                         /\ \A k \in 1 .. Len(prog[u]) : prog[u][k] \in StepRec
  BY <1>1 DEF ProgsTyped
<1>4. \A j \in 2 .. Len(prog[t]) : j \in 1 .. Len(prog[t]) /\ j # 1
  BY <1>3
<1>5. \A u \in Threads : \A k \in 1 .. Len(prog[u]) :
        \A h : (u # t \/ k # 1) /\ h = prog[u][k] => StepMeets(u, h)'
  BY <1>1, <1>3 DEF StepsMeet
<1>6. StepsMeet'
  <2> SUFFICES ASSUME NEW u \in Threads, NEW k \in 1 .. Len(prog'[u]), NEW h, h = prog'[u][k]
               PROVE  StepMeets(u, h)'
    BY DEF StepsMeet
  <2>1. CASE u # t
    BY <1>2, <1>5, <2>1
  <2>2. CASE u = t
    BY <1>2, <1>4, <1>5, <2>2, ZenonT(60)
  <2> QED  BY <2>1, <2>2
<1>7. prog[t][1].do # "release"
  BY <1>1, FirstStep
<1>8. \A u \in Threads : Returns(u)' <=> Returns(u)
  <2>1. Returns(t) => Returns(t)'
    <3>1. \A k \in 1 .. Len(prog[t]) : k # 1 => k \in 2 .. Len(prog[t])
      BY <1>3
    <3> QED  BY <1>2, <1>7, <3>1, SMTT(40) DEF Returns
  <2>2. Returns(t)' => Returns(t)
    <3> SUFFICES ASSUME NEW k \in 1 .. Len(prog'[t]), prog'[t][k].do = "release"
                 PROVE  Returns(t)
      BY DEF Returns
    <3>1. PICK j \in 2 .. Len(prog[t]) : prog'[t][k] = prog[t][j]
      BY <1>2
    <3> QED  BY <1>4, <3>1 DEF Returns
  <2>3. \A u \in Threads \ {t} : Returns(u)' <=> Returns(u)
    BY <1>2 DEF Returns
  <2> QED  BY <2>1, <2>2, <2>3
<1>9. Counted'
  BY <1>1, <1>8 DEF Counted, Threads
<1> QED  BY <1>2, <1>6, <1>9 DEF Handlers

\* Such a step that leaves the lists alone leads to no, one or two steps more.
LEMMA HandlersOn ==
  ASSUME Handlers, NEW t \in Threads, prog[t] # <<>>, Head(prog[t]).do # "release",
         UNCHANGED <<refs, mapped, streams, calls>>
  PROVE  /\ Then(t, <<>>) => Handlers'
         /\ \A x \in StepRec :
              Then(t, <<x>>) /\ x.do # "release" /\ StepMeets(t, x)
                /\ (Len(prog[t]) > 1 => Comes(x, prog[t][2])) => Handlers'
         /\ \A x, y \in StepRec :
              Then(t, <<x, y>>) /\ Comes(x, y) /\ x.do # "release" /\ y.do # "release"
                /\ StepMeets(t, x) /\ StepMeets(t, y)
                /\ (Len(prog[t]) > 1 => Comes(y, prog[t][2])) => Handlers'
<1>1. \A u, h : StepMeets(u, h) <=> StepMeets(u, h)'
  BY SameMeets
<1>2. ASSUME NEW steps \in Seq(StepRec), InOrder(steps), Then(t, steps),
             Len(steps) > 0 /\ Len(prog[t]) > 1 => Comes(steps[Len(steps)], prog[t][2]),
             \A k \in 1 .. Len(steps) : StepMeets(t, steps[k]) /\ steps[k].do # "release"
      PROVE  Handlers'
  <2>1. \A k \in 1 .. Len(steps) : StepMeets(t, steps[k])'
    BY <1>1, <1>2
  <2> QED  BY <1>1, <1>2, <2>1, HandlersGoOn
<1>3. Then(t, <<>>) => Handlers'
  <2> HAVE Then(t, <<>>)
  <2> DEFINE none == <<>>
  <2>1. none \in Seq(StepRec) /\ Len(none) = 0 /\ Then(t, none)
    OBVIOUS
  <2>2. InOrder(none)
    BY DEF InOrder
  <2> HIDE DEF none
  <2>3. \A n : n = 0 => \A k \in 1 .. n : FALSE
    OBVIOUS
  <2>4. \A k \in 1 .. Len(none) : FALSE
    BY <2>1, <2>3
  <2>5. ~ (Len(none) > 0)
    BY <2>1
  <2> QED  BY <1>2, <2>1, <2>2, <2>4, <2>5
<1>4. ASSUME NEW x \in StepRec, Then(t, <<x>>), x.do # "release", StepMeets(t, x),
             Len(prog[t]) > 1 => Comes(x, prog[t][2])
      PROVE  Handlers'
  <2> DEFINE one == <<x>>
  <2>1. one \in Seq(StepRec) /\ Len(one) = 1 /\ one[1] = x /\ InOrder(one) /\ Then(t, one)
    BY <1>4, ShortSteps
  <2> HIDE DEF one
  <2>2. \A n : n = 1 => \A k \in 1 .. n : k = 1
    OBVIOUS
  <2>3. \A k \in 1 .. Len(one) : one[k] = x
    BY <2>1, <2>2
  <2> QED  BY <1>2, <1>4, <2>1, <2>3
<1>5. ASSUME NEW x \in StepRec, NEW y \in StepRec, Then(t, <<x, y>>), Comes(x, y),
             x.do # "release", y.do # "release", StepMeets(t, x), StepMeets(t, y),
             Len(prog[t]) > 1 => Comes(y, prog[t][2])
      PROVE  Handlers'
  <2> DEFINE two == <<x, y>>
  <2>1. /\ two \in Seq(StepRec) /\ Len(two) = 2 /\ two[1] = x /\ two[2] = y
        /\ InOrder(two) /\ Then(t, two)
    BY <1>5, ShortSteps
  <2> HIDE DEF two
  <2>2. \A n : n = 2 => \A k \in 1 .. n : k = 1 \/ k = 2
    OBVIOUS
  <2>3. \A k \in 1 .. Len(two) : two[k] = x \/ two[k] = y
    BY <2>1, <2>2
  <2> QED  BY <1>2, <1>5, <2>1, <2>3
<1> QED  BY <1>3, <1>4, <1>5, Zenon

\* The step a thread is at.
LEMMA AtStep ==
  ASSUME Handlers, NEW t \in Threads, NEW d, Doing(t, d)
  PROVE  /\ prog[t] # <<>> /\ Handlers
         /\ \E h \in StepRec :
              /\ h = Head(prog[t]) /\ h = prog[t][1] /\ h.do = d /\ StepMeets(t, h)
              /\ Len(prog[t]) > 1 => prog[t][2] \in StepRec /\ Comes(h, prog[t][2])
              /\ h.do # "ended" => h.id \in Nat
              /\ h.do \notin {"ended", "bind"} => h.remote \in BOOLEAN
              /\ h.do = "bind" => h.input \in Inputs
<1>1. ProgsTyped /\ StepsMeet /\ prog[t] # <<>> /\ Head(prog[t]).do = d
  BY DEF Handlers, Doing
<1>2. /\ Len(prog[t]) \in Nat /\ Len(prog[t]) > 0
      /\ Head(prog[t]) = prog[t][1] /\ prog[t][1] \in StepRec
      /\ Len(prog[t]) > 1 => prog[t][2] \in StepRec /\ Comes(prog[t][1], prog[t][2])
  BY <1>1, FirstStep
<1>3. StepMeets(t, prog[t][1])
  <2>1. 1 \in 1 .. Len(prog[t])
    BY <1>2
  <2> QED  BY <1>1, <2>1 DEF StepsMeet
<1> DEFINE h == prog[t][1]
<1>4. h \in StepRec /\ h = Head(prog[t]) /\ h = prog[t][1] /\ h.do = d /\ StepMeets(t, h)
  BY <1>1, <1>2, <1>3
<1>5. Len(prog[t]) > 1 => prog[t][2] \in StepRec /\ Comes(h, prog[t][2])
  BY <1>2
<1> HIDE DEF h
<1> QED  BY <1>1, <1>4, <1>5, StepFields

\* A mixer with one input more.
LEMMA InputAdded ==
  ASSUME InputsHeld, inputs \in [BOOLEAN -> Seq(Inputs)], NEW r \in BOOLEAN,
         NEW a \in Inputs \ DOMAIN obj,
         inputs' = [inputs EXCEPT ![r] = Append(@, a)], DOMAIN obj' = DOMAIN obj \cup {a}
  PROVE  InputsHeld' /\ inputs' \in [BOOLEAN -> Seq(Inputs)]
<1> DEFINE q == Append(inputs[r], a)
<1>1. /\ inputs' = [inputs EXCEPT ![r] = q] /\ inputs[r] \in Seq(Inputs) /\ a \in Inputs
  OBVIOUS
<1>2. /\ q \in Seq(Inputs) /\ Len(inputs[r]) \in Nat
      /\ DOMAIN inputs[r] = 1 .. Len(inputs[r]) /\ DOMAIN q = 1 .. Len(inputs[r]) + 1
      /\ \A k \in DOMAIN inputs[r] : k \in DOMAIN q /\ q[k] = inputs[r][k]
      /\ \A k \in DOMAIN q : k \in DOMAIN inputs[r] \/ k = Len(inputs[r]) + 1
      /\ q[Len(inputs[r]) + 1] = a
  BY <1>1, Appended
<1> HIDE DEF q
<1>3. inputs' \in [BOOLEAN -> Seq(Inputs)] /\ inputs'[r] = q
      /\ \A u \in BOOLEAN \ {r} : inputs'[u] = inputs[u]
  BY <1>1, <1>2
<1>4. \A u \in BOOLEAN : \A k \in DOMAIN inputs'[u] :
        \/ k \in DOMAIN inputs[u] /\ inputs'[u][k] = inputs[u][k] /\ inputs[u][k] # a
        \/ u = r /\ k = Len(inputs[r]) + 1 /\ inputs'[u][k] = a
  <2> TAKE u \in BOOLEAN
  <2>1. \A k \in DOMAIN inputs[u] : inputs[u][k] # a
    BY DEF InputsHeld
  <2>2. CASE u = r
    BY <1>2, <1>3, <2>1, <2>2
  <2>3. CASE u # r
    BY <1>3, <2>1, <2>3
  <2> QED  BY <2>2, <2>3
<1>5. \A u \in BOOLEAN : \A k \in DOMAIN inputs[u] :
        k \in DOMAIN inputs'[u] /\ inputs'[u][k] = inputs[u][k]
  BY <1>2, <1>3
<1>6. \A b \in DOMAIN obj' : \E u \in BOOLEAN : \E k \in DOMAIN inputs'[u] : inputs'[u][k] = b
  <2> TAKE b \in DOMAIN obj'
  <2>1. CASE b = a
    <3>1. Len(inputs[r]) + 1 \in DOMAIN q
      BY <1>2
    <3> QED  BY <1>2, <1>3, <2>1, <3>1
  <2>2. CASE b \in DOMAIN obj
    <3>1. PICK u \in BOOLEAN : \E k \in DOMAIN inputs[u] : inputs[u][k] = b
      BY <2>2 DEF InputsHeld
    <3> QED  BY <1>5, <3>1
  <2> QED  BY <2>1, <2>2
<1>7. \A u \in BOOLEAN : \A k \in DOMAIN inputs'[u] : inputs'[u][k] \in DOMAIN obj'
  BY <1>4 DEF InputsHeld
<1>8. \A u, v \in BOOLEAN : \A j \in DOMAIN inputs'[u], k \in DOMAIN inputs'[v] :
        inputs'[u][j] = inputs'[v][k] => u = v /\ j = k
  BY <1>4 DEF InputsHeld
<1> QED  BY <1>3, <1>6, <1>7, <1>8 DEF InputsHeld

\* A mixer without its input k.
LEMMA InputRemoved ==
  ASSUME InputsHeld, inputs \in [BOOLEAN -> Seq(Inputs)], NEW r \in BOOLEAN,
         NEW k \in DOMAIN inputs[r],
         inputs' = [inputs EXCEPT ![r] = RemoveAt(@, k)], DOMAIN obj' = DOMAIN obj \ {inputs[r][k]}
  PROVE  InputsHeld' /\ inputs' \in [BOOLEAN -> Seq(Inputs)]
<1> DEFINE q == RemoveAt(inputs[r], k)
<1>1. inputs' = [inputs EXCEPT ![r] = q] /\ inputs[r] \in Seq(Inputs)
  OBVIOUS
<1>2. /\ q \in Seq(Inputs)
      /\ \A i \in DOMAIN q : \E j \in DOMAIN inputs[r] \ {k} :
           q[i] = inputs[r][j] /\ j = IF i < k THEN i ELSE i + 1
      /\ \A j \in DOMAIN inputs[r] \ {k} : \E i \in DOMAIN q : q[i] = inputs[r][j]
      /\ DOMAIN q \subseteq Nat /\ k \in Nat
  <2>1. k \in 1 .. Len(inputs[r]) /\ k \in Nat
    BY <1>1
  <2> QED  BY <1>1, <2>1, Removed, RemovedElements, ZenonT(60)
<1> HIDE DEF q
<1>3. /\ inputs' \in [BOOLEAN -> Seq(Inputs)] /\ inputs'[r] = q
      /\ \A u \in BOOLEAN \ {r} : inputs'[u] = inputs[u]
  BY <1>1, <1>2
<1>4. /\ \A j \in DOMAIN inputs[r] \ {k} : inputs[r][j] # inputs[r][k]
      /\ \A m, n \in DOMAIN inputs[r] : inputs[r][m] = inputs[r][n] => m = n
  BY DEF InputsHeld
<1>5. \A u \in BOOLEAN \ {r} : \A j \in DOMAIN inputs[u] : inputs[u][j] # inputs[r][k]
  BY DEF InputsHeld
<1>6. \A b \in DOMAIN obj' : \E u \in BOOLEAN : \E i \in DOMAIN inputs'[u] : inputs'[u][i] = b
  <2> TAKE b \in DOMAIN obj'
  <2>0. PICK u \in BOOLEAN : \E j \in DOMAIN inputs[u] : inputs[u][j] = b
    BY DEF InputsHeld
  <2>1. PICK j \in DOMAIN inputs[u] : inputs[u][j] = b
    BY <2>0
  <2>2. CASE u = r
    <3>1. j \in DOMAIN inputs[r] \ {k}
      BY <2>1, <2>2
    <3> QED  BY <1>2, <1>3, <2>1, <2>2, <3>1
  <2>3. CASE u # r
    BY <1>3, <2>1, <2>3
  <2> QED  BY <2>2, <2>3
<1>7. \A i \in DOMAIN q : q[i] \in DOMAIN obj'
  BY <1>2, <1>4 DEF InputsHeld
<1>8. \A u \in BOOLEAN : \A i \in DOMAIN inputs'[u] : inputs'[u][i] \in DOMAIN obj'
  BY <1>3, <1>5, <1>7 DEF InputsHeld
<1>9. \A i, j \in DOMAIN q : q[i] = q[j] => i = j
  <2> SUFFICES ASSUME NEW i \in DOMAIN q, NEW j \in DOMAIN q, q[i] = q[j] PROVE i = j
    OBVIOUS
  <2>1. PICK m \in DOMAIN inputs[r] : q[i] = inputs[r][m] /\ m = IF i < k THEN i ELSE i + 1
    BY <1>2
  <2>2. PICK n \in DOMAIN inputs[r] : q[j] = inputs[r][n] /\ n = IF j < k THEN j ELSE j + 1
    BY <1>2
  <2>3. m = n
    BY <1>4, <2>1, <2>2
  <2>4. i \in Nat /\ j \in Nat /\ k \in Nat
    BY <1>2
  <2> QED  BY <2>1, <2>2, <2>3, <2>4
<1>10. \A u \in BOOLEAN \ {r} : \A i \in DOMAIN q, j \in DOMAIN inputs[u] : q[i] # inputs[u][j]
  BY <1>2 DEF InputsHeld
<1>11. \A u, v \in BOOLEAN : \A i \in DOMAIN inputs'[u], j \in DOMAIN inputs'[v] :
         inputs'[u][i] = inputs'[v][j] => u = v /\ i = j
  <2> SUFFICES ASSUME NEW u \in BOOLEAN, NEW v \in BOOLEAN,
                      NEW i \in DOMAIN inputs'[u], NEW j \in DOMAIN inputs'[v],
                      inputs'[u][i] = inputs'[v][j]
               PROVE  u = v /\ i = j
    OBVIOUS
  <2>1. CASE u = r /\ v = r
    BY <1>3, <1>9, <2>1
  <2>2. CASE u # r /\ v # r
    BY <1>3, <2>2 DEF InputsHeld
  <2>3. ~ (u = r /\ v # r) /\ ~ (u # r /\ v = r)
    BY <1>3, <1>10
  <2> QED  BY <2>1, <2>2, <2>3
<1> QED  BY <1>3, <1>6, <1>8, <1>11 DEF InputsHeld

-----------------------------------------------------------------------------
LEMMA CreateInputTyped ==
  ASSUME TInv, NEW t \in Threads, CreateInput(t)
  PROVE  TInv'
<1>1. Handlers /\ ListsTyped /\ InputsHeld /\ ValuesTyped /\ Doing(t, "input")
  BY DEF TInv, Data, CreateInput
<1>2. PICK h \in StepRec :
        /\ h = Head(prog[t]) /\ h = prog[t][1] /\ h.do = "input" /\ prog[t] # <<>>
        /\ Len(prog[t]) > 1 => prog[t][2] \in StepRec /\ Comes(h, prog[t][2])
        /\ h.id \in Nat /\ h.remote \in BOOLEAN
  BY <1>1, AtStep
<1>3. PICK a \in Inputs \ DOMAIN obj :
        /\ inputs' = [inputs EXCEPT ![h.remote] = Append(@, a)]
        /\ obj' = Put(obj, a, [id |-> h.id, done |-> FALSE])
        /\ Then(t, <<[do |-> "bind", id |-> h.id, input |-> a]>>)
  BY <1>2, Zenon DEF CreateInput
<1>4. UNCHANGED <<managerVars, recorderVars, bound, terminalVars, streams, recording, merged>>
  BY DEF CreateInput
<1>5. PICK x \in StepRec : /\ x = [do |-> "bind", id |-> h.id, input |-> a]
                          /\ x.do = "bind" /\ x.id = h.id
  BY <1>2, <1>3 DEF StepRec
<1>6. Then(t, <<x>>) /\ (Len(prog[t]) > 1 => Comes(x, prog[t][2])) /\ StepMeets(t, x)
  BY <1>2, <1>3, <1>5 DEF Comes, Follows, StepMeets
<1>7. Handlers'
  BY <1>1, <1>2, <1>4, <1>5, <1>6, HandlersOn DEF terminalVars
<1>8. DOMAIN obj' = DOMAIN obj \cup {a}
  BY <1>3 DEF Put
<1>9. InputsHeld' /\ inputs' \in [BOOLEAN -> Seq(Inputs)]
  BY <1>1, <1>2, <1>3, <1>8, InputAdded DEF ListsTyped
<1>10. ListsTyped' /\ ValuesTyped'
  BY <1>1, <1>4, <1>9 DEF ListsTyped, ValuesTyped, managerVars, recorderVars, terminalVars
<1> QED  BY <1>7, <1>9, <1>10 DEF TInv, Data

LEMMA StartRecordTyped ==
  ASSUME TInv, NEW t \in Threads, StartRecord(t)
  PROVE  TInv'
<1>1. Handlers /\ ListsTyped /\ InputsHeld /\ ValuesTyped /\ Doing(t, "bind")
  BY DEF TInv, Data, StartRecord
<1>2. PICK h \in StepRec : /\ h = Head(prog[t]) /\ prog[t] # <<>> /\ h.do = "bind"
                          /\ h.input \in Inputs
  BY <1>1, AtStep
<1>3. UNCHANGED <<managerVars, terminalVars, streams, recording, mixerVars, merged>>
  BY DEF StartRecord
<1>4. Handlers'
  BY <1>1, <1>2, <1>3, HandlersOn DEF StartRecord, terminalVars
<1>5. DOMAIN rec' = DOMAIN rec
  BY DEF StartRecord
<1>6. bound' = bound \/ (h.id \in DOMAIN rec /\ bound' = Put(bound, h.id, h.input))
  BY <1>2 DEF StartRecord
<1>7. DOMAIN bound' \subseteq Ids /\ \A s \in DOMAIN bound' : bound'[s] \in Inputs
  BY <1>1, <1>2, <1>6 DEF ValuesTyped, Put
<1>8. ValuesTyped'
  BY <1>1, <1>3, <1>5, <1>7 DEF ValuesTyped, managerVars, terminalVars
<1>9. ListsTyped' /\ InputsHeld'
  BY <1>1, <1>3 DEF ListsTyped, InputsHeld, terminalVars, mixerVars
<1> QED  BY <1>4, <1>8, <1>9 DEF TInv, Data

LEMMA StopRecordTyped ==
  ASSUME TInv, NEW t \in Threads, StopRecord(t)
  PROVE  TInv'
<1>1. Handlers /\ ListsTyped /\ InputsHeld /\ ValuesTyped /\ Doing(t, "unbind")
  BY DEF TInv, Data, StopRecord
<1>2. PICK h \in StepRec :
        /\ h = Head(prog[t]) /\ h = prog[t][1] /\ h.do = "unbind" /\ prog[t] # <<>>
        /\ Len(prog[t]) > 1 => prog[t][2] \in StepRec /\ Comes(h, prog[t][2])
        /\ h.id \in Nat /\ h.remote \in BOOLEAN
  BY <1>1, AtStep
<1>3. UNCHANGED <<managerVars, terminalVars, streams, recording, mixerVars, merged>>
  BY DEF StopRecord
<1>4. PICK x \in StepRec : /\ x = Step("uninput", h.id, h.remote)
                          /\ x.do = "uninput" /\ x.id = h.id
  BY <1>2, StepIs
<1>5. Then(t, <<x>>)
  BY <1>2, <1>4 DEF StopRecord
<1>6. (Len(prog[t]) > 1 => Comes(x, prog[t][2])) /\ StepMeets(t, x)
  BY <1>2, <1>4 DEF Comes, Follows, StepMeets
<1>7. Handlers'
  BY <1>1, <1>2, <1>3, <1>4, <1>5, <1>6, HandlersOn DEF terminalVars
<1>8. DOMAIN rec' = DOMAIN rec /\ (bound' = bound \/ bound' = Without(bound, {h.id}))
  BY <1>2 DEF StopRecord
<1>9. DOMAIN bound' \subseteq Ids /\ \A s \in DOMAIN bound' : bound'[s] \in Inputs
  BY <1>1, <1>8 DEF ValuesTyped, Without
<1>10. ValuesTyped'
  BY <1>1, <1>3, <1>8, <1>9 DEF ValuesTyped, managerVars, terminalVars
<1>11. ListsTyped' /\ InputsHeld'
  BY <1>1, <1>3 DEF ListsTyped, InputsHeld, terminalVars, mixerVars
<1> QED  BY <1>7, <1>10, <1>11 DEF TInv, Data

LEMMA DeleteInputTyped ==
  ASSUME TInv, NEW t \in Threads, DeleteInput(t)
  PROVE  TInv'
<1>1. Handlers /\ ListsTyped /\ InputsHeld /\ ValuesTyped /\ Doing(t, "uninput")
  BY Zenon DEF TInv, Data, DeleteInput
<1>2. PICK h \in StepRec : /\ h = Head(prog[t]) /\ prog[t] # <<>> /\ h.do = "uninput"
                          /\ h.remote \in BOOLEAN
  BY <1>1, AtStep
<1>3. UNCHANGED <<managerVars, recorderVars, bound, terminalVars, streams, recording, merged>>
  BY Zenon DEF DeleteInput
<1>4. Handlers'
  BY <1>1, <1>2, <1>3, HandlersOn, Zenon DEF DeleteInput, terminalVars
<1>5. InputsHeld' /\ inputs' \in [BOOLEAN -> Seq(Inputs)]
  <2> DEFINE r == h.remote
             mine == {k \in DOMAIN inputs[r] : obj[inputs[r][k]].id = h.id}
             k == CHOOSE k \in mine : \A j \in mine : k <= j
  <2>1. IF mine = {} THEN UNCHANGED <<inputs, obj>>
          ELSE inputs' = [inputs EXCEPT ![r] = RemoveAt(@, k)] /\ obj' = Without(obj, {inputs[r][k]})
    BY <1>2, Zenon DEF DeleteInput
  <2>2. CASE mine = {}
    BY <1>1, <2>1, <2>2 DEF InputsHeld, ListsTyped
  <2>3. CASE mine # {}
    <3>1. inputs \in [BOOLEAN -> Seq(Inputs)] /\ inputs[r] \in Seq(Inputs)
      BY <1>1, <1>2 DEF ListsTyped
    <3>2. mine \in SUBSET Nat
      BY <3>1
    <3> HIDE DEF mine
    <3>3. k \in mine
      BY <2>3, <3>2, Least
    <3> HIDE DEF k
    <3>4. k \in DOMAIN inputs[r]
      BY <3>3 DEF mine
    <3>5. DOMAIN obj' = DOMAIN obj \ {inputs[r][k]}
      BY <2>1, <2>3 DEF Without
    <3> QED  BY <1>1, <1>2, <2>1, <2>3, <3>1, <3>4, <3>5, InputRemoved
  <2> QED  BY <2>2, <2>3
<1>6. ListsTyped' /\ ValuesTyped'
  BY <1>1, <1>3, <1>5 DEF ListsTyped, ValuesTyped, managerVars, recorderVars, terminalVars
<1> QED  BY <1>4, <1>5, <1>6 DEF TInv, Data

\* What a step leaves alone stays as it is.
LEMMA SameData ==
  ASSUME Data, UNCHANGED <<managerVars, recorderVars, bound, mapped, auto, inputs, merged>>,
         DOMAIN obj' = DOMAIN obj, recording' \in BOOLEAN,
         state' = state \/ state' = StateOf(calls'),
         streams' \in Seq([id : Nat, remote : BOOLEAN]), calls' \in Seq(CallRec)
  PROVE  Data'
BY DEF Data, ListsTyped, InputsHeld, ValuesTyped, managerVars, recorderVars, StateOf

LEMMA AddNewStreamTyped ==
  ASSUME TInv, NEW t \in Threads, AddNewStream(t)
  PROVE  TInv'
<1>1. Handlers /\ Data /\ ListsTyped /\ ValuesTyped /\ Doing(t, "add")
  BY DEF TInv, Data, AddNewStream
<1>2. PICK h \in StepRec :
        /\ h = Head(prog[t]) /\ h = prog[t][1] /\ h.do = "add" /\ prog[t] # <<>>
        /\ Len(prog[t]) > 1 => prog[t][2] \in StepRec /\ Comes(h, prog[t][2])
        /\ h.id \in Nat /\ h.remote \in BOOLEAN /\ StepMeets(t, h)
  BY <1>1, AtStep
<1> DEFINE e == [id |-> h.id, remote |-> h.remote]
<1>3. /\ streams' = Append(streams, e)
      /\ UNCHANGED <<managerVars, recorderVars, bound, terminalVars, recording, mixerVars, merged>>
  BY <1>2 DEF AddNewStream
<1>4. PICK x \in StepRec : /\ x = Step("added", h.id, h.remote)
                          /\ x.do = "added" /\ x.id = h.id
  BY <1>2, StepIs
<1>5. Then(t, <<x>>)
  BY <1>2, <1>4 DEF AddNewStream
<1>6. e \in [id : Nat, remote : BOOLEAN]
  BY <1>2
<1>7. streams' \in Seq([id : Nat, remote : BOOLEAN]) /\ StreamIds \subseteq StreamIds'
  <2> DEFINE S == [id : Nat, remote : BOOLEAN]
  <2>1. streams \in Seq(S) /\ e \in S
    BY <1>1, <1>6 DEF ListsTyped
  <2> HIDE DEF S, e
  <2>2. /\ streams' \in Seq(S)
        /\ \A k \in DOMAIN streams : k \in DOMAIN streams' /\ streams'[k] = streams[k]
    BY <1>3, <2>1, Appended
  <2> QED  BY <2>2 DEF StreamIds, S
<1>8. Len(prog[t]) > 1 => FALSE
  BY <1>2 DEF Comes, Follows
<1>9. Handlers'
  <2> DEFINE one == <<x>>
  <2>1. one \in Seq(StepRec) /\ Len(one) = 1 /\ one[1] = x /\ InOrder(one) /\ Then(t, one)
    BY <1>5, ShortSteps
  <2> HIDE DEF one
  <2>2. \A n : n = 1 => \A k \in 1 .. n : k = 1
    OBVIOUS
  <2>3. \A k \in 1 .. Len(one) : one[k] = x
    BY <2>1, <2>2
  <2>4. StepMeets(t, x)'
    BY <1>2, <1>3, <1>4 DEF StepMeets, terminalVars
  <2>5. \A u, g : StepMeets(u, g) => StepMeets(u, g)'
    BY <1>3, <1>7 DEF StepMeets, terminalVars, CallAt
  <2>6. \A k \in 1 .. Len(one) : StepMeets(t, one[k])' /\ one[k].do # "release"
    <3>1. \A g : g = x => StepMeets(t, g)'
      BY <2>4
    <3> QED  BY <1>4, <2>3, <3>1
  <2> QED  BY <1>1, <1>2, <1>3, <1>8, <2>1, <2>5, <2>6, HandlersGoOn DEF terminalVars
<1>10. Data'
  BY <1>1, <1>3, <1>7, SameData DEF terminalVars, mixerVars, ListsTyped, ValuesTyped
<1> QED  BY <1>9, <1>10 DEF TInv

LEMMA AddedStreamTyped ==
  ASSUME TInv, NEW t \in Threads, AddedStream(t)
  PROVE  TInv'
<1>1. Handlers /\ Data /\ ListsTyped /\ ValuesTyped /\ Doing(t, "added")
  BY DEF TInv, Data, AddedStream
<1>2. PICK h \in StepRec :
        /\ h = Head(prog[t]) /\ h = prog[t][1] /\ h.do = "added" /\ prog[t] # <<>>
        /\ Len(prog[t]) > 1 => prog[t][2] \in StepRec /\ Comes(h, prog[t][2])
        /\ h.id \in Nat /\ h.remote \in BOOLEAN
  BY <1>1, AtStep
<1>3. UNCHANGED <<managerVars, recorderVars, bound, terminalVars, streams, recording,
                  mixerVars, merged>>
  BY DEF AddedStream
<1>4. PICK x \in StepRec : x = Step("input", h.id, h.remote) /\ x.do = "input"
  BY <1>2, StepIs
<1>5. Then(t, <<>>) \/ Then(t, <<x>>)
  BY <1>2, <1>4 DEF AddedStream
<1>6. (Len(prog[t]) > 1 => FALSE) /\ StepMeets(t, x)
  BY <1>2, <1>4 DEF Comes, Follows, StepMeets
<1>7. Handlers'
  BY <1>1, <1>2, <1>3, <1>4, <1>5, <1>6, HandlersOn DEF terminalVars
<1>8. Data'
  BY <1>1, <1>3, SameData DEF terminalVars, mixerVars, ListsTyped, ValuesTyped
<1> QED  BY <1>7, <1>8 DEF TInv

\* A stream that is in the list.
LEMMA StreamTyped ==
  ASSUME ListsTyped, NEW k \in DOMAIN streams
  PROVE  streams[k].id \in Nat /\ streams[k].remote \in BOOLEAN /\ streams[k].id \in StreamIds
<1> DEFINE S == [id : Nat, remote : BOOLEAN]
<1>1. streams \in Seq(S)
  BY DEF ListsTyped
<1>2. \A e \in S : e.id \in Nat /\ e.remote \in BOOLEAN
  OBVIOUS
<1> HIDE DEF S
<1>3. streams[k] \in S
  BY <1>1
<1> QED  BY <1>2, <1>3 DEF StreamIds

LEMMA DeleteStreamTyped ==
  ASSUME TInv, NEW t \in Threads, DeleteStream(t)
  PROVE  TInv'
<1>1. Handlers /\ Data /\ ListsTyped /\ ValuesTyped /\ Doing(t, "delete")
  BY DEF TInv, Data, DeleteStream
<1>2. PICK h \in StepRec :
        /\ h = Head(prog[t]) /\ h = prog[t][1] /\ h.do = "delete" /\ prog[t] # <<>>
        /\ Len(prog[t]) > 1 => prog[t][2] \in StepRec /\ Comes(h, prog[t][2])
        /\ h.id \in Nat /\ StepMeets(t, h)
  BY <1>1, AtStep
<1>3. UNCHANGED <<managerVars, recorderVars, bound, terminalVars, streams, recording,
                  mixerVars, merged>>
  BY DEF DeleteStream
<1>4. \/ Then(t, <<>>)
      \/ \E k \in DOMAIN streams :
           /\ streams[k].id = h.id
           /\ Then(t, <<Step("unbind", h.id, streams[k].remote), Step("erase", h.id, FALSE)>>)
  <2> DEFINE its == {k \in DOMAIN streams : streams[k].id = h.id}
             k == CHOOSE k \in its : TRUE
  <2>1. Then(t, IF recording /\ its # {}
                  THEN <<Step("unbind", h.id, streams[k].remote), Step("erase", h.id, FALSE)>>
                  ELSE <<>>)
    BY <1>2 DEF DeleteStream
  <2>2. its # {} => k \in its
    OBVIOUS
  <2> QED  BY <2>1, <2>2
<1>5. Handlers'
  <2>1. CASE Then(t, <<>>)
    BY <1>1, <1>2, <1>3, <2>1, HandlersOn DEF terminalVars
  <2>2. ASSUME NEW k \in DOMAIN streams, streams[k].id = h.id,
               Then(t, <<Step("unbind", h.id, streams[k].remote), Step("erase", h.id, FALSE)>>)
        PROVE  Handlers'
    <3>1. streams[k].remote \in BOOLEAN /\ h.id \in StreamIds
      BY <1>1, <2>2, StreamTyped
    <3>2. PICK x \in StepRec : /\ x = Step("unbind", h.id, streams[k].remote)
                              /\ x.do = "unbind" /\ x.id = h.id
      BY <1>2, <3>1, StepIs
    <3>3. PICK y \in StepRec : /\ y = Step("erase", h.id, FALSE)
                              /\ y.do = "erase" /\ y.id = h.id
      BY <1>2, StepOfList
    <3>4. Then(t, <<x, y>>)
      BY <2>2, <3>2, <3>3
    <3>5. /\ Comes(x, y) /\ StepMeets(t, x) /\ StepMeets(t, y)
          /\ Len(prog[t]) > 1 => Comes(y, prog[t][2])
      BY <1>2, <3>1, <3>2, <3>3 DEF Comes, Follows, StepMeets
    <3> QED  BY <1>1, <1>2, <1>3, <3>2, <3>3, <3>4, <3>5, HandlersOn DEF terminalVars
  <2> QED  BY <1>4, <2>1, <2>2
<1>6. Data'
  BY <1>1, <1>3, SameData DEF terminalVars, mixerVars, ListsTyped, ValuesTyped
<1> QED  BY <1>5, <1>6 DEF TInv

\* Only the step a thread is at, or the one after it, erases a stream.
LEMMA EraseIsSoon ==
  ASSUME ProgsTyped, NEW t \in Threads, NEW k \in 1 .. Len(prog[t]), k > 1,
         prog[t][k].do = "erase"
  PROVE  prog[t][1].do \in {"unbind", "uninput"}
<1>1. InOrder(prog[t]) /\ Len(prog[t]) \in Nat
  BY FirstStep DEF ProgsTyped
<1>2. ASSUME NEW j \in 2 .. Len(prog[t])
      PROVE  Comes(prog[t][j - 1], prog[t][j])
  <2> DEFINE i == j - 1
  <2>1. i \in 1 .. Len(prog[t]) - 1 /\ i + 1 = j
    BY <1>1
  <2> HIDE DEF i
  <2>2. Comes(prog[t][i], prog[t][i + 1])
    BY <1>1, <2>1 DEF InOrder
  <2> QED  BY <2>1, <2>2 DEF i
<1>3. k \in 2 .. Len(prog[t])
  BY <1>1
<1>4. prog[t][k - 1].do \in {"unbind", "uninput"}
  BY <1>2, <1>3 DEF Comes, Follows
<1>5. ~ (k - 1 \in 2 .. Len(prog[t]))
  BY <1>2, <1>4 DEF Comes, Follows
<1>6. k - 1 = 1
  BY <1>1, <1>3, <1>5
<1> QED  BY <1>4, <1>6

LEMMA EraseStreamTyped ==
  ASSUME TInv, NEW t \in Threads, EraseStream(t)
  PROVE  TInv'
<1>1. /\ Handlers /\ Data /\ ListsTyped /\ ValuesTyped /\ ProgsTyped /\ StepsMeet
      /\ Doing(t, "erase")
  BY DEF TInv, Data, Handlers, EraseStream
<1>2. PICK h \in StepRec :
        /\ h = Head(prog[t]) /\ h = prog[t][1] /\ h.do = "erase" /\ prog[t] # <<>>
        /\ StepMeets(t, h)
  BY <1>1, AtStep
<1>3. UNCHANGED <<managerVars, recorderVars, bound, terminalVars, recording, mixerVars, merged>>
  BY DEF EraseStream
<1>4. streams' \in Seq([id : Nat, remote : BOOLEAN])
  <2> DEFINE k == CHOOSE k \in DOMAIN streams : streams[k].id = h.id
             S == [id : Nat, remote : BOOLEAN]
  <2>1. streams' = RemoveAt(streams, k) /\ streams \in Seq(S)
    BY <1>1, <1>2 DEF EraseStream, ListsTyped
  <2>2. \E i \in DOMAIN streams : streams[i].id = h.id
    BY <1>2 DEF StepMeets, StreamIds
  <2>3. k \in DOMAIN streams
    BY <2>2
  <2> HIDE DEF k, S
  <2>4. k \in 1 .. Len(streams)
    BY <2>1, <2>3
  <2>5. streams' \in Seq(S)
    BY <2>1, <2>4, Removed
  <2> QED  BY <2>5 DEF S
<1>5. ASSUME NEW u \in Threads, NEW k \in 1 .. Len(prog[u]), u # t \/ k # 1
      PROVE  prog[u][k].do # "erase"
  <2> SUFFICES ASSUME prog[u][k].do = "erase" PROVE FALSE
    OBVIOUS
  <2>1. StepMeets(u, prog[u][k])
    BY <1>1 DEF StepsMeet
  <2>2. u = t
    BY <1>2, <2>1 DEF StepMeets
  <2>3. Len(prog[t]) \in Nat
    BY <1>1, FirstStep
  <2>4. k > 1
    BY <1>5, <2>2, <2>3
  <2> QED  BY <1>1, <1>2, <2>2, <2>4, EraseIsSoon
<1>6. Handlers'
  <2> DEFINE none == <<>>
  <2>1. none \in Seq(StepRec) /\ Len(none) = 0 /\ InOrder(none) /\ Then(t, none)
    BY <1>2, ShortSteps DEF EraseStream
  <2> HIDE DEF none
  <2>2. \A n : n = 0 => \A k \in 1 .. n : FALSE
    OBVIOUS
  <2>3. (\A k \in 1 .. Len(none) : FALSE) /\ ~ (Len(none) > 0)
    BY <2>1, <2>2
  <2>4. \A u \in Threads : \A k \in 1 .. Len(prog[u]), g \in StepRec :
          (u # t \/ k # 1) /\ g = prog[u][k] /\ StepMeets(u, g) => StepMeets(u, g)'
    BY <1>3, <1>5 DEF StepMeets, terminalVars, CallAt
  <2> QED  BY <1>1, <1>2, <1>3, <2>1, <2>3, <2>4, HandlersGoOn DEF terminalVars
<1>7. Data'
  BY <1>1, <1>3, <1>4, SameData DEF terminalVars, mixerVars, ListsTyped, ValuesTyped
<1> QED  BY <1>6, <1>7 DEF TInv

LEMMA SetRecordingTyped ==
  ASSUME TInv, NEW t \in Threads, NEW on \in BOOLEAN, SetRecording(t, on)
  PROVE  TInv'
<1>1. Handlers /\ Data /\ ListsTyped /\ Doing(t, IF on THEN "start" ELSE "stop")
  BY DEF TInv, Data, SetRecording
<1>2. PICK h \in StepRec :
        /\ h = prog[t][1] /\ h.do = (IF on THEN "start" ELSE "stop") /\ prog[t] # <<>>
        /\ Len(prog[t]) > 1 => prog[t][2] \in StepRec /\ Comes(h, prog[t][2])
        /\ h = Head(prog[t])
  BY <1>1, AtStep
<1>3. /\ UNCHANGED <<managerVars, recorderVars, bound, terminalVars, streams, mixerVars, merged>>
      /\ recording' = on
  BY DEF SetRecording
<1>4. PICK x \in StepRec : /\ x = Step(IF on THEN "record" ELSE "unrecord", 0, FALSE)
                          /\ x.do = IF on THEN "record" ELSE "unrecord"
  BY StepOfList, ZenonT(40)
<1>5. Then(t, <<>>) \/ Then(t, <<x>>)
  BY <1>4 DEF SetRecording
<1>6. (Len(prog[t]) > 1 => Comes(x, prog[t][2])) /\ StepMeets(t, x)
  BY <1>2, <1>4 DEF Comes, Follows, StepMeets
<1>7. Head(prog[t]).do # "release" /\ x.do # "release"
  BY <1>2, <1>4
<1>8. Handlers'
  BY <1>1, <1>2, <1>3, <1>5, <1>6, <1>7, HandlersOn DEF terminalVars
<1>9. Data'
  BY <1>1, <1>3, SameData DEF terminalVars, mixerVars, ListsTyped
<1> QED  BY <1>8, <1>9 DEF TInv

LEMMA RecordNextTyped ==
  ASSUME TInv, NEW t \in Threads, NEW do, NEW each, RecordNext(t, do, each),
         (do = "record" /\ each = "input") \/ (do = "unrecord" /\ each = "unbind")
  PROVE  TInv'
<1>1. Handlers /\ Data /\ ListsTyped /\ ValuesTyped /\ Doing(t, do)
  BY DEF TInv, Data, RecordNext
<1>2. PICK h \in StepRec :
        /\ h = Head(prog[t]) /\ h = prog[t][1] /\ h.do = do /\ prog[t] # <<>>
        /\ Len(prog[t]) > 1 => prog[t][2] \in StepRec /\ Comes(h, prog[t][2])
  BY <1>1, AtStep
<1>3. UNCHANGED <<managerVars, recorderVars, bound, terminalVars, streams, recording,
                  mixerVars, merged>>
  BY DEF RecordNext
<1>4. \/ Then(t, <<>>)
      \/ \E k \in DOMAIN streams :
           Then(t, <<Step(each, streams[k].id, streams[k].remote), Step(do, streams[k].id, FALSE)>>)
  <2>1. PICK k \in NextStreams(h.id) :
          Then(t, IF k > Len(streams) THEN <<>>
                    ELSE <<Step(each, streams[k].id, streams[k].remote),
                           Step(do, streams[k].id, FALSE)>>)
    BY <1>2 DEF RecordNext
  <2>2. DOMAIN streams = 1 .. Len(streams) /\ Len(streams) \in Nat
    BY <1>1 DEF ListsTyped
  <2>3. k \in Nat \ {0}
    BY <2>2 DEF NextStreams
  <2>4. k > Len(streams) \/ k \in DOMAIN streams
    BY <2>2, <2>3
  <2> QED  BY <2>1, <2>2, <2>4
<1>5. Head(prog[t]).do # "release"
  BY <1>2
<1>6. Handlers'
  <2>1. CASE Then(t, <<>>)
    BY <1>1, <1>2, <1>3, <1>5, <2>1, HandlersOn DEF terminalVars
  <2>2. ASSUME NEW k \in DOMAIN streams,
               Then(t, <<Step(each, streams[k].id, streams[k].remote),
                         Step(do, streams[k].id, FALSE)>>)
        PROVE  Handlers'
    <3>1. streams[k].remote \in BOOLEAN /\ streams[k].id \in Nat
      BY <1>1, StreamTyped
    <3>2. PICK x \in StepRec : /\ x = Step(each, streams[k].id, streams[k].remote)
                              /\ x.do = each /\ x.id = streams[k].id
      BY <3>1, StepIs
    <3>3. PICK y \in StepRec : /\ y = Step(do, streams[k].id, FALSE)
                              /\ y.do = do /\ y.id = streams[k].id
      <4>1. CASE do = "record"
        BY <3>1, <4>1, StepOfList, ZenonT(40)
      <4>2. CASE do = "unrecord"
        BY <3>1, <4>2, StepOfList, ZenonT(40)
      <4> QED  BY <4>1, <4>2
    <3>4. Then(t, <<x, y>>)
      BY <2>2, <3>2, <3>3
    <3>5. /\ Comes(x, y) /\ StepMeets(t, x) /\ StepMeets(t, y)
          /\ x.do # "release" /\ y.do # "release"
          /\ Len(prog[t]) > 1 => Comes(y, prog[t][2])
      BY <1>2, <3>2, <3>3 DEF Comes, Follows, StepMeets
    <3> QED  BY <1>1, <1>2, <1>3, <1>5, <3>4, <3>5, HandlersOn DEF terminalVars
  <2> QED  BY <1>4, <2>1, <2>2
<1>7. Data'
  BY <1>1, <1>3, SameData DEF terminalVars, mixerVars, ListsTyped, ValuesTyped
<1> QED  BY <1>6, <1>7 DEF TInv

\* The terminal has references enough: the deletion waits for the last one.
LEMMA NotDestroyed ==
  ASSUME Handlers, refs # 0
  PROVE  \A u \in Threads : \A k \in 1 .. Len(prog[u]) : prog[u][k].do # "destroy"
BY DEF Handlers, StepsMeet, StepMeets

LEMMA ReleaseTyped ==
  ASSUME TInv, NEW t \in Threads, Release(t)
  PROVE  TInv'
<1>1. Handlers /\ Data /\ ListsTyped /\ ValuesTyped /\ ProgsTyped /\ StepsMeet /\ Counted
  BY DEF TInv, Data, Handlers
<1>2. PICK h \in StepRec :
        /\ h = Head(prog[t]) /\ h = prog[t][1] /\ h.do = "release" /\ prog[t] # <<>>
  BY <1>1, AtStep DEF Release
<1>3. /\ UNCHANGED <<managerVars, recorderVars, bound, mapped, calls, state, auto, streams,
                     recording, mixerVars, merged>>
      /\ refs' = refs - 1
      /\ Then(t, IF refs = 1 THEN <<Step("stop", 0, FALSE), Step("destroy", 0, FALSE)>> ELSE <<>>)
  BY DEF Release
<1>4. Len(prog[t]) = 1 /\ Returns(t)
  <2>1. Len(prog[t]) \in Nat /\ Len(prog[t]) > 0
    BY <1>1, <1>2, FirstStep
  <2>2. 1 \in 1 .. Len(prog[t])
    BY <2>1
  <2> QED  BY <1>1, <1>2, <2>2, LastStep DEF Returns
<1>5. refs \in Nat /\ refs # 0
  BY <1>1, <1>4 DEF Counted, Threads
<1>6. PICK x \in StepRec, y \in StepRec :
        /\ x = Step("stop", 0, FALSE) /\ x.do = "stop"
        /\ y = Step("destroy", 0, FALSE) /\ y.do = "destroy"
  BY StepOfNone
<1> DEFINE steps == IF refs = 1 THEN <<x, y>> ELSE <<>>
<1>7. /\ steps \in Seq(StepRec) /\ InOrder(steps) /\ Then(t, steps)
      /\ \A k \in 1 .. Len(steps) : steps[k].do \in {"stop", "destroy"}
      /\ refs # 1 => Len(steps) = 0
  <2>1. Comes(x, y)
    BY <1>6 DEF Comes, Follows
  <2>2. CASE refs = 1
    <3> DEFINE two == <<x, y>>
    <3>1. /\ two \in Seq(StepRec) /\ Len(two) = 2 /\ two[1] = x /\ two[2] = y /\ InOrder(two)
          /\ steps = two /\ Then(t, two)
      BY <1>3, <1>6, <2>1, <2>2, ShortSteps
    <3> HIDE DEF two, steps
    <3>2. \A n : n = 2 => \A k \in 1 .. n : k = 1 \/ k = 2
      OBVIOUS
    <3>3. \A k \in 1 .. Len(two) : two[k].do \in {"stop", "destroy"}
      BY <1>6, <3>1, <3>2
    <3> QED  BY <2>2, <3>1, <3>3
  <2>3. CASE refs # 1
    <3> DEFINE none == <<>>
    <3>1. /\ none \in Seq(StepRec) /\ Len(none) = 0 /\ InOrder(none)
          /\ steps = none /\ Then(t, none)
      BY <1>3, <1>6, <2>3, ShortSteps
    <3> HIDE DEF none, steps
    <3>2. \A n : n = 0 => \A k \in 1 .. n : FALSE
      OBVIOUS
    <3> QED  BY <2>3, <3>1, <3>2
  <2> QED  BY <2>2, <2>3
<1> HIDE DEF steps
<1>8. /\ ProgsTyped' /\ \A u \in Threads \ {t} : prog'[u] = prog[u]
      /\ \A k \in 1 .. Len(prog'[t]) : \E j \in 1 .. Len(steps) : prog'[t][k] = steps[j]
  <2>1. \A j \in 2 .. Len(prog[t]) : FALSE
    BY <1>4
  <2>2. ~ (Len(prog[t]) > 1)
    BY <1>4
  <2> QED  BY <1>1, <1>2, <1>7, <2>1, <2>2, GoesOn
<1>9. refs' = 0 \/ \A k \in 1 .. Len(prog'[t]) : FALSE
  <2>1. CASE refs = 1
    BY <1>3, <2>1
  <2>2. CASE refs # 1
    <3>1. \A n : n = 0 => \A j \in 1 .. n : FALSE
      OBVIOUS
    <3> QED  BY <1>7, <1>8, <2>2, <3>1
  <2> QED  BY <2>1, <2>2
<1>10. StepsMeet'
  <2> SUFFICES ASSUME NEW u \in Threads, NEW k \in 1 .. Len(prog'[u]), NEW g, g = prog'[u][k]
               PROVE  StepMeets(u, g)'
    BY DEF StepsMeet
  <2>1. CASE u = t
    <3>1. g.do \in {"stop", "destroy"}
      BY <1>7, <1>8, <2>1
    <3> QED  BY <1>9, <2>1, <3>1 DEF StepMeets
  <2>2. CASE u # t
    <3>1. k \in 1 .. Len(prog[u]) /\ g = prog[u][k]
      BY <1>8, <2>2
    <3>2. StepMeets(u, g) /\ g.do # "destroy"
      BY <1>1, <1>5, <3>1, NotDestroyed DEF StepsMeet
    <3> QED  BY <1>3, <3>2 DEF StepMeets, StreamIds, CallAt
  <2> QED  BY <2>1, <2>2
<1>11. ~ Returns(t)' /\ \A u \in Threads \ {t} : Returns(u)' <=> Returns(u)
  BY <1>7, <1>8 DEF Returns
<1>12. Counted'
  BY <1>1, <1>3, <1>4, <1>11 DEF Counted, Threads
<1>13. Data'
  BY <1>1, <1>3, SameData DEF mixerVars, ListsTyped, ValuesTyped
<1> QED  BY <1>8, <1>10, <1>12, <1>13 DEF TInv, Handlers

LEMMA DestroyTyped ==
  ASSUME TInv, NEW t \in Threads, Destroy(t)
  PROVE  TInv'
<1>1. /\ Handlers /\ Data /\ ListsTyped /\ ValuesTyped /\ ProgsTyped /\ StepsMeet /\ Counted
      /\ Doing(t, "destroy")
  BY DEF TInv, Data, Handlers, Destroy
<1>2. PICK h \in StepRec :
        /\ h = Head(prog[t]) /\ h = prog[t][1] /\ h.do = "destroy" /\ prog[t] # <<>>
        /\ StepMeets(t, h)
  BY <1>1, AtStep
<1>3. /\ UNCHANGED <<managerVars, recorderVars, bound, refs, mapped, state, auto, recording>>
      /\ calls' = <<>> /\ streams' = <<>> /\ merged' = FALSE
      /\ inputs' = [r \in BOOLEAN |-> <<>>] /\ obj' = [a \in {} |-> 0] /\ Then(t, <<>>)
  BY DEF Destroy
<1>4. refs = 0 /\ ~ mapped
  BY <1>1, <1>2 DEF StepMeets, Counted, ValuesTyped
<1>5. Handlers'
  <2> DEFINE none == <<>>
  <2>1. none \in Seq(StepRec) /\ Len(none) = 0 /\ InOrder(none) /\ Then(t, none)
    BY <1>2, <1>3, ShortSteps
  <2> HIDE DEF none
  <2>2. \A n : n = 0 => \A k \in 1 .. n : FALSE
    OBVIOUS
  <2>3. (\A k \in 1 .. Len(none) : FALSE) /\ ~ (Len(none) > 0)
    BY <2>1, <2>2
  <2>4. \A u \in Threads : \A g : StepMeets(u, g) => StepMeets(u, g)'
    BY <1>3, <1>4 DEF StepMeets
  <2> QED  BY <1>1, <1>2, <1>3, <2>1, <2>3, <2>4, HandlersGoOn
<1>6. ListsTyped'
  BY <1>3 DEF ListsTyped
<1>7. InputsHeld'
  <2>1. DOMAIN obj' = {} /\ \A r \in BOOLEAN : DOMAIN inputs'[r] = {}
    BY <1>3
  <2> QED  BY <2>1 DEF InputsHeld
<1>8. ValuesTyped'
  BY <1>1, <1>3 DEF ValuesTyped, managerVars, recorderVars
<1> QED  BY <1>5, <1>6, <1>7, <1>8 DEF TInv, Data

LEMMA EndedCallTyped ==
  ASSUME TInv, EndedCall
  PROVE  TInv'
<1>1. /\ Handlers /\ Data /\ ListsTyped /\ ValuesTyped /\ ProgsTyped /\ StepsMeet /\ Counted
      /\ Doing("sip", "ended")
  BY DEF TInv, Data, Handlers, EndedCall
<1>2. PICK h \in StepRec :
        /\ h = Head(prog["sip"]) /\ h = prog["sip"][1] /\ h.do = "ended" /\ prog["sip"] # <<>>
        /\ StepMeets("sip", h)
  BY <1>1, AtStep DEF Threads
<1>3. UNCHANGED <<managerVars, recorderVars, bound, refs, mapped, auto, streams, recording,
                  mixerVars, merged>>
  BY DEF EndedCall
<1>4. calls' \in Seq(CallRec) /\ state' = StateOf(calls')
  <2> DEFINE k == CHOOSE k \in CallAt(h.call) : TRUE
  <2>1. calls' = RemoveAt(calls, k) /\ state' = StateOf(calls') /\ calls \in Seq(CallRec)
    BY <1>1, <1>2 DEF EndedCall, ListsTyped
  <2>2. k \in CallAt(h.call)
    BY <1>2 DEF StepMeets
  <2> HIDE DEF k
  <2>3. k \in 1 .. Len(calls)
    BY <2>1, <2>2 DEF CallAt
  <2> QED  BY <2>1, <2>3, Removed
<1>5. "sip" \in Threads /\ Len(prog["sip"]) = 1
  <2>1. "sip" \in Threads
    BY DEF Threads
  <2>2. Len(prog["sip"]) \in Nat /\ Len(prog["sip"]) > 0
    BY <1>1, <1>2, <2>1, FirstStep
  <2>3. 1 \in 1 .. Len(prog["sip"])
    BY <2>2
  <2> QED  BY <1>1, <1>2, <2>1, <2>3, LastStep
<1>6. PICK x \in StepRec : x = Step("stop", 0, FALSE) /\ x.do = "stop"
  BY StepOfNone
<1>7. PICK steps \in Seq(StepRec) :
        /\ InOrder(steps) /\ Then("sip", steps) /\ \A k \in 1 .. Len(steps) : steps[k] = x
  <2> DEFINE one == <<x>>
             none == <<>>
  <2>1. Then("sip", one) \/ Then("sip", none)
    BY <1>6 DEF EndedCall
  <2>2. /\ one \in Seq(StepRec) /\ Len(one) = 1 /\ one[1] = x /\ InOrder(one)
        /\ none \in Seq(StepRec) /\ Len(none) = 0 /\ InOrder(none)
    BY ShortSteps
  <2> HIDE DEF one, none
  <2>3. /\ \A n : n = 1 => \A k \in 1 .. n : k = 1
        /\ \A n : n = 0 => \A k \in 1 .. n : FALSE
    OBVIOUS
  <2>4. (\A k \in 1 .. Len(one) : one[k] = x) /\ (\A k \in 1 .. Len(none) : none[k] = x)
    BY <2>2, <2>3
  <2> QED  BY <2>1, <2>2, <2>4
<1>8. Handlers'
  <2>1. ~ (Len(prog["sip"]) > 1)
    BY <1>5
  <2>2. \A k \in 1 .. Len(steps) : StepMeets("sip", steps[k])' /\ steps[k].do # "release"
    <3>1. \A g : g = x => StepMeets("sip", g)' /\ g.do # "release"
      BY <1>6 DEF StepMeets
    <3> QED  BY <1>7, <3>1
  <2>3. \A u \in Threads : \A k \in 1 .. Len(prog[u]), g \in StepRec :
          (u # "sip" \/ k # 1) /\ g = prog[u][k] /\ StepMeets(u, g) => StepMeets(u, g)'
    <3> SUFFICES ASSUME NEW u \in Threads, NEW k \in 1 .. Len(prog[u]), NEW g \in StepRec,
                        u # "sip" \/ k # 1, g = prog[u][k], StepMeets(u, g)
                 PROVE  StepMeets(u, g)'
      OBVIOUS
    <3>1. \A n : n = 1 => \A j \in 1 .. n : j = 1
      OBVIOUS
    <3>2. u # "sip"
      BY <1>5, <3>1
    <3> QED  BY <1>3, <3>2 DEF StepMeets
  <2>4. Head(prog["sip"]).do # "release"
    BY <1>2
  <2> QED  BY <1>1, <1>2, <1>3, <1>5, <1>7, <2>1, <2>2, <2>3, <2>4, HandlersGoOn
<1>9. Data'
  BY <1>1, <1>3, <1>4, SameData DEF mixerVars, ListsTyped, ValuesTyped
<1> QED  BY <1>8, <1>9 DEF TInv

-----------------------------------------------------------------------------
\* A thread enters a handler.
LEMMA HandlerBegins ==
  ASSUME Handlers, NEW t \in Threads, NEW steps \in Seq(StepRec), InOrder(steps),
         Begin(t, steps), \A k \in 1 .. Len(steps) : StepMeets(t, steps[k])',
         \A u \in Threads \ {t} : \A k \in 1 .. Len(prog[u]), h \in StepRec :
           h = prog[u][k] /\ StepMeets(u, h) => StepMeets(u, h)'
  PROVE  /\ ProgsTyped' /\ StepsMeet' /\ prog'[t] = steps /\ ~ Returns(t)
         /\ \A u \in Threads \ {t} : Returns(u)' <=> Returns(u)
<1>1. ProgsTyped /\ StepsMeet /\ prog \in [Threads -> Seq(StepRec)]
  BY DEF Handlers, ProgsTyped
<1>2. /\ prog' \in [Threads -> Seq(StepRec)] /\ prog'[t] = steps /\ prog[t] = <<>>
      /\ \A u \in Threads \ {t} : prog'[u] = prog[u]
  BY <1>1 DEF Begin
<1>3. ProgsTyped'
  <2>1. \A u \in Threads : InOrder(prog'[u])
    BY <1>1, <1>2 DEF ProgsTyped
  <2> QED  BY <1>2, <2>1 DEF ProgsTyped, InOrder
<1>4. StepsMeet'
  <2> SUFFICES ASSUME NEW u \in Threads, NEW k \in 1 .. Len(prog'[u]), NEW h, h = prog'[u][k]
               PROVE  StepMeets(u, h)'
    BY DEF StepsMeet
  <2>1. CASE u = t
    BY <1>2, <2>1
  <2>2. CASE u # t
    <3>1. k \in 1 .. Len(prog[u]) /\ h = prog[u][k] /\ h \in StepRec
      BY <1>1, <1>2, <2>2
    <3>2. StepMeets(u, h)
      BY <1>1, <3>1 DEF StepsMeet
    <3> QED  BY <2>2, <3>1, <3>2
  <2> QED  BY <2>1, <2>2
<1>5. ~ Returns(t)
  <2>1. Len(prog[t]) = 0
    BY <1>2
  <2>2. \A n : n = 0 => \A k \in 1 .. n : FALSE
    OBVIOUS
  <2> QED  BY <2>1, <2>2 DEF Returns
<1>6. \A u \in Threads \ {t} : Returns(u)' <=> Returns(u)
  BY <1>2 DEF Returns
<1> QED  BY <1>2, <1>3, <1>4, <1>5, <1>6

\* SIPLib calls back, and what was relied on stays.
LEMMA CallbackTyped ==
  ASSUME TInv, NEW steps \in Seq(StepRec), InOrder(steps), Begin("sip", steps),
         UNCHANGED <<refs, mapped, streams>>, \A d : CallAt(d) # {} => CallAt(d)' # {}, Data',
         \A k \in 1 .. Len(steps) : StepMeets("sip", steps[k])' /\ steps[k].do # "release"
  PROVE  TInv'
<1>1. "sip" \in Threads /\ Handlers /\ Counted
  BY DEF Threads, TInv, Handlers
<1>2. \A u, h : StepMeets(u, h) => StepMeets(u, h)'
  BY DEF StepMeets, StreamIds
<1>3. /\ ProgsTyped' /\ StepsMeet' /\ prog'["sip"] = steps /\ ~ Returns("sip")
      /\ \A u \in Threads \ {"sip"} : Returns(u)' <=> Returns(u)
  BY <1>1, <1>2, HandlerBegins
<1>4. ~ Returns("sip")'
  BY <1>3 DEF Returns
<1>5. Counted'
  BY <1>1, <1>3, <1>4 DEF Counted, Threads
<1> QED  BY <1>3, <1>5 DEF TInv, Handlers

\* ... with one step, or none, to do.
LEMMA CallbackStepTyped ==
  ASSUME TInv, Data', UNCHANGED <<refs, mapped, streams>>,
         \A d : CallAt(d) # {} => CallAt(d)' # {},
         Begin("sip", <<>>) \/ \E x \in StepRec : /\ Begin("sip", <<x>>)
                                                  /\ mapped /\ x.do \in {"start", "add", "delete"}
  PROVE  TInv'
<1>1. CASE Begin("sip", <<>>)
  <2> DEFINE none == <<>>
  <2>1. none \in Seq(StepRec) /\ Len(none) = 0 /\ Begin("sip", none)
    BY <1>1
  <2>2. InOrder(none)
    BY DEF InOrder
  <2> HIDE DEF none
  <2>3. \A n : n = 0 => \A k \in 1 .. n : FALSE
    OBVIOUS
  <2>4. \A k \in 1 .. Len(none) : FALSE
    BY <2>1, <2>3
  <2> QED  BY <2>1, <2>2, <2>4, CallbackTyped
<1>2. ASSUME NEW x \in StepRec, Begin("sip", <<x>>), mapped, x.do \in {"start", "add", "delete"}
      PROVE  TInv'
  <2> DEFINE one == <<x>>
  <2>1. one \in Seq(StepRec) /\ Len(one) = 1 /\ one[1] = x /\ InOrder(one) /\ Begin("sip", one)
    BY <1>2, ShortSteps
  <2> HIDE DEF one
  <2>2. \A n : n = 1 => \A k \in 1 .. n : k = 1
    OBVIOUS
  <2>3. \A g : g = x => StepMeets("sip", g)' /\ g.do # "release"
    BY <1>2 DEF StepMeets
  <2>4. \A k \in 1 .. Len(one) : StepMeets("sip", one[k])' /\ one[k].do # "release"
    BY <2>1, <2>2, <2>3
  <2> QED  BY <2>1, <2>4, CallbackTyped
<1> QED  BY <1>1, <1>2

LEMMA NewCallTyped ==
  ASSUME TInv, NEW c \in CallIds, NEW o \in BOOLEAN, NewCall(c, o)
  PROVE  TInv'
<1>1. ListsTyped /\ InputsHeld /\ ValuesTyped
  BY DEF TInv, Data
<1>2. /\ UNCHANGED <<sess, nextId, recorderVars, bound, refs, mapped, auto, streams,
                     recording, mixerVars, merged>>
      /\ known' = known \cup {c} /\ (state' = state \/ state' = StateOf(calls'))
  BY DEF NewCall
<1>3. calls' \in Seq(CallRec) /\ \A d : CallAt(d) # {} => CallAt(d)' # {}
  BY <1>1, NewCallList DEF ListsTyped
<1>4. state' \in {"idle", "incoming", "outgoing"}
  BY <1>1, <1>2 DEF ValuesTyped, StateOf
<1>5. Data'
  BY <1>1, <1>2, <1>3, <1>4 DEF Data, ListsTyped, InputsHeld, ValuesTyped, recorderVars, mixerVars
<1>6. PICK x \in StepRec : x = Step("start", 0, FALSE) /\ x.do = "start"
  BY StepOfNone
<1>7. Begin("sip", <<>>) \/ (mapped /\ Begin("sip", <<x>>))
  BY <1>6 DEF NewCall
<1> QED  BY <1>2, <1>3, <1>5, <1>6, <1>7, CallbackStepTyped

LEMMA EndCallTyped ==
  ASSUME TInv, NEW c \in CallIds, EndCall(c)
  PROVE  TInv'
<1>1. ListsTyped /\ InputsHeld /\ ValuesTyped
  BY DEF TInv, Data
<1>2. /\ UNCHANGED <<sess, nextId, recorderVars, bound, terminalVars, streams, recording,
                     mixerVars, merged>>
      /\ known' = known \ {c}
  BY DEF EndCall
<1>3. UNCHANGED <<refs, mapped, calls, streams>>
  BY <1>2 DEF terminalVars
<1>4. \A d : CallAt(d)' = CallAt(d)
  BY <1>3 DEF CallAt
<1>5. Data'
  BY <1>1, <1>2 DEF Data, ListsTyped, InputsHeld, ValuesTyped, recorderVars, terminalVars, mixerVars
<1>6. CASE mapped /\ CallAt(c) # {}
  <2> DEFINE it == CHOOSE k \in CallAt(c) : TRUE
             ids == calls[it].ids
  <2>1. it \in DOMAIN calls
    BY <1>6 DEF CallAt
  <2>2. ids \in Seq(Nat)
    <3> HIDE DEF it
    <3>1. calls[it] \in CallRec
      BY <1>1, <2>1 DEF ListsTyped
    <3> QED  BY <3>1 DEF CallRec
  <2>3. Begin("sip", [i \in DOMAIN ids |-> Step("delete", ids[i], FALSE)]
                       \o <<[do |-> "ended", call |-> c]>>)
    BY <1>6 DEF EndCall
  <2> HIDE DEF ids
  <2>4. PICK steps \in Seq(StepRec) :
          /\ steps = [i \in DOMAIN ids |-> Step("delete", ids[i], FALSE)]
                       \o <<[do |-> "ended", call |-> c]>>
          /\ EndsCall(steps, ids, c)
    BY <2>2, EndSteps
  <2>5. Begin("sip", steps)
    BY <2>3, <2>4
  <2>6. InOrder(steps)
    BY <2>4 DEF EndsCall, InOrder, Comes, Chained
  <2>7. \A k \in 1 .. Len(steps) : StepMeets("sip", steps[k])' /\ steps[k].do # "release"
    <3> SUFFICES ASSUME NEW k \in 1 .. Len(steps), NEW g, g = steps[k]
                 PROVE  StepMeets("sip", g)' /\ g.do # "release"
      OBVIOUS
    <3>1. (g.do = "ended" /\ g.call = c) \/ g.do = "delete"
      BY <2>4, ZenonT(40) DEF EndsCall
    <3> QED  BY <1>3, <1>4, <1>6, <3>1 DEF StepMeets
  <2> QED  BY <1>3, <1>4, <1>5, <2>5, <2>6, <2>7, CallbackTyped
<1>7. CASE ~ (mapped /\ CallAt(c) # {})
  <2>1. Begin("sip", <<>>)
    BY <1>7 DEF EndCall
  <2> QED  BY <1>3, <1>4, <1>5, <2>1, CallbackStepTyped
<1> QED  BY <1>6, <1>7

LEMMA NewSessionTyped ==
  ASSUME TInv, NEW c \in CallIds, NEW p \in Ports, NewSession(c, p)
  PROVE  TInv'
<1>1. ListsTyped /\ InputsHeld /\ ValuesTyped
  BY DEF TInv, Data
<1>2. /\ nextId <= MaxId /\ nextId' = nextId + 1
      /\ sess' = Put(sess, nextId, c)
      /\ rec' = Put(rec, nextId, [port |-> p, on |-> FALSE])
      /\ UNCHANGED <<known, bound, refs, mapped, state, auto, streams, recording, mixerVars, merged>>
  BY DEF NewSession
<1>3. nextId \in Ids /\ nextId \in Nat /\ nextId' \in 1 .. MaxId + 1
  <2>1. MaxId \in Nat /\ nextId \in 1 .. MaxId + 1
    BY <1>1, RecordingAssumption, Zenon DEF ValuesTyped
  <2> QED  BY <1>2, <2>1 DEF Ids
<1>4. calls' \in Seq(CallRec) /\ \A d : CallAt(d) # {} => CallAt(d)' # {}
  BY <1>1, <1>3, NewSessionList DEF ListsTyped
<1>5. ValuesTyped'
  BY <1>1, <1>2, <1>3 DEF ValuesTyped, Put
<1>6. Data'
  BY <1>1, <1>2, <1>4, <1>5 DEF Data, ListsTyped, InputsHeld, mixerVars
<1>7. Begin("sip", <<>>) \/ (mapped /\ \E r \in BOOLEAN : Begin("sip", <<Step("add", nextId, r)>>))
  BY DEF NewSession
<1>8. ASSUME mapped, NEW r \in BOOLEAN, Begin("sip", <<Step("add", nextId, r)>>)
      PROVE  TInv'
  <2>1. PICK x \in StepRec : x = Step("add", nextId, r) /\ x.do = "add"
    BY <1>3, StepIs
  <2> QED  BY <1>2, <1>4, <1>6, <1>8, <2>1, CallbackStepTyped
<1> QED  BY <1>2, <1>4, <1>6, <1>7, <1>8, CallbackStepTyped

LEMMA ModifySessionTyped ==
  ASSUME TInv, NEW s \in Ids, NEW p \in Ports, ModifySession(s, p)
  PROVE  TInv'
<1>1. ListsTyped /\ InputsHeld /\ ValuesTyped
  BY DEF TInv, Data
<1>2. /\ rec' = [rec EXCEPT ![s].port = p] /\ Begin("sip", <<>>)
      /\ UNCHANGED <<managerVars, bound, terminalVars, streams, recording, mixerVars, merged>>
  BY DEF ModifySession
<1>3. DOMAIN rec' = DOMAIN rec /\ UNCHANGED <<refs, mapped, calls, streams>>
  BY <1>2 DEF terminalVars
<1>4. Data'
  BY <1>1, <1>2, <1>3 DEF Data, ListsTyped, InputsHeld, ValuesTyped, managerVars, terminalVars, mixerVars
<1>5. \A d : CallAt(d)' = CallAt(d)
  BY <1>3 DEF CallAt
<1> QED  BY <1>2, <1>3, <1>4, <1>5, CallbackStepTyped

LEMMA StopSessionTyped ==
  ASSUME TInv, NEW s \in Ids, StopSession(s)
  PROVE  TInv'
<1>1. ListsTyped /\ InputsHeld /\ ValuesTyped
  BY DEF TInv, Data
<1>2. /\ sess' = Without(sess, {s}) /\ rec' = Without(rec, {s}) /\ bound' = Without(bound, {s})
      /\ UNCHANGED <<known, nextId, terminalVars, streams, recording, mixerVars, merged>>
      /\ Begin("sip", IF mapped /\ sess[s] \in known THEN <<Step("delete", s, FALSE)>> ELSE <<>>)
  BY DEF StopSession
<1>3. UNCHANGED <<refs, mapped, calls, streams>>
  BY <1>2 DEF terminalVars
<1>4. ValuesTyped'
  BY <1>1, <1>2 DEF ValuesTyped, Without, terminalVars
<1>5. Data'
  BY <1>1, <1>2, <1>4 DEF Data, ListsTyped, InputsHeld, terminalVars, mixerVars
<1>6. \A d : CallAt(d)' = CallAt(d)
  BY <1>3 DEF CallAt
<1>7. PICK x \in StepRec : x = Step("delete", s, FALSE) /\ x.do = "delete"
  <2>1. s \in Nat
    BY DEF Ids
  <2> QED  BY <2>1, StepOfList
<1>8. Begin("sip", <<>>) \/ (mapped /\ Begin("sip", <<x>>))
  BY <1>2, <1>7
<1> QED  BY <1>3, <1>5, <1>6, <1>7, <1>8, CallbackStepTyped

\* The terminal leaves the maps, or the application uses it.
LEMMA HandedTyped ==
  ASSUME TInv, NEW t \in Threads, NEW steps \in Seq(StepRec), InOrder(steps), Begin(t, steps),
         \E k \in 1 .. Len(steps) : steps[k].do = "release",
         \A k \in 1 .. Len(steps) : steps[k].do \in {"start", "stop", "release"},
         mapped, UNCHANGED <<streams, calls>>, Data',
         \/ t = "sip" /\ mapped' = FALSE /\ refs' = refs
         \/ t = "api" /\ mapped' = mapped /\ refs' = refs + 1
  PROVE  TInv'
<1>1. Handlers /\ Counted /\ ProgsTyped
  BY DEF TInv, Handlers
<1>2. refs # 0
  BY <1>1 DEF Counted
<1>3. \A u \in Threads \ {t} : \A k \in 1 .. Len(prog[u]), h \in StepRec :
        h = prog[u][k] /\ StepMeets(u, h) => StepMeets(u, h)'
  <2> SUFFICES ASSUME NEW u \in Threads \ {t}, NEW k \in 1 .. Len(prog[u]), NEW h \in StepRec,
                      h = prog[u][k], StepMeets(u, h)
               PROVE  StepMeets(u, h)'
    OBVIOUS
  <2>1. h.do # "destroy"
    BY <1>1, <1>2, NotDestroyed
  <2> QED  BY <2>1 DEF StepMeets, StreamIds, CallAt, Threads
<1>4. \A k \in 1 .. Len(steps) : StepMeets(t, steps[k])'
  <2> SUFFICES ASSUME NEW k \in 1 .. Len(steps), NEW g, g = steps[k] PROVE StepMeets(t, g)'
    OBVIOUS
  <2> QED  BY DEF StepMeets
<1>5. /\ ProgsTyped' /\ StepsMeet' /\ prog'[t] = steps /\ ~ Returns(t)
      /\ \A u \in Threads \ {t} : Returns(u)' <=> Returns(u)
  BY <1>1, <1>3, <1>4, HandlerBegins
<1>6. Returns(t)'
  BY <1>5 DEF Returns
<1>7. mapped = TRUE
  BY DEF TInv, Data, ValuesTyped
<1>8. Counted'
  <2>1. CASE t = "sip" /\ mapped' = FALSE /\ refs' = refs
    <3>1. Returns("api")' <=> Returns("api")
      BY <1>5, <2>1 DEF Threads
    <3>2. Returns("sip")'
      BY <1>6, <2>1
    <3> QED  BY <1>1, <1>7, <2>1, <3>1, <3>2 DEF Counted
  <2>2. CASE t = "api" /\ mapped' = mapped /\ refs' = refs + 1
    <3>1. Returns("sip")' <=> Returns("sip")
      BY <1>5, <2>2 DEF Threads
    <3>2. Returns("api")' /\ ~ Returns("api")
      BY <1>5, <1>6, <2>2
    <3> QED  BY <1>1, <1>7, <2>2, <3>1, <3>2 DEF Counted
  <2> QED  BY <2>1, <2>2
<1> QED  BY <1>5, <1>8 DEF TInv, Handlers

LEMMA EndRegisterTyped ==
  ASSUME TInv, EndRegister
  PROVE  TInv'
<1>1. ListsTyped /\ InputsHeld /\ ValuesTyped
  BY DEF TInv, Data
<1>2. /\ UNCHANGED <<managerVars, recorderVars, bound, refs, calls, state, auto, streams,
                     recording, mixerVars, merged>>
      /\ mapped /\ mapped' = FALSE
  BY DEF EndRegister
<1>3. Data'
  <2>1. ListsTyped' /\ InputsHeld'
    BY <1>1, <1>2 DEF ListsTyped, InputsHeld, mixerVars
  <2>2. ValuesTyped'
    BY <1>1, <1>2 DEF ValuesTyped, managerVars, recorderVars
  <2> QED  BY <2>1, <2>2 DEF Data
<1>4. PICK x \in StepRec : x = Step("release", 0, FALSE) /\ x.do = "release"
  BY StepOfNone
<1> DEFINE one == <<x>>
<1>5. one \in Seq(StepRec) /\ Len(one) = 1 /\ one[1] = x /\ InOrder(one) /\ Begin("sip", one)
  BY <1>4, ShortSteps DEF EndRegister
<1> HIDE DEF one
<1>6. /\ \A n : n = 1 => \A k \in 1 .. n : k = 1
      /\ \A n : n = 1 => 1 \in 1 .. n
  OBVIOUS
<1>7. /\ \A k \in 1 .. Len(one) : one[k].do = "release"
      /\ \E k \in 1 .. Len(one) : one[k].do = "release"
  BY <1>4, <1>5, <1>6
<1> QED  BY <1>2, <1>3, <1>5, <1>7, HandedTyped DEF Threads

LEMMA ApplicationTyped ==
  ASSUME TInv, GetAudioData \/ \E what \in ApiCalls : Call(what)
  PROVE  TInv'
<1>1. ListsTyped /\ InputsHeld /\ ValuesTyped
  BY DEF TInv, Data
<1>2. /\ UNCHANGED <<managerVars, recorderVars, bound, mapped, calls, state, streams,
                     recording, mixerVars>>
      /\ mapped /\ refs' = refs + 1
      /\ auto' \in BOOLEAN /\ merged' \in BOOLEAN
  BY <1>1, Zenon DEF GetAudioData, Call, ValuesTyped
<1>3. Data'
  BY <1>1, <1>2 DEF Data, ListsTyped, InputsHeld, ValuesTyped, managerVars, recorderVars, mixerVars
<1>4. PICK x \in StepRec : x = Step("release", 0, FALSE) /\ x.do = "release"
  BY StepOfNone
<1>5. ASSUME NEW steps \in Seq(StepRec), InOrder(steps), Begin("api", steps),
             \E k \in 1 .. Len(steps) : steps[k].do = "release",
             \A k \in 1 .. Len(steps) : steps[k].do \in {"start", "stop", "release"}
      PROVE  TInv'
  BY <1>2, <1>3, <1>5, HandedTyped DEF Threads
<1> DEFINE one == <<x>>
<1>6. one \in Seq(StepRec) /\ Len(one) = 1 /\ one[1] = x /\ InOrder(one)
  BY ShortSteps
<1>7. CASE Begin("api", one)
  <2> HIDE DEF one
  <2>1. /\ \A n : n = 1 => \A k \in 1 .. n : k = 1
        /\ \A n : n = 1 => 1 \in 1 .. n
    OBVIOUS
  <2>2. /\ \A k \in 1 .. Len(one) : one[k].do = "release"
        /\ \E k \in 1 .. Len(one) : one[k].do = "release"
    BY <1>4, <1>6, <2>1
  <2> QED  BY <1>5, <1>6, <1>7, <2>2
<1>8. ASSUME NEW y \in StepRec, y.do \in {"start", "stop"}, Begin("api", <<y>> \o one)
      PROVE  TInv'
  <2> DEFINE first == <<y>>
             two == first \o one
  <2>1. first \in Seq(StepRec) /\ Len(first) = 1 /\ first[1] = y /\ Begin("api", two)
    BY <1>8, ShortSteps
  <2> HIDE DEF first, one
  <2>2. /\ two \in Seq(StepRec) /\ Len(two) = Len(first) + Len(one)
        /\ \A i \in 1 .. Len(first) + Len(one) :
             two[i] = IF i <= Len(first) THEN first[i] ELSE one[i - Len(first)]
    BY <1>6, <2>1, ConcatProperties
  <2> HIDE DEF two
  <2>3. Len(two) = 2 /\ two[1] = y /\ two[2] = x
    BY <1>6, <2>1, <2>2
  <2>4. Comes(y, x)
    BY <1>4, <1>8 DEF Comes
  <2>5. /\ \A n : n = 2 => \A k \in 1 .. n : k = 1 \/ k = 2
        /\ \A n : n = 2 => 2 \in 1 .. n
        /\ \A n : n = 2 => \A k \in 1 .. n - 1 : k = 1 /\ k + 1 = 2
    OBVIOUS
  <2>6. InOrder(two)
    BY <2>3, <2>4, <2>5 DEF InOrder
  <2>7. /\ \A k \in 1 .. Len(two) : two[k].do \in {"start", "stop", "release"}
        /\ \E k \in 1 .. Len(two) : two[k].do = "release"
    BY <1>4, <1>8, <2>3, <2>5
  <2> QED  BY <1>5, <2>1, <2>2, <2>6, <2>7
<1>9. CASE GetAudioData
  BY <1>4, <1>7, <1>9 DEF GetAudioData
<1>10. ASSUME NEW what \in ApiCalls, Call(what) PROVE TInv'
  <2>1. Begin("api", (CASE what = "monitor"     -> <<Step("start", 0, FALSE)>>
                        [] what = "end monitor" -> <<Step("stop", 0, FALSE)>>
                        [] OTHER                -> <<>>) \o one)
    BY <1>4, <1>10, Zenon DEF Call
  <2>2. <<>> \o one = one
    BY <1>6, ConcatEmptySeq
  <2>3. PICK y \in StepRec, z \in StepRec : /\ y = Step("start", 0, FALSE) /\ y.do = "start"
                                           /\ z = Step("stop", 0, FALSE) /\ z.do = "stop"
    BY StepOfNone
  <2>4. CASE what = "monitor"
    <3>1. Begin("api", <<y>> \o one)
      BY <2>1, <2>3, <2>4
    <3> QED  BY <1>8, <2>3, <3>1
  <2>5. CASE what = "end monitor"
    <3>1. Begin("api", <<z>> \o one)
      BY <2>1, <2>3, <2>5, Zenon
    <3> QED  BY <1>8, <2>3, <3>1
  <2>6. CASE what # "monitor" /\ what # "end monitor"
    <3>1. Begin("api", one)
      BY <2>1, <2>2, <2>6, Zenon
    <3> QED  BY <1>7, <3>1
  <2> QED  BY <2>4, <2>5, <2>6, Zenon
<1> QED  BY <1>9, <1>10

\* What the other steps leave alone.
LEMMA StillTyped ==
  ASSUME TInv, UNCHANGED <<managerVars, recorderVars, bound, terminalVars, streams, recording,
                           inputs, prog>>,
         DOMAIN obj' = DOMAIN obj, merged' \in BOOLEAN
  PROVE  TInv'
<1>1. ListsTyped /\ InputsHeld /\ ValuesTyped /\ ProgsTyped /\ StepsMeet /\ Counted
  BY DEF TInv, Data, Handlers
<1>2. ListsTyped' /\ InputsHeld' /\ ValuesTyped'
  BY <1>1 DEF ListsTyped, InputsHeld, ValuesTyped, managerVars, recorderVars, terminalVars
<1>3. ProgsTyped' /\ Counted'
  BY <1>1 DEF ProgsTyped, InOrder, Counted, Returns, terminalVars
<1>4. StepsMeet'
  <2>1. \A u, h : StepMeets(u, h) <=> StepMeets(u, h)'
    BY SameMeets DEF terminalVars
  <2> SUFFICES ASSUME NEW u \in Threads, NEW k \in 1 .. Len(prog'[u]), NEW h, h = prog'[u][k]
               PROVE  StepMeets(u, h)'
    BY DEF StepsMeet
  <2>2. k \in 1 .. Len(prog[u]) /\ h = prog[u][k]
    OBVIOUS
  <2> QED  BY <1>1, <2>1, <2>2 DEF StepsMeet
<1> QED  BY <1>2, <1>3, <1>4 DEF TInv, Data, Handlers

LEMMA InitTyped == Init => TInv
<1> SUFFICES ASSUME Init PROVE TInv
  OBVIOUS
<1>1. ListsTyped /\ InputsHeld
  <2>1. streams = <<>> /\ calls = <<>> /\ inputs = [r \in BOOLEAN |-> <<>>] /\ obj = [a \in {} |-> 0]
    BY DEF Init
  <2>2. DOMAIN obj = {} /\ \A r \in BOOLEAN : DOMAIN inputs[r] = {}
    BY <2>1
  <2>3. ListsTyped
    BY <2>1 DEF ListsTyped
  <2> QED  BY <2>2, <2>3 DEF InputsHeld
<1>2. ValuesTyped
  <2>1. MaxId \in Nat /\ AutoAtStart \in BOOLEAN
    BY RecordingAssumption, Zenon
  <2>2. nextId = 1 /\ 1 \in 1 .. MaxId + 1
    BY <2>1 DEF Init
  <2>3. DOMAIN sess = {} /\ DOMAIN rec = {} /\ DOMAIN bound = {}
    BY DEF Init
  <2>4. /\ known \subseteq CallIds /\ mapped = TRUE /\ state = "idle"
        /\ recording = FALSE /\ auto = AutoAtStart /\ merged = FALSE
    BY DEF Init
  <2> QED  BY <2>1, <2>2, <2>3, <2>4 DEF ValuesTyped
<1>3. \A t \in Threads : prog[t] = <<>> /\ Len(prog[t]) = 0
  BY DEF Init
<1>4. \A n : n = 0 => (\A k \in 1 .. n : FALSE) /\ (\A k \in 1 .. n - 1 : FALSE)
  OBVIOUS
<1>5. ProgsTyped
  <2>1. prog \in [Threads -> Seq(StepRec)]
    BY DEF Init
  <2> QED  BY <1>3, <1>4, <2>1 DEF ProgsTyped, InOrder
<1>6. StepsMeet /\ \A t \in Threads : ~ Returns(t)
  BY <1>3, <1>4 DEF StepsMeet, Returns
<1>7. Counted
  BY <1>6 DEF Init, Counted, Threads
<1> QED  BY <1>1, <1>2, <1>5, <1>6, <1>7 DEF TInv, Data, Handlers

\* SIPManager.cpp, Terminal.cpp and TerminalAudio.cpp: the values are of their types,
\* whatever the application calls, MP_AudioMonitor included.  The counting of references
\* (CTerminal::AddRef, Release) is exact, so that there are never more than two, and the
\* two mixers share no input.
THEOREM AlwaysTyped == Spec => []TypeOK
<1>1. TInv /\ [Next]_vars => TInv'
  <2> SUFFICES ASSUME TInv, [Next]_vars PROVE TInv'
    OBVIOUS
  <2>1. ASSUME NEW c \in CallIds, NEW o \in BOOLEAN, NewCall(c, o) PROVE TInv'
    BY <2>1, NewCallTyped
  <2>2. ASSUME NEW c \in CallIds, EndCall(c) PROVE TInv'
    BY <2>2, EndCallTyped
  <2>3. ASSUME NEW c \in CallIds, NEW p \in Ports, NewSession(c, p) PROVE TInv'
    BY <2>3, NewSessionTyped
  <2>4. ASSUME NEW s \in Ids, StopSession(s) PROVE TInv'
    BY <2>4, StopSessionTyped
  <2>5. ASSUME NEW s \in Ids, NEW p \in Ports, ModifySession(s, p) PROVE TInv'
    BY <2>5, ModifySessionTyped
  <2>6. CASE EndRegister
    BY <2>6, EndRegisterTyped
  <2>7. CASE GetAudioData \/ \E what \in ApiCalls : Call(what)
    BY <2>7, ApplicationTyped
  <2>8. CASE FlushStream
    <3>1. /\ UNCHANGED <<managerVars, recorderVars, bound, terminalVars, streams, recording,
                         inputs, prog>>
          /\ DOMAIN obj' = DOMAIN obj /\ merged' \in BOOLEAN
      BY <2>8, Zenon DEF FlushStream
    <3> QED  BY <3>1, StillTyped
  <2>9. CASE EndedCall
    BY <2>9, EndedCallTyped
  <2>10. ASSUME NEW t \in Threads, ThreadStep(t) PROVE TInv'
    <3>1. CASE CreateInput(t) \/ StartRecord(t) \/ StopRecord(t) \/ DeleteInput(t)
      BY <3>1, CreateInputTyped, StartRecordTyped, StopRecordTyped, DeleteInputTyped
    <3>2. CASE AddNewStream(t) \/ AddedStream(t) \/ DeleteStream(t) \/ EraseStream(t)
      BY <3>2, AddNewStreamTyped, AddedStreamTyped, DeleteStreamTyped, EraseStreamTyped
    <3>3. CASE \E on \in BOOLEAN : SetRecording(t, on)
      BY <3>3, SetRecordingTyped
    <3>4. CASE RecordNext(t, "record", "input")
      BY <3>4, RecordNextTyped
    <3>5. CASE RecordNext(t, "unrecord", "unbind")
      BY <3>5, RecordNextTyped
    <3>6. CASE Release(t) \/ Destroy(t)
      BY <3>6, ReleaseTyped, DestroyTyped
    <3> QED  BY <2>10, <3>1, <3>2, <3>3, <3>4, <3>5, <3>6 DEF ThreadStep
  <2>11. CASE UNCHANGED vars
    <3>1. UNCHANGED <<managerVars, recorderVars, bound, terminalVars, streams, recording,
                      inputs, prog, obj, merged>>
      BY <2>11 DEF vars, mixerVars
    <3>2. merged' \in BOOLEAN
      BY <3>1 DEF TInv, Data, ValuesTyped
    <3> QED  BY <3>1, <3>2, StillTyped
  <2> QED  BY <2>1, <2>2, <2>3, <2>4, <2>5, <2>6, <2>7, <2>8, <2>9, <2>10, <2>11 DEF Next, Event
<1> QED  BY <1>1, InitTyped, TypesFollow, PTL DEF Spec

=============================================================================
