------------------------- MODULE RecordingCallsProofs -------------------------
(***************************************************************************)
(* While CTerminalAudio records, the sessions of all calls of the terminal *)
(* are recorded and no input of a mixer is left that nobody feeds          *)
(* (Recording.CallsRecorded), for any calls, sessions, ports and inputs,   *)
(* where recording is automatic from the start and the application does    *)
(* not call MP_AudioMonitor: without that CTerminalAudio::DeleteStream     *)
(* keeps the streams that end while nothing is recorded.                   *)
(*                                                                         *)
(* As long as the terminal is in the maps only the callbacks of SIPLib     *)
(* work on it, so that what is left to do is one list of steps, and the    *)
(* invariant says of every stream and of every input which of these steps  *)
(* accounts for it where it is not yet, or no longer, recorded.            *)
(***************************************************************************)
EXTENDS RecordingProofs

\* What the callbacks of SIPLib have still to do, and the first step of it.
Sip == prog["sip"]
Do == IF Len(Sip) > 0 THEN Sip[1].do ELSE "idle"
Id == Sip[1].id

Removal == {"delete", "unbind", "uninput", "erase"}

\* The call c is to leave the list, and the stream of session s is to be deleted.
Ending(c) == \E k \in 1 .. Len(Sip) : Sip[k].do = "ended" /\ Sip[k].call = c
Leaving(s) == \E k \in 1 .. Len(Sip) : Sip[k].do \in Removal /\ Sip[k].id = s

\* Streams are deleted one after the other, each with all its steps.
Shape ==
  /\ Do \notin {"release", "destroy"}
  /\ \A k \in 2 .. Len(Sip) : Sip[k].do \in {"erase", "delete", "ended"}
  /\ Do \in {"unbind", "uninput"} => Len(Sip) > 1 /\ Sip[2].do = "erase"

\* The terminal records while it has calls, and has streams only then.
Phase ==
  /\ auto
  /\ Do \notin {"start", "stop", "unrecord"} => (recording <=> calls # <<>>)
  /\ ~ recording \/ Do \in {"stop", "record", "unrecord"} => streams = <<>>
  /\ Do \in {"stop", "unrecord"} => calls = <<>>
  /\ Do = "start" => calls # <<>>
  /\ Do = "unrecord" => ~ recording

SessionsOf(k) == ToSet(calls[k].ids)
OfCall(s) == \E k \in DOMAIN calls : s \in SessionsOf(k)

\* A call is listed once, as long as CSIPManager knows it, with its own sessions.
CallsOK ==
  /\ \A j, k \in DOMAIN calls : calls[j].call = calls[k].call => j = k
  /\ \A k \in DOMAIN calls : calls[k].call \in known \/ Ending(calls[k].call)
  /\ \A k \in DOMAIN calls : \A s \in SessionsOf(k) :
       s < nextId /\ (s \in DOMAIN sess => sess[s] = calls[k].call)
  /\ \A j, k \in DOMAIN calls : \A s \in SessionsOf(j) : s \in SessionsOf(k) => j = k

\* The sessions of a call have streams, which go before the call does.
ListedOK ==
  /\ \A s \in StreamIds : OfCall(s)
  /\ Do \in {"add", "added"} => OfCall(Id)
  /\ \A k \in DOMAIN calls : \A s \in SessionsOf(k) :
       IF Ending(calls[k].call) THEN s \in StreamIds => Leaving(s)
       ELSE s \in DOMAIN rec => ~ Leaving(s) /\ (s \in StreamIds \/ (Do = "add" /\ Id = s))

\* A stream that no step is about is recorded.
FedOK ==
  /\ \A s \in StreamIds :
       \/ s \in DOMAIN rec /\ s \in DOMAIN bound /\ rec[s].on
       \/ Id = s /\ Do \in Removal \cup {"added", "input", "bind"}
  /\ Do \in {"add", "added", "input", "bind"} => Id \in DOMAIN rec /\ Id \notin DOMAIN bound

\* An input is that of its stream, or will be, or is about to go.
OwnedOK ==
  \A a \in DOMAIN obj :
    /\ obj[a].id \in StreamIds
    /\ \/ obj[a].id \in DOMAIN bound /\ bound[obj[a].id] = a
       \/ obj[a].id = Id /\ Do \in {"delete", "unbind", "uninput"}
       \/ obj[a].id = Id /\ Do = "bind" /\ Sip[1].input = a

OneInput == \A a, b \in DOMAIN obj : obj[a].id = obj[b].id => a = b

Mixed(a, r) == \E k \in DOMAIN inputs[r] : inputs[r][k] = a

\* The mixers have the inputs there are, each once.
MixedOK ==
  /\ \A a \in DOMAIN obj : \E r \in BOOLEAN : Mixed(a, r)
  /\ \A r \in BOOLEAN : \A k \in DOMAIN inputs[r] : inputs[r][k] \in DOMAIN obj
  /\ \A r \in BOOLEAN : \A j, k \in DOMAIN inputs[r] : inputs[r][j] = inputs[r][k] => j = k

\* ... the stream of session s is one of mixer r.
SideIs(s, r) == \A k \in DOMAIN streams : streams[k].id = s => streams[k].remote = r

\* An input is in the mixer that its stream belongs to.
SidesOK ==
  /\ \A r \in BOOLEAN : \A k \in DOMAIN inputs[r] : SideIs(obj[inputs[r][k]].id, r)
  /\ Do \in {"added", "input", "unbind", "uninput"} => SideIs(Id, Sip[1].remote)

Recorded ==
  /\ Shape /\ Phase /\ CallsOK /\ ListedOK /\ FedOK
  /\ OwnedOK /\ OneInput /\ MixedOK /\ SidesOK

Leftover == {"release", "stop", "destroy", "unrecord", "unbind", "uninput"}

\* Once the terminal has left the maps nothing is left to do but to delete it.
LeftoverOK == \A t \in Threads : \A k \in 1 .. Len(prog[t]) : prog[t][k].do \in Leftover

\* The last reference ends the recording.
QuietOK == refs = 0 /\ recording => \E t \in Threads : Doing(t, "stop")

CInv == IF mapped THEN Recorded ELSE LeftoverOK /\ QuietOK

-----------------------------------------------------------------------------
\* What is to be done first.
LEMMA HeadIs ==
  ASSUME ProgOK
  PROVE  /\ Len(Sip) \in Nat
         /\ \A d : Doing("sip", d) => Len(Sip) > 0 /\ Sip[1].do = d /\ Do = d
         /\ Len(Sip) > 0 => Head(Sip) = Sip[1] /\ Sip[1] \in StepRec /\ Do = Sip[1].do
         /\ (Sip = <<>>) <=> ~ (Len(Sip) > 0)
         /\ Sip = <<>> <=> Do = "idle"
<1>1. "sip" \in Threads
  BY DEF Threads
<1>2. /\ Len(Sip) \in Nat /\ ((Sip # <<>>) <=> (Len(Sip) > 0))
      /\ Len(Sip) > 0 => Sip[1] \in StepRec /\ Head(Sip) = Sip[1]
      /\ \A d : Doing("sip", d) => Len(Sip) > 0 /\ Sip[1].do = d
  BY <1>1, First DEF Sip, Doing
<1>3. \A h \in StepRec : h.do # "idle"
  BY DEF StepRec
<1> QED  BY <1>2, <1>3 DEF Do

\* The first step is done, and the next one follows.
LEMMA Finished ==
  ASSUME ProgOK, Shape, Len(Sip) > 0, Then("sip", <<>>)
  PROVE  /\ Shape'
         /\ Do' \in {"idle", "erase", "delete", "ended"}
         /\ Do' = "erase" <=> Do \in {"unbind", "uninput"}
         /\ Do' = "erase" => Id' = Id
         /\ Do' # "idle" => Do \in Removal
         /\ Do # "ended" => \A c : Ending(c)' <=> Ending(c)
         /\ \A s : Leaving(s) => Leaving(s)' \/ (s = Id /\ Do \in Removal /\ Do' # "erase")
         /\ \A s : Leaving(s)' => Leaving(s)
         /\ prog'["api"] = prog["api"]
<1>1. "sip" \in Threads /\ "api" \in Threads \ {"sip"}
  BY DEF Threads
<1>2. Len(Sip) \in Nat /\ Do = Sip[1].do
  BY HeadIs
<1>3. /\ ProgOK' /\ Len(Sip') = Len(Sip) - 1 /\ prog'["api"] = prog["api"]
      /\ \A k \in 1 .. Len(Sip') : Sip'[k] = Sip[k + 1]
  <2> DEFINE none == <<>>
  <2>1. none \in Seq(StepRec) /\ Len(none) = 0 /\ Chained(none) /\ Then("sip", none)
    BY DEF Chained
  <2> HIDE DEF none
  <2>2. ~ (Len(none) > 0)
    BY <2>1
  <2>3. /\ ProgOK'
        /\ Len(prog'["sip"]) = Len(none) + Len(prog["sip"]) - 1
        /\ \A i \in 1 .. Len(prog'["sip"]) :
             prog'["sip"][i] = IF i <= Len(none) THEN none[i] ELSE prog["sip"][i - Len(none) + 1]
        /\ \A u \in Threads \ {"sip"} : prog'[u] = prog[u]
    BY <1>1, <2>1, <2>2, ThenIs DEF Sip
  <2>4. \A i \in 1 .. Len(Sip') : Sip'[i] = Sip[i + 1]
    <3> TAKE i \in 1 .. Len(Sip')
    <3>1. ~ (i <= Len(none)) /\ i - Len(none) + 1 = i + 1
      BY <2>1
    <3> QED  BY <2>3, <3>1 DEF Sip
  <2> QED  BY <1>1, <1>2, <2>1, <2>3, <2>4 DEF Sip
<1>4. \A k \in 2 .. Len(Sip) : k - 1 \in 1 .. Len(Sip') /\ Sip'[k - 1] = Sip[k]
  BY <1>2, <1>3
<1>5. \A k \in 1 .. Len(Sip') : k + 1 \in 2 .. Len(Sip) /\ Sip'[k] = Sip[k + 1]
  BY <1>2, <1>3
<1>6. \A k \in 1 .. Len(Sip) : k = 1 \/ k \in 2 .. Len(Sip)
  BY <1>2
<1>7. /\ Len(Sip') > 0 <=> Len(Sip) > 1
      /\ Len(Sip) > 1 => /\ Sip'[1] = Sip[2] /\ Follows(Sip[1], Sip[2])
                         /\ Sip[2].do \in {"erase", "delete", "ended"}
  <2>1. Len(Sip') > 0 <=> Len(Sip) > 1
    BY <1>2, <1>3
  <2>2. Len(Sip) > 1 => 2 \in 2 .. Len(Sip) /\ 1 \in 1 .. Len(Sip')
    BY <1>2, <1>3
  <2>3. Len(Sip) > 1 => Follows(Sip[1], Sip[2])
    BY <1>1, First DEF Sip
  <2> QED  BY <1>5, <2>1, <2>2, <2>3 DEF Shape
<1>8. /\ Do' = IF Len(Sip) > 1 THEN Sip[2].do ELSE "idle"
      /\ Len(Sip) > 1 => Id' = Sip[2].id
  BY <1>7 DEF Do, Id
<1>9. Len(Sip) > 1 /\ Sip[2].do = "erase" => Do \in {"unbind", "uninput"} /\ Id' = Id
  BY <1>2, <1>7, <1>8 DEF Follows, Id
<1>10. Do \in {"unbind", "uninput"} => Len(Sip) > 1 /\ Sip[2].do = "erase"
  BY DEF Shape
<1>11. Len(Sip) > 1 => Do \in Removal
  BY <1>2, <1>7 DEF Follows, Removal
<1>12. Shape'
  <2>1. \A k \in 2 .. Len(Sip') : Sip'[k].do \in {"erase", "delete", "ended"}
    <3> TAKE k \in 2 .. Len(Sip')
    <3>1. k \in 1 .. Len(Sip')
      BY <1>3
    <3> QED  BY <1>5, <3>1 DEF Shape
  <2> QED  BY <1>7, <1>8, <2>1 DEF Shape
<1>13. Do # "ended" => \A c : Ending(c)' <=> Ending(c)
  <2> HAVE Do # "ended"
  <2> TAKE c
  <2>1. Ending(c)' => Ending(c)
    <3> SUFFICES ASSUME NEW k \in 1 .. Len(Sip'), Sip'[k].do = "ended", Sip'[k].call = c
                 PROVE  Ending(c)
      BY DEF Ending
    <3>1. k + 1 \in 1 .. Len(Sip)
      BY <1>2, <1>3
    <3> QED  BY <1>5, <3>1 DEF Ending
  <2>2. Ending(c) => Ending(c)'
    BY <1>2, <1>4, <1>6 DEF Ending
  <2> QED  BY <2>1, <2>2
<1>14. \A s : Leaving(s) => Leaving(s)' \/ (s = Id /\ Do \in Removal)
  BY <1>2, <1>4, <1>6 DEF Leaving, Id
<1>15. Do' = "erase" => Leaving(Id)'
  <2> HAVE Do' = "erase"
  <2>1. Len(Sip') > 0 /\ Sip'[1].do = "erase" /\ Sip'[1].id = Id /\ Len(Sip') \in Nat
    BY <1>2, <1>3, <1>7, <1>8, <1>9
  <2>2. 1 \in 1 .. Len(Sip')
    BY <2>1
  <2>3. \E k \in 1 .. Len(Sip') : Sip'[k].do \in Removal /\ Sip'[k].id = Id'
    BY <1>8, <1>9, <2>1, <2>2 DEF Removal
  <2> QED  BY <1>8, <1>9, <2>1, <2>3 DEF Leaving
<1>16. \A s : Leaving(s)' => Leaving(s)
  <2> SUFFICES ASSUME NEW s, NEW k \in 1 .. Len(Sip'), Sip'[k].do \in Removal, Sip'[k].id = s
               PROVE  Leaving(s)
    BY DEF Leaving
  <2>1. k + 1 \in 1 .. Len(Sip)
    BY <1>2, <1>3
  <2> QED  BY <1>5, <2>1 DEF Leaving
<1> QED  BY <1>3, <1>7, <1>8, <1>9, <1>10, <1>11, <1>12, <1>13, <1>14, <1>15, <1>16

\* The first step leads to another, about the same stream if it is to delete it.
LEMMA Replaced ==
  ASSUME ProgOK, Shape, Len(Sip) > 0, NEW x \in StepRec, Then("sip", <<x>>),
         Len(Sip) > 1 => Follows(x, Sip[2]),
         x.do \notin {"ended", "release", "destroy", "unbind"}, Do # "ended",
         x.do = "uninput" => Do = "unbind",
         x.do \in Removal <=> Do \in Removal, Do \in Removal => x.id = Id
  PROVE  /\ Shape' /\ Do' = x.do /\ Sip'[1] = x /\ Id' = x.id
         /\ \A c : Ending(c)' <=> Ending(c)
         /\ \A s : Leaving(s)' <=> Leaving(s)
         /\ prog'["api"] = prog["api"]
<1>1. "sip" \in Threads /\ "api" \in Threads \ {"sip"}
  BY DEF Threads
<1>2. Len(Sip) \in Nat /\ Do = Sip[1].do
  BY HeadIs
<1>3. /\ Len(Sip') = Len(Sip) /\ prog'["api"] = prog["api"]
      /\ Sip'[1] = x /\ \A k \in 2 .. Len(Sip) : Sip'[k] = Sip[k]
  <2> DEFINE one == <<x>>
  <2>1. one \in Seq(StepRec) /\ Len(one) = 1 /\ one[1] = x /\ Chained(one) /\ Then("sip", one)
    BY OneStep
  <2> HIDE DEF one
  <2>2. /\ Len(prog'["sip"]) = Len(one) + Len(prog["sip"]) - 1
        /\ \A i \in 1 .. Len(prog'["sip"]) :
             prog'["sip"][i] = IF i <= Len(one) THEN one[i] ELSE prog["sip"][i - Len(one) + 1]
        /\ \A u \in Threads \ {"sip"} : prog'[u] = prog[u]
    BY <1>1, <2>1, ThenIs DEF Sip
  <2>3. Len(Sip') = Len(Sip)
    BY <1>2, <2>1, <2>2 DEF Sip
  <2>4. Sip'[1] = x
    BY <1>2, <2>1, <2>2, <2>3 DEF Sip
  <2>5. \A k \in 2 .. Len(Sip) : Sip'[k] = Sip[k]
    <3> TAKE k \in 2 .. Len(Sip)
    <3>1. k \in 1 .. Len(Sip') /\ ~ (k <= Len(one)) /\ k - Len(one) + 1 = k
      BY <1>2, <2>1, <2>3
    <3> QED  BY <2>2, <3>1 DEF Sip
  <2> QED  BY <1>1, <2>2, <2>3, <2>4, <2>5
<1>4. \A k \in 1 .. Len(Sip) : k = 1 \/ k \in 2 .. Len(Sip)
  BY <1>2
<1>5. Do' = x.do /\ Id' = x.id
  BY <1>3 DEF Do, Id
<1>6. Shape'
  <2>1. Len(Sip) > 1 => 2 \in 2 .. Len(Sip)
    BY <1>2
  <2>2. \A k \in 2 .. Len(Sip') : Sip'[k].do \in {"erase", "delete", "ended"}
    BY <1>3 DEF Shape
  <2>3. Do' \in {"unbind", "uninput"} => Len(Sip') > 1 /\ Sip'[2].do = "erase"
    BY <1>3, <1>5, <2>1 DEF Shape
  <2> QED  BY <1>5, <2>2, <2>3 DEF Shape
<1>7. \A c : Ending(c)' <=> Ending(c)
  BY <1>2, <1>3, <1>4 DEF Ending
<1>8. \A s : Leaving(s)' <=> Leaving(s)
  BY <1>2, <1>3, <1>4 DEF Leaving, Id
<1> QED  BY <1>3, <1>5, <1>6, <1>7, <1>8

\* CTerminalAudio::DeleteStream has found the stream.
LEMMA Found ==
  ASSUME ProgOK, Shape, Do = "delete", Len(Sip) > 0, NEW x \in StepRec, NEW y \in StepRec,
         Then("sip", <<x, y>>), x.do = "unbind", y.do = "erase", x.id = Id, y.id = Id
  PROVE  /\ Shape' /\ Do' = "unbind" /\ Sip'[1] = x /\ Id' = Id
         /\ \A c : Ending(c)' <=> Ending(c)
         /\ \A s : Leaving(s)' <=> Leaving(s)
         /\ prog'["api"] = prog["api"]
<1>1. "sip" \in Threads /\ "api" \in Threads \ {"sip"}
  BY DEF Threads
<1>2. Len(Sip) \in Nat /\ Do = Sip[1].do
  BY HeadIs
<1>3. Len(Sip) > 1 => Follows(y, Sip[2])
  <2>1. Len(Sip) > 1 => Follows(Sip[1], Sip[2])
    BY <1>1, First DEF Sip
  <2> QED  BY <1>2, <2>1 DEF Follows
<1>4. /\ Len(Sip') = Len(Sip) + 1 /\ prog'["api"] = prog["api"]
      /\ Sip'[1] = x /\ Sip'[2] = y /\ \A k \in 2 .. Len(Sip) : Sip'[k + 1] = Sip[k]
  <2> DEFINE two == <<x, y>>
  <2>1. /\ two \in Seq(StepRec) /\ Len(two) = 2 /\ two[1] = x /\ two[2] = y /\ Then("sip", two)
    OBVIOUS
  <2>2. Chained(two)
    BY DEF Chained, Follows
  <2> HIDE DEF two
  <2>3. /\ Len(prog'["sip"]) = Len(two) + Len(prog["sip"]) - 1
        /\ \A i \in 1 .. Len(prog'["sip"]) :
             prog'["sip"][i] = IF i <= Len(two) THEN two[i] ELSE prog["sip"][i - Len(two) + 1]
        /\ \A u \in Threads \ {"sip"} : prog'[u] = prog[u]
    BY <1>1, <1>3, <2>1, <2>2, ThenIs DEF Sip
  <2>4. Len(Sip') = Len(Sip) + 1
    BY <1>2, <2>1, <2>3 DEF Sip
  <2>5. Sip'[1] = x /\ Sip'[2] = y
    <3>1. 1 \in 1 .. Len(Sip') /\ 2 \in 1 .. Len(Sip') /\ 1 <= Len(two) /\ 2 <= Len(two)
      BY <1>2, <2>1, <2>4
    <3> QED  BY <2>1, <2>3, <3>1 DEF Sip
  <2>6. \A k \in 2 .. Len(Sip) : Sip'[k + 1] = Sip[k]
    <3> TAKE k \in 2 .. Len(Sip)
    <3>1. k + 1 \in 1 .. Len(Sip') /\ ~ (k + 1 <= Len(two)) /\ k + 1 - Len(two) + 1 = k
      BY <1>2, <2>1, <2>4
    <3> QED  BY <2>3, <3>1, SMTT(30) DEF Sip
  <2> QED  BY <1>1, <2>3, <2>4, <2>5, <2>6
<1>5. \A k \in 1 .. Len(Sip) : k = 1 \/ k \in 2 .. Len(Sip)
  BY <1>2
<1>6. \A k \in 1 .. Len(Sip') : k = 1 \/ k = 2 \/ (k - 1 \in 2 .. Len(Sip) /\ k - 1 + 1 = k)
  BY <1>2, <1>4
<1>7. \A k \in 2 .. Len(Sip) : k + 1 \in 1 .. Len(Sip')
  BY <1>2, <1>4
<1>8. 1 \in 1 .. Len(Sip') /\ 2 \in 1 .. Len(Sip') /\ Len(Sip') > 1
  BY <1>2, <1>4
<1>9. Do' = "unbind" /\ Id' = Id
  BY <1>2, <1>4, <1>8 DEF Do, Id
<1>10. Shape'
  <2>1. \A k \in 2 .. Len(Sip') : Sip'[k].do \in {"erase", "delete", "ended"}
    <3> TAKE k \in 2 .. Len(Sip')
    <3>1. k \in 1 .. Len(Sip') /\ k # 1
      BY <1>2, <1>4
    <3>2. CASE k = 2
      BY <1>4, <3>2
    <3>3. CASE k - 1 \in 2 .. Len(Sip) /\ k - 1 + 1 = k
      <4>1. Sip'[k] = Sip[k - 1]
        BY <1>4, <3>3
      <4> QED  BY <3>3, <4>1 DEF Shape
    <3> QED  BY <1>6, <3>1, <3>2, <3>3
  <2> QED  BY <1>4, <1>8, <1>9, <2>1 DEF Shape
<1>11. \A c : Ending(c)' <=> Ending(c)
  <2> TAKE c
  <2>1. Ending(c)' => Ending(c)
    <3> SUFFICES ASSUME NEW k \in 1 .. Len(Sip'), Sip'[k].do = "ended", Sip'[k].call = c
                 PROVE  Ending(c)
      BY DEF Ending
    <3>1. k # 1 /\ k # 2
      BY <1>4
    <3>2. k - 1 \in 2 .. Len(Sip) /\ Sip'[k] = Sip[k - 1]
      BY <1>4, <1>6, <3>1
    <3>3. k - 1 \in 1 .. Len(Sip)
      BY <1>2, <3>2
    <3> QED  BY <3>2, <3>3 DEF Ending
  <2>2. Ending(c) => Ending(c)'
    <3> SUFFICES ASSUME NEW k \in 1 .. Len(Sip), Sip[k].do = "ended", Sip[k].call = c
                 PROVE  Ending(c)'
      BY DEF Ending
    <3>1. k \in 2 .. Len(Sip)
      BY <1>2, <1>5
    <3> QED  BY <1>4, <1>7, <3>1 DEF Ending
  <2> QED  BY <2>1, <2>2
<1>12. \A s : Leaving(s) => Leaving(s)'
  <2> SUFFICES ASSUME NEW s, NEW k \in 1 .. Len(Sip), Sip[k].do \in Removal, Sip[k].id = s
               PROVE  Leaving(s)'
    BY DEF Leaving
  <2>1. CASE k = 1
    <3>1. Sip'[1].do \in Removal /\ Sip'[1].id = s
      BY <1>4, <2>1 DEF Removal, Id
    <3> QED  BY <1>8, <3>1 DEF Leaving
  <2>2. CASE k \in 2 .. Len(Sip)
    BY <1>4, <1>7, <2>2 DEF Leaving
  <2> QED  BY <1>5, <2>1, <2>2
<1>13. \A s : Leaving(s)' => Leaving(s)
  <2> SUFFICES ASSUME NEW s, NEW k \in 1 .. Len(Sip'), Sip'[k].do \in Removal, Sip'[k].id = s
               PROVE  Leaving(s)
    BY DEF Leaving
  <2>1. CASE k = 1 \/ k = 2
    <3>1. 1 \in 1 .. Len(Sip) /\ Sip[1].do \in Removal /\ Sip[1].id = s
      BY <1>2, <1>4, <2>1 DEF Removal, Id
    <3> QED  BY <3>1 DEF Leaving
  <2>2. CASE k - 1 \in 2 .. Len(Sip) /\ k - 1 + 1 = k
    <3>1. k - 1 \in 1 .. Len(Sip) /\ Sip'[k] = Sip[k - 1]
      BY <1>2, <1>4, <2>2
    <3> QED  BY <3>1 DEF Leaving
  <2> QED  BY <1>6, <2>1, <2>2
<1> QED  BY <1>4, <1>9, <1>10, <1>11, <1>12, <1>13

\* A callback that leads to nothing, or to one step.
LEMMA BeginNothing ==
  ASSUME ProgOK, Begin("sip", <<>>)
  PROVE  /\ Do = "idle" /\ Do' = "idle" /\ prog' = prog
         /\ \A c : Ending(c)' <=> Ending(c)
         /\ \A s : Leaving(s)' <=> Leaving(s)
<1>1. Sip = <<>> /\ prog' = [prog EXCEPT !["sip"] = <<>>] /\ prog \in [Threads -> Seq(StepRec)]
  BY DEF Begin, Sip, ProgOK
<1>2. prog' = prog
  BY <1>1 DEF Sip
<1> QED  BY <1>1, <1>2, HeadIs DEF Do, Ending, Leaving, Sip

LEMMA BeginStep ==
  ASSUME ProgOK, NEW x \in StepRec, Begin("sip", <<x>>), x.do \in {"start", "delete", "add"}
  PROVE  /\ Do = "idle" /\ Do' = x.do /\ Sip'[1] = x /\ Id' = x.id /\ Shape'
         /\ \A c : ~ Ending(c)' /\ ~ Ending(c)
         /\ \A s : Leaving(s)' => x.do = "delete" /\ s = x.id
         /\ prog'["api"] = prog["api"]
<1> DEFINE one == <<x>>
<1>1. /\ one \in Seq(StepRec) /\ Len(one) = 1 /\ one[1] = x /\ Chained(one)
      /\ (\A k \in 1 .. Len(one) : one[k] = x) /\ Begin("sip", one)
  BY OneStep
<1> HIDE DEF one
<1>2. "sip" \in Threads /\ "api" \in Threads \ {"sip"}
  BY DEF Threads
<1>3. Sip = <<>> /\ Sip' = one /\ prog'["api"] = prog["api"]
  BY <1>1, <1>2, BeginIs DEF Sip
<1>4. Do' = x.do /\ Id' = x.id
  <2>1. Len(one) > 0 /\ one[1] = x /\ Sip' = one
    BY <1>1, <1>3
  <2>2. Len(Sip') > 0 /\ Sip'[1] = x
    BY <2>1, Zenon
  <2> QED  BY <2>2 DEF Do, Id
<1>5. Do = "idle" /\ ~ (Len(Sip) > 0) /\ Len(Sip) \in Nat
  BY <1>3, HeadIs
<1>6. \A c : ~ Ending(c)
  BY <1>5 DEF Ending
<1>7. \A c : ~ Ending(c)'
  <2>1. \A k \in 1 .. Len(Sip') : Sip'[k].do # "ended"
    BY <1>1, <1>3
  <2> QED  BY <2>1 DEF Ending
<1>8. Shape'
  <2>1. \A n : n = 1 => \A k \in 2 .. n : FALSE
    OBVIOUS
  <2> QED  BY <1>1, <1>3, <1>4, <2>1 DEF Shape
<1>9. \A s : Leaving(s)' => x.do = "delete" /\ s = x.id
  <2>1. \A k \in 1 .. Len(Sip') : Sip'[k] = x
    BY <1>1, <1>3
  <2> QED  BY <2>1 DEF Leaving, Removal
<1> QED  BY <1>1, <1>3, <1>4, <1>5, <1>6, <1>7, <1>8, <1>9

\* While the terminal is in the maps, the application only gives back what it has of it.
LEMMA OnlySip ==
  ASSUME BInv, mapped
  PROVE  /\ ~ Active("api")
         /\ \A d : Doing("api", d) => d = "release"
         /\ Doing("api", "release") => refs # 1
         /\ ~ Doing("sip", "release")
<1>1. "api" \in Threads /\ "sip" \in Threads /\ ProgOK /\ RefsOK
  BY DEF Threads, BInv
<1>2. refs # 0 /\ ~ Doing("sip", "release") /\ (Doing("api", "release") => refs # 1)
  BY <1>1 DEF RefsOK
<1>3. ~ Active("api")
  BY <1>1, <1>2 DEF RefsOK
<1>4. \A d : Doing("api", d) => d = "release"
  BY <1>3 DEF Active, Doing
<1> QED  BY <1>2, <1>3, <1>4

-----------------------------------------------------------------------------
LEMMA SameCalls ==
  ASSUME calls' = calls
  PROVE  (\A k : SessionsOf(k)' = SessionsOf(k)) /\ (\A s : OfCall(s)' <=> OfCall(s))
BY DEF SessionsOf, OfCall

LEMMA SameStreams ==
  ASSUME streams' = streams
  PROVE  StreamIds' = StreamIds /\ (\A s, r : SideIs(s, r)' <=> SideIs(s, r))
BY DEF StreamIds, SideIs

LEMMA SameInputs ==
  ASSUME inputs' = inputs
  PROVE  \A a, r : Mixed(a, r)' <=> Mixed(a, r)
BY DEF Mixed

\* No call and no stream comes or goes.
LEMMA ListsKept ==
  ASSUME CallsOK, ListedOK, UNCHANGED <<calls, streams, sess, nextId>>, known \subseteq known',
         DOMAIN rec' \subseteq DOMAIN rec,
         \A c : Ending(c)' <=> Ending(c),
         \A s \in StreamIds : Leaving(s) => Leaving(s)', \A s : Leaving(s)' => Leaving(s),
         Do' \in {"add", "added"} => Do \in {"add", "added"} /\ Id' = Id,
         Do = "add" => Do' = "add" /\ Id' = Id
  PROVE  CallsOK' /\ ListedOK'
<1>1. /\ \A k : SessionsOf(k)' = SessionsOf(k)
      /\ \A s : OfCall(s)' <=> OfCall(s)
      /\ StreamIds' = StreamIds
  BY SameCalls, SameStreams
<1>2. CallsOK'
  BY <1>1 DEF CallsOK
<1>3. ListedOK'
  BY <1>1 DEF ListedOK
<1> QED  BY <1>2, <1>3

\* What is bound stays so, and the steps about streams go on.
LEMMA FeedKept ==
  ASSUME FedOK, OwnedOK, OneInput, MixedOK, SidesOK, UNCHANGED <<streams, bound, inputs>>,
         DOMAIN obj' = DOMAIN obj, \A a \in DOMAIN obj : obj'[a].id = obj[a].id,
         \A s \in DOMAIN rec : s \in DOMAIN rec' /\ rec'[s].on = rec[s].on,
         \A s \in StreamIds : Id = s /\ Do \in Removal \cup {"added", "input", "bind"} =>
                              Id' = s /\ Do' \in Removal \cup {"added", "input", "bind"},
         Do' \in {"add", "added", "input", "bind"} =>
           Do \in {"add", "added", "input", "bind"} /\ Id' = Id,
         \A s \in StreamIds : Id = s /\ Do \in {"delete", "unbind", "uninput"} =>
                              Id' = s /\ Do' \in {"delete", "unbind", "uninput"},
         Do = "bind" => Do' = "bind" /\ Id' = Id /\ Sip'[1].input = Sip[1].input,
         Do' \in {"added", "input", "unbind", "uninput"} => SideIs(Id', Sip'[1].remote)
  PROVE  FedOK' /\ OwnedOK' /\ OneInput' /\ MixedOK' /\ SidesOK'
<1>1. /\ StreamIds' = StreamIds
      /\ \A s, r : SideIs(s, r)' <=> SideIs(s, r)
      /\ \A a, r : Mixed(a, r)' <=> Mixed(a, r)
  BY SameStreams, SameInputs
<1>2. FedOK'
  BY <1>1 DEF FedOK
<1>3. OwnedOK'
  BY <1>1 DEF OwnedOK
<1>4. OneInput' /\ MixedOK'
  BY <1>1 DEF OneInput, MixedOK
<1>5. SidesOK'
  <2>1. \A r \in BOOLEAN : \A k \in DOMAIN inputs[r] : inputs[r][k] \in DOMAIN obj
    BY DEF MixedOK
  <2>2. \A r \in BOOLEAN : \A k \in DOMAIN inputs[r] :
          obj'[inputs[r][k]].id = obj[inputs[r][k]].id /\ SideIs(obj[inputs[r][k]].id, r)
    BY <2>1 DEF SidesOK
  <2> QED  BY <2>2 DEF SidesOK, SideIs
<1> QED  BY <1>2, <1>3, <1>4, <1>5

-----------------------------------------------------------------------------
LEMMA CreateInputRecorded ==
  ASSUME BInv, Recorded, CreateInput("sip")
  PROVE  Recorded'
<1>0. /\ ProgOK /\ ListOK /\ BoundOK
      /\ Shape /\ Phase /\ CallsOK /\ ListedOK /\ FedOK /\ OwnedOK /\ OneInput /\ MixedOK /\ SidesOK
  BY DEF BInv, Recorded
<1>1. Len(Sip) > 0 /\ Sip[1].do = "input" /\ Do = "input" /\ Head(Sip) = Sip[1] /\ Sip[1] \in StepRec
  <2>1. Doing("sip", "input")
    BY DEF CreateInput
  <2> QED  BY <1>0, <2>1, HeadIs
<1> DEFINE r == Sip[1].remote
<1>2. Id \in Nat /\ r \in BOOLEAN /\ Id \in StreamIds
  <2>1. "sip" \in Threads
    BY DEF Threads
  <2>2. Sip # <<>> /\ ThreadOK("sip")
    BY <1>0, <1>1, <2>1, HeadIs DEF BInv
  <2> QED  BY <1>1, <2>2, StepFields DEF Id, Sip, ThreadOK, AboutStream
<1>3. PICK a \in Inputs \ DOMAIN obj :
        /\ inputs' = [inputs EXCEPT ![r] = Append(@, a)]
        /\ obj' = Put(obj, a, [id |-> Id, done |-> FALSE])
        /\ Then("sip", <<[do |-> "bind", id |-> Id, input |-> a]>>)
  BY <1>1, Zenon DEF CreateInput, Sip, Id
<1>4. UNCHANGED <<managerVars, recorderVars, bound, terminalVars, streams, recording>>
  BY DEF CreateInput
<1>a. UNCHANGED <<known, sess, nextId, rec, calls, auto>>
  BY <1>4 DEF managerVars, recorderVars, terminalVars
<1>5. PICK x \in StepRec : /\ x = [do |-> "bind", id |-> Id, input |-> a]
                          /\ x.do = "bind" /\ x.id = Id /\ x.input = a
  BY <1>2, <1>3 DEF StepRec
<1>6. ~ (Len(Sip) > 1)
  <2>1. Len(Sip) > 1 => Follows(Sip[1], Sip[2]) /\ 2 \in 2 .. Len(Sip)
    BY <1>0, HeadIs, First DEF Sip, Threads
  <2> QED  BY <1>0, <1>1, <2>1 DEF Shape, Follows
<1>7. /\ Shape' /\ Do' = "bind" /\ Sip'[1] = x /\ Id' = Id
      /\ \A c : Ending(c)' <=> Ending(c)
      /\ \A s : Leaving(s)' <=> Leaving(s)
  BY <1>0, <1>1, <1>3, <1>5, <1>6, Replaced DEF Removal
<1>8. CallsOK' /\ ListedOK'
  BY <1>0, <1>1, <1>4, <1>a, <1>7, ListsKept
<1>9. Phase'
  BY <1>0, <1>1, <1>4, <1>a, <1>7 DEF Phase
<1>10. StreamIds' = StreamIds /\ \A s, u : SideIs(s, u)' <=> SideIs(s, u)
  BY <1>4, SameStreams
<1>11. Id \in DOMAIN rec /\ Id \notin DOMAIN bound
  BY <1>0, <1>1 DEF FedOK
<1>12. FedOK'
  BY <1>0, <1>1, <1>4, <1>a, <1>7, <1>10 DEF FedOK
<1>13. /\ DOMAIN obj' = DOMAIN obj \cup {a} /\ obj'[a].id = Id
       /\ \A b \in DOMAIN obj : obj'[b] = obj[b]
  BY <1>3 DEF Put
<1>14. \A b \in DOMAIN obj : obj[b].id # Id /\ obj[b].id \in DOMAIN bound /\ bound[obj[b].id] = b
  BY <1>0, <1>1, <1>11 DEF OwnedOK
<1>15. OwnedOK'
  BY <1>0, <1>2, <1>4, <1>5, <1>7, <1>10, <1>13, <1>14 DEF OwnedOK
<1>16. OneInput'
  BY <1>0, <1>13, <1>14 DEF OneInput
<1> HIDE DEF r
<1> DEFINE q == Append(inputs[r], a)
<1>17. /\ inputs' = [inputs EXCEPT ![r] = q] /\ inputs \in [BOOLEAN -> Seq(Inputs)]
       /\ inputs[r] \in Seq(Inputs) /\ Len(inputs[r]) \in Nat
       /\ DOMAIN inputs[r] = 1 .. Len(inputs[r])
  BY <1>0, <1>2, <1>3 DEF ListOK
<1>18. /\ DOMAIN q = 1 .. Len(inputs[r]) + 1
       /\ \A k \in DOMAIN inputs[r] : k \in DOMAIN q /\ q[k] = inputs[r][k]
       /\ \A k \in DOMAIN q : k \in DOMAIN inputs[r] \/ k = Len(inputs[r]) + 1
       /\ q[Len(inputs[r]) + 1] = a
  BY <1>3, <1>17, Appended
<1> HIDE DEF q
<1>19. inputs'[r] = q /\ \A u \in BOOLEAN \ {r} : inputs'[u] = inputs[u]
  BY <1>2, <1>17
<1>20. MixedOK'
  <2>1. \A b \in DOMAIN obj' : \E u \in BOOLEAN : Mixed(b, u)'
    <3> TAKE b \in DOMAIN obj'
    <3>1. CASE b = a
      <4>1. Len(inputs[r]) + 1 \in DOMAIN q
        BY <1>17, <1>18
      <4> QED  BY <1>2, <1>18, <1>19, <3>1, <4>1 DEF Mixed
    <3>2. CASE b \in DOMAIN obj
      <4>1. PICK u \in BOOLEAN : Mixed(b, u)
        BY <1>0, <3>2 DEF MixedOK
      <4>2. Mixed(b, u)'
        <5>1. CASE u = r
          BY <1>18, <1>19, <4>1, <5>1 DEF Mixed
        <5>2. CASE u # r
          BY <1>19, <4>1, <5>2 DEF Mixed
        <5> QED  BY <5>1, <5>2
      <4> QED  BY <4>2
    <3> QED  BY <1>13, <3>1, <3>2
  <2>2. \A k \in DOMAIN q : q[k] \in DOMAIN obj'
    BY <1>0, <1>2, <1>13, <1>18 DEF MixedOK
  <2>3. \A j, k \in DOMAIN q : q[j] = q[k] => j = k
    <3>1. \A k \in DOMAIN inputs[r] : inputs[r][k] # a
      BY <1>0, <1>2, <1>3 DEF MixedOK
    <3>2. \A j, k \in DOMAIN inputs[r] : inputs[r][j] = inputs[r][k] => j = k
      BY <1>0, <1>2 DEF MixedOK
    <3> QED  BY <1>18, <3>1, <3>2
  <2>4. \A u \in BOOLEAN \ {r} :
          /\ \A k \in DOMAIN inputs[u] : inputs[u][k] \in DOMAIN obj'
          /\ \A j, k \in DOMAIN inputs[u] : inputs[u][j] = inputs[u][k] => j = k
    BY <1>0, <1>13 DEF MixedOK
  <2> QED  BY <1>19, <2>1, <2>2, <2>3, <2>4 DEF MixedOK
<1>21. SidesOK'
  <2>1. SideIs(Id, r)
    BY <1>0, <1>1 DEF SidesOK, r
  <2>2. \A k \in DOMAIN q : SideIs(obj'[q[k]].id, r)
    <3> TAKE k \in DOMAIN q
    <3>1. CASE k \in DOMAIN inputs[r]
      <4>1. q[k] = inputs[r][k] /\ inputs[r][k] \in DOMAIN obj /\ SideIs(obj[inputs[r][k]].id, r)
        BY <1>0, <1>2, <1>18, <3>1 DEF MixedOK, SidesOK
      <4> QED  BY <1>13, <4>1
    <3>2. CASE k = Len(inputs[r]) + 1
      BY <1>13, <1>18, <2>1, <3>2
    <3> QED  BY <1>18, <3>1, <3>2
  <2>3. \A u \in BOOLEAN \ {r} : \A k \in DOMAIN inputs[u] : SideIs(obj'[inputs[u][k]].id, u)
    BY <1>0, <1>13 DEF MixedOK, SidesOK
  <2>4. \A u \in BOOLEAN : \A k \in DOMAIN inputs'[u] : SideIs(obj'[inputs'[u][k]].id, u)
    BY <1>19, <2>2, <2>3
  <2> QED  BY <1>4, <1>7, <2>4 DEF SidesOK, SideIs
<1> QED  BY <1>7, <1>8, <1>9, <1>12, <1>15, <1>16, <1>20, <1>21 DEF Recorded

LEMMA StartRecordRecorded ==
  ASSUME BInv, PInv, Recorded, StartRecord("sip")
  PROVE  Recorded'
<1>0. /\ ProgOK /\ ListOK /\ BoundOK
      /\ Shape /\ Phase /\ CallsOK /\ ListedOK /\ FedOK /\ OwnedOK /\ OneInput /\ MixedOK /\ SidesOK
  BY DEF BInv, Recorded
<1>1. Len(Sip) > 0 /\ Do = "bind" /\ Head(Sip) = Sip[1] /\ Sip[1] \in StepRec
  <2>1. Doing("sip", "bind")
    BY DEF StartRecord
  <2> QED  BY <1>0, <2>1, HeadIs
<1> DEFINE a == Sip[1].input
<1>2. Id \in DOMAIN rec /\ Id \notin DOMAIN bound
  BY <1>0, <1>1 DEF FedOK
<1>3. /\ rec' = [rec EXCEPT ![Id].on = TRUE] /\ bound' = Put(bound, Id, a) /\ Then("sip", <<>>)
      /\ UNCHANGED <<managerVars, ports, terminalVars, streams, recording, mixerVars, merged, flush>>
  <2>1. Head(prog["sip"]) = Sip[1] /\ Head(prog["sip"]).id = Id
    BY <1>1 DEF Sip, Id
  <2> QED  BY <1>2, <2>1 DEF StartRecord
<1>4. UNCHANGED <<known, sess, nextId, calls, auto, streams, recording, inputs, obj>>
  BY <1>3 DEF managerVars, terminalVars, mixerVars
<1>5. /\ Shape' /\ Do' = "idle"
      /\ \A c : Ending(c)' <=> Ending(c)
      /\ \A s : Leaving(s)' <=> Leaving(s)
  BY <1>0, <1>1, <1>3, Finished DEF Removal
<1>6. /\ DOMAIN rec' = DOMAIN rec /\ rec'[Id].on
      /\ \A s \in DOMAIN rec \ {Id} : rec'[s] = rec[s]
  <2>1. rec \in [DOMAIN rec -> RecRec]
    BY DEF PInv, SessionsKept
  <2> QED  BY <1>2, <1>3, <2>1, PortsOnOff DEF RecRec
<1>7. /\ DOMAIN bound' = DOMAIN bound \cup {Id} /\ bound'[Id] = a
      /\ \A s \in DOMAIN bound : bound'[s] = bound[s]
  BY <1>2, <1>3 DEF Put
<1>8. CallsOK' /\ ListedOK'
  BY <1>0, <1>1, <1>4, <1>5, <1>6, ListsKept
<1>9. Phase'
  BY <1>0, <1>1, <1>4, <1>5 DEF Phase
<1>10. /\ StreamIds' = StreamIds /\ (\A s, u : SideIs(s, u)' <=> SideIs(s, u))
       /\ \A b, u : Mixed(b, u)' <=> Mixed(b, u)
  BY <1>4, SameStreams, SameInputs
<1>11. FedOK'
  <2>1. \A s \in StreamIds : s = Id \/ (s \in DOMAIN rec /\ s \in DOMAIN bound /\ rec[s].on)
    BY <1>0 DEF FedOK
  <2> QED  BY <1>2, <1>5, <1>6, <1>7, <1>10, <2>1 DEF FedOK
<1>12. OwnedOK'
  BY <1>0, <1>1, <1>2, <1>4, <1>5, <1>7, <1>10 DEF OwnedOK
<1>13. OneInput' /\ MixedOK'
  BY <1>0, <1>4, <1>10 DEF OneInput, MixedOK
<1>14. SidesOK'
  BY <1>0, <1>4, <1>5, <1>10 DEF SidesOK, SideIs
<1> QED  BY <1>5, <1>8, <1>9, <1>11, <1>12, <1>13, <1>14 DEF Recorded

LEMMA StopRecordRecorded ==
  ASSUME BInv, PInv, Recorded, StopRecord("sip")
  PROVE  Recorded'
<1>0. /\ ProgOK /\ ListOK /\ BoundOK
      /\ Shape /\ Phase /\ CallsOK /\ ListedOK /\ FedOK /\ OwnedOK /\ OneInput /\ MixedOK /\ SidesOK
  BY DEF BInv, Recorded
<1>1. /\ Len(Sip) > 0 /\ Do = "unbind" /\ Head(Sip) = Sip[1] /\ Sip[1] \in StepRec
      /\ Sip[1].do = "unbind"
  <2>1. Doing("sip", "unbind")
    BY DEF StopRecord
  <2> QED  BY <1>0, <2>1, HeadIs
<1>2. Id \in Nat /\ Sip[1].remote \in BOOLEAN
  BY <1>1, StepFields DEF Id
<1>a. Head(prog["sip"]) = Sip[1] /\ Head(prog["sip"]).id = Id
  BY <1>1 DEF Sip, Id
<1>3. /\ IF Id \in DOMAIN rec
           THEN rec' = [rec EXCEPT ![Id].on = FALSE] /\ bound' = Without(bound, {Id})
           ELSE UNCHANGED <<rec, bound>>
      /\ Then("sip", <<Step("uninput", Id, Sip[1].remote)>>)
      /\ UNCHANGED <<managerVars, ports, terminalVars, streams, recording, mixerVars, merged, flush>>
  BY <1>a DEF StopRecord
<1>4. UNCHANGED <<known, sess, nextId, calls, auto, streams, recording, inputs, obj>>
  BY <1>3 DEF managerVars, terminalVars, mixerVars
<1>5. PICK x \in StepRec : /\ x = Step("uninput", Id, Sip[1].remote)
                          /\ x.do = "uninput" /\ x.id = Id /\ x.remote = Sip[1].remote
  BY <1>2, StepIs
<1>6. Len(Sip) > 1 => Follows(x, Sip[2])
  <2>1. Len(Sip) > 1 => Follows(Sip[1], Sip[2])
    BY <1>0, First DEF Sip, Threads
  <2> QED  BY <1>1, <1>5, <2>1 DEF Follows, Id
<1>7. /\ Shape' /\ Do' = "uninput" /\ Sip'[1] = x /\ Id' = Id
      /\ \A c : Ending(c)' <=> Ending(c)
      /\ \A s : Leaving(s)' <=> Leaving(s)
  <2>1. Then("sip", <<x>>)
    BY <1>3, <1>5
  <2> QED  BY <1>0, <1>1, <1>5, <1>6, <2>1, Replaced DEF Removal
<1>8. /\ DOMAIN rec' = DOMAIN rec
      /\ \A s \in DOMAIN rec \ {Id} : rec'[s] = rec[s]
  BY <1>3
<1>9. \A s \in DOMAIN bound \ {Id} : s \in DOMAIN bound' /\ bound'[s] = bound[s]
  BY <1>3 DEF Without
<1>10. CallsOK' /\ ListedOK'
  BY <1>0, <1>1, <1>4, <1>7, <1>8, ListsKept
<1>11. Phase'
  BY <1>0, <1>1, <1>4, <1>7 DEF Phase
<1>12. /\ StreamIds' = StreamIds /\ (\A s, u : SideIs(s, u)' <=> SideIs(s, u))
       /\ \A b, u : Mixed(b, u)' <=> Mixed(b, u)
  BY <1>4, SameStreams, SameInputs
<1>13. FedOK'
  <2>1. \A s \in StreamIds : s = Id \/ (s \in DOMAIN rec /\ s \in DOMAIN bound /\ rec[s].on)
    BY <1>0 DEF FedOK
  <2> QED  BY <1>7, <1>8, <1>9, <1>12, <2>1 DEF FedOK, Removal
<1>14. OwnedOK'
  BY <1>0, <1>1, <1>4, <1>7, <1>9, <1>12 DEF OwnedOK
<1>15. OneInput' /\ MixedOK'
  BY <1>0, <1>4, <1>12 DEF OneInput, MixedOK
<1>16. SidesOK'
  BY <1>0, <1>1, <1>4, <1>5, <1>7, <1>12 DEF SidesOK, SideIs
<1> QED  BY <1>7, <1>10, <1>11, <1>13, <1>14, <1>15, <1>16 DEF Recorded

LEMMA DeleteInputRecorded ==
  ASSUME BInv, Recorded, DeleteInput("sip")
  PROVE  Recorded'
<1>0. /\ ProgOK /\ ListOK /\ BoundOK
      /\ Shape /\ Phase /\ CallsOK /\ ListedOK /\ FedOK /\ OwnedOK /\ OneInput /\ MixedOK /\ SidesOK
  BY DEF BInv, Recorded
<1>1. /\ Len(Sip) > 0 /\ Do = "uninput" /\ Head(Sip) = Sip[1] /\ Sip[1] \in StepRec
      /\ Sip[1].do = "uninput"
  <2>1. Doing("sip", "uninput")
    BY Zenon DEF DeleteInput
  <2> QED  BY <1>0, <2>1, HeadIs
<1> DEFINE r == Sip[1].remote
<1>2. r \in BOOLEAN /\ Id \in StreamIds /\ Id \notin DOMAIN bound
  <2>1. "sip" \in Threads
    BY DEF Threads
  <2>2. Sip # <<>> /\ ThreadOK("sip")
    BY <1>0, <1>1, <2>1, HeadIs DEF BInv
  <2> QED  BY <1>1, <2>2, StepFields DEF Id, Sip, ThreadOK, AboutStream, StepOK
<1>3. SideIs(Id, r)
  BY <1>0, <1>1 DEF SidesOK
<1>4. UNCHANGED <<managerVars, recorderVars, bound, terminalVars, streams, recording>>
  BY Zenon DEF DeleteInput
<1>a. UNCHANGED <<known, sess, nextId, rec, calls, auto>>
  BY <1>4 DEF managerVars, recorderVars, terminalVars
<1>b. Head(prog["sip"]) = Sip[1] /\ Head(prog["sip"]).id = Id
  BY <1>1 DEF Sip, Id
<1> DEFINE mine == {k \in DOMAIN inputs[r] : obj[inputs[r][k]].id = Id}
           first == CHOOSE k \in mine : \A j \in mine : k <= j
<1>5. /\ IF mine = {} THEN UNCHANGED <<inputs, obj>>
           ELSE /\ inputs' = [inputs EXCEPT ![r] = RemoveAt(@, first)]
                /\ obj' = Without(obj, {inputs[r][first]})
      /\ Then("sip", <<>>)
  BY <1>b, ZenonT(40) DEF DeleteInput
<1>6. inputs \in [BOOLEAN -> Seq(Inputs)] /\ inputs[r] \in Seq(Inputs) /\ mine \subseteq Nat
  BY <1>0, <1>2 DEF ListOK
<1>7. mine # {} => first \in mine
  <2> HIDE DEF mine
  <2>1. mine # {} => \E k \in mine : \A j \in mine : k <= j
    BY <1>6, Least
  <2> QED  BY <2>1
<1>8. \A k : k \in mine <=> k \in DOMAIN inputs[r] /\ obj[inputs[r][k]].id = Id
  OBVIOUS
<1> HIDE DEF mine, first, r
<1>9. \A u \in BOOLEAN : SideIs(Id, u) => u = r
  BY <1>2, <1>3 DEF SideIs, StreamIds
\* The input that goes is the only one of its stream, and no other mixer has it.
<1>10. \A a \in DOMAIN obj : obj[a].id = Id => \E k \in mine : inputs[r][k] = a
  <2> TAKE a \in DOMAIN obj
  <2> HAVE obj[a].id = Id
  <2>1. PICK u \in BOOLEAN : Mixed(a, u)
    BY <1>0 DEF MixedOK
  <2>2. PICK k \in DOMAIN inputs[u] : inputs[u][k] = a
    BY <2>1 DEF Mixed
  <2>3. u = r
    BY <1>0, <1>9, <2>2 DEF SidesOK
  <2> QED  BY <1>8, <2>2, <2>3
<1>11. /\ Shape' /\ Do' = "erase" /\ Id' = Id
       /\ \A c : Ending(c)' <=> Ending(c)
       /\ \A s : Leaving(s)' <=> Leaving(s)
  BY <1>0, <1>1, <1>5, Finished
<1>12. CallsOK' /\ ListedOK'
  BY <1>0, <1>1, <1>4, <1>a, <1>11, ListsKept
<1>13. Phase'
  BY <1>0, <1>1, <1>4, <1>a, <1>11 DEF Phase
<1>14. /\ StreamIds' = StreamIds /\ (\A s, u : SideIs(s, u)' <=> SideIs(s, u))
  BY <1>4, SameStreams
<1>15. FedOK'
  BY <1>0, <1>1, <1>4, <1>a, <1>11, <1>14 DEF FedOK, Removal
<1>16. \A a \in DOMAIN obj' : a \in DOMAIN obj /\ obj'[a] = obj[a] /\ obj[a].id # Id
  <2>1. CASE mine = {}
    BY <1>5, <1>10, <2>1
  <2>2. CASE mine # {}
    <3>1. \A a \in DOMAIN obj' : a \in DOMAIN obj /\ obj'[a] = obj[a] /\ a # inputs[r][first]
      BY <1>5, <2>2 DEF Without
    <3>2. inputs[r][first] \in DOMAIN obj /\ obj[inputs[r][first]].id = Id
      BY <1>0, <1>2, <1>7, <1>8, <2>2 DEF MixedOK, r
    <3> QED  BY <1>0, <3>1, <3>2 DEF OneInput
  <2> QED  BY <2>1, <2>2
<1>17. OwnedOK' /\ OneInput'
  BY <1>0, <1>1, <1>4, <1>11, <1>14, <1>16 DEF OwnedOK, OneInput
<1>18. MixedOK' /\ SidesOK'
  <2>1. CASE mine = {}
    <3>1. UNCHANGED <<inputs, obj>>
      BY <1>5, <2>1
    <3> QED  BY <1>0, <1>11, <1>14, <3>1, SameInputs DEF MixedOK, SidesOK, SideIs
  <2>2. CASE mine # {}
    <3> DEFINE f == first
               q == RemoveAt(inputs[r], f)
    <3>1. /\ f \in DOMAIN inputs[r] /\ f \in Nat /\ obj[inputs[r][f]].id = Id
          /\ inputs' = [inputs EXCEPT ![r] = q]
          /\ obj' = Without(obj, {inputs[r][f]})
      BY <1>5, <1>6, <1>7, <1>8, <2>2
    <3> HIDE DEF f
    <3>2. /\ \A i \in DOMAIN q : \E j \in DOMAIN inputs[r] \ {f} :
               q[i] = inputs[r][j] /\ j = IF i < f THEN i ELSE i + 1
          /\ \A j \in DOMAIN inputs[r] \ {f} : \E i \in DOMAIN q : q[i] = inputs[r][j]
          /\ DOMAIN q \subseteq Nat
      BY <1>6, <3>1, RemovedElements, ZenonT(60)
    <3> HIDE DEF q
    <3>3. inputs'[r] = q /\ \A u \in BOOLEAN \ {r} : inputs'[u] = inputs[u]
      BY <1>2, <1>6, <3>1 DEF r
    <3>4. /\ DOMAIN obj' = DOMAIN obj \ {inputs[r][f]}
          /\ \A b \in DOMAIN obj' : obj'[b] = obj[b]
      BY <3>1 DEF Without
    <3>5. \A b \in DOMAIN obj' : \E u \in BOOLEAN : Mixed(b, u)'
      <4> TAKE b \in DOMAIN obj'
      <4>1. PICK u \in BOOLEAN : Mixed(b, u)
        BY <1>0, <3>4 DEF MixedOK
      <4>2. PICK k \in DOMAIN inputs[u] : inputs[u][k] = b
        BY <4>1 DEF Mixed
      <4>3. CASE u = r
        <5>1. k \in DOMAIN inputs[r] \ {f}
          BY <3>4, <4>2, <4>3
        <5> QED  BY <3>2, <3>3, <4>2, <4>3, <5>1 DEF Mixed
      <4>4. CASE u # r
        BY <3>3, <4>2, <4>4 DEF Mixed
      <4> QED  BY <4>3, <4>4
    <3>6. \A k \in DOMAIN inputs[r] \ {f} : inputs[r][k] \in DOMAIN obj'
      <4>1. r \in BOOLEAN
        BY <1>2 DEF r
      <4> QED  BY <1>0, <3>1, <3>4, <4>1 DEF MixedOK
    <3>7. \A u \in BOOLEAN \ {r} : \A k \in DOMAIN inputs[u] : inputs[u][k] \in DOMAIN obj'
      <4> TAKE u \in BOOLEAN \ {r}
      <4> TAKE k \in DOMAIN inputs[u]
      <4>1. inputs[u][k] \in DOMAIN obj /\ SideIs(obj[inputs[u][k]].id, u)
        BY <1>0 DEF MixedOK, SidesOK
      <4>2. inputs[u][k] # inputs[r][f]
        BY <1>9, <3>1, <4>1
      <4> QED  BY <3>4, <4>1, <4>2
    <3>8. \A j, k \in DOMAIN q : q[j] = q[k] => j = k
      <4> SUFFICES ASSUME NEW j \in DOMAIN q, NEW k \in DOMAIN q, q[j] = q[k] PROVE j = k
        OBVIOUS
      <4>1. PICK m \in DOMAIN inputs[r] : q[j] = inputs[r][m] /\ m = IF j < f THEN j ELSE j + 1
        BY <3>2
      <4>2. PICK n \in DOMAIN inputs[r] : q[k] = inputs[r][n] /\ n = IF k < f THEN k ELSE k + 1
        BY <3>2
      <4>3. m = n
        BY <1>0, <1>2, <4>1, <4>2 DEF MixedOK, r
      <4>4. j \in Nat /\ k \in Nat /\ f \in Nat
        BY <1>6, <3>1, <3>2
      <4> QED  BY <4>1, <4>2, <4>3, <4>4
    <3>9. MixedOK'
      <4>1. \A k \in DOMAIN q : q[k] \in DOMAIN obj'
        BY <3>2, <3>6
      <4>2. \A u \in BOOLEAN \ {r} :
              \A j, k \in DOMAIN inputs[u] : inputs[u][j] = inputs[u][k] => j = k
        BY <1>0 DEF MixedOK
      <4> QED  BY <3>3, <3>5, <3>7, <3>8, <4>1, <4>2 DEF MixedOK
    <3>10. \A u \in BOOLEAN : \A k \in DOMAIN inputs'[u] : SideIs(obj'[inputs'[u][k]].id, u)
      <4>1. \A k \in DOMAIN q : SideIs(obj'[q[k]].id, r)
        <5> TAKE k \in DOMAIN q
        <5>1. PICK j \in DOMAIN inputs[r] \ {f} : q[k] = inputs[r][j]
          BY <3>2
        <5>2. obj'[q[k]] = obj[inputs[r][j]]
          BY <3>4, <3>6, <5>1
        <5> QED  BY <1>0, <1>2, <5>1, <5>2 DEF SidesOK, r
      <4>2. \A u \in BOOLEAN \ {r} : \A k \in DOMAIN inputs[u] : SideIs(obj'[inputs[u][k]].id, u)
        BY <1>0, <3>4, <3>7 DEF SidesOK
      <4> QED  BY <3>3, <4>1, <4>2
    <3>11. SidesOK'
      BY <1>4, <1>11, <3>10 DEF SidesOK, SideIs
    <3> QED  BY <3>9, <3>11
  <2> QED  BY <2>1, <2>2
<1> QED  BY <1>11, <1>12, <1>13, <1>15, <1>17, <1>18 DEF Recorded

LEMMA AddNewStreamRecorded ==
  ASSUME BInv, Recorded, AddNewStream("sip")
  PROVE  Recorded'
<1>0. /\ ProgOK /\ ListOK /\ BoundOK
      /\ Shape /\ Phase /\ CallsOK /\ ListedOK /\ FedOK /\ OwnedOK /\ OneInput /\ MixedOK /\ SidesOK
  BY DEF BInv, Recorded
<1>1. /\ Len(Sip) > 0 /\ Do = "add" /\ Head(Sip) = Sip[1] /\ Sip[1] \in StepRec
      /\ Sip[1].do = "add"
  <2>1. Doing("sip", "add")
    BY DEF AddNewStream
  <2> QED  BY <1>0, <2>1, HeadIs
<1>2. /\ Sip[1].remote \in BOOLEAN /\ Id \notin StreamIds /\ Id \in Nat
  <2>1. "sip" \in Threads
    BY DEF Threads
  <2>2. Sip # <<>> /\ ThreadOK("sip")
    BY <1>0, <1>1, <2>1, HeadIs DEF BInv
  <2> QED  BY <1>1, <2>2, StepFields DEF Id, Sip, ThreadOK, AboutStream, StepOK
<1>b. Head(prog["sip"]) = Sip[1] /\ Head(prog["sip"]).id = Id
  BY <1>1 DEF Sip, Id
<1> DEFINE e == [id |-> Id, remote |-> Sip[1].remote]
<1>3. /\ streams' = Append(streams, e)
      /\ Then("sip", <<Step("added", Id, Sip[1].remote)>>)
      /\ UNCHANGED <<managerVars, recorderVars, bound, terminalVars, recording, mixerVars>>
  BY <1>b, Zenon DEF AddNewStream
<1>4. UNCHANGED <<known, sess, nextId, rec, bound, calls, auto, recording, inputs, obj>>
  BY <1>3 DEF managerVars, recorderVars, terminalVars, mixerVars
<1>5. PICK x \in StepRec : /\ x = Step("added", Id, Sip[1].remote)
                          /\ x.do = "added" /\ x.id = Id /\ x.remote = Sip[1].remote
  BY <1>2, StepIs
<1>6. ~ (Len(Sip) > 1) /\ Len(Sip) \in Nat
  <2>1. Len(Sip) > 1 => Follows(Sip[1], Sip[2])
    BY <1>0, First DEF Sip, Threads
  <2> QED  BY <1>0, <1>1, <2>1, HeadIs DEF Follows
<1>7. /\ Shape' /\ Do' = "added" /\ Sip'[1] = x /\ Id' = Id
      /\ \A c : Ending(c)' <=> Ending(c)
      /\ \A s : Leaving(s)' <=> Leaving(s)
  <2>1. Then("sip", <<x>>)
    BY <1>3, <1>5
  <2> QED  BY <1>0, <1>1, <1>5, <1>6, <2>1, Replaced DEF Removal
<1>8. \A c : ~ Ending(c)
  <2>1. \A k \in 1 .. Len(Sip) : k = 1
    BY <1>6
  <2> QED  BY <1>1, <2>1 DEF Ending
<1>9. recording
  <2>1. \E k \in DOMAIN calls : Id \in SessionsOf(k)
    BY <1>0, <1>1 DEF ListedOK, OfCall
  <2>2. calls # <<>>
    BY <2>1
  <2> QED  BY <1>0, <1>1, <2>2 DEF Phase
<1>10. /\ DOMAIN streams' = DOMAIN streams \cup {Len(streams) + 1}
       /\ \A k \in DOMAIN streams : streams'[k] = streams[k]
       /\ streams'[Len(streams) + 1].id = Id
       /\ streams'[Len(streams) + 1].remote = Sip[1].remote
       /\ Len(streams) + 1 \notin DOMAIN streams
  <2> DEFINE S == [id : Nat \ {0}, remote : BOOLEAN]
  <2>1. streams \in Seq(S)
    BY <1>0 DEF ListOK
  <2>2. Len(streams) \in Nat /\ DOMAIN streams = 1 .. Len(streams)
    BY <2>1
  <2>3. e.id = Id /\ e.remote = Sip[1].remote
    OBVIOUS
  <2> HIDE DEF S, e
  <2>4. /\ DOMAIN streams' = 1 .. Len(streams) + 1
        /\ \A k \in DOMAIN streams : streams'[k] = streams[k]
        /\ streams'[Len(streams) + 1] = e
    BY <1>3, <2>1, <2>2
  <2> QED  BY <2>2, <2>3, <2>4
<1>11. StreamIds' = StreamIds \cup {Id}
  BY <1>10 DEF StreamIds
<1>13. (\A k : SessionsOf(k)' = SessionsOf(k)) /\ (\A s : OfCall(s)' <=> OfCall(s))
  BY <1>4, SameCalls
<1>14. CallsOK'
  BY <1>0, <1>4, <1>7, <1>8, <1>13 DEF CallsOK
<1>15. ListedOK'
  <2>1. \A s \in StreamIds' : OfCall(s)
    BY <1>0, <1>1, <1>11 DEF ListedOK
  <2>2. \A k \in DOMAIN calls : \A s \in SessionsOf(k) : s \in DOMAIN rec => s \in StreamIds'
    BY <1>0, <1>8, <1>11 DEF ListedOK
  <2> QED  BY <1>0, <1>1, <1>4, <1>7, <1>8, <1>13, <2>1, <2>2 DEF ListedOK
<1>16. Phase'
  BY <1>0, <1>1, <1>4, <1>7, <1>9 DEF Phase
<1>17. FedOK'
  BY <1>0, <1>1, <1>4, <1>7, <1>11 DEF FedOK, Removal
<1>18. OwnedOK'
  BY <1>0, <1>1, <1>4, <1>7, <1>11 DEF OwnedOK
<1>19. OneInput' /\ MixedOK'
  BY <1>0, <1>4, SameInputs DEF OneInput, MixedOK
<1>20. SidesOK'
  <2>1. \A u \in BOOLEAN : \A k \in DOMAIN inputs[u] :
          obj[inputs[u][k]].id \in StreamIds /\ SideIs(obj[inputs[u][k]].id, u)
    BY <1>0 DEF SidesOK, MixedOK, OwnedOK
  <2>2. ASSUME NEW u \in BOOLEAN, NEW k \in DOMAIN inputs[u] PROVE SideIs(obj[inputs[u][k]].id, u)'
    <3>1. \A s \in StreamIds : SideIs(s, u) => \A j \in DOMAIN streams' :
             streams'[j].id = s => streams'[j].remote = u
      BY <1>2, <1>10 DEF SideIs
    <3> QED  BY <1>4, <2>1, <3>1 DEF SideIs
  <2>3. \A j \in DOMAIN streams' : streams'[j].id = Id => streams'[j].remote = Sip[1].remote
    <3>1. \A k \in DOMAIN streams : streams[k].id # Id
      BY <1>2 DEF StreamIds
    <3> QED  BY <1>10, <3>1
  <2>4. SideIs(Id, Sip[1].remote)'
    BY <1>5, <1>7, <2>3 DEF SideIs
  <2> QED  BY <1>4, <2>2, <2>4 DEF SidesOK
<1> QED  BY <1>7, <1>14, <1>15, <1>16, <1>17, <1>18, <1>19, <1>20 DEF Recorded

LEMMA AddedStreamRecorded ==
  ASSUME BInv, Recorded, AddedStream("sip")
  PROVE  Recorded'
<1>0. /\ ProgOK /\ ListOK /\ BoundOK
      /\ Shape /\ Phase /\ CallsOK /\ ListedOK /\ FedOK /\ OwnedOK /\ OneInput /\ MixedOK /\ SidesOK
  BY DEF BInv, Recorded
<1>1. /\ Len(Sip) > 0 /\ Do = "added" /\ Head(Sip) = Sip[1] /\ Sip[1] \in StepRec
      /\ Sip[1].do = "added"
  <2>1. Doing("sip", "added")
    BY DEF AddedStream
  <2> QED  BY <1>0, <2>1, HeadIs
<1>2. Sip[1].remote \in BOOLEAN /\ Id \in Nat
  BY <1>1, StepFields DEF Id
<1>b. Head(prog["sip"]) = Sip[1] /\ Head(prog["sip"]).id = Id
  BY <1>1 DEF Sip, Id
<1>3. recording
  <2>1. \E k \in DOMAIN calls : Id \in SessionsOf(k)
    BY <1>0, <1>1 DEF ListedOK, OfCall
  <2>2. calls # <<>>
    BY <2>1
  <2> QED  BY <1>0, <1>1, <2>2 DEF Phase
<1>4. /\ Then("sip", <<Step("input", Id, Sip[1].remote)>>)
      /\ UNCHANGED <<managerVars, recorderVars, bound, terminalVars, streams, recording, mixerVars>>
  BY <1>b, <1>3 DEF AddedStream
<1>5. UNCHANGED <<known, sess, nextId, rec, bound, calls, auto, streams, recording, inputs, obj>>
  BY <1>4 DEF managerVars, recorderVars, terminalVars, mixerVars
<1>6. PICK x \in StepRec : /\ x = Step("input", Id, Sip[1].remote)
                          /\ x.do = "input" /\ x.id = Id /\ x.remote = Sip[1].remote
  BY <1>2, StepIs
<1>7. ~ (Len(Sip) > 1)
  <2>1. Len(Sip) > 1 => Follows(Sip[1], Sip[2])
    BY <1>0, First DEF Sip, Threads
  <2> QED  BY <1>1, <2>1 DEF Follows
<1>8. /\ Shape' /\ Do' = "input" /\ Sip'[1] = x /\ Id' = Id
      /\ \A c : Ending(c)' <=> Ending(c)
      /\ \A s : Leaving(s)' <=> Leaving(s)
  <2>1. Then("sip", <<x>>)
    BY <1>4, <1>6
  <2> QED  BY <1>0, <1>1, <1>6, <1>7, <2>1, Replaced DEF Removal
<1>9. CallsOK' /\ ListedOK'
  BY <1>0, <1>1, <1>5, <1>8, ListsKept
<1>10. Phase'
  BY <1>0, <1>1, <1>5, <1>8 DEF Phase
<1>11. FedOK' /\ OwnedOK' /\ OneInput' /\ MixedOK' /\ SidesOK'
  <2>1. SideIs(Id', Sip'[1].remote)
    BY <1>0, <1>1, <1>6, <1>8 DEF SidesOK
  <2> QED  BY <1>0, <1>1, <1>5, <1>8, <2>1, FeedKept
<1> QED  BY <1>8, <1>9, <1>10, <1>11 DEF Recorded

LEMMA DeleteStreamRecorded ==
  ASSUME BInv, Recorded, DeleteStream("sip")
  PROVE  Recorded'
<1>0. /\ ProgOK /\ ListOK /\ BoundOK
      /\ Shape /\ Phase /\ CallsOK /\ ListedOK /\ FedOK /\ OwnedOK /\ OneInput /\ MixedOK /\ SidesOK
  BY DEF BInv, Recorded
<1>1. /\ Len(Sip) > 0 /\ Do = "delete" /\ Head(Sip) = Sip[1] /\ Sip[1] \in StepRec
      /\ Sip[1].do = "delete"
  <2>1. Doing("sip", "delete")
    BY DEF DeleteStream
  <2> QED  BY <1>0, <2>1, HeadIs
<1>2. Id \in Nat
  BY <1>1, StepFields DEF Id
<1>b. Head(prog["sip"]) = Sip[1] /\ Head(prog["sip"]).id = Id
  BY <1>1 DEF Sip, Id
<1>3. UNCHANGED <<managerVars, recorderVars, bound, terminalVars, streams, recording, mixerVars>>
  BY DEF DeleteStream
<1>4. UNCHANGED <<known, sess, nextId, rec, bound, calls, auto, streams, recording, inputs, obj>>
  BY <1>3 DEF managerVars, recorderVars, terminalVars, mixerVars
<1> DEFINE its == {k \in DOMAIN streams : streams[k].id = Id}
           it == CHOOSE k \in its : TRUE
<1>5. Then("sip", IF recording /\ its # {}
                    THEN <<Step("unbind", Id, streams[it].remote), Step("erase", Id, FALSE)>>
                    ELSE <<>>)
  BY <1>b, Zenon DEF DeleteStream
<1>6. its # {} => recording /\ it \in its
  BY <1>0 DEF Phase
<1>7. \A k : k \in its <=> k \in DOMAIN streams /\ streams[k].id = Id
  OBVIOUS
<1> HIDE DEF its, it
<1>8. CASE Id \in StreamIds
  <2>1. it \in DOMAIN streams /\ streams[it].id = Id /\ its # {}
    BY <1>6, <1>7, <1>8 DEF StreamIds
  <2>2. streams[it].remote \in BOOLEAN
    BY <1>0, <2>1, ListFields
  <2>3. PICK x \in StepRec : /\ x = Step("unbind", Id, streams[it].remote)
                            /\ x.do = "unbind" /\ x.id = Id /\ x.remote = streams[it].remote
    BY <1>2, <2>2, StepIs
  <2>4. PICK y \in StepRec : y = Step("erase", Id, FALSE) /\ y.do = "erase" /\ y.id = Id
    BY <1>2, StepOfList
  <2>5. Then("sip", <<x, y>>)
    BY <1>5, <1>6, <2>1, <2>3, <2>4
  <2>6. /\ Shape' /\ Do' = "unbind" /\ Sip'[1] = x /\ Id' = Id
        /\ \A c : Ending(c)' <=> Ending(c)
        /\ \A s : Leaving(s)' <=> Leaving(s)
    BY <1>0, <1>1, <2>3, <2>4, <2>5, Found
  <2>7. SideIs(Id, streams[it].remote)
    BY <1>0, <2>1 DEF SideIs, ListOK
  <2>8. CallsOK' /\ ListedOK'
    BY <1>0, <1>1, <1>4, <2>6, ListsKept
  <2>9. Phase'
    BY <1>0, <1>1, <1>4, <2>6 DEF Phase
  <2>10. FedOK' /\ OwnedOK' /\ OneInput' /\ MixedOK' /\ SidesOK'
    BY <1>0, <1>1, <1>4, <2>3, <2>6, <2>7, FeedKept DEF Removal
  <2> QED  BY <2>6, <2>8, <2>9, <2>10 DEF Recorded
<1>9. CASE Id \notin StreamIds
  <2>1. its = {}
    BY <1>7, <1>9 DEF StreamIds
  <2>2. Then("sip", <<>>)
    BY <1>5, <2>1
  <2>3. /\ Shape' /\ Do' \in {"idle", "delete", "ended"}
        /\ \A c : Ending(c)' <=> Ending(c)
        /\ \A s \in StreamIds : Leaving(s) => Leaving(s)'
        /\ \A s : Leaving(s)' => Leaving(s)
    BY <1>0, <1>1, <1>9, <2>2, Finished
  <2>4. CallsOK' /\ ListedOK'
    BY <1>0, <1>1, <1>4, <2>3, ListsKept
  <2>5. Phase'
    BY <1>0, <1>1, <1>4, <2>3 DEF Phase
  <2>6. FedOK' /\ OwnedOK' /\ OneInput' /\ MixedOK' /\ SidesOK'
    BY <1>0, <1>1, <1>4, <1>9, <2>3, FeedKept DEF Removal
  <2> QED  BY <2>3, <2>4, <2>5, <2>6 DEF Recorded
<1> QED  BY <1>8, <1>9

LEMMA EraseStreamRecorded ==
  ASSUME BInv, Recorded, EraseStream("sip")
  PROVE  Recorded'
<1>0. /\ ProgOK /\ ListOK /\ BoundOK
      /\ Shape /\ Phase /\ CallsOK /\ ListedOK /\ FedOK /\ OwnedOK /\ OneInput /\ MixedOK /\ SidesOK
  BY DEF BInv, Recorded
<1>1. /\ Len(Sip) > 0 /\ Do = "erase" /\ Head(Sip) = Sip[1] /\ Sip[1] \in StepRec
      /\ Sip[1].do = "erase"
  <2>1. Doing("sip", "erase")
    BY DEF EraseStream
  <2> QED  BY <1>0, <2>1, HeadIs
<1>2. Id \in StreamIds /\ Id \notin DOMAIN bound
  <2>1. "sip" \in Threads
    BY DEF Threads
  <2>2. Sip # <<>> /\ ThreadOK("sip")
    BY <1>0, <1>1, <2>1, HeadIs DEF BInv
  <2> QED  BY <1>1, <2>2 DEF Id, Sip, ThreadOK, AboutStream, StepOK
<1>b. Head(prog["sip"]) = Sip[1] /\ Head(prog["sip"]).id = Id
  BY <1>1 DEF Sip, Id
<1>3. /\ Then("sip", <<>>)
      /\ UNCHANGED <<managerVars, recorderVars, bound, terminalVars, recording, mixerVars>>
  BY DEF EraseStream
<1>4. UNCHANGED <<known, sess, nextId, rec, bound, calls, auto, recording, inputs, obj>>
  BY <1>3 DEF managerVars, recorderVars, terminalVars, mixerVars
<1>5. PICK f \in DOMAIN streams : streams[f].id = Id /\ streams' = RemoveAt(streams, f)
  <2> DEFINE it == CHOOSE k \in DOMAIN streams : streams[k].id = Id
  <2>1. \E k \in DOMAIN streams : streams[k].id = Id
    BY <1>2 DEF StreamIds
  <2>2. it \in DOMAIN streams /\ streams[it].id = Id
    BY <2>1
  <2>3. streams' = RemoveAt(streams, it)
    BY <1>b, Zenon DEF EraseStream
  <2> QED  BY <2>2, <2>3
<1>6. /\ \A i \in DOMAIN streams' : \E j \in DOMAIN streams \ {f} : streams'[i] = streams[j]
      /\ \A j \in DOMAIN streams \ {f} : \E i \in DOMAIN streams' : streams'[i] = streams[j]
  <2> DEFINE S == [id : Nat \ {0}, remote : BOOLEAN]
  <2>1. streams \in Seq(S)
    BY <1>0 DEF ListOK
  <2> HIDE DEF S
  <2>2. /\ \A i \in DOMAIN RemoveAt(streams, f) : \E j \in DOMAIN streams \ {f} :
              RemoveAt(streams, f)[i] = streams[j] /\ j = IF i < f THEN i ELSE i + 1
        /\ \A j \in DOMAIN streams \ {f} : \E i \in DOMAIN RemoveAt(streams, f) :
              RemoveAt(streams, f)[i] = streams[j]
    BY <2>1, RemovedElements
  <2> QED  BY <1>5, <2>2
<1>7. StreamIds' = StreamIds \ {Id}
  <2>1. \A j \in DOMAIN streams : streams[j].id = Id => j = f
    BY <1>0, <1>5 DEF ListOK
  <2>2. \A i \in DOMAIN streams' : streams'[i].id \in StreamIds \ {Id}
    BY <1>6, <2>1 DEF StreamIds
  <2>3. \A j \in DOMAIN streams : streams[j].id # Id => streams[j].id \in StreamIds'
    <3> TAKE j \in DOMAIN streams
    <3> HAVE streams[j].id # Id
    <3>1. j \in DOMAIN streams \ {f}
      BY <1>5
    <3>2. PICK i \in DOMAIN streams' : streams'[i] = streams[j]
      BY <1>6, <3>1
    <3> QED  BY <3>2 DEF StreamIds
  <2> QED  BY <2>2, <2>3 DEF StreamIds
<1>8. /\ Shape' /\ Do' \in {"idle", "delete", "ended"}
      /\ \A c : Ending(c)' <=> Ending(c)
      /\ \A s \in StreamIds' : Leaving(s) => Leaving(s)'
      /\ \A s : Leaving(s)' => Leaving(s)
  BY <1>0, <1>1, <1>3, <1>7, Finished
<1>9. (\A k : SessionsOf(k)' = SessionsOf(k)) /\ (\A s : OfCall(s)' <=> OfCall(s))
  BY <1>4, SameCalls
<1>10. Leaving(Id)
  <2>1. 1 \in 1 .. Len(Sip)
    BY <1>0, <1>1, HeadIs
  <2> QED  BY <1>1, <2>1 DEF Leaving, Removal, Id
<1>11. CallsOK'
  BY <1>0, <1>4, <1>8, <1>9 DEF CallsOK
<1>12. ListedOK'
  <2>1. \A k \in DOMAIN calls : \A s \in SessionsOf(k) :
          IF Ending(calls[k].call) THEN s \in StreamIds' => Leaving(s)'
          ELSE s \in DOMAIN rec => ~ Leaving(s)' /\ s \in StreamIds'
    BY <1>0, <1>1, <1>7, <1>8, <1>10 DEF ListedOK
  <2>2. \A s \in StreamIds' : OfCall(s)
    BY <1>0, <1>7 DEF ListedOK
  <2> QED  BY <1>4, <1>8, <1>9, <2>1, <2>2 DEF ListedOK
<1>13. Phase'
  <2>1. streams # <<>>
    BY <1>5
  <2> QED  BY <1>0, <1>1, <1>4, <1>8, <2>1 DEF Phase
<1>14. FedOK'
  BY <1>0, <1>4, <1>7, <1>8 DEF FedOK
<1>15. OwnedOK'
  BY <1>0, <1>1, <1>2, <1>4, <1>7, <1>8 DEF OwnedOK
<1>16. OneInput' /\ MixedOK'
  BY <1>0, <1>4, SameInputs DEF OneInput, MixedOK
<1>17. SidesOK'
  <2>1. \A s, u : SideIs(s, u) => \A i \in DOMAIN streams' : streams'[i].id = s => streams'[i].remote = u
    BY <1>6 DEF SideIs
  <2>2. \A u \in BOOLEAN : \A k \in DOMAIN inputs[u] : \A i \in DOMAIN streams' :
          streams'[i].id = obj[inputs[u][k]].id => streams'[i].remote = u
    BY <1>0, <2>1 DEF SidesOK
  <2> QED  BY <1>4, <1>8, <2>2 DEF SidesOK, SideIs
<1> QED  BY <1>8, <1>11, <1>12, <1>13, <1>14, <1>15, <1>16, <1>17 DEF Recorded

LEMMA SetRecordingRecorded ==
  ASSUME BInv, Recorded, NEW on \in BOOLEAN, SetRecording("sip", on)
  PROVE  Recorded'
<1>0. /\ ProgOK /\ ListOK /\ BoundOK
      /\ Shape /\ Phase /\ CallsOK /\ ListedOK /\ FedOK /\ OwnedOK /\ OneInput /\ MixedOK /\ SidesOK
  BY DEF BInv, Recorded
<1>1. /\ Len(Sip) > 0 /\ Do = IF on THEN "start" ELSE "stop"
      /\ Sip[1] \in StepRec /\ Sip[1].do = Do
  <2>1. Doing("sip", IF on THEN "start" ELSE "stop")
    BY DEF SetRecording
  <2> QED  BY <1>0, <2>1, HeadIs
<1>2. /\ recording' = on
      /\ Then("sip", IF recording = on THEN <<>>
                       ELSE <<Step(IF on THEN "record" ELSE "unrecord", 0, FALSE)>>)
      /\ UNCHANGED <<managerVars, recorderVars, bound, terminalVars, streams, mixerVars>>
  BY DEF SetRecording
<1>3. UNCHANGED <<known, sess, nextId, rec, bound, calls, auto, streams, inputs, obj>>
  BY <1>2 DEF managerVars, recorderVars, terminalVars, mixerVars
<1>4. ~ (Len(Sip) > 1)
  <2>1. Len(Sip) > 1 => Follows(Sip[1], Sip[2]) /\ 2 \in 2 .. Len(Sip)
    BY <1>0, HeadIs, First DEF Sip, Threads
  <2> QED  BY <1>0, <1>1, <2>1 DEF Shape, Follows
<1>5. /\ Shape'
      /\ Do' = IF recording = on THEN "idle" ELSE IF on THEN "record" ELSE "unrecord"
      /\ \A c : Ending(c)' <=> Ending(c)
      /\ \A s : Leaving(s)' <=> Leaving(s)
  <2>1. CASE recording = on
    BY <1>0, <1>1, <1>2, <2>1, Finished DEF Removal
  <2>2. CASE recording # on
    <3> DEFINE do == IF on THEN "record" ELSE "unrecord"
    <3>1. do \in {"record", "unrecord"} /\ Then("sip", <<Step(do, 0, FALSE)>>)
      BY <1>2, <2>2
    <3> HIDE DEF do
    <3>2. PICK x \in StepRec : x = Step(do, 0, FALSE) /\ x.do = do
      <4>1. Step(do, 0, FALSE) \in StepRec /\ Step(do, 0, FALSE).do = do
        BY <3>1 DEF Step, StepRec
      <4> QED  BY <4>1
    <3>3. Then("sip", <<x>>)
      BY <3>1, <3>2
    <3>4. Shape' /\ Do' = x.do /\ (\A c : Ending(c)' <=> Ending(c)) /\ \A s : Leaving(s)' <=> Leaving(s)
      BY <1>0, <1>1, <1>4, <3>1, <3>2, <3>3, Replaced DEF Removal
    <3> QED  BY <2>2, <3>2, <3>4 DEF do
  <2> QED  BY <2>1, <2>2
<1>6. CallsOK' /\ ListedOK'
  BY <1>0, <1>1, <1>3, <1>5, ListsKept
<1>7. Phase'
  BY <1>0, <1>1, <1>2, <1>3, <1>5 DEF Phase
<1>8. FedOK' /\ OwnedOK' /\ OneInput' /\ MixedOK' /\ SidesOK'
  BY <1>0, <1>1, <1>3, <1>5, FeedKept DEF Removal
<1> QED  BY <1>5, <1>6, <1>7, <1>8 DEF Recorded

\* There are no streams to go over.
LEMMA RecordNextRecorded ==
  ASSUME BInv, Recorded, NEW each,
         RecordNext("sip", "record", each) \/ RecordNext("sip", "unrecord", each)
  PROVE  Recorded'
<1>0. /\ ProgOK /\ ListOK /\ BoundOK
      /\ Shape /\ Phase /\ CallsOK /\ ListedOK /\ FedOK /\ OwnedOK /\ OneInput /\ MixedOK /\ SidesOK
  BY DEF BInv, Recorded
<1>1. PICK do \in {"record", "unrecord"} : RecordNext("sip", do, each)
  OBVIOUS
<1>2. Len(Sip) > 0 /\ Do = do /\ Head(Sip) = Sip[1]
  <2>1. Doing("sip", do)
    BY <1>1 DEF RecordNext
  <2> QED  BY <1>0, <2>1, HeadIs
<1>3. streams = <<>>
  BY <1>0, <1>1, <1>2 DEF Phase
<1>4. NextStreams(Head(prog["sip"]).id) = {1} /\ ~ (1 <= Len(streams))
  <2>1. Len(streams) = 0 /\ DOMAIN streams = {}
    BY <1>3
  <2> QED  BY <2>1 DEF NextStreams
<1>5. /\ Then("sip", <<>>)
      /\ UNCHANGED <<managerVars, recorderVars, bound, terminalVars, streams, recording, mixerVars>>
  <2>1. 1 > Len(streams)
    BY <1>3
  <2> QED  BY <1>1, <1>4, <2>1 DEF RecordNext
<1>6. UNCHANGED <<known, sess, nextId, rec, bound, calls, auto, streams, recording, inputs, obj>>
  BY <1>5 DEF managerVars, recorderVars, terminalVars, mixerVars
<1>7. /\ Shape' /\ Do' = "idle"
      /\ \A c : Ending(c)' <=> Ending(c)
      /\ \A s : Leaving(s)' <=> Leaving(s)
  BY <1>0, <1>1, <1>2, <1>5, Finished DEF Removal
<1>8. CallsOK' /\ ListedOK'
  BY <1>0, <1>1, <1>2, <1>6, <1>7, ListsKept
<1>9. Phase'
  BY <1>0, <1>1, <1>2, <1>6, <1>7 DEF Phase
<1>10. FedOK' /\ OwnedOK' /\ OneInput' /\ MixedOK' /\ SidesOK'
  BY <1>0, <1>1, <1>2, <1>6, <1>7, FeedKept DEF Removal
<1> QED  BY <1>7, <1>8, <1>9, <1>10 DEF Recorded

\* A step of another thread, or a callback that does nothing to the terminal.
LEMMA StillRecorded ==
  ASSUME Recorded, prog'["sip"] = prog["sip"],
         UNCHANGED <<calls, streams, recording, auto, bound, inputs>>,
         DOMAIN obj' = DOMAIN obj, \A a \in DOMAIN obj : obj'[a].id = obj[a].id,
         CallsOK', ListedOK',
         \A s \in DOMAIN rec : s \in DOMAIN rec' /\ rec'[s].on = rec[s].on
  PROVE  Recorded'
<1>0. Shape /\ Phase /\ FedOK /\ OwnedOK /\ OneInput /\ MixedOK /\ SidesOK
  BY DEF Recorded
<1>1. Sip' = Sip
  BY DEF Sip
<1>2. Do' = Do /\ Id' = Id
  BY <1>1 DEF Do, Id
<1>3. Shape' /\ Phase'
  BY <1>0, <1>1, <1>2 DEF Shape, Phase
<1>4. FedOK' /\ OwnedOK' /\ OneInput' /\ MixedOK' /\ SidesOK'
  <2>1. Do \in {"added", "input", "unbind", "uninput"} => SideIs(Id', Sip'[1].remote)
    BY <1>0, <1>1, <1>2 DEF SidesOK
  <2> QED  BY <1>0, <1>1, <1>2, <2>1, FeedKept
<1> QED  BY <1>3, <1>4 DEF Recorded

LEMMA ListsStill ==
  ASSUME Recorded, prog'["sip"] = prog["sip"], UNCHANGED <<calls, streams, known, sess, nextId>>,
         DOMAIN rec' \subseteq DOMAIN rec
  PROVE  CallsOK' /\ ListedOK'
<1>1. Sip' = Sip
  BY DEF Sip
<1>2. /\ Do' = Do /\ Id' = Id
      /\ (\A c : Ending(c)' <=> Ending(c)) /\ (\A s : Leaving(s)' <=> Leaving(s))
  BY <1>1 DEF Do, Id, Ending, Leaving
<1>3. CallsOK /\ ListedOK
  BY DEF Recorded
<1> QED  BY <1>2, <1>3, ListsKept

\* The application gives back the terminal.
LEMMA ReleaseRecorded ==
  ASSUME BInv, Recorded, Release("api")
  PROVE  Recorded'
<1>1. /\ "sip" \in Threads /\ "api" \in Threads /\ "sip" # "api"
      /\ prog \in [Threads -> Seq(StepRec)]
  BY DEF Threads, BInv, ProgOK
<1>2. prog'["sip"] = prog["sip"]
  BY <1>1 DEF Release, Then
<1>3. UNCHANGED <<known, sess, nextId, rec, bound, calls, auto, streams, recording, inputs, obj>>
  BY DEF Release, managerVars, recorderVars, mixerVars
<1> QED  BY <1>2, <1>3, ListsStill, StillRecorded

\* The application calls; the RTP thread flushes.
LEMMA OthersRecorded ==
  ASSUME BInv, Recorded, ApiCalls \subseteq {"auto"},
         GetAudioData \/ FlushStream \/ \E what \in ApiCalls : Call(what)
  PROVE  Recorded'
<1>1. /\ "sip" \in Threads /\ "api" \in Threads /\ "sip" # "api"
      /\ prog \in [Threads -> Seq(StepRec)] /\ BoundOK
  BY DEF Threads, BInv, ProgOK
<1>2. prog'["sip"] = prog["sip"]
  <2>1. CASE FlushStream
    BY <2>1, Zenon DEF FlushStream
  <2>2. CASE GetAudioData
    BY <1>1, <2>2 DEF GetAudioData, Begin
  <2>3. ASSUME NEW what \in ApiCalls, Call(what) PROVE prog'["sip"] = prog["sip"]
    BY <1>1, <2>3, Zenon DEF Call, Begin
  <2> QED  BY <2>1, <2>2, <2>3
<1>3. UNCHANGED <<known, sess, nextId, rec, bound, calls, streams, recording, inputs>>
  BY Zenon DEF GetAudioData, FlushStream, Call, managerVars, recorderVars, terminalVars, mixerVars
<1>4. auto' = auto
  <2>1. auto
    BY DEF Recorded, Phase
  <2>2. ASSUME NEW what \in ApiCalls, Call(what) PROVE auto' = TRUE
    BY <2>2, Zenon DEF Call
  <2> QED  BY <2>1, <2>2, Zenon DEF GetAudioData, FlushStream, terminalVars
<1>5. DOMAIN obj' = DOMAIN obj /\ \A a \in DOMAIN obj : obj'[a].id = obj[a].id
  <2>1. CASE obj' = obj
    BY <2>1
  <2>2. CASE FlushStream
    BY <1>1, <2>2, FlushMarks
  <2> QED  BY <2>1, <2>2, Zenon DEF GetAudioData, Call, mixerVars
<1> QED  BY <1>2, <1>3, <1>4, <1>5, ListsStill, StillRecorded

-----------------------------------------------------------------------------
\* When SIPLib calls back, nothing is left of the callback before.
LEMMA IdleRecorded ==
  ASSUME BInv, Recorded, Do = "idle"
  PROVE  /\ ProgOK /\ ListOK /\ BoundOK /\ calls \in Seq(CallRec)
         /\ Shape /\ Phase /\ CallsOK /\ ListedOK /\ FedOK
         /\ OwnedOK /\ OneInput /\ MixedOK /\ SidesOK
         /\ \A s \in StreamIds : s \in DOMAIN rec /\ s \in DOMAIN bound /\ rec[s].on
         /\ \A a \in DOMAIN obj : /\ obj[a].id \in StreamIds /\ obj[a].id \in DOMAIN bound
                                  /\ bound[obj[a].id] = a
BY DEF BInv, ListOK, CallRec, Recorded, FedOK, OwnedOK, Removal

LEMMA ModifySessionRecorded ==
  ASSUME BInv, PInv, Recorded, NEW s, NEW p \in Ports, ModifySession(s, p)
  PROVE  Recorded'
<1>1. /\ Begin("sip", <<>>) /\ rec' = [rec EXCEPT ![s].port = p] /\ s \in DOMAIN rec
      /\ UNCHANGED <<known, sess, nextId, bound, calls, auto, streams, recording, inputs, obj>>
  BY DEF ModifySession, managerVars, terminalVars, mixerVars
<1>2. prog' = prog
  BY <1>1, BeginNothing DEF BInv
<1>3. /\ DOMAIN rec' = DOMAIN rec
      /\ \A i \in DOMAIN rec : rec'[i].on = rec[i].on
  <2>1. rec \in [DOMAIN rec -> RecRec]
    BY DEF PInv, SessionsKept
  <2> QED  BY <1>1, <2>1 DEF RecRec
<1>4. CallsOK' /\ ListedOK'
  BY <1>1, <1>2, <1>3, ListsStill
<1> QED  BY <1>1, <1>2, <1>3, <1>4, StillRecorded

LEMMA NewCallRecorded ==
  ASSUME BInv, Recorded, mapped, NEW c \in CallIds, NEW o \in BOOLEAN, NewCall(c, o)
  PROVE  Recorded'
<1> DEFINE e == [call |-> c, out |-> o, ids |-> <<>>]
           q == Append(calls, e)
           x == Step("start", 0, FALSE)
<1>1. /\ c \notin known /\ known' = known \cup {c} /\ calls' = q
      /\ Begin("sip", IF auto THEN <<x>> ELSE <<>>)
      /\ UNCHANGED <<sess, nextId, rec, bound, auto, streams, recording, inputs, obj>>
  BY DEF NewCall, recorderVars, mixerVars
<1>2. x \in StepRec /\ x.do = "start"
  BY StepOfNone
<1>3. auto /\ Begin("sip", <<x>>)
  BY <1>1 DEF Recorded, Phase
<1>e. e \in CallRec /\ e.call = c /\ ToSet(e.ids) = {}
  <2>1. <<>> \in Seq(Nat) /\ DOMAIN <<>> = {}
    OBVIOUS
  <2> QED  BY <2>1 DEF CallRec, ToSet
<1> HIDE DEF x, e
<1>4. /\ Do = "idle" /\ Do' = "start" /\ Shape'
      /\ \A d : ~ Ending(d)' /\ ~ Ending(d)
      /\ \A s : ~ Leaving(s)'
  BY <1>2, <1>3, BeginStep DEF BInv
<1>0. /\ ProgOK /\ ListOK /\ calls \in Seq(CallRec)
      /\ Phase /\ CallsOK /\ ListedOK /\ FedOK /\ OwnedOK /\ OneInput /\ MixedOK /\ SidesOK
  BY <1>4, IdleRecorded
<1>5. /\ Len(calls) \in Nat /\ DOMAIN calls = 1 .. Len(calls) /\ Len(calls) + 1 \in DOMAIN q
      /\ DOMAIN q = DOMAIN calls \cup {Len(calls) + 1} /\ Len(calls) + 1 \notin DOMAIN calls
      /\ \A k \in DOMAIN calls : q[k] = calls[k]
      /\ q[Len(calls) + 1] = e /\ q # <<>>
  <2>1. Len(calls) \in Nat /\ DOMAIN calls = 1 .. Len(calls)
    BY <1>0
  <2>2. /\ q \in Seq(CallRec) /\ DOMAIN q = 1 .. Len(calls) + 1
        /\ \A k \in DOMAIN calls : k \in DOMAIN q /\ q[k] = calls[k]
        /\ q[Len(calls) + 1] = e
    BY <1>0, <1>e, Appended
  <2> HIDE DEF q
  <2> QED  BY <2>1, <2>2
<1>6. PICK n : /\ DOMAIN calls' = DOMAIN calls \cup {n} /\ n \notin DOMAIN calls
               /\ calls'[n] = e /\ calls' # <<>>
               /\ \A k \in DOMAIN calls : calls'[k] = calls[k]
  <2>1. calls' = q
    BY <1>1
  <2> HIDE DEF q
  <2> QED  BY <1>5, <2>1
<1> HIDE DEF q
<1>7. SessionsOf(n)' = {} /\ \A k \in DOMAIN calls : SessionsOf(k)' = SessionsOf(k)
  BY <1>6, <1>e DEF SessionsOf
<1>8. \A s : OfCall(s) => OfCall(s)'
  BY <1>6, <1>7 DEF OfCall
<1>9. \A k \in DOMAIN calls : calls[k].call \in known /\ calls[k].call # c
  BY <1>0, <1>1, <1>4 DEF CallsOK
<1>10. CallsOK'
  <2>1. \A j, k \in DOMAIN calls' : calls'[j].call = calls'[k].call => j = k
    BY <1>0, <1>6, <1>7, <1>9, <1>e DEF CallsOK
  <2>2. \A k \in DOMAIN calls' : calls'[k].call \in known'
    BY <1>1, <1>6, <1>7, <1>9, <1>e
  <2>3. \A k \in DOMAIN calls' : \A s \in SessionsOf(k)' :
          s < nextId' /\ (s \in DOMAIN sess' => sess'[s] = calls'[k].call)
    BY <1>0, <1>1, <1>6, <1>7 DEF CallsOK
  <2>4. \A j, k \in DOMAIN calls' : \A s \in SessionsOf(j)' : s \in SessionsOf(k)' => j = k
    BY <1>0, <1>6, <1>7 DEF CallsOK
  <2> QED  BY <2>1, <2>2, <2>3, <2>4 DEF CallsOK
<1>11. ListedOK'
  <2>1. StreamIds' = StreamIds
    BY <1>1, SameStreams
  <2>2. \A k \in DOMAIN calls' : \A s \in SessionsOf(k)' :
          ~ Ending(calls[k].call)' /\ (s \in DOMAIN rec' => ~ Leaving(s)' /\ s \in StreamIds')
    BY <1>0, <1>1, <1>4, <1>6, <1>7, <2>1 DEF ListedOK
  <2> QED  BY <1>0, <1>4, <1>8, <2>1, <2>2 DEF ListedOK
<1>12. Phase'
  BY <1>0, <1>1, <1>4, <1>6 DEF Phase
<1>13. FedOK' /\ OwnedOK' /\ OneInput' /\ MixedOK' /\ SidesOK'
  BY <1>0, <1>1, <1>4, FeedKept DEF Removal
<1> QED  BY <1>4, <1>10, <1>11, <1>12, <1>13 DEF Recorded

\* The recorder has let go of the session, and the stream goes next, unless the call is gone.
LEMMA StopSessionRecorded ==
  ASSUME BInv, PInv, Recorded, mapped, NEW s \in Ids, StopSession(s)
  PROVE  Recorded'
<1>1. /\ s \in DOMAIN sess
      /\ sess' = Without(sess, {s}) /\ rec' = Without(rec, {s}) /\ bound' = Without(bound, {s})
      /\ Begin("sip", IF sess[s] \in known THEN <<Step("delete", s, FALSE)>> ELSE <<>>)
      /\ UNCHANGED <<known, nextId, calls, auto, streams, recording, inputs, obj>>
  BY DEF StopSession, terminalVars, mixerVars
<1>2. /\ DOMAIN sess' = DOMAIN sess \ {s} /\ (\A i \in DOMAIN sess' : sess'[i] = sess[i])
      /\ DOMAIN rec' = DOMAIN rec \ {s} /\ (\A i \in DOMAIN rec' : rec'[i] = rec[i])
      /\ DOMAIN bound' = DOMAIN bound \ {s} /\ (\A i \in DOMAIN bound' : bound'[i] = bound[i])
  BY <1>1 DEF Without
<1>3. /\ Do = "idle" /\ Shape' /\ Do' \in {"idle", "delete"}
      /\ (\A d : ~ Ending(d)) /\ (\A d : ~ Ending(d)')
      /\ \A i : Leaving(i)' => i = s
      /\ IF sess[s] \in known THEN Do' = "delete" /\ Id' = s ELSE Do' = "idle"
  <2>1. CASE sess[s] \in known
    <3>1. s \in Nat
      BY DEF Ids
    <3>2. PICK x \in StepRec : x = Step("delete", s, FALSE) /\ x.do = "delete" /\ x.id = s
      BY <3>1, StepOfList
    <3>3. Begin("sip", <<x>>)
      BY <1>1, <2>1, <3>2
    <3> QED  BY <2>1, <3>2, <3>3, BeginStep DEF BInv
  <2>2. CASE sess[s] \notin known
    <3>1. Begin("sip", <<>>)
      BY <1>1, <2>2
    <3>2. /\ Do = "idle" /\ Do' = "idle" /\ prog' = prog
          /\ (\A d : Ending(d)' <=> Ending(d)) /\ (\A i : Leaving(i)' <=> Leaving(i))
      BY <3>1, BeginNothing DEF BInv
    <3>3. ~ (Len(Sip) > 0) /\ Len(Sip) \in Nat
      BY <3>2, HeadIs DEF BInv
    <3>4. (\A d : ~ Ending(d)) /\ (\A i : ~ Leaving(i))
      BY <3>3 DEF Ending, Leaving
    <3>5. Shape'
      <4>1. Sip' = Sip
        BY <3>2 DEF Sip
      <4> QED  BY <3>2, <4>1 DEF Recorded, Shape
    <3> QED  BY <2>2, <3>2, <3>4, <3>5
  <2> QED  BY <2>1, <2>2
<1>0. /\ Phase /\ CallsOK /\ ListedOK /\ FedOK /\ OwnedOK /\ OneInput /\ MixedOK /\ SidesOK
      /\ \A i \in StreamIds : i \in DOMAIN rec /\ i \in DOMAIN bound /\ rec[i].on
      /\ \A a \in DOMAIN obj : /\ obj[a].id \in StreamIds /\ obj[a].id \in DOMAIN bound
                               /\ bound[obj[a].id] = a
  BY <1>3, IdleRecorded
<1>4. /\ (\A k : SessionsOf(k)' = SessionsOf(k)) /\ (\A i : OfCall(i)' <=> OfCall(i))
      /\ StreamIds' = StreamIds /\ (\A i, u : SideIs(i, u)' <=> SideIs(i, u))
      /\ \A a, u : Mixed(a, u)' <=> Mixed(a, u)
  BY <1>1, SameCalls, SameStreams, SameInputs
<1>5. s \in StreamIds => Do' = "delete" /\ Id' = s
  <2> HAVE s \in StreamIds
  <2>1. PICK k \in DOMAIN calls : s \in SessionsOf(k)
    BY <1>0 DEF ListedOK, OfCall
  <2>2. sess[s] = calls[k].call /\ calls[k].call \in known
    BY <1>0, <1>1, <1>3, <2>1 DEF CallsOK
  <2> QED  BY <1>3, <2>2
<1>6. CallsOK'
  <2>1. \A j, k \in DOMAIN calls : calls[j].call = calls[k].call => j = k
    BY <1>0 DEF CallsOK
  <2>2. \A k \in DOMAIN calls : calls[k].call \in known
    BY <1>0, <1>3 DEF CallsOK
  <2>3. \A k \in DOMAIN calls : \A i \in SessionsOf(k) :
          i < nextId /\ (i \in DOMAIN sess' => sess'[i] = calls[k].call)
    BY <1>0, <1>2 DEF CallsOK
  <2>4. \A j, k \in DOMAIN calls : \A i \in SessionsOf(j) : i \in SessionsOf(k) => j = k
    BY <1>0 DEF CallsOK
  <2> QED  BY <1>1, <1>4, <2>1, <2>2, <2>3, <2>4 DEF CallsOK
<1>7. ListedOK'
  BY <1>0, <1>1, <1>2, <1>3, <1>4 DEF ListedOK
<1>8. Phase'
  BY <1>0, <1>1, <1>3 DEF Phase
<1>9. FedOK'
  BY <1>0, <1>2, <1>3, <1>4, <1>5 DEF FedOK, Removal
<1>10. OwnedOK'
  BY <1>0, <1>1, <1>2, <1>3, <1>4, <1>5, ZenonT(60) DEF OwnedOK
<1>11. OneInput' /\ MixedOK'
  BY <1>0, <1>1, <1>4 DEF OneInput, MixedOK
<1>12. SidesOK'
  BY <1>0, <1>1, <1>3, <1>4 DEF SidesOK, SideIs
<1> QED  BY <1>3, <1>6, <1>7, <1>8, <1>9, <1>10, <1>11, <1>12 DEF Recorded

\* The new session is one of the call, and its stream is to be added.
LEMMA NewSessionRecorded ==
  ASSUME BInv, PInv, Recorded, mapped, NEW c \in CallIds, NEW p \in Ports, NewSession(c, p)
  PROVE  Recorded'
<1>1. /\ nextId' = nextId + 1 /\ sess' = Put(sess, nextId, c)
      /\ rec' = Put(rec, nextId, [port |-> p, on |-> FALSE])
      /\ UNCHANGED <<known, bound, auto, streams, recording, inputs, obj>>
  BY DEF NewSession, mixerVars
<1>2. /\ DOMAIN sess' = DOMAIN sess \cup {nextId} /\ DOMAIN rec' = DOMAIN rec \cup {nextId}
      /\ sess'[nextId] = c /\ nextId \in Nat \ {0}
      /\ nextId \notin DOMAIN sess /\ nextId \notin DOMAIN rec
      /\ \A i \in DOMAIN sess : sess'[i] = sess[i]
      /\ \A i \in DOMAIN rec : rec'[i] = rec[i]
  BY <1>1 DEF Put, PInv, SessionsKept, BInv, ListOK
<1>3. Begin("sip", <<>>) \/ \E r : Begin("sip", <<Step("add", nextId, r)>>)
  BY DEF NewSession
<1>4. Do = "idle"
  <2>1. Sip = <<>>
    BY <1>3 DEF Begin, Sip
  <2> QED  BY <2>1, HeadIs DEF BInv
<1>0. /\ ProgOK /\ ListOK /\ BoundOK /\ calls \in Seq(CallRec)
      /\ Shape /\ Phase /\ CallsOK /\ ListedOK /\ FedOK
      /\ OwnedOK /\ OneInput /\ MixedOK /\ SidesOK
  BY <1>4, IdleRecorded
<1>5. \A k \in DOMAIN calls : nextId \notin SessionsOf(k)
  <2> SUFFICES ASSUME NEW k \in DOMAIN calls, nextId \in SessionsOf(k) PROVE FALSE
    OBVIOUS
  <2>1. nextId < nextId
    BY <1>0 DEF CallsOK
  <2> QED  BY <1>2, <2>1
<1>6. \A k \in DOMAIN calls : \A i \in SessionsOf(k) : i < nextId'
  <2> TAKE k \in DOMAIN calls
  <2> TAKE i \in SessionsOf(k)
  <2>1. i < nextId
    BY <1>0 DEF CallsOK
  <2>2. i \in Nat
    <3>1. calls[k] \in CallRec
      BY <1>0
    <3>2. calls[k].ids \in Seq(Nat)
      BY <3>1 DEF CallRec
    <3> QED  BY <3>2 DEF SessionsOf, ToSet
  <2> QED  BY <1>1, <1>2, <2>1, <2>2
<1>7. CASE mapped /\ c \in known /\ CallAt(c) # {}
  <2>1. PICK it \in DOMAIN calls :
          /\ calls[it].call = c /\ calls' = [calls EXCEPT ![it].ids = Append(@, nextId)]
          /\ \E r \in BOOLEAN : Begin("sip", <<Step("add", nextId, r)>>)
    <3> DEFINE k == CHOOSE k \in CallAt(c) : TRUE
    <3>1. k \in CallAt(c)
      BY <1>7
    <3>2. k \in DOMAIN calls /\ calls[k].call = c
      BY <3>1 DEF CallAt
    <3>3. /\ calls' = [calls EXCEPT ![k].ids = Append(@, nextId)]
          /\ Begin("sip", <<Step("add", nextId, calls[k].out = (calls[k].ids = <<>>))>>)
      BY <1>7, Zenon DEF NewSession
    <3>4. (calls[k].out = (calls[k].ids = <<>>)) \in BOOLEAN
      OBVIOUS
    <3> HIDE DEF k
    <3> QED  BY <3>2, <3>3, <3>4
  <2>2. PICK r \in BOOLEAN : Begin("sip", <<Step("add", nextId, r)>>)
    BY <2>1
  <2>3. PICK x \in StepRec : x = Step("add", nextId, r) /\ x.do = "add" /\ x.id = nextId
    BY <1>2, StepIs
  <2>4. /\ Do' = "add" /\ Id' = nextId /\ Shape'
        /\ (\A d : ~ Ending(d)' /\ ~ Ending(d)) /\ (\A i : ~ Leaving(i)')
    <3>1. Begin("sip", <<x>>)
      BY <2>2, <2>3
    <3> QED  BY <1>0, <2>3, <3>1, BeginStep
  <2>5. /\ DOMAIN calls' = DOMAIN calls
        /\ \A k \in DOMAIN calls : calls'[k].call = calls[k].call
        /\ \A k \in DOMAIN calls \ {it} : calls'[k] = calls[k]
        /\ ToSet(calls'[it].ids) = ToSet(calls[it].ids) \cup {nextId}
    <3>0. calls[it] \in CallRec
      BY <1>0
    <3>1. calls[it] \in CallRec /\ calls[it].ids \in Seq(Nat)
      BY <3>0 DEF CallRec
    <3> DEFINE q == Append(calls[it].ids, nextId)
               e == [calls[it] EXCEPT !.ids = q]
    <3>2. /\ DOMAIN calls[it].ids = 1 .. Len(calls[it].ids) /\ Len(calls[it].ids) \in Nat
          /\ DOMAIN q = 1 .. Len(calls[it].ids) + 1
          /\ \A i \in DOMAIN calls[it].ids : i \in DOMAIN q /\ q[i] = calls[it].ids[i]
          /\ \A i \in DOMAIN q : i \in DOMAIN calls[it].ids \/ i = Len(calls[it].ids) + 1
          /\ q[Len(calls[it].ids) + 1] = nextId
      BY <1>2, <3>1, Appended
    <3> HIDE DEF q
    <3>3. ToSet(q) = ToSet(calls[it].ids) \cup {nextId}
      <4>1. Len(calls[it].ids) + 1 \in DOMAIN q
        BY <3>2
      <4> QED  BY <3>2, <4>1 DEF ToSet
    <3>4. e.call = calls[it].call /\ e.ids = q
      BY <3>1 DEF CallRec
    <3>5. calls' = [calls EXCEPT ![it] = e]
      BY <2>1 DEF q
    <3> HIDE DEF e
    <3> QED  BY <1>0, <3>3, <3>4, <3>5
  <2>6. /\ SessionsOf(it)' = SessionsOf(it) \cup {nextId}
        /\ \A k \in DOMAIN calls \ {it} : SessionsOf(k)' = SessionsOf(k)
    BY <2>5 DEF SessionsOf
  <2>7. \A i : OfCall(i) \/ i = nextId => OfCall(i)'
    BY <2>5, <2>6 DEF OfCall
  <2>8. CallsOK'
    <3>1. \A k \in DOMAIN calls' : \A i \in SessionsOf(k)' :
            i < nextId' /\ (i \in DOMAIN sess' => sess'[i] = calls'[k].call)
      <4>1. nextId < nextId'
        BY <1>1, <1>2
      <4>2. \A k \in DOMAIN calls : \A i \in SessionsOf(k) :
              i # nextId /\ (i \in DOMAIN sess' => sess'[i] = calls[k].call)
        BY <1>0, <1>2, <1>5 DEF CallsOK
      <4> QED  BY <1>2, <1>6, <2>1, <2>5, <2>6, <4>1, <4>2
    <3>2. \A j, k \in DOMAIN calls' : \A i \in SessionsOf(j)' : i \in SessionsOf(k)' => j = k
      BY <1>0, <1>5, <2>5, <2>6 DEF CallsOK
    <3>3. /\ \A j, k \in DOMAIN calls' : calls'[j].call = calls'[k].call => j = k
          /\ \A k \in DOMAIN calls' : calls'[k].call \in known'
      BY <1>0, <1>1, <2>4, <2>5 DEF CallsOK
    <3> QED  BY <3>1, <3>2, <3>3 DEF CallsOK
  <2>9. StreamIds' = StreamIds /\ nextId \notin StreamIds
    <3>1. nextId \notin StreamIds
      <4> SUFFICES ASSUME NEW k \in DOMAIN streams, streams[k].id = nextId PROVE FALSE
        BY DEF StreamIds
      <4> QED  BY <1>0, <1>2, SMTT(30) DEF ListOK
    <3> QED  BY <1>1, <3>1, SameStreams
  <2>10. ListedOK'
    <3>1. \A k \in DOMAIN calls : \A i \in SessionsOf(k) :
            i # nextId /\ (i \in DOMAIN rec' => i \in StreamIds)
      BY <1>0, <1>2, <1>4, <1>5, <2>4 DEF ListedOK
    <3>2. \A k \in DOMAIN calls' : \A i \in SessionsOf(k)' :
            i \in DOMAIN rec' => i \in StreamIds \/ i = nextId
      BY <2>5, <2>6, <3>1
    <3> QED  BY <1>0, <2>4, <2>7, <2>9, <3>2 DEF ListedOK
  <2>11. Phase'
    <3>1. calls' = <<>> <=> calls = <<>>
      <4>1. calls # <<>>
        BY <2>1
      <4>2. calls' # <<>>
        BY <2>1, <2>5
      <4> QED  BY <4>1, <4>2
    <3> QED  BY <1>0, <1>1, <1>4, <2>4, <3>1 DEF Phase
  <2>12. FedOK'
    <3>1. nextId \notin DOMAIN bound
      BY <1>0, <1>2 DEF BoundOK
    <3>2. \A i \in StreamIds : i \in DOMAIN rec' /\ i \in DOMAIN bound' /\ rec'[i].on
      BY <1>1, <1>2, <1>4, IdleRecorded
    <3> QED  BY <1>1, <1>2, <2>4, <2>9, <3>1, <3>2 DEF FedOK
  <2>13. OwnedOK'
    BY <1>1, <1>4, <2>9, IdleRecorded DEF OwnedOK
  <2>14. OneInput' /\ MixedOK' /\ SidesOK'
    BY <1>0, <1>1, <2>4, SameInputs DEF OneInput, MixedOK, SidesOK, SideIs
  <2> QED  BY <2>4, <2>8, <2>10, <2>11, <2>12, <2>13, <2>14 DEF Recorded
<1>8. CASE ~ (mapped /\ c \in known /\ CallAt(c) # {})
  <2>1. Begin("sip", <<>>) /\ calls' = calls
    BY <1>8 DEF NewSession
  <2>2. /\ Do' = Do /\ Do = "idle" /\ prog' = prog
        /\ (\A d : Ending(d)' <=> Ending(d)) /\ (\A i : Leaving(i)' <=> Leaving(i))
    BY <1>0, <2>1, BeginNothing
  <2>3. /\ \A k : SessionsOf(k)' = SessionsOf(k)
        /\ \A i : OfCall(i)' <=> OfCall(i)
        /\ StreamIds' = StreamIds
    BY <1>1, <2>1, SameCalls, SameStreams
  <2>4. CallsOK'
    <3>1. \A k \in DOMAIN calls : \A i \in SessionsOf(k) :
            i < nextId' /\ (i \in DOMAIN sess' => sess'[i] = calls[k].call)
      BY <1>0, <1>2, <1>5, <1>6 DEF CallsOK
    <3> QED  BY <1>0, <1>1, <2>1, <2>2, <2>3, <3>1 DEF CallsOK
  <2>5. ListedOK'
    BY <1>0, <1>2, <1>5, <2>1, <2>2, <2>3 DEF ListedOK
  <2> QED  BY <1>1, <1>2, <2>1, <2>2, <2>4, <2>5, StillRecorded
<1> QED  BY <1>7, <1>8

\* OnEndCall sets out to delete the streams of the sessions ids, and then the call.
LEMMA BeginEnd ==
  ASSUME ProgOK, NEW steps \in Seq(StepRec), NEW ids, NEW c, EndsCall(steps, ids, c),
         Begin("sip", steps)
  PROVE  /\ Do = "idle" /\ Do' \in {"delete", "ended"} /\ Shape'
         /\ (\A d : ~ Ending(d)) /\ (\A d : Ending(d)' <=> d = c)
         /\ \A s : Leaving(s)' <=> s \in ToSet(ids)
<1>1. Sip = <<>> /\ Sip' = steps
  BY BeginIs DEF Sip, Threads, EndsCall
<1>2. /\ Len(Sip) \in Nat /\ ~ (Len(Sip) > 0) /\ Do = "idle"
      /\ Len(steps) \in Nat /\ Len(steps) > 0 /\ Do' = steps[1].do
  BY <1>1, HeadIs DEF EndsCall, Do
<1>3. \A k \in 1 .. Len(steps) : steps[k].do \in {"delete", "ended"}
  BY DEF EndsCall
<1>4. 1 \in 1 .. Len(steps) /\ \A k \in 2 .. Len(steps) : k \in 1 .. Len(steps)
  BY <1>2
<1>5. Shape'
  BY <1>1, <1>2, <1>3, <1>4 DEF Shape
<1>6. \A d : Ending(d)' <=> d = c
  <2>1. \A d : Ending(d)' <=> \E k \in 1 .. Len(steps) : steps[k].do = "ended" /\ steps[k].call = d
    BY <1>1 DEF Ending
  <2> QED  BY <2>1 DEF EndsCall
<1>7. \A s : Leaving(s)' <=> s \in ToSet(ids)
  <2>1. \A s : Leaving(s)' <=> \E k \in 1 .. Len(steps) : steps[k].do \in Removal /\ steps[k].id = s
    BY <1>1 DEF Leaving
  <2>2. \A k \in 1 .. Len(steps) : steps[k].do \in Removal <=> steps[k].do = "delete"
    BY <1>3 DEF Removal
  <2> QED  BY <2>1, <2>2 DEF EndsCall
<1> QED  BY <1>2, <1>3, <1>4, <1>5, <1>6, <1>7 DEF Ending

LEMMA EndCallRecorded ==
  ASSUME BInv, Recorded, mapped, NEW c \in CallIds, EndCall(c)
  PROVE  Recorded'
<1>1. /\ c \in known /\ known' = known \ {c}
      /\ UNCHANGED <<sess, nextId, rec, bound, calls, auto, streams, recording, inputs, obj>>
  BY DEF EndCall, recorderVars, terminalVars, mixerVars
<1>2. Do = "idle"
  <2>1. Sip = <<>>
    BY DEF EndCall, Begin, Sip
  <2> QED  BY <2>1, HeadIs DEF BInv
<1>0. /\ ProgOK /\ ListOK /\ BoundOK /\ calls \in Seq(CallRec)
      /\ Shape /\ Phase /\ CallsOK /\ ListedOK /\ FedOK
      /\ OwnedOK /\ OneInput /\ MixedOK /\ SidesOK
  BY <1>2, IdleRecorded
<1>3. /\ \A k : SessionsOf(k)' = SessionsOf(k)
      /\ \A i : OfCall(i)' <=> OfCall(i)
      /\ StreamIds' = StreamIds
  BY <1>1, SameCalls, SameStreams
<1>4. CASE CallAt(c) # {}
  <2>1. PICK it \in DOMAIN calls :
          /\ calls[it].call = c
          /\ Begin("sip", [i \in DOMAIN calls[it].ids |-> Step("delete", calls[it].ids[i], FALSE)]
                            \o <<[do |-> "ended", call |-> c]>>)
    <3> DEFINE k == CHOOSE k \in CallAt(c) : TRUE
    <3>1. k \in CallAt(c)
      BY <1>4
    <3>2. k \in DOMAIN calls /\ calls[k].call = c
      BY <3>1 DEF CallAt
    <3>3. Begin("sip", [i \in DOMAIN calls[k].ids |-> Step("delete", calls[k].ids[i], FALSE)]
                         \o <<[do |-> "ended", call |-> c]>>)
      BY <1>4, Zenon DEF EndCall
    <3> HIDE DEF k
    <3> QED  BY <3>2, <3>3
  <2>2. PICK ids \in Seq(Nat) : ids = calls[it].ids
    <3>1. calls[it] \in CallRec
      BY <1>0
    <3> QED  BY <3>1 DEF CallRec
  <2>3. PICK steps \in Seq(StepRec) :
          /\ steps = [i \in DOMAIN ids |-> Step("delete", ids[i], FALSE)]
                       \o <<[do |-> "ended", call |-> c]>>
          /\ EndsCall(steps, ids, c)
    BY EndSteps
  <2>4. Begin("sip", steps)
    BY <2>1, <2>2, <2>3
  <2>5. /\ Do' \in {"delete", "ended"} /\ Shape'
        /\ (\A d : ~ Ending(d)) /\ (\A d : Ending(d)' <=> d = c)
        /\ \A s : Leaving(s)' <=> s \in ToSet(ids)
    BY <1>0, <2>3, <2>4, BeginEnd
  <2>6. \A s : Leaving(s)' <=> s \in SessionsOf(it)
    BY <2>2, <2>5 DEF SessionsOf
  <2>7. CallsOK'
    BY <1>0, <1>1, <1>3, <2>5 DEF CallsOK
  <2>8. ListedOK'
    <3>1. \A k \in DOMAIN calls : calls[k].call = c => k = it
      BY <1>0, <2>1 DEF CallsOK
    <3>2. \A k \in DOMAIN calls : \A s \in SessionsOf(k) : k # it => ~ Leaving(s)'
      BY <1>0, <2>6 DEF CallsOK
    <3>3. \A k \in DOMAIN calls : \A s \in SessionsOf(k) : s \in DOMAIN rec => s \in StreamIds
      BY <1>0, <1>2, <2>5 DEF ListedOK
    <3>4. \A k \in DOMAIN calls : \A s \in SessionsOf(k) :
            IF Ending(calls[k].call)' THEN Leaving(s)'
            ELSE s \in DOMAIN rec => ~ Leaving(s)' /\ s \in StreamIds
      <4> TAKE k \in DOMAIN calls
      <4> TAKE s \in SessionsOf(k)
      <4>1. (Ending(calls[k].call)') <=> (calls'[k].call = c)
        BY <2>5
      <4>2. CASE k = it
        BY <1>1, <2>1, <2>6, <4>1, <4>2
      <4>3. CASE k # it
        BY <1>1, <3>1, <3>2, <3>3, <4>1, <4>3
      <4> QED  BY <4>2, <4>3
    <3> QED  BY <1>0, <1>1, <1>3, <2>5, <3>4 DEF ListedOK
  <2>9. Phase'
    BY <1>0, <1>1, <1>2, <2>5 DEF Phase
  <2>10. FedOK' /\ OwnedOK' /\ OneInput' /\ MixedOK' /\ SidesOK'
    BY <1>0, <1>1, <1>2, <2>5, FeedKept DEF Removal
  <2> QED  BY <2>5, <2>7, <2>8, <2>9, <2>10 DEF Recorded
<1>5. CASE CallAt(c) = {}
  <2>1. Begin("sip", <<>>)
    BY <1>5 DEF EndCall
  <2>2. /\ Do' = Do /\ prog' = prog
        /\ (\A d : Ending(d)' <=> Ending(d)) /\ (\A i : Leaving(i)' <=> Leaving(i))
    BY <1>0, <1>2, <2>1, BeginNothing
  <2>3. \A k \in DOMAIN calls : calls[k].call # c
    BY <1>5 DEF CallAt
  <2>4. CallsOK'
    BY <1>0, <1>1, <1>3, <2>2, <2>3 DEF CallsOK
  <2>5. ListedOK'
    BY <1>0, <1>1, <1>2, <1>3, <2>2 DEF ListedOK
  <2> QED  BY <1>1, <2>2, <2>4, <2>5, StillRecorded
<1> QED  BY <1>4, <1>5

\* The streams of the call are gone; with the last call goes the recording.
LEMMA EndedCallRecorded ==
  ASSUME BInv, Recorded, EndedCall
  PROVE  Recorded'
<1>0. /\ ProgOK /\ ListOK /\ BoundOK /\ EndedOK("sip") /\ calls \in Seq(CallRec)
      /\ Shape /\ Phase /\ CallsOK /\ ListedOK /\ FedOK
      /\ OwnedOK /\ OneInput /\ MixedOK /\ SidesOK
  BY DEF BInv, Recorded, Threads, ListOK, CallRec
<1>1. /\ Len(Sip) > 0 /\ Len(Sip) \in Nat /\ Do = "ended" /\ Sip[1].do = "ended"
      /\ Head(Sip) = Sip[1] /\ Sip[1] \in StepRec
  <2>1. Doing("sip", "ended")
    BY DEF EndedCall
  <2> QED  BY <1>0, <2>1, HeadIs
<1>2. ~ (Len(Sip) > 1) /\ Len(Sip) = 1
  <2>1. Len(Sip) > 1 => Follows(Sip[1], Sip[2])
    BY <1>0, First DEF Sip, Threads
  <2>2. ~ (Len(Sip) > 1)
    BY <1>1, <2>1 DEF Follows
  <2>3. \A n \in Nat : n > 0 /\ ~ (n > 1) => n = 1
    OBVIOUS
  <2> QED  BY <1>1, <2>2, <2>3
<1> DEFINE c == Sip[1].call
<1>3. PICK it \in DOMAIN calls : calls[it].call = c /\ calls' = RemoveAt(calls, it)
  <2> DEFINE k == CHOOSE k \in CallAt(c) : TRUE
  <2>1. 1 \in 1 .. Len(Sip)
    BY <1>1
  <2>2. CallAt(c) # {}
    BY <1>0, <1>1, <2>1 DEF EndedOK, Sip
  <2>3. k \in CallAt(c)
    BY <2>2
  <2>4. k \in DOMAIN calls /\ calls[k].call = c
    BY <2>3 DEF CallAt
  <2>5. Head(prog["sip"]).call = c
    BY <1>1 DEF Sip
  <2>6. calls' = RemoveAt(calls, CHOOSE i \in CallAt(Head(prog["sip"]).call) : TRUE)
    BY DEF EndedCall
  <2>7. calls' = RemoveAt(calls, k)
    BY <2>5, <2>6
  <2> HIDE DEF k, c
  <2> QED  BY <2>4, <2>7
<1>4. UNCHANGED <<known, sess, nextId, rec, bound, auto, streams, recording, inputs, obj>>
  BY DEF EndedCall, managerVars, recorderVars, mixerVars
<1>5. \A k \in 1 .. Len(Sip) : k = 1
  BY <1>2
<1>6. (\A d : Ending(d) => d = c) /\ (\A s : ~ Leaving(s))
  BY <1>1, <1>5 DEF Ending, Leaving, Removal
<1>7. /\ Shape' /\ Do' = IF calls' = <<>> THEN "stop" ELSE "idle"
      /\ (\A d : ~ Ending(d)') /\ (\A s : ~ Leaving(s)')
  <2>1. Then("sip", IF calls' = <<>> THEN <<Step("stop", 0, FALSE)>> ELSE <<>>)
    BY DEF EndedCall
  <2>2. CASE calls' = <<>>
    <3> DEFINE x == Step("stop", 0, FALSE)
               one == <<x>>
    <3>1. x \in StepRec /\ x.do = "stop"
      BY StepOfNone
    <3> HIDE DEF x
    <3>2. one \in Seq(StepRec) /\ Len(one) = 1 /\ one[1] = x /\ Chained(one)
      BY <3>1, OneStep
    <3>3. Then("sip", one)
      BY <2>1, <2>2 DEF x
    <3> HIDE DEF one
    <3>4. /\ Len(prog'["sip"]) = Len(one) + Len(prog["sip"]) - 1
          /\ \A i \in 1 .. Len(prog'["sip"]) :
               prog'["sip"][i] = IF i <= Len(one) THEN one[i] ELSE prog["sip"][i - Len(one) + 1]
      BY <1>0, <1>1, <1>2, <3>2, <3>3, ThenIs DEF Sip, Threads
    <3>5. Len(Sip') = 1
      BY <1>2, <3>2, <3>4 DEF Sip
    <3>6. Sip'[1] = x
      BY <3>2, <3>4, <3>5 DEF Sip
    <3>7. \A k \in 1 .. Len(Sip') : k = 1
      BY <3>5
    <3>8. Do' = "stop"
      BY <3>1, <3>5, <3>6 DEF Do
    <3>9. \A k \in 2 .. Len(Sip') : FALSE
      BY <3>5
    <3> QED  BY <2>2, <3>1, <3>6, <3>7, <3>8, <3>9 DEF Shape, Ending, Leaving, Removal
  <2>3. CASE calls' # <<>>
    <3>1. Then("sip", <<>>)
      BY <2>1, <2>3
    <3>2. Shape' /\ Do' = "idle"
      BY <1>0, <1>1, <3>1, Finished DEF Removal
    <3>3. ProgOK'
      <4> DEFINE none == <<>>
      <4>1. none \in Seq(StepRec) /\ Len(none) = 0 /\ Chained(none) /\ Then("sip", none)
        BY <3>1 DEF Chained
      <4> HIDE DEF none
      <4>2. ~ (Len(none) > 0)
        BY <4>1
      <4> QED  BY <1>0, <1>1, <1>2, <4>1, <4>2, ThenIs DEF Sip, Threads
    <3>4. ~ (Len(Sip') > 0) /\ Len(Sip') \in Nat
      <4>1. (Do = "idle" => ~ (Len(Sip) > 0)) /\ Len(Sip) \in Nat
        BY <1>0, HeadIs
      <4>2. prog'["sip"] \in Seq(StepRec)
        BY <3>3 DEF ProgOK, Threads
      <4>3. Len(Sip') > 0 => Sip'[1] \in StepRec
        BY <4>2 DEF Sip
      <4> QED  BY <3>2, <4>2, <4>3 DEF Do, Sip, StepRec
    <3> QED  BY <2>3, <3>2, <3>4 DEF Ending, Leaving
  <2> QED  BY <2>2, <2>3
<1> HIDE DEF c
<1>8. /\ \A i \in DOMAIN calls' : \E j \in DOMAIN calls \ {it} :
           calls'[i] = calls[j] /\ j = IF i < it THEN i ELSE i + 1
      /\ \A j \in DOMAIN calls \ {it} : \E i \in DOMAIN calls' : calls'[i] = calls[j]
      /\ DOMAIN calls' \subseteq Nat /\ it \in Nat
      /\ (calls' = <<>>) <=> (DOMAIN calls = {it})
  <2> DEFINE q == RemoveAt(calls, it)
  <2>1. /\ \A i \in DOMAIN q : \E j \in DOMAIN calls \ {it} :
              q[i] = calls[j] /\ j = IF i < it THEN i ELSE i + 1
        /\ \A j \in DOMAIN calls \ {it} : \E i \in DOMAIN q : q[i] = calls[j]
        /\ DOMAIN q \subseteq Nat
        /\ (q = <<>>) <=> (DOMAIN calls = {it})
    BY <1>0, RemovedElements
  <2>2. it \in Nat /\ calls' = q
    BY <1>0, <1>3
  <2> HIDE DEF q
  <2> QED  BY <2>1, <2>2
<1>9. \A i \in DOMAIN calls' : \A j \in DOMAIN calls :
        calls'[i] = calls[j] => SessionsOf(i)' = SessionsOf(j)
  BY DEF SessionsOf
<1>10. \A k \in DOMAIN calls \ {it} : calls[k].call # c /\ ~ Ending(calls[k].call)
  BY <1>0, <1>3, <1>6 DEF CallsOK
<1>11. \A j, k \in DOMAIN calls' : \A m \in DOMAIN calls :
         (m = IF j < it THEN j ELSE j + 1) /\ (m = IF k < it THEN k ELSE k + 1) => j = k
  BY <1>8
<1>12. CallsOK'
  <2>1. \A j, k \in DOMAIN calls' : calls'[j].call = calls'[k].call => j = k
    <3> TAKE j, k \in DOMAIN calls'
    <3> HAVE calls'[j].call = calls'[k].call
    <3>1. PICK m \in DOMAIN calls \ {it} : calls'[j] = calls[m] /\ m = IF j < it THEN j ELSE j + 1
      BY <1>8
    <3>2. PICK n \in DOMAIN calls \ {it} : calls'[k] = calls[n] /\ n = IF k < it THEN k ELSE k + 1
      BY <1>8
    <3>3. m = n
      BY <1>0, <3>1, <3>2 DEF CallsOK
    <3> QED  BY <1>11, <3>1, <3>2, <3>3
  <2>2. \A k \in DOMAIN calls' : calls'[k].call \in known'
    BY <1>0, <1>4, <1>8, <1>10 DEF CallsOK
  <2>3. \A k \in DOMAIN calls' : \A s \in SessionsOf(k)' :
          s < nextId' /\ (s \in DOMAIN sess' => sess'[s] = calls'[k].call)
    BY <1>0, <1>4, <1>8, <1>9 DEF CallsOK
  <2>4. \A j, k \in DOMAIN calls' : \A s \in SessionsOf(j)' : s \in SessionsOf(k)' => j = k
    BY <1>0, <1>8, <1>9, <1>11 DEF CallsOK
  <2> QED  BY <2>1, <2>2, <2>3, <2>4 DEF CallsOK
<1>13. \A s \in StreamIds : \E k \in DOMAIN calls \ {it} : s \in SessionsOf(k)
  <2> TAKE s \in StreamIds
  <2>1. PICK k \in DOMAIN calls : s \in SessionsOf(k)
    BY <1>0 DEF ListedOK, OfCall
  <2>2. k # it
    <3> SUFFICES ASSUME k = it PROVE FALSE
      OBVIOUS
    <3>1. ~ Ending(calls[it].call) => calls[it].call \in known
      BY <1>0 DEF CallsOK
    <3>2. Ending(calls[it].call)
      <4>1. 1 \in 1 .. Len(Sip)
        BY <1>1
      <4> QED  BY <1>1, <1>3, <4>1 DEF Ending, c
    <3> QED  BY <1>0, <1>6, <2>1, <3>2 DEF ListedOK
  <2> QED  BY <2>1, <2>2
<1>14. StreamIds' = StreamIds
  BY <1>4, SameStreams
<1>15. ListedOK'
  <2>1. \A s \in StreamIds : OfCall(s)'
    BY <1>8, <1>9, <1>13 DEF OfCall
  <2>2. \A k \in DOMAIN calls' : \A s \in SessionsOf(k)' : s \in DOMAIN rec => s \in StreamIds
    BY <1>0, <1>1, <1>8, <1>9, <1>10 DEF ListedOK
  <2> QED  BY <1>4, <1>7, <1>14, <2>1, <2>2 DEF ListedOK
<1>16. Phase'
  <2>1. calls # <<>>
    BY <1>3
  <2>2. calls' = <<>> => streams = <<>>
    <3> HAVE calls' = <<>>
    <3>1. StreamIds = {}
      BY <1>8, <1>13
    <3>2. DOMAIN streams = {}
      BY <3>1 DEF StreamIds
    <3> QED  BY <1>0, <3>2 DEF ListOK
  <2> QED  BY <1>0, <1>1, <1>4, <1>7, <2>1, <2>2 DEF Phase
<1>17. FedOK' /\ OwnedOK' /\ OneInput' /\ MixedOK' /\ SidesOK'
  BY <1>0, <1>1, <1>4, <1>7, FeedKept DEF Removal
<1> QED  BY <1>7, <1>12, <1>15, <1>16, <1>17 DEF Recorded

-----------------------------------------------------------------------------
(* Once the terminal has left the maps. *)

LEMMA StillLeftover ==
  ASSUME CInv, ~ mapped, ~ mapped', UNCHANGED <<prog, refs, recording>>
  PROVE  CInv'
BY DEF CInv, LeftoverOK, QuietOK, Doing

\* A thread goes on with what is left to do.
LEMMA LeftoverThen ==
  ASSUME ProgOK, LeftoverOK, NEW t \in Threads, prog[t] # <<>>,
         NEW steps \in Seq(StepRec), Then(t, steps),
         \A k \in 1 .. Len(steps) : steps[k].do \in Leftover
  PROVE  LeftoverOK' /\ \A u \in Threads \ {t} : prog'[u] = prog[u]
<1>1. prog \in [Threads -> Seq(StepRec)] /\ Len(prog[t]) > 0
  BY First DEF ProgOK
<1>2. /\ Len(steps) \in Nat /\ Len(prog[t]) \in Nat
      /\ Len(prog'[t]) = Len(steps) + Len(prog[t]) - 1
      /\ \A i \in 1 .. Len(prog'[t]) :
           prog'[t][i] = IF i <= Len(steps) THEN steps[i] ELSE prog[t][i - Len(steps) + 1]
      /\ \A u \in Threads \ {t} : prog'[u] = prog[u]
  BY <1>1, ThenSteps
<1>3. \A k \in 1 .. Len(prog'[t]) : prog'[t][k].do \in Leftover
  <2> TAKE k \in 1 .. Len(prog'[t])
  <2>1. CASE k <= Len(steps)
    <3>1. k \in 1 .. Len(steps)
      BY <1>2, <2>1
    <3> QED  BY <1>2, <2>1, <3>1
  <2>2. CASE ~ (k <= Len(steps))
    <3>1. k - Len(steps) + 1 \in 1 .. Len(prog[t])
      BY <1>2, <2>2
    <3> QED  BY <1>2, <2>2, <3>1 DEF LeftoverOK
  <2> QED  BY <2>1, <2>2
<1> QED  BY <1>2, <1>3 DEF LeftoverOK

\* The last reference ends the recording before it deletes the terminal.
LEMMA LeftoverStep ==
  ASSUME BInv, CInv, ~ mapped, NEW t \in Threads, ThreadStep(t)
  PROVE  CInv'
<1>0. ProgOK /\ RefsOK /\ LeftoverOK /\ QuietOK
  BY DEF BInv, CInv
<1>1. /\ \A d : Doing(t, d) => d \in Leftover /\ prog[t] # <<>> /\ Head(prog[t]).do = d
      /\ prog[t] # <<>> => Head(prog[t]) \in StepRec
  <2> SUFFICES ASSUME prog[t] # <<>>
               PROVE  Head(prog[t]).do \in Leftover /\ Head(prog[t]) \in StepRec
    BY DEF Doing
  <2>1. Len(prog[t]) > 0 /\ Len(prog[t]) \in Nat /\ Head(prog[t]) = prog[t][1] /\ prog[t][1] \in StepRec
    BY <1>0, First
  <2>2. 1 \in 1 .. Len(prog[t])
    BY <2>1
  <2> QED  BY <1>0, <2>1, <2>2 DEF LeftoverOK
<1>2. ASSUME NEW steps \in Seq(StepRec), Then(t, steps),
             \A k \in 1 .. Len(steps) : steps[k].do \in Leftover,
             mapped' = mapped, NEW d, Doing(t, d), ~ recording' \/ d # "stop",
             recording' => recording, refs' = 0 => refs = 0 \/ Doing(t, "stop")'
      PROVE  CInv'
  <2>1. LeftoverOK' /\ \A u \in Threads \ {t} : prog'[u] = prog[u]
    BY <1>0, <1>1, <1>2, LeftoverThen
  <2>2. QuietOK'
    <3> SUFFICES ASSUME refs' = 0, recording' PROVE \E u \in Threads : Doing(u, "stop")'
      BY DEF QuietOK
    <3>1. CASE Doing(t, "stop")'
      BY <3>1
    <3>2. CASE refs = 0
      <4>1. PICK u \in Threads : Doing(u, "stop")
        BY <1>0, <1>2, <3>2 DEF QuietOK
      <4>2. u # t
        BY <1>2, <4>1 DEF Doing
      <4>3. Doing(u, "stop")'
        BY <2>1, <4>1, <4>2 DEF Doing
      <4> QED  BY <4>3
    <3> QED  BY <1>2, <3>1, <3>2
  <2> QED  BY <1>2, <2>1, <2>2 DEF CInv
<1> DEFINE none == <<>>
<1>3. none \in Seq(StepRec) /\ \A k \in 1 .. Len(none) : FALSE
  <2>1. Len(none) = 0
    OBVIOUS
  <2> QED  BY <2>1
<1>4. ASSUME NEW x \in StepRec, x.do \in Leftover
      PROVE  <<x>> \in Seq(StepRec) /\ \A k \in 1 .. Len(<<x>>) : <<x>>[k].do \in Leftover
  BY <1>4, OneStep
<1>5. ASSUME NEW x \in StepRec, NEW y \in StepRec, x.do \in Leftover, y.do \in Leftover
      PROVE  /\ <<x, y>> \in Seq(StepRec) /\ <<x, y>>[1] = x /\ Len(<<x, y>>) = 2
             /\ \A k \in 1 .. Len(<<x, y>>) : <<x, y>>[k].do \in Leftover
  BY <1>5
<1>6. ASSUME CreateInput(t) \/ StartRecord(t) \/ AddNewStream(t) \/ AddedStream(t) \/ DeleteStream(t)
             \/ EraseStream(t) \/ SetRecording(t, TRUE) \/ RecordNext(t, "record", "input")
      PROVE  FALSE
  <2>1. \A d \in {"input", "bind", "add", "added", "delete", "erase", "start", "record"} : ~ Doing(t, d)
    BY <1>1 DEF Leftover
  <2> QED  BY <1>6, <2>1, Zenon DEF CreateInput, StartRecord, AddNewStream, AddedStream, DeleteStream,
                             EraseStream, SetRecording, RecordNext
<1>7. CASE StopRecord(t)
  <2>1. /\ Doing(t, "unbind") /\ UNCHANGED <<refs, mapped, recording>>
        /\ Then(t, <<Step("uninput", Head(prog[t]).id, Head(prog[t]).remote)>>)
    BY <1>7 DEF StopRecord, terminalVars
  <2>2. PICK x \in StepRec : /\ x = Step("uninput", Head(prog[t]).id, Head(prog[t]).remote)
                            /\ x.do = "uninput"
    <3>1. Head(prog[t]).id \in Nat /\ Head(prog[t]).remote \in BOOLEAN
      BY <1>1, <2>1, StepFields
    <3> QED  BY <3>1, StepIs
  <2>3. Then(t, <<x>>) /\ x.do \in Leftover
    BY <2>1, <2>2 DEF Leftover
  <2> QED  BY <1>2, <1>4, <2>1, <2>3
<1>8. CASE DeleteInput(t)
  <2>1. Doing(t, "uninput") /\ UNCHANGED <<refs, mapped, recording>> /\ Then(t, none)
    BY <1>8, Zenon DEF DeleteInput, terminalVars
  <2> QED  BY <1>2, <1>3, <2>1, Zenon
<1>9. CASE SetRecording(t, FALSE)
  <2>1. /\ Doing(t, "stop") /\ UNCHANGED <<refs, mapped>> /\ recording' = FALSE
        /\ Then(t, none) \/ Then(t, <<Step("unrecord", 0, FALSE)>>)
    BY <1>9 DEF SetRecording, terminalVars
  <2>2. PICK x \in StepRec : x = Step("unrecord", 0, FALSE) /\ x.do = "unrecord"
    BY StepOfList
  <2>3. CASE Then(t, none)
    BY <1>2, <1>3, <2>1, <2>3
  <2>4. CASE Then(t, <<Step("unrecord", 0, FALSE)>>)
    <3>1. Then(t, <<x>>) /\ x.do \in Leftover
      BY <2>2, <2>4 DEF Leftover
    <3> QED  BY <1>2, <1>4, <2>1, <3>1
  <2> QED  BY <2>1, <2>3, <2>4
<1>10. CASE RecordNext(t, "unrecord", "unbind")
  <2>1. Doing(t, "unrecord") /\ UNCHANGED <<refs, mapped, recording>>
    BY <1>10 DEF RecordNext, terminalVars
  <2>2. \/ Then(t, none)
        \/ \E k \in 1 .. Len(streams) :
             Then(t, <<Step("unbind", streams[k].id, streams[k].remote),
                       Step("unrecord", streams[k].id, FALSE)>>)
    <3>1. PICK k \in NextStreams(Head(prog[t]).id) :
            Then(t, IF k > Len(streams) THEN <<>>
                      ELSE <<Step("unbind", streams[k].id, streams[k].remote),
                             Step("unrecord", streams[k].id, FALSE)>>)
      BY <1>10 DEF RecordNext
    <3>2. k \in Nat \ {0} /\ Len(streams) \in Nat
      <4>1. DOMAIN streams = 1 .. Len(streams) /\ Len(streams) \in Nat
        BY DEF BInv, ListOK
      <4> QED  BY <4>1 DEF NextStreams
    <3>3. k > Len(streams) \/ k \in 1 .. Len(streams)
      BY <3>2
    <3> QED  BY <3>1, <3>3
  <2>3. CASE Then(t, none)
    BY <1>2, <1>3, <2>1, <2>3
  <2>4. ASSUME NEW k \in 1 .. Len(streams),
               Then(t, <<Step("unbind", streams[k].id, streams[k].remote),
                         Step("unrecord", streams[k].id, FALSE)>>)
        PROVE  CInv'
    <3>0. ListOK /\ k \in DOMAIN streams
      BY DEF BInv, ListOK
    <3>1. streams[k].id \in Nat /\ streams[k].remote \in BOOLEAN
      BY <3>0, ListFields
    <3>2. PICK x \in StepRec : /\ x = Step("unbind", streams[k].id, streams[k].remote)
                              /\ x.do = "unbind"
      BY <3>1, StepIs
    <3>3. PICK y \in StepRec : y = Step("unrecord", streams[k].id, FALSE) /\ y.do = "unrecord"
      BY <3>1, StepOfList
    <3>4. Then(t, <<x, y>>) /\ x.do \in Leftover /\ y.do \in Leftover
      BY <2>4, <3>2, <3>3 DEF Leftover
    <3> QED  BY <1>2, <1>5, <2>1, <3>4
  <2> QED  BY <2>2, <2>3, <2>4
<1>11. CASE Release(t)
  <2>1. /\ Doing(t, "release") /\ UNCHANGED <<mapped, recording>> /\ refs' = refs - 1 /\ refs \in Nat
        /\ Then(t, IF refs = 1 THEN <<Step("stop", 0, FALSE), Step("destroy", 0, FALSE)>> ELSE <<>>)
    BY <1>0, <1>11 DEF Release, RefsOK
  <2>2. CASE refs = 1
    <3>1. PICK x \in StepRec : x = Step("stop", 0, FALSE) /\ x.do = "stop"
      BY StepOfNone
    <3>2. PICK y \in StepRec : y = Step("destroy", 0, FALSE) /\ y.do = "destroy"
      BY StepOfNone
    <3> DEFINE two == <<x, y>>
    <3>3. /\ two \in Seq(StepRec) /\ two[1] = x /\ Len(two) = 2 /\ Then(t, two)
          /\ \A k \in 1 .. Len(two) : two[k].do \in Leftover
      BY <1>5, <2>1, <2>2, <3>1, <3>2 DEF Leftover
    <3> HIDE DEF two
    <3>4. Doing(t, "stop")'
      <4>1. prog[t] \in Seq(StepRec) /\ prog[t] # <<>> /\ prog'[t] = two \o Tail(prog[t])
        BY <1>0, <1>1, <2>1, <3>3 DEF ProgOK, Then
      <4> DEFINE q == Tail(prog[t])
      <4>2. q \in Seq(StepRec)
        BY <4>1
      <4>3. prog'[t] = two \o q
        BY <4>1
      <4> HIDE DEF q
      <4>4. /\ two \o q \in Seq(StepRec) /\ Len(two \o q) = Len(two) + Len(q)
            /\ \A i \in 1 .. Len(two) + Len(q) :
                 (two \o q)[i] = IF i <= Len(two) THEN two[i] ELSE q[i - Len(two)]
        BY <3>3, <4>2, ConcatProperties
      <4>5. Len(q) \in Nat
        BY <4>2
      <4>6. 1 \in 1 .. Len(two) + Len(q) /\ 1 <= Len(two)
        BY <3>3, <4>5
      <4>7. (two \o q)[1] = x /\ Len(two \o q) > 0
        BY <3>3, <4>4, <4>5, <4>6
      <4> DEFINE r == two \o q
      <4>8. r \in Seq(StepRec) /\ Len(r) > 0 /\ r[1] = x /\ prog'[t] = r
        BY <4>3, <4>4, <4>7
      <4> HIDE DEF r
      <4>9. r # <<>> /\ Head(r) = x
        BY <4>8
      <4> QED  BY <3>1, <4>8, <4>9 DEF Doing
    <3> QED  BY <1>2, <2>1, <3>3, <3>4
  <2>3. CASE refs # 1
    <3>1. Then(t, none) /\ refs' # 0
      BY <2>1, <2>3
    <3> QED  BY <1>2, <1>3, <2>1, <3>1
  <2> QED  BY <2>2, <2>3
<1>12. CASE Destroy(t)
  <2>1. Doing(t, "destroy") /\ UNCHANGED <<refs, mapped, recording>> /\ Then(t, none)
    BY <1>12 DEF Destroy
  <2> QED  BY <1>2, <1>3, <2>1
<1> QED  BY <1>6, <1>7, <1>8, <1>9, <1>10, <1>11, <1>12 DEF ThreadStep

\* The terminal leaves the maps when nothing is being done with it.
LEMMA EndRegisterKeeps ==
  ASSUME BInv, CInv, EndRegister
  PROVE  CInv'
<1>1. /\ mapped /\ ~ mapped' /\ refs' = refs /\ Begin("sip", <<Step("release", 0, FALSE)>>)
  BY DEF EndRegister
<1>2. ProgOK /\ RefsOK /\ ~ Active("api") /\ "api" \in Threads \ {"sip"} /\ "sip" \in Threads
  BY <1>1, OnlySip DEF BInv, Threads
<1>3. \A k \in 1 .. Len(prog["api"]) : prog["api"][k].do = "release"
  <2>1. CASE prog["api"] # <<>>
    <3>1. /\ Len(prog["api"]) \in Nat /\ Len(prog["api"]) > 0
          /\ prog["api"][1].do = "release"
          /\ Len(prog["api"]) > 1 => Follows(prog["api"][1], prog["api"][2])
      BY <1>2, <2>1, First DEF Active, Doing
    <3>2. ~ (Len(prog["api"]) > 1)
      BY <3>1 DEF Follows
    <3>3. \A n \in Nat : n > 0 /\ ~ (n > 1) => n = 1
      OBVIOUS
    <3>4. Len(prog["api"]) = 1
      BY <3>1, <3>2, <3>3, Zenon
    <3> QED  BY <1>2, <3>1, <3>4, IdleSteps
  <2>2. CASE prog["api"] = <<>>
    BY <1>2, <2>2, IdleSteps
  <2> QED  BY <2>1, <2>2
<1> DEFINE x == Step("release", 0, FALSE)
           one == <<x>>
<1>4. x \in StepRec /\ x.do = "release"
  BY StepOfNone
<1>5. /\ one \in Seq(StepRec) /\ Chained(one) /\ \A k \in 1 .. Len(one) : one[k].do = "release"
      /\ Begin("sip", one)
  <2> HIDE DEF x
  <2>1. /\ one \in Seq(StepRec) /\ Chained(one) /\ \A k \in 1 .. Len(one) : one[k] = x
    BY <1>4, OneStep
  <2> QED  BY <1>1, <1>4, <2>1 DEF x
<1> HIDE DEF one
<1>6. prog'["sip"] = one /\ prog'["api"] = prog["api"]
  BY <1>2, <1>5, BeginIs
<1>7. LeftoverOK'
  BY <1>3, <1>5, <1>6 DEF LeftoverOK, Leftover, Threads
<1>8. QuietOK'
  <2>1. refs # 0
    BY <1>1, <1>2 DEF RefsOK
  <2> QED  BY <1>1, <2>1 DEF QuietOK
<1> QED  BY <1>1, <1>7, <1>8 DEF CInv

LEMMA InitRecorded ==
  ASSUME AutoAtStart = TRUE, Init
  PROVE  CInv
<1>1. /\ bound = [s \in {} |-> 0] /\ mapped = TRUE /\ calls = <<>> /\ auto
      /\ streams = <<>> /\ inputs = [r \in BOOLEAN |-> <<>>] /\ obj = [a \in {} |-> 0]
      /\ prog = [t \in Threads |-> <<>>] /\ recording = FALSE
  BY DEF Init
<1>2. Sip = <<>> /\ Len(Sip) = 0 /\ Do = "idle"
  BY <1>1 DEF Sip, Do, Threads
<1>3. DOMAIN calls = {} /\ DOMAIN streams = {} /\ DOMAIN obj = {} /\ StreamIds = {}
      /\ \A r \in BOOLEAN : DOMAIN inputs[r] = {}
  BY <1>1 DEF StreamIds
<1>4. Shape /\ Phase
  <2>1. \A k \in 2 .. Len(Sip) : FALSE
    BY <1>2
  <2> QED  BY <1>1, <1>2, <2>1 DEF Shape, Phase
<1>5. CallsOK /\ ListedOK /\ FedOK
  BY <1>2, <1>3 DEF CallsOK, ListedOK, FedOK
<1>6. OwnedOK /\ OneInput /\ MixedOK /\ SidesOK
  BY <1>2, <1>3 DEF OwnedOK, OneInput, MixedOK, SidesOK
<1> QED  BY <1>1, <1>4, <1>5, <1>6 DEF CInv, Recorded

LEMMA RecordedIs ==
  ASSUME BInv, CInv
  PROVE  CallsRecorded
<1> SUFFICES ASSUME Settled, recording
             PROVE  /\ \A k \in DOMAIN calls : \A s \in ToSet(calls[k].ids) \cap DOMAIN rec :
                         s \in DOMAIN bound /\ rec[s].on
                    /\ \A a \in DOMAIN obj : \E s \in DOMAIN bound : bound[s] = a /\ rec[s].on
  BY DEF CallsRecorded
<1>1. prog["sip"] = <<>> /\ prog["api"] = <<>> /\ \A t \in Threads : \A d : ~ Doing(t, d)
  BY DEF Settled, Threads, Doing
<1>2. mapped
  <2> SUFFICES ASSUME ~ mapped PROVE FALSE
    OBVIOUS
  <2>1. refs = 0
    BY <1>1 DEF BInv, RefsOK, Threads
  <2> QED  BY <1>1, <2>1 DEF CInv, QuietOK
<1>3. Recorded /\ Do = "idle" /\ Len(Sip) = 0
  <2>1. Sip = <<>>
    BY <1>1 DEF Sip
  <2> QED  BY <1>2, <2>1, HeadIs DEF CInv, BInv
<1>4. /\ ListedOK
      /\ \A s \in StreamIds : s \in DOMAIN rec /\ s \in DOMAIN bound /\ rec[s].on
      /\ \A a \in DOMAIN obj : /\ obj[a].id \in StreamIds /\ obj[a].id \in DOMAIN bound
                               /\ bound[obj[a].id] = a
  BY <1>3, IdleRecorded
<1>5. \A k \in DOMAIN calls : \A s \in SessionsOf(k) : s \in DOMAIN rec => s \in StreamIds
  <2>1. \A c : ~ Ending(c)
    BY <1>3 DEF Ending
  <2> QED  BY <1>3, <1>4, <2>1 DEF ListedOK
<1> QED  BY <1>4, <1>5 DEF SessionsOf

-----------------------------------------------------------------------------
\* TerminalAudio.cpp: whatever the order in which calls and sessions come, change
\* and end, when all callbacks are done every session of a call that is recorded
\* has its input and the recorder records it (CallsRecorded), and every input of a
\* mixer belongs to such a session: a mixer, which gives out nothing before all of
\* its inputs have data, never waits for one that a stream has left behind.  This
\* is so where recording is automatic from the start (MP_AutoRecord) and the
\* application does not start or end it (MP_AudioMonitor): a stream that ends
\* while nothing is recorded stays in the list, and comes back with the next
\* recording.
THEOREM CallsStayRecorded ==
  ASSUME ApiCalls \subseteq {"auto"}, AutoAtStart = TRUE
  PROVE  Spec => []CallsRecorded
<1>1. CInv /\ BInv /\ PInv /\ [Next]_vars => CInv'
  <2> SUFFICES ASSUME CInv, BInv, PInv, [Next]_vars PROVE CInv'
    OBVIOUS
  <2>0. mapped \in BOOLEAN /\ ProgOK
    BY DEF BInv, RefsOK
  <2>1. CASE EndRegister
    BY <2>1, EndRegisterKeeps
  <2>2. ASSUME mapped, mapped' = mapped, Recorded => Recorded' PROVE CInv'
    BY <2>2 DEF CInv
  <2>3. ASSUME ~ mapped, mapped' = mapped, Begin("sip", <<>>), UNCHANGED <<refs, recording>>
        PROVE  CInv'
    <3>1. prog' = prog
      BY <2>0, <2>3, BeginNothing
    <3> QED  BY <2>3, <3>1, StillLeftover
  <2>4. ASSUME NEW c \in CallIds, NEW o \in BOOLEAN, NewCall(c, o) PROVE CInv'
    <3>1. UNCHANGED <<refs, mapped, recording>> /\ (~ mapped => Begin("sip", <<>>))
      BY <2>4 DEF NewCall
    <3> QED  BY <2>0, <2>2, <2>3, <2>4, <3>1, NewCallRecorded
  <2>5. ASSUME NEW c \in CallIds, EndCall(c) PROVE CInv'
    <3>1. UNCHANGED <<refs, mapped, recording>> /\ (~ mapped => Begin("sip", <<>>))
      BY <2>5 DEF EndCall, terminalVars
    <3> QED  BY <2>0, <2>2, <2>3, <2>5, <3>1, EndCallRecorded
  <2>6. ASSUME NEW c \in CallIds, NEW p \in Ports, NewSession(c, p) PROVE CInv'
    <3>1. UNCHANGED <<refs, mapped, recording>> /\ (~ mapped => Begin("sip", <<>>))
      BY <2>6 DEF NewSession
    <3> QED  BY <2>0, <2>2, <2>3, <2>6, <3>1, NewSessionRecorded
  <2>7. ASSUME NEW s \in Ids, StopSession(s) PROVE CInv'
    <3>1. UNCHANGED <<refs, mapped, recording>> /\ (~ mapped => Begin("sip", <<>>))
      BY <2>7 DEF StopSession, terminalVars
    <3> QED  BY <2>0, <2>2, <2>3, <2>7, <3>1, StopSessionRecorded
  <2>8. ASSUME NEW s \in Ids, NEW p \in Ports, ModifySession(s, p) PROVE CInv'
    <3>1. UNCHANGED <<refs, mapped, recording>> /\ Begin("sip", <<>>)
      BY <2>8 DEF ModifySession, terminalVars
    <3> QED  BY <2>0, <2>2, <2>3, <2>8, <3>1, ModifySessionRecorded
  <2>9. ASSUME GetAudioData \/ \E what \in ApiCalls : Call(what) PROVE CInv'
    <3>1. mapped /\ mapped' = mapped
      BY <2>9, Zenon DEF GetAudioData, Call
    <3> QED  BY <2>2, <2>9, <3>1, OthersRecorded
  <2>10. CASE FlushStream
    <3>1. UNCHANGED <<prog, refs, mapped, recording>>
      BY <2>10, Zenon DEF FlushStream, terminalVars
    <3> QED  BY <2>0, <2>2, <2>10, <3>1, OthersRecorded, StillLeftover
  <2>11. CASE EndedCall
    <3>1. UNCHANGED mapped
      BY <2>11 DEF EndedCall
    <3>2. CASE mapped
      BY <2>2, <2>11, <3>1, <3>2, EndedCallRecorded
    <3>3. CASE ~ mapped
      <4>1. Doing("sip", "ended")
        BY <2>11 DEF EndedCall
      <4>2. Len(prog["sip"]) > 0 /\ Len(prog["sip"]) \in Nat /\ prog["sip"][1].do = "ended"
        BY <2>0, <4>1, HeadIs DEF Sip
      <4>3. 1 \in 1 .. Len(prog["sip"])
        BY <4>2
      <4> QED  BY <3>3, <4>2, <4>3 DEF CInv, LeftoverOK, Leftover, Threads
    <3> QED  BY <2>0, <3>2, <3>3
  <2>12. ASSUME NEW t \in Threads, ThreadStep(t) PROVE CInv'
    <3>1. CASE ~ mapped
      BY <2>12, <3>1, LeftoverStep
    <3>2. CASE mapped
      <4>1. mapped' = mapped
        BY <2>12, Zenon DEF ThreadStep, CreateInput, StartRecord, StopRecord, DeleteInput, AddNewStream,
                     AddedStream, DeleteStream, EraseStream, SetRecording, RecordNext, Release,
                     Destroy, terminalVars
      <4>2. CASE t = "api"
        <5>1. Release("api")
          <6>1. \A d : Doing(t, d) => d = "release"
            BY <3>2, <4>2, OnlySip
          <6> QED  BY <2>12, <4>2, <6>1
                   DEF ThreadStep, CreateInput, StartRecord, StopRecord, DeleteInput, AddNewStream,
                       AddedStream, DeleteStream, EraseStream, SetRecording, RecordNext, Destroy
        <5> QED  BY <2>2, <3>2, <4>1, <5>1, ReleaseRecorded
      <4>3. CASE t = "sip"
        <5> SUFFICES ASSUME Recorded PROVE Recorded'
          BY <2>2, <3>2, <4>1
        <5>1. ~ Release("sip") /\ ~ Destroy("sip")
          <6>1. ~ Doing("sip", "release") /\ ~ Doing("sip", "destroy")
            BY <2>0, HeadIs DEF Recorded, Shape
          <6> QED  BY <6>1 DEF Release, Destroy
        <5>2. CASE CreateInput("sip") \/ StartRecord("sip") \/ StopRecord("sip") \/ DeleteInput("sip")
          BY <5>2, CreateInputRecorded, StartRecordRecorded, StopRecordRecorded, DeleteInputRecorded
        <5>3. CASE \/ AddNewStream("sip") \/ AddedStream("sip")
                   \/ DeleteStream("sip") \/ EraseStream("sip")
          BY <5>3, AddNewStreamRecorded, AddedStreamRecorded, DeleteStreamRecorded,
             EraseStreamRecorded
        <5>4. CASE \E on \in BOOLEAN : SetRecording("sip", on)
          BY <5>4, SetRecordingRecorded
        <5>5. CASE RecordNext("sip", "record", "input") \/ RecordNext("sip", "unrecord", "unbind")
          BY <5>5, RecordNextRecorded
        <5> QED  BY <2>12, <4>3, <5>1, <5>2, <5>3, <5>4, <5>5 DEF ThreadStep
      <4> QED  BY <4>2, <4>3 DEF Threads
    <3> QED  BY <3>1, <3>2
  <2>13. CASE UNCHANGED vars
    <3>1. UNCHANGED <<known, sess, nextId, rec, bound, refs, mapped, calls, auto, streams, recording,
                      inputs, obj, prog>>
      BY <2>13 DEF vars, managerVars, recorderVars, terminalVars, mixerVars
    <3>2. Recorded => Recorded'
      BY <3>1, ListsStill, StillRecorded
    <3> QED  BY <2>2, <3>1, <3>2, StillLeftover
  <2> QED  BY <2>1, <2>4, <2>5, <2>6, <2>7, <2>8, <2>9, <2>10, <2>11, <2>12, <2>13 DEF Next, Event
<1>2. Init => CInv
  BY InitRecorded
<1>3. BInv /\ CInv => CallsRecorded
  BY RecordedIs
<1>4. Spec => []BInv
  <2>1. ApiCalls \subseteq {"auto", "no auto"}
    BY Zenon
  <2> QED  BY <2>1, AlwaysBound, Zenon
<1> QED  BY <1>1, <1>2, <1>3, <1>4, AlwaysPorts, PTL DEF Spec
==============================================================================
