------------------------------- MODULE Recording -------------------------------
(***************************************************************************)
(* How the audio of one terminal is recorded: the calls and streams of     *)
(* CTerminal and CTerminalAudio, the inputs of its two CStreamMixers, the  *)
(* sessions of CRTPRecorder and the bindings of its CStreamer, and the     *)
(* threads that work on them:                                              *)
(*   "sip"  the callbacks of SIPLib, one at a time under m_xLocker;        *)
(*   "api"  the application, one call at a time under g_xApiLocker;        *)
(*   the RTP thread, which flushes the bound streams every 40 ms.          *)
(*                                                                         *)
(* `prog` holds what the handler a thread is in has still to do, in steps  *)
(* no longer than the code holds a lock.  The lists of CTerminalAudio have *)
(* no lock.  Audio is not modelled beyond there being some: every flush    *)
(* gives every bound input data.                                           *)
(***************************************************************************)
EXTENDS Integers, Sequences, SequencesExt

CONSTANTS
  CallIds,   \* SIP Call-IDs of calls of the terminal
  Ports,     \* destination ports of sessions
  Inputs,    \* addresses `new CMixerInputStream` returns
  ApiCalls,  \* what the application calls: MP_AudioMonitor and MP_AutoRecord
  AutoAtStart, \* it has called MP_AutoRecord before the first call
  MaxId      \* bound on session ids

ASSUME RecordingAssumption ==
  /\ Ports \subseteq Nat /\ MaxId \in Nat
  /\ ApiCalls \subseteq {"monitor", "end monitor", "auto", "no auto"}
  /\ AutoAtStart \in BOOLEAN

VARIABLES
  known,    \* the calls CSIPManager knows
  sess,     \* the call of each session CSIPManager knows
  nextId,   \* m_uLastSessionID
  rec,      \* CRTPRecorder::m_xSessionsByID: destination, and m_bRecording
  ports,    \* CRTPRecorder::m_xDstIpPorts
  bound,    \* CStreamer::m_xStreams: session -> input
  refs,     \* references to the terminal; 0 once it is deleted
  mapped,   \* CTerminalManager has the terminal in its maps
  calls,    \* CTerminal::m_xCalls, with the session ids of each
  state,    \* CTerminal::m_iCallState
  streams,  \* CTerminalAudio::m_xStreams
  recording,\* CTerminalAudio::m_bRecording
  auto,     \* CTerminal::m_bAutoRecordAudio
  inputs,   \* the inputs of m_xMixerRemote (TRUE) and m_xMixerLocal (FALSE)
  obj,      \* id and m_bIsProcessed of the inputs there are
  out,      \* m_bIsProcessed of m_pRemoteDataOut and m_pLocalDataOut
  merged,   \* m_xDataMerged has data
  prog,     \* what each thread has still to do
  flush     \* the sessions the RTP thread has still to flush, holding m_xCS

managerVars  == <<known, sess, nextId>>
recorderVars == <<rec, ports>>
terminalVars == <<refs, mapped, calls, state, auto>>
mixerVars    == <<inputs, obj, out>>
vars == <<managerVars, recorderVars, bound, terminalVars, streams, recording,
          mixerVars, merged, prog, flush>>

Threads == {"sip", "api"}
Ids == 1 .. MaxId

Without(f, S) == [x \in DOMAIN f \ S |-> f[x]]
Put(f, x, v) == [y \in DOMAIN f \cup {x} |-> IF y = x THEN v ELSE f[y]]

\* A step still to be done.
Step(do, id, remote) == [do |-> do, id |-> id, remote |-> remote]

Doing(t, do) == prog[t] # <<>> /\ Head(prog[t]).do = do

\* Thread t has done its first step, which leads to further steps.
Then(t, steps) == prog' = [prog EXCEPT ![t] = steps \o Tail(@)]

\* Thread t enters a handler.
Begin(t, steps) == prog[t] = <<>> /\ prog' = [prog EXCEPT ![t] = steps]

\* CRTPRecorder::m_xCS is free: the RTP thread does not hold it.
RecorderFree == flush = {}

Init ==
  /\ known \in SUBSET CallIds
  /\ sess = [s \in {} |-> 0]
  /\ nextId = 1
  /\ rec = [s \in {} |-> 0]
  /\ ports = {}
  /\ bound = [s \in {} |-> 0]
  /\ refs = 1
  /\ mapped = TRUE
  /\ calls = <<>>
  /\ state = "idle"
  /\ streams = <<>>
  /\ recording = FALSE
  /\ auto = AutoAtStart
  /\ inputs = [r \in BOOLEAN |-> <<>>]
  /\ obj = [a \in {} |-> 0]
  /\ out = [r \in BOOLEAN |-> FALSE]
  /\ merged = FALSE
  /\ prog = [t \in Threads |-> <<>>]
  /\ flush = {}

-----------------------------------------------------------------------------
(* CTerminalAudio::RecordStream, in the parts the locks make of it. *)

\* CStreamMixer::CreateInput, under the lock of the mixer.
CreateInput(t) ==
  /\ Doing(t, "input")
  /\ LET s == Head(prog[t]).id
         r == Head(prog[t]).remote
         free == (Inputs \ DOMAIN obj) \ {bound[i] : i \in DOMAIN bound}
         a == CHOOSE x \in free : TRUE
     IN  /\ free # {}
         /\ inputs' = [inputs EXCEPT ![r] = Append(@, a)]
         /\ obj' = Put(obj, a, [id |-> s, done |-> FALSE])
         /\ Then(t, <<[do |-> "bind", id |-> s, input |-> a]>>)
  /\ UNCHANGED <<managerVars, recorderVars, bound, terminalVars, streams, recording,
                 out, merged, flush>>

\* CRTPRecorder::StartRecord: nothing for a session that has ended, and a
\* session that is bound keeps its input.
StartRecord(t) ==
  /\ Doing(t, "bind") /\ RecorderFree
  /\ LET s == Head(prog[t]).id
     IN  /\ IF s \in DOMAIN rec
              THEN /\ rec' = [rec EXCEPT ![s].on = TRUE]
                   /\ bound' = IF s \in DOMAIN bound THEN bound
                                                     ELSE Put(bound, s, Head(prog[t]).input)
              ELSE UNCHANGED <<rec, bound>>
         /\ Then(t, <<>>)
  /\ UNCHANGED <<managerVars, ports, terminalVars, streams, recording,
                 mixerVars, merged, flush>>

\* CRTPRecorder::StopRecord, with nothing to do for a session that has ended.
StopRecord(t) ==
  /\ Doing(t, "unbind") /\ RecorderFree
  /\ LET s == Head(prog[t]).id
     IN  /\ IF s \in DOMAIN rec
              THEN rec' = [rec EXCEPT ![s].on = FALSE] /\ bound' = Without(bound, {s})
              ELSE UNCHANGED <<rec, bound>>
         /\ Then(t, <<Step("uninput", s, Head(prog[t]).remote)>>)
  /\ UNCHANGED <<managerVars, ports, terminalVars, streams, recording,
                 mixerVars, merged, flush>>

\* CStreamMixer::DeleteInput: the first input of that id.
DeleteInput(t) ==
  /\ Doing(t, "uninput")
  /\ LET r == Head(prog[t]).remote
         mine == {k \in DOMAIN inputs[r] : obj[inputs[r][k]].id = Head(prog[t]).id}
         k == CHOOSE k \in mine : \A j \in mine : k <= j
     IN  /\ IF mine = {} THEN UNCHANGED <<inputs, obj>>
              ELSE /\ inputs' = [inputs EXCEPT ![r] = RemoveAt(@, k)]
                   /\ obj' = Without(obj, {inputs[r][k]})
         /\ Then(t, <<>>)
  /\ UNCHANGED <<managerVars, recorderVars, bound, terminalVars, streams, recording,
                 out, merged, flush>>

-----------------------------------------------------------------------------
(* CTerminalAudio. *)

\* AddNewStream: the stream is stored, then m_bRecording is looked at.
AddNewStream(t) ==
  /\ Doing(t, "add")
  /\ LET step == Head(prog[t])
     IN  /\ streams' = Append(streams, [id |-> step.id, remote |-> step.remote])
         /\ Then(t, <<Step("added", step.id, step.remote)>>)
  /\ UNCHANGED <<managerVars, recorderVars, bound, terminalVars, recording,
                 mixerVars, merged, flush>>

AddedStream(t) ==
  /\ Doing(t, "added")
  /\ LET step == Head(prog[t])
     IN  Then(t, IF recording THEN <<Step("input", step.id, step.remote)>> ELSE <<>>)
  /\ UNCHANGED <<managerVars, recorderVars, bound, terminalVars, streams, recording,
                 mixerVars, merged, flush>>

\* DeleteStream: a stream is looked for, and erased, only while recording.
DeleteStream(t) ==
  /\ Doing(t, "delete")
  /\ LET s == Head(prog[t]).id
         its == {k \in DOMAIN streams : streams[k].id = s}
     IN  Then(t, IF recording /\ its # {}
                   THEN <<Step("unbind", s, streams[CHOOSE k \in its : TRUE].remote),
                          Step("erase", s, FALSE)>>
                   ELSE <<>>)
  /\ UNCHANGED <<managerVars, recorderVars, bound, terminalVars, streams, recording,
                 mixerVars, merged, flush>>

EraseStream(t) ==
  /\ Doing(t, "erase")
  /\ streams' = RemoveAt(streams, CHOOSE k \in DOMAIN streams :
                                    streams[k].id = Head(prog[t]).id)
  /\ Then(t, <<>>)
  /\ UNCHANGED <<managerVars, recorderVars, bound, terminalVars, recording,
                 mixerVars, merged, flush>>

\* StartRecord and StopRecord: a change goes over all stored streams.
SetRecording(t, on) ==
  /\ Doing(t, IF on THEN "start" ELSE "stop")
  /\ recording' = on
  /\ Then(t, IF recording = on THEN <<>>
               ELSE <<Step(IF on THEN "record" ELSE "unrecord", 0, FALSE)>>)
  /\ UNCHANGED <<managerVars, recorderVars, bound, terminalVars, streams,
                 mixerVars, merged, flush>>

\* The stream after the one the iterator is at (0: before the first).  Where the
\* other thread has erased that one, the iterator may lead anywhere.
NextStreams(s) ==
  LET at == {k \in DOMAIN streams : streams[k].id = s}
  IN  IF s = 0 THEN {1}
      ELSE IF at = {} THEN 1 .. Len(streams) + 1
      ELSE {k + 1 : k \in at}

RecordNext(t, do, each) ==
  /\ Doing(t, do)
  /\ \E k \in NextStreams(Head(prog[t]).id) :
       Then(t, IF k > Len(streams) THEN <<>>
                 ELSE <<Step(each, streams[k].id, streams[k].remote),
                        Step(do, streams[k].id, FALSE)>>)
  /\ UNCHANGED <<managerVars, recorderVars, bound, terminalVars, streams, recording,
                 mixerVars, merged, flush>>

-----------------------------------------------------------------------------
(* Events of calls and sessions: CRTPRecorder and then CTerminal. *)

StateOf(cs) == IF cs = <<>> THEN "idle" ELSE IF Last(cs).out THEN "outgoing" ELSE "incoming"

\* The index in m_xCalls of a call that the terminal was told of, if any.
CallAt(c) == {k \in DOMAIN calls : calls[k].call = c}

\* OnNewCall.
NewCall(c, outgoing) ==
  /\ c \notin known /\ known' = known \cup {c}
  /\ IF mapped
       THEN /\ calls' = Append(calls, [call |-> c, out |-> outgoing, ids |-> <<>>])
            /\ state' = StateOf(calls')
            /\ Begin("sip", IF auto THEN <<Step("start", 0, FALSE)>> ELSE <<>>)
       ELSE UNCHANGED <<calls, state>> /\ Begin("sip", <<>>)
  /\ UNCHANGED <<sess, nextId, recorderVars, bound, refs, mapped, auto, streams,
                 recording, mixerVars, merged, flush>>

\* OnEndCall deletes the streams of the call's sessions ...
EndCall(c) ==
  /\ c \in known /\ known' = known \ {c}
  /\ IF mapped /\ CallAt(c) # {}
       THEN LET ids == calls[CHOOSE k \in CallAt(c) : TRUE].ids
            IN  Begin("sip", [i \in DOMAIN ids |-> Step("delete", ids[i], FALSE)]
                               \o <<[do |-> "ended", call |-> c]>>)
       ELSE Begin("sip", <<>>)
  /\ UNCHANGED <<sess, nextId, recorderVars, bound, terminalVars, streams, recording,
                 mixerVars, merged, flush>>

\* ... then the call goes; the last one ends the recording.
EndedCall ==
  /\ Doing("sip", "ended")
  /\ calls' = RemoveAt(calls, CHOOSE k \in CallAt(Head(prog["sip"]).call) : TRUE)
  /\ state' = StateOf(calls')
  /\ Then("sip", IF calls' = <<>> THEN <<Step("stop", 0, FALSE)>> ELSE <<>>)
  /\ UNCHANGED <<managerVars, recorderVars, bound, refs, mapped, auto, streams,
                 recording, mixerVars, merged, flush>>

\* CreateSession: RTP comes to the port, RTCP to the next.
PortsOf(s, p) == {<<p, s>>, <<p + 1, s>>}

\* OnNewSession.  The first session of a call is the inbound one.
NewSession(c, p) ==
  /\ nextId <= MaxId /\ RecorderFree
  /\ nextId' = nextId + 1
  /\ sess' = Put(sess, nextId, c)
  /\ rec' = Put(rec, nextId, [port |-> p, on |-> FALSE])
  /\ ports' = ports \cup PortsOf(nextId, p)
  /\ IF mapped /\ c \in known /\ CallAt(c) # {}
       THEN LET k == CHOOSE k \in CallAt(c) : TRUE
                inbound == calls[k].ids = <<>>
            IN  /\ calls' = [calls EXCEPT ![k].ids = Append(@, nextId)]
                /\ Begin("sip", <<Step("add", nextId, calls[k].out = inbound)>>)
       ELSE UNCHANGED calls /\ Begin("sip", <<>>)
  /\ UNCHANGED <<known, bound, refs, mapped, state, auto, streams, recording,
                 mixerVars, merged, flush>>

\* Bug: the session made anew is not set to record.
ModifySessionSilenced(s, p) ==
  /\ s \in DOMAIN sess /\ s \in DOMAIN rec /\ RecorderFree
  /\ Begin("sip", <<>>)
  /\ rec' = [rec EXCEPT ![s] = [port |-> p, on |-> FALSE]]
  /\ ports' = (ports \ PortsOf(s, rec[s].port)) \cup PortsOf(s, p)
  /\ UNCHANGED <<managerVars, bound, terminalVars, streams, recording, mixerVars,
                 merged, flush>>

\* Bug: the ports of the new destination are taken from the list.
ModifySessionNewPorts(s, p) ==
  /\ s \in DOMAIN sess /\ s \in DOMAIN rec /\ RecorderFree
  /\ Begin("sip", <<>>)
  /\ rec' = [rec EXCEPT ![s].port = p]
  /\ ports' = (ports \ PortsOf(s, p)) \cup PortsOf(s, p)
  /\ UNCHANGED <<managerVars, bound, terminalVars, streams, recording, mixerVars,
                 merged, flush>>

\* OnSessionModify makes the session anew and keeps whether it is recorded.
ModifySession(s, p) ==
  /\ s \in DOMAIN sess /\ s \in DOMAIN rec /\ RecorderFree
  /\ Begin("sip", <<>>)
  /\ rec' = [rec EXCEPT ![s].port = p]
  /\ ports' = (ports \ PortsOf(s, rec[s].port)) \cup PortsOf(s, p)
  /\ UNCHANGED <<managerVars, bound, terminalVars, streams, recording, mixerVars,
                 merged, flush>>

\* OnStopSession: the recorder unbinds and deletes the session before the
\* terminal deletes its stream, which a call that has ended does not.
StopSession(s) ==
  /\ s \in DOMAIN sess /\ RecorderFree
  /\ sess' = Without(sess, {s})
  /\ rec' = Without(rec, {s})
  /\ ports' = ports \ PortsOf(s, rec[s].port)
  /\ bound' = Without(bound, {s})
  /\ Begin("sip", IF mapped /\ sess[s] \in known THEN <<Step("delete", s, FALSE)>> ELSE <<>>)
  /\ UNCHANGED <<known, nextId, terminalVars, streams, recording, mixerVars, merged, flush>>

\* The terminal leaves the maps of CTerminalManager, which releases it.
EndRegister ==
  /\ mapped /\ mapped' = FALSE
  /\ Begin("sip", <<Step("release", 0, FALSE)>>)
  /\ UNCHANGED <<managerVars, recorderVars, bound, refs, calls, state, auto, streams,
                 recording, mixerVars, merged, flush>>

\* Bug: the terminal is deleted while it is recorded.
ReleaseRecording(t) ==
  /\ Doing(t, "release")
  /\ refs' = refs - 1
  /\ Then(t, IF refs = 1 THEN <<Step("destroy", 0, FALSE)>> ELSE <<>>)
  /\ UNCHANGED <<managerVars, recorderVars, bound, mapped, calls, state, auto, streams,
                 recording, mixerVars, merged, flush>>

\* Release: the last one destroys the terminal, which ends the recording first.
Release(t) ==
  /\ Doing(t, "release")
  /\ refs' = refs - 1
  /\ Then(t, IF refs = 1 THEN <<Step("stop", 0, FALSE), Step("destroy", 0, FALSE)>> ELSE <<>>)
  /\ UNCHANGED <<managerVars, recorderVars, bound, mapped, calls, state, auto, streams,
                 recording, mixerVars, merged, flush>>

Destroy(t) ==
  /\ Doing(t, "destroy")
  /\ calls' = <<>> /\ streams' = <<>> /\ merged' = FALSE
  /\ inputs' = [r \in BOOLEAN |-> <<>>]
  /\ obj' = [a \in {} |-> 0]
  /\ Then(t, <<>>)
  /\ UNCHANGED <<managerVars, recorderVars, bound, refs, mapped, state, auto, recording,
                 out, flush>>

-----------------------------------------------------------------------------
(* The application. *)

\* MP_AudioMonitor and MP_AutoRecord of a port the manager knows.
Call(what) ==
  /\ mapped
  /\ Begin("api", (CASE what = "monitor"     -> <<Step("start", 0, FALSE)>>
                     [] what = "end monitor" -> <<Step("stop", 0, FALSE)>>
                     [] OTHER                -> <<>>) \o <<Step("release", 0, FALSE)>>)
  /\ refs' = refs + 1
  /\ auto' = CASE what = "auto" -> TRUE [] what = "no auto" -> FALSE [] OTHER -> auto
  /\ UNCHANGED <<managerVars, recorderVars, bound, mapped, calls, state, streams,
                 recording, mixerVars, merged, flush>>

\* Bug: the terminal is used without AddRef.
GetAudioDataUncounted ==
  /\ mapped /\ recording /\ merged
  /\ Begin("api", <<Step("release", 0, FALSE)>>)
  /\ merged' = FALSE
  /\ UNCHANGED <<managerVars, recorderVars, bound, refs, mapped, calls, state, auto, streams,
                 recording, mixerVars, flush>>

\* MP_GetAudioData gives all there is, while recording.
GetAudioData ==
  /\ mapped /\ recording /\ merged
  /\ Begin("api", <<Step("release", 0, FALSE)>>)
  /\ refs' = refs + 1
  /\ merged' = FALSE
  /\ UNCHANGED <<managerVars, recorderVars, bound, mapped, calls, state, auto, streams,
                 recording, mixerVars, flush>>

-----------------------------------------------------------------------------
(* The RTP thread: CStreamer::Flush, under m_xCS, in the order of the ids. *)

\* The sessions still to be flushed: at first all that are bound.
Left == IF flush = {} THEN DOMAIN bound ELSE flush

\* Bug: CTerminalAudio::Poll resets the flags also when it returns early.
FlushStreamForgets ==
  /\ Left # {}
  /\ LET s == CHOOSE x \in Left : \A y \in Left : x <= y
         a == bound[s]
         r == \E k \in DOMAIN inputs[TRUE] : inputs[TRUE][k] = a
         done == [obj EXCEPT ![a].done = TRUE]
         all == \A k \in DOMAIN inputs[r] : done[inputs[r][k]].done
         both == all /\ out[~ r]
     IN  /\ flush' = Left \ {s}
         /\ a \in DOMAIN obj
         /\ obj' = IF all THEN [x \in DOMAIN obj |->
                                  [done[x] EXCEPT !.done = @ /\ x \notin ToSet(inputs[r])]]
                          ELSE done
         /\ out' = IF both THEN [d \in BOOLEAN |-> FALSE]
                   ELSE IF all THEN [d \in BOOLEAN |-> FALSE] ELSE out
         /\ merged' = (merged \/ (both /\ recording))
  /\ UNCHANGED <<managerVars, recorderVars, bound, terminalVars, streams, recording,
                 inputs, prog>>

\* The input of a session has data.  When all inputs of its mixer have, Poll
\* mixes them into an input of CTerminalAudio; when both of those have data,
\* they are merged, and kept while recording.
FlushStream ==
  /\ Left # {}
  /\ LET s == CHOOSE x \in Left : \A y \in Left : x <= y
         a == bound[s]
         r == \E k \in DOMAIN inputs[TRUE] : inputs[TRUE][k] = a
         done == [obj EXCEPT ![a].done = TRUE]
         all == \A k \in DOMAIN inputs[r] : done[inputs[r][k]].done
         both == all /\ out[~ r]
     IN  /\ flush' = Left \ {s}
         /\ a \in DOMAIN obj
         /\ obj' = IF all THEN [x \in DOMAIN obj |->
                                  [done[x] EXCEPT !.done = @ /\ x \notin ToSet(inputs[r])]]
                          ELSE done
         /\ out' = IF both THEN [d \in BOOLEAN |-> FALSE]
                   ELSE IF all THEN [out EXCEPT ![r] = TRUE] ELSE out
         /\ merged' = (merged \/ (both /\ recording))
  /\ UNCHANGED <<managerVars, recorderVars, bound, terminalVars, streams, recording,
                 inputs, prog>>

-----------------------------------------------------------------------------
ThreadStep(t) ==
  \/ CreateInput(t) \/ StartRecord(t) \/ StopRecord(t) \/ DeleteInput(t)
  \/ AddNewStream(t) \/ AddedStream(t) \/ DeleteStream(t) \/ EraseStream(t)
  \/ \E on \in BOOLEAN : SetRecording(t, on)
  \/ RecordNext(t, "record", "input") \/ RecordNext(t, "unrecord", "unbind")
  \/ Release(t) \/ Destroy(t)

Event ==
  \/ \E c \in CallIds : \/ \E outgoing \in BOOLEAN : NewCall(c, outgoing)
                        \/ EndCall(c)
                        \/ \E p \in Ports : NewSession(c, p)
  \/ \E s \in Ids : StopSession(s) \/ \E p \in Ports : ModifySession(s, p)
  \/ EndRegister
  \/ \E what \in ApiCalls : Call(what)
  \/ GetAudioData

Next == Event \/ FlushStream \/ EndedCall \/ \E t \in Threads : ThreadStep(t)

Spec == Init /\ [][Next]_vars

Fairness ==
  /\ WF_vars(FlushStream)
  /\ SF_vars(EndedCall \/ ThreadStep("sip"))
  /\ SF_vars(ThreadStep("api"))

FairSpec == Spec /\ Fairness

-----------------------------------------------------------------------------
(* Properties. *)

TypeOK ==
  /\ known \subseteq CallIds
  /\ DOMAIN sess \subseteq Ids /\ \A s \in DOMAIN sess : sess[s] \in CallIds
  /\ nextId \in 1 .. MaxId + 1
  /\ DOMAIN rec \subseteq Ids
  /\ DOMAIN bound \subseteq Ids /\ \A s \in DOMAIN bound : bound[s] \in Inputs
  /\ refs \in 0 .. 2 /\ mapped \in BOOLEAN
  /\ state \in {"idle", "incoming", "outgoing"}
  /\ recording \in BOOLEAN /\ auto \in BOOLEAN /\ merged \in BOOLEAN
  /\ DOMAIN obj = ToSet(inputs[TRUE]) \cup ToSet(inputs[FALSE])
  /\ ToSet(inputs[TRUE]) \cap ToSet(inputs[FALSE]) = {}

\* The RTP thread writes into no deleted input: whatever was bound is unbound
\* before its input goes, also when the session was modified, when the call
\* ended before its sessions, and when the terminal is deleted.
BindingsLive == \A s \in DOMAIN bound : bound[s] \in DOMAIN obj

\* m_xDstIpPorts has the two ports of each session there is, and no other.
PortsAgree == ports = UNION {PortsOf(s, rec[s].port) : s \in DOMAIN rec}

Settled == \A t \in Threads : prog[t] = <<>>

\* While recording, all sessions of the calls of the terminal are recorded, and
\* a mixer waits for no input that nobody feeds.
CallsRecorded ==
  Settled /\ recording =>
    /\ \A k \in DOMAIN calls : \A s \in ToSet(calls[k].ids) \cap DOMAIN rec :
         s \in DOMAIN bound /\ rec[s].on
    /\ \A a \in DOMAIN obj : \E s \in DOMAIN bound : bound[s] = a /\ rec[s].on

Ready == recording /\ \A r \in BOOLEAN : inputs[r] # <<>>

\* Audio of a call with both directions reaches the application.
AudioDelivered == Ready ~> merged \/ ~ Ready

(* What a comment says, and the code does not do. *)

\* Terminal.cpp:226, when a call ends: "delete all streams from audio...".
EndedStreamsDeleted ==
  Settled => \A k \in DOMAIN streams :
    \E c \in DOMAIN calls : streams[k].id \in ToSet(calls[c].ids)
=============================================================================
