----------------------------- MODULE SipManager -----------------------------
(***************************************************************************)
(* CSIPManager (SIPManager.cpp): the C++ wrapper that turns the callbacks  *)
(* of the C library SIPLib into events of its listener, CTerminalManager,  *)
(* which forwards the session events to CRTPRecorder first.                *)
(*                                                                         *)
(* Every callback runs under CSIPManager::m_xLocker, so each is one        *)
(* action here.  What the listener has been told is kept in two            *)
(* variables: `recorder`, the destination CRTPRecorder listens on for each *)
(* session, and `heard`, the OnNewCall events not yet matched by an        *)
(* OnEndCall.  An rtp_task_t address is a member of Tasks, an RTP endpoint *)
(* (address, port and codec) a member of Medias.                           *)
(***************************************************************************)
EXTENDS Integers

CONSTANTS
  CallIds,  \* SIP Call-IDs
  Tasks,    \* addresses of the rtp_task_t structures of SIPLib
  Medias,   \* RTP endpoints described by SDP bodies
  MaxId     \* bound on the session ids handed out (32 bits in the code)

ASSUME MaxIdAssumption == MaxId \in Nat

VARIABLES
  calls,     \* m_xCalls: Call-ID -> the session ids stored in its CSIPCallParam
  tasks,     \* m_xSessionsTasks: task -> session id, 0 where there is no entry
  sessions,  \* m_xSessionsParams and m_xSessionsToCalls: id -> task, call, dst
  nextId,    \* m_uLastSessionID
  recorder,  \* CRTPRecorder::m_xSessions: id -> destination
  heard      \* OnNewCall minus OnEndCall events delivered, per Call-ID

managerVars == <<calls, tasks, sessions, nextId, recorder, heard>>

SessionRec == [task : Tasks, call : CallIds, dst : Medias]

\* f with x mapped to v, and f without the arguments in S.
Bind(f, x, v) == [y \in DOMAIN f \cup {x} |-> IF y = x THEN v ELSE f[y]]
Without(f, S) == [y \in DOMAIN f \ S |-> f[y]]

\* Nothing is known; the first session gets number `first`.
EmptyManager(first) ==
  /\ calls    = [c \in {} |-> {}]
  /\ tasks    = [t \in Tasks |-> 0]
  /\ sessions = [i \in {} |-> 0]
  /\ nextId   = first
  /\ recorder = [i \in {} |-> 0]
  /\ heard    = [c \in CallIds |-> 0]

\* Bug: ids counted from 0, which is also "no session" in m_xSessionsTasks.
InitFromZero == EmptyManager(0)

Init == EmptyManager(1)

-----------------------------------------------------------------------------
(* The query interface ICallManager. *)

GetSessionID(t) == tasks[t]

GetSessionsByCallID(c) == IF c \in DOMAIN calls THEN calls[c] ELSE {}

SessionsOfCall(c) == {i \in DOMAIN sessions : sessions[i].call = c}

-----------------------------------------------------------------------------
(* The callbacks installed in SIPLib. *)

\* Bug: the entry in m_xSessionsTasks survives its session.
DeleteSessionsKeepTask(S) ==
  LET gone == S \cap DOMAIN sessions
  IN  /\ recorder' = Without(recorder, gone)
      /\ sessions' = Without(sessions, gone)
      /\ UNCHANGED tasks

\* Bug: the listener is not told of the end.
DeleteSessionsSilently(S) ==
  LET gone == S \cap DOMAIN sessions
  IN  /\ tasks'    = [t \in Tasks |->
                        IF \E i \in gone : sessions[i].task = t THEN 0 ELSE tasks[t]]
      /\ sessions' = Without(sessions, gone)
      /\ UNCHANGED recorder

\* DeleteSession for every id of S: the listener stops it, the task entry of
\* its user data goes (whatever id that entry holds), and both maps lose it.
DeleteSessions(S) ==
  LET gone == S \cap DOMAIN sessions
  IN  /\ recorder' = Without(recorder, gone)
      /\ tasks'    = [t \in Tasks |->
                        IF \E i \in gone : sessions[i].task = t THEN 0 ELSE tasks[t]]
      /\ sessions' = Without(sessions, gone)

\* AddNewCall: overwrites any entry of the same Call-ID, then OnNewCall.  The
\* stored CSIPCallParam holds no session id, and none is ever added to it.
CbOnCallStart(c) ==
  /\ calls' = Bind(calls, c, {})
  /\ heard' = [heard EXCEPT ![c] = @ + 1]
  /\ UNCHANGED <<tasks, sessions, nextId, recorder>>

\* DeleteCall: only for a known call; its own session ids are deleted first.
CbOnCallEnd(c) ==
  \/ /\ c \in DOMAIN calls
     /\ DeleteSessions(calls[c])
     /\ calls' = Without(calls, {c})
     /\ heard' = [heard EXCEPT ![c] = @ - 1]
     /\ UNCHANGED nextId
  \/ /\ c \notin DOMAIN calls
     /\ UNCHANGED <<calls, tasks, sessions, nextId, recorder, heard>>

\* AddSession under the next id; the task entry is overwritten.
CbOnNewSession(t, c, m) ==
  /\ sessions' = Bind(sessions, nextId, [task |-> t, call |-> c, dst |-> m])
  /\ tasks'    = [tasks EXCEPT ![t] = nextId]
  /\ recorder' = Bind(recorder, nextId, m)
  /\ nextId'   = nextId + 1
  /\ UNCHANGED <<calls, heard>>

CbOnEndSession(t) ==
  \/ /\ GetSessionID(t) # 0
     /\ DeleteSessions({GetSessionID(t)})
     /\ UNCHANGED <<calls, nextId, heard>>
  \/ /\ GetSessionID(t) = 0
     /\ UNCHANGED <<calls, tasks, sessions, nextId, recorder, heard>>

\* The listener gets the new parameters; m_xSessionsParams keeps the old ones.
CbOnUpdateSession(t, m) ==
  \/ /\ GetSessionID(t) \in DOMAIN recorder
     /\ recorder' = [recorder EXCEPT ![GetSessionID(t)] = m]
     /\ UNCHANGED <<calls, tasks, sessions, nextId, heard>>
  \/ /\ GetSessionID(t) \notin DOMAIN recorder
     /\ UNCHANGED <<calls, tasks, sessions, nextId, recorder, heard>>

-----------------------------------------------------------------------------
(* The manager under any order of session callbacks, on any tasks, for any  *)
(* calls.  Its one assumption about SIPLib, that a call in progress is not  *)
(* started again, is what SipSessions!CallEventsAlternate establishes.      *)

Next ==
  \/ \E c \in CallIds \ DOMAIN calls : CbOnCallStart(c)
  \/ \E c \in CallIds : CbOnCallEnd(c)
  \/ \E t \in Tasks, c \in CallIds, m \in Medias :
       nextId <= MaxId /\ CbOnNewSession(t, c, m)
  \/ \E t \in Tasks : CbOnEndSession(t)
  \/ \E t \in Tasks, m \in Medias : CbOnUpdateSession(t, m)

Spec == Init /\ [][Next]_managerVars

-----------------------------------------------------------------------------
(* Properties. *)

\* Every container holds what SIPManager.h declares for it.
TypeOK ==
  /\ DOMAIN calls \subseteq CallIds
  /\ \A c \in DOMAIN calls : calls[c] \subseteq Nat
  /\ tasks \in [Tasks -> Nat]
  /\ DOMAIN sessions \subseteq Nat \ {0}
  /\ \A i \in DOMAIN sessions : sessions[i] \in SessionRec
  /\ nextId \in Nat \ {0}
  /\ DOMAIN recorder \subseteq Nat
  /\ \A i \in DOMAIN recorder : recorder[i] \in Medias
  /\ heard \in [CallIds -> Int]

\* An rtp_task_t found in m_xSessionsTasks names a session that exists and
\* that was opened for this very task: an end or update callback for a task
\* never reaches the session of another one, even after the task structure
\* was reused and its old entry overwritten.
TaskIndex ==
  \A t \in Tasks :
    tasks[t] # 0 => /\ tasks[t] \in DOMAIN sessions
                    /\ sessions[tasks[t]].task = t

\* The recorder holds exactly the sessions the manager holds: none is left
\* recording after its end was handled, none is known that is not recorded.
RecorderInStep == DOMAIN recorder = DOMAIN sessions

\* Session ids are never reused: a session that appears takes the next id,
\* and the next id only grows (CTerminalManager and the recorder key their own
\* state by it, and may hear of an old id after its session ended).
IdsNeverReused ==
  [][/\ nextId' >= nextId
     /\ \A i \in DOMAIN sessions' \ DOMAIN sessions : nextId <= i /\ i < nextId']_managerVars

\* Interfaces.h:187: GetSessionsByCallID "Returns sessions IDs associated
\* with specified call ID".
SessionsByCallIDComplete ==
  \A c \in DOMAIN calls : GetSessionsByCallID(c) = SessionsOfCall(c)
=============================================================================
