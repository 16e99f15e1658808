-------------------------- MODULE SipManagerProofs --------------------------
(***************************************************************************)
(* Proofs of the properties of SipManager, for any sets of calls, tasks    *)
(* and endpoints and any number of sessions.                               *)
(***************************************************************************)
EXTENDS SipManager, TLAPS

\* The inductive invariant: TaskIndex and RecorderInStep need each other's
\* domains, and that the next id is above every id in use.
IdsBelowNext == \A i \in DOMAIN sessions : i < nextId

IInv == TypeOK /\ TaskIndex /\ RecorderInStep /\ IdsBelowNext

\* DeleteSessions, from which both end callbacks are built, keeps all of it,
\* whatever set of ids it is given.
LEMMA DeleteSessionsKeepsIInv ==
  ASSUME NEW S, IInv, DeleteSessions(S), nextId' = nextId,
         DOMAIN calls' \subseteq CallIds,
         \A c \in DOMAIN calls' : calls'[c] \subseteq Nat,
         heard' \in [CallIds -> Int]
  PROVE  IInv'
<1> USE DEF IInv
<1>1. TypeOK'
  BY DEF DeleteSessions, TypeOK, SessionRec, Without
<1>2. TaskIndex'
  <2> SUFFICES ASSUME NEW t \in Tasks, tasks'[t] # 0
               PROVE  tasks'[t] \in DOMAIN sessions' /\ sessions'[tasks'[t]].task = t
    BY DEF TaskIndex
  <2>1. /\ tasks'[t] = tasks[t]
        /\ \A i \in S \cap DOMAIN sessions : sessions[i].task # t
    BY DEF DeleteSessions, TypeOK
  <2>2. tasks[t] \in DOMAIN sessions /\ sessions[tasks[t]].task = t
    BY <2>1 DEF TaskIndex
  <2>3. tasks[t] \notin S
    BY <2>1, <2>2
  <2> QED BY <2>1, <2>2, <2>3 DEF DeleteSessions, Without
<1>3. RecorderInStep'
  BY DEF DeleteSessions, RecorderInStep, Without
<1>4. IdsBelowNext'
  BY DEF DeleteSessions, IdsBelowNext, Without
<1> QED BY <1>1, <1>2, <1>3, <1>4

LEMMA InitIInv == Init => IInv
  BY DEF Init, EmptyManager, IInv, TypeOK, TaskIndex, RecorderInStep, IdsBelowNext,
         SessionRec

\* Every callback keeps the inductive invariant.  CbOnNewSession is not
\* restricted to nextId <= MaxId here: the bound plays no part.
LEMMA StepIInv == IInv /\ [Next]_managerVars => IInv'
<1> SUFFICES ASSUME IInv, [Next]_managerVars PROVE IInv'
  OBVIOUS
<1>1. ASSUME NEW c \in CallIds, CbOnCallStart(c) PROVE IInv'
  BY <1>1 DEF CbOnCallStart, Bind, IInv, TypeOK, TaskIndex, RecorderInStep, IdsBelowNext,
              SessionRec
<1>2. ASSUME NEW c \in CallIds, CbOnCallEnd(c) PROVE IInv'
  <2>1. CASE c \in DOMAIN calls
    <3>1. /\ DeleteSessions(calls[c]) /\ nextId' = nextId
          /\ calls' = Without(calls, {c})
          /\ heard' = [heard EXCEPT ![c] = @ - 1]
      BY <1>2, <2>1 DEF CbOnCallEnd
    <3>2. /\ DOMAIN calls' \subseteq CallIds
          /\ \A d \in DOMAIN calls' : calls'[d] \subseteq Nat
      BY <3>1 DEF Without, IInv, TypeOK
    <3>3. heard' \in [CallIds -> Int]
      BY <3>1 DEF IInv, TypeOK
    <3> QED BY <3>1, <3>2, <3>3, DeleteSessionsKeepsIInv
  <2>2. CASE c \notin DOMAIN calls
    BY <1>2, <2>2 DEF CbOnCallEnd, IInv, TypeOK, TaskIndex, RecorderInStep, IdsBelowNext
  <2> QED BY <2>1, <2>2
<1>3. ASSUME NEW t \in Tasks, NEW c \in CallIds, NEW m \in Medias, CbOnNewSession(t, c, m)
      PROVE  IInv'
  <2> USE <1>3 DEF CbOnNewSession, Bind, IInv
  <2>1. nextId \notin DOMAIN sessions /\ nextId \in Nat \ {0}
    BY DEF IdsBelowNext, TypeOK
  <2>2. TypeOK'
    BY <2>1 DEF TypeOK, SessionRec
  <2>3. TaskIndex'
    BY <2>1 DEF TypeOK, TaskIndex
  <2>4. RecorderInStep'
    BY DEF RecorderInStep
  <2>5. IdsBelowNext'
    BY <2>1 DEF TypeOK, IdsBelowNext
  <2> QED BY <2>2, <2>3, <2>4, <2>5
<1>4. ASSUME NEW t \in Tasks, CbOnEndSession(t) PROVE IInv'
  <2>1. CASE GetSessionID(t) # 0
    <3>1. /\ DeleteSessions({GetSessionID(t)}) /\ nextId' = nextId
          /\ calls' = calls /\ heard' = heard
      BY <1>4, <2>1 DEF CbOnEndSession
    <3> QED BY <3>1, DeleteSessionsKeepsIInv DEF IInv, TypeOK
  <2>2. CASE GetSessionID(t) = 0
    BY <1>4, <2>2 DEF CbOnEndSession, IInv, TypeOK, TaskIndex, RecorderInStep, IdsBelowNext
  <2> QED BY <2>1, <2>2
<1>5. ASSUME NEW t \in Tasks, NEW m \in Medias, CbOnUpdateSession(t, m) PROVE IInv'
  BY <1>5 DEF CbOnUpdateSession, IInv, TypeOK, TaskIndex, RecorderInStep, IdsBelowNext
<1>6. CASE UNCHANGED managerVars
  BY <1>6 DEF managerVars, IInv, TypeOK, TaskIndex, RecorderInStep, IdsBelowNext
<1> QED BY <1>1, <1>2, <1>3, <1>4, <1>5, <1>6 DEF Next

LEMMA AlwaysIInv == Spec => []IInv
  BY InitIInv, StepIInv, PTL DEF Spec

-----------------------------------------------------------------------------
\* Type correctness: the maps of CSIPManager hold what SIPManager.h declares.
THEOREM TypeCorrect == Spec => []TypeOK
  BY AlwaysIInv, PTL DEF IInv

\* m_xSessionsTasks never leads a callback to a session of another task.
THEOREM TaskIndexCorrect == Spec => []TaskIndex
  BY AlwaysIInv, PTL DEF IInv

\* CRTPRecorder and CSIPManager always hold the same sessions.
THEOREM RecorderAlwaysInStep == Spec => []RecorderInStep
  BY AlwaysIInv, PTL DEF IInv

\* No step brings back the id of a session that has been stopped.
THEOREM IdsNeverComeBack == Spec => IdsNeverReused
<1> DEFINE Fresh == /\ nextId' >= nextId
                    /\ \A i \in DOMAIN sessions' \ DOMAIN sessions :
                         nextId <= i /\ i < nextId'
<1>1. ASSUME IInv, Next PROVE Fresh
  <2>1. nextId \in Nat
    BY <1>1 DEF IInv, TypeOK
  <2>2. ASSUME nextId' = nextId, DOMAIN sessions' \subseteq DOMAIN sessions PROVE Fresh
    BY <2>1, <2>2
  <2>3. ASSUME NEW c \in CallIds, CbOnCallStart(c) PROVE Fresh
    BY <2>2, <2>3 DEF CbOnCallStart
  <2>4. ASSUME NEW c \in CallIds, CbOnCallEnd(c) PROVE Fresh
    BY <2>2, <2>4 DEF CbOnCallEnd, DeleteSessions, Without
  <2>5. ASSUME NEW t \in Tasks, NEW c \in CallIds, NEW m \in Medias, CbOnNewSession(t, c, m)
        PROVE  Fresh
    BY <2>1, <2>5 DEF CbOnNewSession, Bind
  <2>6. ASSUME NEW t \in Tasks, CbOnEndSession(t) PROVE Fresh
    BY <2>2, <2>6 DEF CbOnEndSession, DeleteSessions, Without
  <2>7. ASSUME NEW t \in Tasks, NEW m \in Medias, CbOnUpdateSession(t, m) PROVE Fresh
    BY <2>2, <2>7 DEF CbOnUpdateSession
  <2> QED BY <1>1, <2>3, <2>4, <2>5, <2>6, <2>7 DEF Next
<1> HIDE DEF Fresh
<1>2. IInv /\ [Next]_managerVars => [Fresh]_managerVars
  BY <1>1
<1>3. Spec => [][Fresh]_managerVars
  BY <1>2, AlwaysIInv, PTL DEF Spec
<1> QED BY <1>3 DEF IdsNeverReused, Fresh
=============================================================================
