----------------------------- MODULE SipSessions -----------------------------
(***************************************************************************)
(* The active-session table of SIPLib (tbl_sip_tables.c,                   *)
(* tbl_sip_hash_tables.c, sip_worker_parse.c) and the two threads that     *)
(* work on it:                                                             *)
(*   "cap"  the capture thread, one sip_worker call per SIP message;       *)
(*   "rgl"  SipReglamentThread, which every ten seconds visits the slots   *)
(*          nobody uses, stops the calls nobody answered and frees the     *)
(*          slots of stopped calls.                                        *)
(* Each access to the table made under its mutex, each unlocked test or    *)
(* store of a slot, and each callback into CSIPManager is a step of its    *)
(* own, so the two threads interleave exactly where the code lets them.    *)
(*                                                                         *)
(* A slot is protected from being freed by its use count col_session       *)
(* (`refs`); the registry entries of the two parties are protected by      *)
(* theirs (`regRefs`).  The registry itself is the environment here: an    *)
(* entry may appear at any time and vanish when nobody refers to it.       *)
(***************************************************************************)
EXTENDS Integers, FiniteSets

CONSTANTS
  Slots,    \* entries of the active_session[] array
  CallIds,  \* SIP Call-IDs
  Users,    \* user names of the registry
  Medias,   \* RTP endpoints described by SDP bodies
  NoCall,   \* no Call-ID: the zeroed slot
  NoUser,   \* no registry entry found
  NoMedia,  \* an rtp_task_t whose port is 0
  NoSlot,   \* no slot in hand
  MaxMsgs   \* bound on the SIP messages that reach the capture thread

ASSUME SessionsAssumption ==
  /\ NoCall \notin CallIds
  /\ NoUser \notin Users
  /\ NoMedia \notin Medias
  /\ NoSlot \notin Slots
  /\ IsFiniteSet(Slots)
  /\ MaxMsgs \in Nat

\* The two sides of a call: 0 sent the first message, 1 is the other one.
\* Which side a message comes from is told by its source MAC address.
Sides   == {0, 1}
Tasks   == Slots \X Sides
Threads == {"cap", "rgl"}

\* What the table distinguishes of a message: OTHER is a REFER, or any
\* response that is not 2XX.  Requests with other methods, CANCEL among
\* them, never reach the table (sip_check_active_session).
Kinds == {"INVITE", "ACK", "BYE", "2XX", "OTHER"}

Messages == [kind : Kinds, call : CallIds, side : Sides, sdp : Medias \cup {NoMedia}]

VARIABLES
  slot,      \* active_session[]
  registry,  \* user names that have a registry entry
  regRefs,   \* col_session of those entries, as far as sessions hold them
  pc,        \* where each thread is
  at,        \* the slot each thread works on
  left,      \* messages still to come
  calls, tasks, sessions, nextId, recorder, heard  \* CSIPManager

Manager == INSTANCE SipManager WITH MaxId <- MaxMsgs

managerVars == <<calls, tasks, sessions, nextId, recorder, heard>>
tableVars == <<slot, registry, regRefs>>
vars == <<slot, registry, regRefs, pc, at, left, managerVars>>

\* session_status_t; NONE is ST_NOT_DEFINED, the status of a zeroed slot.
Status == {"NONE", "START", "BELL", "STOP"}

SlotRec ==
  [ status  : Status,
    call    : CallIds \cup {NoCall},
    refs    : Nat,                              \* col_session
    started : BOOLEAN,                          \* is_send_start
    stopped : BOOLEAN,                          \* is_send_stop
    okLast  : BOOLEAN,                          \* command = SIP_MESSAGE_2XX
    recv    : Sides,                            \* pmap_param_recv
    rtp     : [Sides -> Medias \cup {NoMedia}], \* rtp_task
    old     : [Sides -> Medias \cup {NoMedia}], \* rtp_task_old
    reg     : [Sides -> Users \cup {NoUser}],   \* puser_registry0, 1
    stale   : BOOLEAN ]                         \* silent for MAX_TIME_CONNECT

NoTasks == [d \in Sides |-> NoMedia]
NoLinks == [d \in Sides |-> NoUser]

\* active_session_free: the slot goes back to the pool, zeroed.
FreeSlot ==
  [ status |-> "NONE", call |-> NoCall, refs |-> 0, started |-> FALSE,
    stopped |-> FALSE, okLast |-> FALSE, recv |-> 0, rtp |-> NoTasks,
    old |-> NoTasks, reg |-> NoLinks, stale |-> FALSE ]

InUse(s) == slot[s].status # "NONE"

Init ==
  /\ slot     = [s \in Slots |-> FreeSlot]
  /\ registry = {}
  /\ regRefs  = [u \in Users |-> 0]
  /\ pc       = [t \in Threads |-> "idle"]
  /\ at       = [t \in Threads |-> NoSlot]
  /\ left     = MaxMsgs
  /\ Manager!Init

\* Thread t, working on slot s, moves from one place in its code to another.
Goto(t, s, from, to) ==
  /\ pc[t] = from
  /\ at[t] = s
  /\ pc' = [pc EXCEPT ![t] = to]
  /\ UNCHANGED <<at, left>>

-----------------------------------------------------------------------------
(* The capture thread. *)

\* The switch of hs_active_session: what a message does to the call state.
StatusAfter(e, k) ==
  CASE k = "INVITE"                      -> "START"
    [] k = "ACK" /\ e.status = "START"   -> IF e.okLast THEN "BELL" ELSE "STOP"
    [] k = "BYE"                         -> "STOP"
    [] OTHER                             -> e.status

\* media2task: an SDP body replaces the RTP endpoint of the side it is from.
Describe(r, side, sdp) ==
  IF sdp = NoMedia THEN r ELSE [r EXCEPT ![side] = sdp]

\* Bug: the slot is handed to the caller without being counted.
NewSlotUncounted(m) ==
  [ FreeSlot EXCEPT !.status = "START", !.call = m.call,
                    !.rtp = Describe(NoTasks, 0, m.sdp) ]

\* hi_active_session: the slot of a call seen for the first time.
NewSlot(m) ==
  [ FreeSlot EXCEPT !.status = "START", !.call = m.call, !.refs = 1,
                    !.rtp = Describe(NoTasks, 0, m.sdp) ]

\* hs_active_session: the slot of a known call after one more message.
Touched(e, m) ==
  [ e EXCEPT !.status = StatusAfter(e, m.kind),
             !.refs   = @ + 1,
             !.okLast = (m.kind = "2XX"),
             !.recv   = m.side,
             !.old    = IF m.sdp = NoMedia THEN @ ELSE [@ EXCEPT ![m.side] = e.rtp[m.side]],
             !.rtp    = Describe(@, m.side, m.sdp),
             !.stale  = FALSE ]

TakeInHand(s, m) ==
  /\ pc["cap"] = "idle"
  /\ left > 0
  /\ left' = left - 1
  /\ at' = [at EXCEPT !["cap"] = s]
  /\ pc' = [pc EXCEPT !["cap"] = IF m.kind = "INVITE" THEN "link" ELSE "media"]
  /\ UNCHANGED <<registry, regRefs, managerVars>>

\* The message belongs to a call of the table.
Search(s, m) ==
  /\ InUse(s) /\ slot[s].call = m.call
  /\ slot' = [slot EXCEPT ![s] = Touched(@, m)]
  /\ TakeInHand(s, m)

\* Bug: every INVITE takes a new slot.
InsertAlways(s, m) ==
  /\ m.kind = "INVITE" /\ m.side = 0
  /\ ~ InUse(s)
  /\ slot' = [slot EXCEPT ![s] = NewSlot(m)]
  /\ TakeInHand(s, m)

\* An INVITE of an unknown call takes a slot of the pool; with none left, or
\* for any other message, nothing at all happens.  The registry cannot be the
\* reason to insert: only this thread inserts, the other one only frees.
Insert(s, m) ==
  /\ m.kind = "INVITE" /\ m.side = 0
  /\ \A r \in Slots : slot[r].call # m.call
  /\ ~ InUse(s)
  /\ slot' = [slot EXCEPT ![s] = NewSlot(m)]
  /\ TakeInHand(s, m)

\* Bug: a party is linked whether or not the registry knows it.
FoundAnyway(from, to) == [d \in Sides |-> IF d = 0 THEN from ELSE to]

\* The entries of the two parties, as sip_registry_search finds them.
Found(from, to) ==
  [d \in Sides |-> LET u == IF d = 0 THEN from ELSE to
                   IN  IF u \in registry THEN u ELSE NoUser]

\* Bug: a repeated INVITE overwrites the links without giving them back.
LinkAgain(s, from, to) ==
  LET links == Found(from, to)
  IN  /\ Goto("cap", s, "link", "start")
      /\ slot' = [slot EXCEPT ![s].reg = links]
      /\ regRefs' = [u \in Users |->
                       regRefs[u] + Cardinality({d \in Sides : links[d] = u})]
      /\ UNCHANGED <<registry, managerVars>>

\* sip_check_active_session: the parties are looked up in the registry unless
\* one is linked already; the search takes a reference on each entry found.
Link(s, from, to) ==
  LET links == Found(from, to)
  IN  /\ Goto("cap", s, "link", "start")
      /\ \/ /\ slot[s].reg = NoLinks
            /\ slot' = [slot EXCEPT ![s].reg = links]
            /\ regRefs' = [u \in Users |->
                             regRefs[u] + Cardinality({d \in Sides : links[d] = u})]
         \/ /\ slot[s].reg # NoLinks
            /\ UNCHANGED <<slot, regRefs>>
      /\ UNCHANGED <<registry, managerVars>>

\* Bug: every INVITE of the call announces it.
AnnounceEveryInvite(s) ==
  /\ Goto("cap", s, "start", "media")
  /\ slot' = [slot EXCEPT ![s].started = TRUE]
  /\ Manager!CbOnCallStart(slot[s].call)
  /\ UNCHANGED <<registry, regRefs>>

\* The call is announced once per slot.
AnnounceCall(s) ==
  /\ Goto("cap", s, "start", "media")
  /\ \/ /\ ~ slot[s].started
        /\ slot' = [slot EXCEPT ![s].started = TRUE]
        /\ Manager!CbOnCallStart(slot[s].call)
     \/ /\ slot[s].started
        /\ UNCHANGED <<slot, managerVars>>
  /\ UNCHANGED <<registry, regRefs>>

\* Bug: only the first endpoint of a side is reported.
AnnounceFirstMedia(s) ==
  LET d == slot[s].recv
      m == slot[s].rtp[d]
  IN  /\ Goto("cap", s, "media", "check")
      /\ slot' = [slot EXCEPT ![s].old[d] = m]
      /\ IF m # slot[s].old[d] /\ slot[s].old[d] = NoMedia
           THEN Manager!CbOnNewSession(<<s, d>>, slot[s].call, m)
           ELSE UNCHANGED managerVars
      /\ UNCHANGED <<registry, regRefs>>

\* sip_worker: a changed endpoint of the sending side is a new session or an
\* update of the one it has, and becomes the old one.
AnnounceMedia(s) ==
  LET d == slot[s].recv
      m == slot[s].rtp[d]
  IN  /\ Goto("cap", s, "media", "check")
      /\ \/ /\ m # slot[s].old[d]
            /\ slot' = [slot EXCEPT ![s].old[d] = m]
            /\ IF slot[s].old[d] = NoMedia
                 THEN Manager!CbOnNewSession(<<s, d>>, slot[s].call, m)
                 ELSE Manager!CbOnUpdateSession(<<s, d>>, m)
         \/ /\ m = slot[s].old[d]
            /\ UNCHANGED <<slot, managerVars>>
      /\ UNCHANGED <<registry, regRefs>>

\* sip_active_session_free: is the end of this call still to be announced?
CheckStopped(s) ==
  /\ Goto("cap", s, "check",
          IF ~ slot[s].stopped /\ slot[s].status = "STOP" THEN "mark" ELSE "finish")
  /\ UNCHANGED <<tableVars, managerVars>>

\* Bug: the use count is not given back.
ReleaseUncounted(s) ==
  /\ pc["cap"] = "finish" /\ at["cap"] = s
  /\ pc'   = [pc EXCEPT !["cap"] = "idle"]
  /\ at'   = [at EXCEPT !["cap"] = NoSlot]
  /\ UNCHANGED <<tableVars, left, managerVars>>

\* ... and its last step, under the mutex of the table.
Release(s) ==
  /\ pc["cap"] = "finish" /\ at["cap"] = s
  /\ pc'   = [pc EXCEPT !["cap"] = "idle"]
  /\ at'   = [at EXCEPT !["cap"] = NoSlot]
  /\ slot' = [slot EXCEPT ![s].refs = @ - 1]
  /\ UNCHANGED <<registry, regRefs, left, managerVars>>

-----------------------------------------------------------------------------
(* The end of a call, announced by either thread: is_send_stop is set with  *)
(* no lock held, then both sessions and the call are reported.              *)

MarkStopped(t, s) ==
  /\ Goto(t, s, "mark", "end0")
  /\ slot' = [slot EXCEPT ![s].stopped = TRUE]
  /\ UNCHANGED <<registry, regRefs, managerVars>>

AnnounceEndOfSession(t, s, d) ==
  /\ Goto(t, s, IF d = 0 THEN "end0" ELSE "end1", IF d = 0 THEN "end1" ELSE "endCall")
  /\ Manager!CbOnEndSession(<<s, d>>)
  /\ UNCHANGED tableVars

AnnounceEndOfCall(t, s) ==
  /\ Goto(t, s, "endCall", "finish")
  /\ Manager!CbOnCallEnd(slot[s].call)
  /\ UNCHANGED tableVars

-----------------------------------------------------------------------------
(* SipReglamentThread: active_session_reglament.  It visits the slots in     *)
(* array order; as no visit depends on another, any order is allowed here.   *)

Visit(s) ==
  /\ pc["rgl"] = "idle"
  /\ InUse(s) /\ slot[s].refs = 0
  /\ pc' = [pc EXCEPT !["rgl"] = "look"]
  /\ at' = [at EXCEPT !["rgl"] = s]
  /\ UNCHANGED <<tableVars, left, managerVars>>

\* The status is read with no lock held, after the use count.
Look(s) ==
  /\ \/ slot[s].status = "STOP" /\ Goto("rgl", s, "look", "check")
     \/ slot[s].status = "START" /\ slot[s].stale /\ Goto("rgl", s, "look", "expire")
  /\ UNCHANGED <<tableVars, managerVars>>

\* A connected call, or one not silent for long enough, is left alone.
Pass(s) ==
  /\ pc["rgl"] = "look" /\ at["rgl"] = s
  /\ slot[s].status = "BELL" \/ (slot[s].status = "START" /\ ~ slot[s].stale)
  /\ pc' = [pc EXCEPT !["rgl"] = "idle"]
  /\ at' = [at EXCEPT !["rgl"] = NoSlot]
  /\ UNCHANGED <<tableVars, left, managerVars>>

Expire(s) ==
  /\ Goto("rgl", s, "expire", "check")
  /\ slot' = [slot EXCEPT ![s].status = "STOP"]
  /\ UNCHANGED <<registry, regRefs, managerVars>>

\* Bug: the slot is freed without announcing the end.
CheckDeleteSilently(s) ==
  /\ Goto("rgl", s, "check", "finish")
  /\ UNCHANGED <<tableVars, managerVars>>

\* sip_active_session_delete: has the end been announced already?
CheckDelete(s) ==
  /\ Goto("rgl", s, "check", IF slot[s].stopped THEN "finish" ELSE "mark")
  /\ UNCHANGED <<tableVars, managerVars>>

\* Bug: the slot is freed whoever uses it.
DeleteInUse(s) ==
  /\ pc["rgl"] = "finish" /\ at["rgl"] = s
  /\ pc' = [pc EXCEPT !["rgl"] = "idle"]
  /\ at' = [at EXCEPT !["rgl"] = NoSlot]
  /\ slot' = [slot EXCEPT ![s] = FreeSlot]
  /\ regRefs' = [u \in Users |->
                   regRefs[u] - Cardinality({d \in Sides : slot[s].reg[d] = u})]
  /\ UNCHANGED <<registry, left, managerVars>>

\* hd_active_session, under the mutex: the call is stopped for good, and its
\* slot freed with the references it holds unless the capture thread is in it.
Delete(s) ==
  /\ pc["rgl"] = "finish" /\ at["rgl"] = s
  /\ pc' = [pc EXCEPT !["rgl"] = "idle"]
  /\ at' = [at EXCEPT !["rgl"] = NoSlot]
  /\ \/ /\ slot[s].refs > 0
        /\ slot' = [slot EXCEPT ![s].status = "STOP"]
        /\ UNCHANGED regRefs
     \/ /\ slot[s].refs <= 0
        /\ slot' = [slot EXCEPT ![s] = FreeSlot]
        /\ regRefs' = [u \in Users |->
                         regRefs[u] - Cardinality({d \in Sides : slot[s].reg[d] = u})]
  /\ UNCHANGED <<registry, left, managerVars>>

-----------------------------------------------------------------------------
(* The environment: a call falls silent, registry entries come and go. *)

FallSilent(s) ==
  /\ slot[s].status = "START" /\ ~ slot[s].stale
  /\ slot' = [slot EXCEPT ![s].stale = TRUE]
  /\ UNCHANGED <<registry, regRefs, pc, at, left, managerVars>>

Enter(u) ==
  /\ u \notin registry
  /\ registry' = registry \cup {u}
  /\ UNCHANGED <<slot, regRefs, pc, at, left, managerVars>>

\* hd_registry refuses to delete an entry that is referred to.
Leave(u) ==
  /\ u \in registry /\ regRefs[u] = 0
  /\ registry' = registry \ {u}
  /\ UNCHANGED <<slot, regRefs, pc, at, left, managerVars>>

-----------------------------------------------------------------------------
Receive(s) == \E m \in Messages : Search(s, m) \/ Insert(s, m)

Work(s) ==
  \/ \E from, to \in Users \cup {NoUser} : Link(s, from, to)
  \/ AnnounceCall(s)
  \/ AnnounceMedia(s)
  \/ CheckStopped(s)
  \/ Release(s)

End(t, s) ==
  \/ MarkStopped(t, s)
  \/ \E d \in Sides : AnnounceEndOfSession(t, s, d)
  \/ AnnounceEndOfCall(t, s)

Reglament(s) == Look(s) \/ Pass(s) \/ Expire(s) \/ CheckDelete(s) \/ Delete(s)

Environment ==
  \/ \E s \in Slots : FallSilent(s)
  \/ \E u \in Users : Enter(u) \/ Leave(u)

Next ==
  \/ \E s \in Slots : Receive(s) \/ Work(s) \/ Visit(s) \/ Reglament(s)
  \/ \E s \in Slots, t \in Threads : End(t, s)
  \/ Environment

Spec == Init /\ [][Next]_vars

\* Both threads keep running, the loop of the reglament thread comes round to
\* every slot again and again, and the clock goes on.  Nothing makes a peer
\* send a message or a phone register.
Fairness ==
  \A s \in Slots :
    /\ WF_vars(Work(s) \/ End("cap", s))
    /\ WF_vars(Reglament(s) \/ End("rgl", s))
    /\ SF_vars(Visit(s))
    /\ WF_vars(FallSilent(s))

FairSpec == Spec /\ Fairness

-----------------------------------------------------------------------------
(* Safety. *)

Places == {"idle", "link", "start", "media", "check", "mark", "end0", "end1",
           "endCall", "finish", "look", "expire"}

TypeOK ==
  /\ slot \in [Slots -> SlotRec]
  /\ registry \subseteq Users
  /\ regRefs \in [Users -> Int]
  /\ pc \in [Threads -> Places]
  /\ at \in [Threads -> Slots \cup {NoSlot}]
  /\ left \in 0 .. MaxMsgs
  /\ Manager!TypeOK

\* No use after free: the slot a thread works on stays allocated, and to the
\* same call, until the thread is done with it.  For the capture thread that
\* is what col_session is for; the reglament thread relies on being the only
\* one that frees.
InHandInUse == \A t \in Threads : pc[t] # "idle" => at[t] \in Slots /\ InUse(at[t])

\* col_session counts exactly the capture thread's hold on the slot: it never
\* goes negative, and it is 0 again once the message has been handled, so a
\* slot cannot become impossible to free.
RefsExact ==
  \A s \in Slots : slot[s].refs = IF at["cap"] = s THEN 1 ELSE 0

\* Both: a slot is protected as long as a thread works on it, and no longer.
HeldSlotsKept == InHandInUse /\ RefsExact

\* The registry entries a call links to are still there, and their use count
\* is the number of links: the pointers puser_registry0/1 never dangle and no
\* phone is kept in the registry by calls that are gone.
LinksCounted ==
  \A u \in Users :
    /\ regRefs[u] = Cardinality({l \in Slots \X Sides : slot[l[1]].reg[l[2]] = u})
    /\ regRefs[u] > 0 => u \in registry

\* One slot per Call-ID, although search and insert lock the table separately.
OneSlotPerCall ==
  \A r, s \in Slots : InUse(r) /\ slot[r].call = slot[s].call => r = s

\* The listener hears OnNewCall and OnEndCall of a call strictly in turn, even
\* when both threads find the same call stopped and both report its end.
CallEventsAlternate ==
  \A c \in CallIds : heard[c] = IF c \in DOMAIN calls THEN 1 ELSE 0

\* A call the manager still holds has a slot, so its end can still be
\* reported: no slot is freed before the end of its call was announced.
NoOrphanCall == DOMAIN calls \subseteq {slot[s].call : s \in Slots}

\* While no message of the call is being handled, the recorder listens where
\* the last SDP body of that side said, whatever number of updates came.
RecorderFollowsMedia ==
  \A s \in Slots, d \in Sides :
    at["cap"] # s /\ slot[s].rtp[d] # NoMedia /\ tasks[<<s, d>>] # 0
      => recorder[tasks[<<s, d>>]] = slot[s].rtp[d]

\* The end of a call is final: once either thread has set is_send_stop, the
\* slot never announces its call as new again, whatever messages follow.
EndIsFinal ==
  [][\A s \in Slots :
       slot[s].stopped /\ slot'[s].call = slot[s].call /\ slot[s].call # NoCall
         => heard'[slot[s].call] <= heard[slot[s].call]]_vars

\* The table uses CSIPManager only as SipManager allows: no call in progress
\* is started again, and every session is opened by a message.  What
\* SipManager guarantees (TaskIndex, RecorderInStep, IdsNeverReused) therefore
\* holds whatever the two threads do.
ImplementsManager == Manager!Spec

\* The links are used as PhoneBook allows: an entry is linked only while it is
\* there, and is there until its last link is gone.  What lets entries come and
\* go (Enter, Leave) is what SipRegistry is shown to do.
Book == INSTANCE PhoneBook WITH present <- registry, uses <- regRefs

ImplementsBook == Book!Spec

(* Liveness. *)

\* Every call that is being set up or is over ends up connected or out of the
\* table: an unanswered call is expired, a stopped one freed, and a refused
\* deletion is made good in a later round.
SettledInTheEnd ==
  \A s \in Slots :
    slot[s].status \in {"START", "STOP"} ~> slot[s].status \in {"BELL", "NONE"}

(* What the interfaces say, and the code does not do. *)

\* Interfaces.h:165: OnNewCall is called "when new SIP call detected".  Every
\* connected call whose INVITE has been handled is known to the listener.
ConnectedCallHeard ==
  \A s \in Slots :
    slot[s].status = "BELL" /\ at["cap"] # s => slot[s].call \in DOMAIN calls

\* Interfaces.h:158: OnStopSession is called "when session deleted".  A
\* session in the manager belongs to a call that is still in the table.
NoSessionOutlivesSlot ==
  \A i \in DOMAIN sessions : slot[sessions[i].task[1]].call = sessions[i].call
=============================================================================
